----------------------------- MODULE OverheadRun -----------------------------
(***************************************************************************)
(* bench/overhead/run.sh: the script that measures every tier, and the     *)
(* processes ./gate it starts, waits for and stops.                        *)
(*                                                                         *)
(* A tier is measured right only if, all through its workloads, the hook   *)
(* of its own gate is attached and no other.  The script knows the gate    *)
(* by its log (a line READY) and by its pid, the gate knows the script by  *)
(* SIGINT.                                                                 *)
(***************************************************************************)
EXTENDS OverheadPlan, Naturals, FiniteSets

CONSTANTS
  Workload,
  MaxTries,   \* polls for READY (100 in the source)
  FreshOut    \* TRUE: --out names a new directory

ASSUME TriesAssumption == MaxTries \in Nat
ASSUME FreshAssumption == FreshOut \in BOOLEAN

VARIABLES
  script,     \* where run.sh is
  pass,       \* p, and PASSES + 1 in the second stage
  todo,       \* rounds of this pass that are left
  round,      \* the round at hand
  GATE_PID,   \* the round whose gate it holds, or NoGate
  tries,
  log,        \* log[r]: the log file of round r
  life, asked, \* of the gate of round r (see GateLife)
  out,        \* out[r]: its file of statistics
  interrupted \* Ctrl-C was typed

loop == <<pass, todo, round>>
gates == <<log, life, asked, out>>
vars == <<script, loop, GATE_PID, tries, gates, interrupted>>

-----------------------------------------------------------------------------
\* A round has one log and at most one gate.
MacroRounds(p) == {[stage |-> "macro", no |-> p, tier |-> t] : t \in Tier}
MicroRounds == {[stage |-> "micro", no |-> w, tier |-> t] : w \in Workload, t \in Tier \ {"a"}}
Round == (UNION {MacroRounds(p) : p \in 1..PASSES}) \cup MicroRounds
NoGate == [stage |-> "none", no |-> 0, tier |-> "a"]

Ended == {"done", "exit"}

TypeOK ==
  /\ script \in {"next", "start", "forked", "poll", "work", "stop", "wait", "report", "trap",
                 "trap_wait"} \cup Ended
  /\ pass \in 1..(PASSES + 1) /\ todo \subseteq Round
  /\ round \in Round \cup {NoGate} /\ GATE_PID \in Round \cup {NoGate}
  /\ tries \in 0..MaxTries
  /\ log \in [Round -> {"absent", "empty", "READY"}]
  /\ life \in [Round -> {"none", "forked", "loading", "ready", "gone"}]
  /\ asked \in [Round -> BOOLEAN]
  /\ out \in [Round -> {"none", "part", "written", "refused"}]
  /\ interrupted \in BOOLEAN

Init ==
  /\ script = "next"
  /\ pass = 1 /\ todo = MacroRounds(1)
  /\ round = NoGate /\ GATE_PID = NoGate /\ tries = 0
  /\ log \in [Round -> IF FreshOut THEN {"absent"} ELSE {"READY"}]
  /\ life = [r \in Round |-> "none"]
  /\ asked = [r \in Round |-> FALSE] /\ out = [r \in Round |-> "none"]
  /\ interrupted = FALSE

-----------------------------------------------------------------------------
(* The two loops *)

\* The tiers of a pass come in an order shuf chose; the order of the second
\* stage is fixed in the source and any order here.
Pick ==
  /\ script = "next"
  /\ \E r \in todo :
       /\ round' = r
       /\ todo' = todo \ {r}
       /\ script' = IF r.tier = "a" THEN "work" ELSE "start"
  /\ UNCHANGED <<pass, GATE_PID, tries, gates, interrupted>>

NextPass ==
  /\ script = "next" /\ todo = {}
  /\ IF pass <= PASSES
       THEN /\ pass' = pass + 1
            /\ todo' = IF pass < PASSES THEN MacroRounds(pass + 1) ELSE MicroRounds
            /\ UNCHANGED script
       ELSE script' = "report" /\ UNCHANGED <<pass, todo>>
  /\ UNCHANGED <<round, GATE_PID, tries, gates, interrupted>>

WorkEnds ==
  /\ script = "work"
  /\ script' = "stop"
  /\ UNCHANGED <<loop, GATE_PID, tries, gates, interrupted>>

\* hyperfine fails when a workload does, and set -e ends the script; the second
\* stage ignores it (|| true).
WorkFails ==
  /\ script = "work" /\ round.stage = "macro"
  /\ script' = "trap"
  /\ UNCHANGED <<loop, GATE_PID, tries, gates, interrupted>>

Report ==
  /\ script = "report"
  /\ script' = "done"
  /\ UNCHANGED <<loop, GATE_PID, tries, gates, interrupted>>

-----------------------------------------------------------------------------
(* gate_start *)

GateStart ==
  /\ script = "start"
  /\ script' = "forked"
  /\ life' = [life EXCEPT ![round] = "forked"]
  /\ UNCHANGED <<loop, GATE_PID, tries, log, asked, out, interrupted>>

\* GATE_PID=$! is a command of its own.
NotePid ==
  /\ script = "forked"
  /\ script' = "poll"
  /\ GATE_PID' = round
  /\ tries' = 0
  /\ UNCHANGED <<loop, gates, interrupted>>

\* Mutant: the process is enough.
PollPid ==
  /\ script = "poll"
  /\ script' = IF life[GATE_PID] # "gone" THEN "work" ELSE "trap"
  /\ UNCHANGED <<loop, GATE_PID, tries, gates, interrupted>>

\* Mutant: a tier whose gate did not start is skipped.
PollSkip ==
  /\ script = "poll"
  /\ \/ log[round] = "READY" /\ script' = "work" /\ UNCHANGED tries
     \/ log[round] # "READY" /\ life[GATE_PID] = "gone" /\ script' = "next" /\ UNCHANGED tries
     \/ /\ log[round] # "READY" /\ life[GATE_PID] # "gone"
        /\ IF tries < MaxTries THEN tries' = tries + 1 /\ UNCHANGED script
                               ELSE script' = "trap" /\ UNCHANGED tries
  /\ UNCHANGED <<loop, GATE_PID, gates, interrupted>>

\* One turn of the loop: READY in the log, or the gate is dead, or sleep, and
\* die after the last turn.
Poll ==
  /\ script = "poll"
  /\ \/ log[round] = "READY" /\ script' = "work" /\ UNCHANGED tries
     \/ log[round] # "READY" /\ life[GATE_PID] = "gone" /\ script' = "trap" /\ UNCHANGED tries
     \/ /\ log[round] # "READY" /\ life[GATE_PID] # "gone"
        /\ IF tries < MaxTries THEN tries' = tries + 1 /\ UNCHANGED script
                               ELSE script' = "trap" /\ UNCHANGED tries
  /\ UNCHANGED <<loop, GATE_PID, gates, interrupted>>

-----------------------------------------------------------------------------
(* gate_stop, and the trap on EXIT that is gate_stop too *)

\* A SIGINT counts only for a gate that has set its handler: bash starts a job
\* in the background with SIGINT ignored.
SigInt(rs) == [r \in Round |-> asked[r] \/ (r \in rs /\ life[r] \in {"loading", "ready"})]

After(stop) == IF stop \in {"stop", "wait"} THEN "next" ELSE "exit"

\* Mutant: no trap is set.
StopUntrapped ==
  /\ script \in {"stop", "trap"}
  /\ IF GATE_PID = NoGate \/ script = "trap"
       THEN script' = After(script) /\ UNCHANGED asked
       ELSE asked' = SigInt({GATE_PID}) /\ script' = "wait"
  /\ UNCHANGED <<loop, GATE_PID, tries, log, life, out, interrupted>>

Stop ==
  /\ script \in {"stop", "trap"}
  /\ IF GATE_PID = NoGate
       THEN script' = After(script) /\ UNCHANGED asked
       ELSE /\ asked' = SigInt({GATE_PID})
            /\ script' = IF script = "stop" THEN "wait" ELSE "trap_wait"
  /\ UNCHANGED <<loop, GATE_PID, tries, log, life, out, interrupted>>

\* For as long as it takes, and whatever the status of the process is.
Wait ==
  /\ script \in {"wait", "trap_wait"}
  /\ life[GATE_PID] = "gone"
  /\ script' = After(script)
  /\ GATE_PID' = NoGate
  /\ UNCHANGED <<loop, tries, gates, interrupted>>

\* Ctrl-C goes to the script and to its gate; the script runs the trap.
Interrupt ==
  /\ ~interrupted
  /\ script \notin Ended \cup {"trap", "trap_wait"}
  /\ interrupted' = TRUE
  /\ script' = "trap"
  /\ asked' = SigInt(Round)
  /\ UNCHANGED <<loop, GATE_PID, tries, log, life, out>>

-----------------------------------------------------------------------------
(* A gate *)

\* The child, and not the script, opens and so empties the log.
Redirect(r) ==
  /\ life[r] = "forked" /\ log[r] # "empty"
  /\ log' = [log EXCEPT ![r] = "empty"]
  /\ UNCHANGED <<script, loop, GATE_PID, tries, life, asked, out, interrupted>>

\* It runs gate, which sets its handlers.
Listen(r) ==
  /\ life[r] = "forked" /\ log[r] = "empty"
  /\ life' = [life EXCEPT ![r] = "loading"]
  /\ UNCHANGED <<script, loop, GATE_PID, tries, log, asked, out, interrupted>>

\* The programs are attached and READY is flushed.
Ready(r) ==
  /\ life[r] = "loading"
  /\ life' = [life EXCEPT ![r] = "ready"]
  /\ log' = [log EXCEPT ![r] = "READY"]
  /\ UNCHANGED <<script, loop, GATE_PID, tries, asked, out, interrupted>>

Fail(r) ==
  /\ life[r] \in {"forked", "loading"}
  /\ life' = [life EXCEPT ![r] = "gone"]
  /\ UNCHANGED <<script, loop, GATE_PID, tries, log, asked, out, interrupted>>

\* It has come out of its pause and opens the file of its statistics, which
\* empties it.  If that fails it ends without a report, with a status nobody looks
\* at.
Dump(r) ==
  /\ life[r] = "ready" /\ asked[r] /\ out[r] = "none"
  /\ \/ out' = [out EXCEPT ![r] = "part"] /\ UNCHANGED life
     \/ out' = [out EXCEPT ![r] = "refused"] /\ life' = [life EXCEPT ![r] = "gone"]
  /\ UNCHANGED <<script, loop, GATE_PID, tries, log, asked, interrupted>>

\* The statistics are written and the file is closed.
Close(r) ==
  /\ life[r] = "ready" /\ out[r] = "part"
  /\ out' = [out EXCEPT ![r] = "written"]
  /\ life' = [life EXCEPT ![r] = "gone"]
  /\ UNCHANGED <<script, loop, GATE_PID, tries, log, asked, interrupted>>

GateNext ==
  \E r \in Round :
    Redirect(r) \/ Listen(r) \/ Ready(r) \/ Fail(r) \/ Dump(r) \/ Close(r)

Script == Pick \/ NextPass \/ WorkEnds \/ Report \/ GateStart \/ NotePid \/ Poll \/ Stop \/ Wait

Next == Script \/ GateNext \/ WorkFails \/ Interrupt

\* Nothing is assumed of when the script or a gate runs: all that is stated is
\* safety.
Spec == Init /\ [][Next]_vars

-----------------------------------------------------------------------------
(* Properties *)

Attached == {r \in Round : life[r] = "ready"}

\* "If one does not wait, a stretch without the hook gets into the first
\* workload" (run.sh:93): while the workloads of a tier run, its gate is attached
\* and no gate of another round is, none at all for tier A.
WorkUnderRightGate ==
  script = "work" => Attached = (IF round.tier = "a" THEN {} ELSE {round})

\* The report is made of files that other processes write.  When the script comes
\* to it, every gate that it started has answered: it closed its file of
\* statistics, or could not open it (which run.sh:88 does not see, and the report
\* is made without).  No file is read that is half written, and no gate was gone
\* before it was asked.
AllReported ==
  script \in {"report", "done"} =>
    \A r \in Round : r.tier # "a" => out[r] \in {"written", "refused"}

\* run.sh:88 waits without a limit, so a SIGINT that is not heard stops the
\* measurement.  After its workloads a gate always hears it.  The trap can come too
\* early for a gate that has not set its handler yet, but only when the polls
\* were used up or at a Ctrl-C: then the script waits for a gate nobody asked.
StopIsHeard ==
  script \in {"wait", "trap_wait"} =>
    \/ asked[GATE_PID] \/ life[GATE_PID] = "gone"
    \/ script = "trap_wait" /\ (tries = MaxTries \/ interrupted)

\* However the script ends, by its last line or by an error, it leaves no gate
\* behind that would go on hooking every file_open.  Ctrl-C can leave one: that
\* of the round at hand, when it comes before its pid is noted.
NoGateLeft ==
  script \in Ended =>
    \A r \in Round : life[r] \in {"none", "gone"} \/ (interrupted /\ r = round)

\* What a gate is in this module is what GateLife says, which is what Gate
\* implements: its file is open for one step longer.
GateOf(r) ==
  INSTANCE GateLife WITH life <- life[r], asked <- asked[r], stats <- out[r] = "written"
=============================================================================
