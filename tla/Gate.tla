--------------------------------- MODULE Gate ---------------------------------
(***************************************************************************)
(* One run of bench/overhead/gate: the loader gate.c, the program          *)
(* oh_file_open of gate.bpf.c (the PROBE=1 build) on every CPU, and the    *)
(* statistics the loader reads out of the maps while the hook still runs.  *)
(*                                                                         *)
(* The loader puts a tag and a warrant into the maps, attaches the hook,   *)
(* prints READY and sleeps in `while (!stop) pause();' until SIGINT, then  *)
(* reads the maps cell by cell into a JSON file.  Nothing stops the hook   *)
(* before the process ends, so files are opened, and counted, between any  *)
(* two reads.                                                              *)
(* The model starts when main() has set its signal handlers.               *)
(***************************************************************************)
EXTENDS Naturals, FiniteSets, FiniteSetsExt

CONSTANTS
  CPU,         \* the possible CPUs: every map below is per CPU
  Cgroup,      \* cgroups in which files are opened
  TagCgroup,   \* --tag-cgroup; NoCgroup for 0 (tier E)
  NoCgroup,
  Tier,        \* -DTIER=: 1, 2 or 3
  Ttl,         \* --ttl, in ticks of the boot clock
  LatMax,      \* latency buckets (64 in the source)
  MaxTime,     \* bound on the boot clock
  MaxOpens     \* bound on the file opens counted

ASSUME CPUAssumption == IsFiniteSet(CPU) /\ CPU # {}
ASSUME CgroupAssumption == TagCgroup \in Cgroup \cup {NoCgroup} /\ NoCgroup \notin Cgroup
ASSUME TierAssumption == Tier \in 1..3
ASSUME NumberAssumption ==
  Ttl \in Nat /\ LatMax \in Nat \ {0} /\ MaxTime \in Nat /\ MaxOpens \in Nat

VARIABLES
  loader,      \* where main() of gate.c is
  stop,        \* the flag on_sig sets
  pending,     \* a SIGINT was sent and not delivered yet
  oh_tag,      \* the cgroups with an entry (the warrant id is always 1)
  oh_warrants, \* the entry of warrant 1, or NoEntry
  attached,    \* oh_file_open is attached
  hook,        \* hook[c]: how far the hook has got on CPU c
  cell,        \* cell[k][c]: the slot of CPU c under key k
  report,      \* what dump() has read of it
  pos,         \* the key dump() is at
  copied,      \* the CPUs whose slot of that key is already copied
  now,         \* the boot clock
  (* History, read by properties only. *)
  opens        \* file opens so far

loaderVars == <<loader, stop, pending>>
gateMaps == <<oh_tag, oh_warrants>>
dumpVars == <<report, pos, copied>>
vars == <<loaderVars, gateMaps, attached, hook, cell, dumpVars, now, opens>>

-----------------------------------------------------------------------------
OH_R_PASS == 0
OH_R_READ == 1
OH_R_TAG_MISS == 2
OH_R_TAG_HIT == 3
OH_R_REVOKED == 4
OH_R_EXPIRED == 5
OH_R_MAX == 6
OH_C_TOTAL == OH_R_MAX

Code == 0..(OH_R_MAX - 1)

\* f_mode & FMODE_WRITE
Mode == {"read", "write"}

(***************************************************************************)
(* The cells of the three per-CPU maps, numbered in the order in which     *)
(* dump() reads them: oh_counters, oh_lat, oh_dev.  One device major       *)
(* stands for all.                                                         *)
(***************************************************************************)
LatKey(b) == OH_C_TOTAL + 1 + b
DevKey(mode) == OH_C_TOTAL + 1 + LatMax + (IF mode = "write" THEN 1 ELSE 0)
LastKey == DevKey("write")
Key == 0..LastKey

NoEntry == [expires_ns |-> 0, revoked |-> TRUE]
Idle == [at |-> "idle", code |-> OH_R_PASS, mode |-> "read", cgroup |-> NoCgroup]
HookStep == {"idle", "record", "total", "code", "dev"}
HookState == [at : HookStep, code : Code, mode : Mode, cgroup : Cgroup \cup {NoCgroup}]
InHook(c) == hook[c].at # "idle"

TypeOK ==
  /\ loader \in {"load", "tag", "warrant", "attach", "check", "enter", "paused",
                 "dump", "exit"}
  /\ stop \in BOOLEAN /\ pending \in BOOLEAN /\ attached \in BOOLEAN
  /\ oh_tag \subseteq Cgroup
  /\ oh_warrants \in [expires_ns : Nat, revoked : BOOLEAN]
  /\ hook \in [CPU -> HookState]
  /\ cell \in [Key -> [CPU -> Nat]]
  /\ report \in [Key -> [CPU -> Nat]]
  /\ pos \in 0..(LastKey + 1) /\ copied \subseteq CPU
  /\ now \in 0..MaxTime /\ opens \in 0..MaxOpens

NoCount == [k \in Key |-> [c \in CPU |-> 0]]

Init ==
  /\ loader = "load" /\ stop = FALSE /\ pending = FALSE
  /\ oh_tag = {} /\ oh_warrants = NoEntry
  /\ attached = FALSE
  /\ hook = [c \in CPU |-> Idle]
  /\ cell = NoCount
  /\ report = NoCount /\ pos = 0 /\ copied = {}
  /\ now \in 0..MaxTime
  /\ opens = 0

-----------------------------------------------------------------------------
(* gate.bpf.c *)

\* The loader writes one warrant, with id 1: a tag without it is a miss too.
Warranted(cg) == cg \in oh_tag /\ oh_warrants # NoEntry

\* Mutants: the comparison turned round; a decision that falls off the enum.
oh_decideTurned(cg, mode) ==
  IF mode = "read" THEN OH_R_READ
  ELSE IF ~Warranted(cg) THEN OH_R_TAG_MISS
  ELSE IF now > oh_warrants.expires_ns THEN OH_R_TAG_HIT ELSE OH_R_EXPIRED
oh_decideMax(cg, mode) == IF mode = "read" THEN OH_R_READ ELSE OH_R_MAX

oh_decide(cg, mode) ==
  IF Tier = 1 THEN OH_R_PASS
  ELSE IF mode = "read" THEN OH_R_READ
  ELSE IF Tier = 2 THEN OH_R_PASS
  ELSE IF ~Warranted(cg) THEN OH_R_TAG_MISS
  ELSE IF oh_warrants.revoked THEN OH_R_REVOKED
  ELSE IF now > oh_warrants.expires_ns THEN OH_R_EXPIRED
  ELSE OH_R_TAG_HIT

Bump(k, c) == cell' = [cell EXCEPT ![k][c] = @ + 1]

HookAt(c, from, to) ==
  /\ hook[c].at = from
  /\ hook' = [hook EXCEPT ![c].at = to]

others == <<loaderVars, gateMaps, attached, dumpVars, now, opens>>

\* A file is opened on CPU c: t0, the decision, and the timer is closed.  The
\* kernel does not enter the program twice on one CPU.
Open(c, cg, mode) ==
  /\ attached
  /\ ~InHook(c)
  /\ opens < MaxOpens
  /\ opens' = opens + 1
  /\ hook' = [hook EXCEPT ![c] = [at |-> "record", code |-> oh_decide(cg, mode),
                                  mode |-> mode, cgroup |-> cg]]
  /\ UNCHANGED <<loaderVars, gateMaps, attached, cell, dumpVars, now>>

\* Mutant: the last bucket is not clamped, and the lookup of the next one fails.
RecordUnclamped(c) ==
  /\ HookAt(c, "record", "total")
  /\ \/ \E b \in 0..(LatMax - 1) : Bump(LatKey(b), c)
     \/ UNCHANGED cell
  /\ UNCHANGED others

\* oh_record: some bucket of the latency histogram.
Record(c) ==
  /\ HookAt(c, "record", "total")
  /\ \E b \in 0..(LatMax - 1) : Bump(LatKey(b), c)
  /\ UNCHANGED others

\* Mutant: a plain array without atomics, which loses updates.
BumpTotalLossy(c) ==
  /\ HookAt(c, "total", "code")
  /\ Bump(OH_C_TOTAL, c) \/ UNCHANGED cell
  /\ UNCHANGED others

BumpTotal(c) ==
  /\ HookAt(c, "total", "code")
  /\ Bump(OH_C_TOTAL, c)
  /\ UNCHANGED others

BumpCode(c) ==
  /\ HookAt(c, "code", "dev")
  /\ Bump(hook[c].code, c)
  /\ UNCHANGED others

\* The device histogram, and the hook returns 0 whatever the decision was.
BumpDev(c) ==
  /\ hook[c].at = "dev"
  /\ Bump(DevKey(hook[c].mode), c)
  /\ hook' = [hook EXCEPT ![c] = Idle]
  /\ UNCHANGED others

-----------------------------------------------------------------------------
(* gate.c *)

kernel == <<hook, cell, opens>>

\* An error return: nothing was written to the report.
Fail ==
  /\ loader \in {"load", "tag", "warrant", "attach"}
  /\ loader' = "exit"
  /\ UNCHANGED <<stop, pending, gateMaps, attached, kernel, dumpVars, now>>

\* Mutant: the programs are attached as soon as they are loaded.
LoadAttached ==
  /\ loader = "load"
  /\ loader' = IF TagCgroup = NoCgroup THEN "attach" ELSE "tag"
  /\ attached' = TRUE
  /\ UNCHANGED <<stop, pending, gateMaps, kernel, dumpVars, now>>

Load ==
  /\ loader = "load"
  /\ loader' = IF TagCgroup = NoCgroup THEN "attach" ELSE "tag"
  /\ UNCHANGED <<stop, pending, gateMaps, attached, kernel, dumpVars, now>>

InjectTag ==
  /\ loader = "tag"
  /\ loader' = "warrant"
  /\ oh_tag' = {TagCgroup}
  /\ UNCHANGED <<stop, pending, oh_warrants, attached, kernel, dumpVars, now>>

\* The warrant ends Ttl after the uptime read from /proc/uptime, or after 0 when
\* that file cannot be read.
InjectWarrant(upt) ==
  /\ loader = "warrant"
  /\ upt \in {now, 0}
  /\ loader' = "attach"
  /\ oh_warrants' = [expires_ns |-> upt + Ttl, revoked |-> FALSE]
  /\ UNCHANGED <<stop, pending, oh_tag, attached, kernel, dumpVars, now>>

\* Attach and READY.
Attach ==
  /\ loader = "attach"
  /\ loader' = "check"
  /\ attached' = TRUE
  /\ UNCHANGED <<stop, pending, gateMaps, kernel, dumpVars, now>>

\* Mutant: the flag is not looked at.
CheckNothing ==
  /\ loader = "check"
  /\ loader' \in {"dump", "enter"}
  /\ UNCHANGED <<stop, pending, gateMaps, attached, kernel, dumpVars, now>>

\* while (!stop)
Check ==
  /\ loader = "check"
  /\ loader' = IF stop THEN "dump" ELSE "enter"
  /\ UNCHANGED <<stop, pending, gateMaps, attached, kernel, dumpVars, now>>

\* pause(): the process sleeps until a handler has run.
Pause ==
  /\ loader = "enter"
  /\ loader' = "paused"
  /\ UNCHANGED <<stop, pending, gateMaps, attached, kernel, dumpVars, now>>

\* Mutant: the handler does not set the flag.
OnSigSilent ==
  /\ pending
  /\ loader # "exit"
  /\ pending' = FALSE
  /\ loader' = IF loader = "paused" THEN "check" ELSE loader
  /\ UNCHANGED <<stop, gateMaps, attached, kernel, dumpVars, now>>

\* on_sig, wherever main() is; a pause() it interrupts returns.
OnSig ==
  /\ pending
  /\ loader # "exit"
  /\ pending' = FALSE
  /\ stop' = TRUE
  /\ loader' = IF loader = "paused" THEN "check" ELSE loader
  /\ UNCHANGED <<gateMaps, attached, kernel, dumpVars, now>>

\* dump(): sum_percpu copies the slots of a key one CPU after the other.
ReadCell(c) ==
  /\ loader = "dump" /\ pos <= LastKey
  /\ c \in CPU \ copied
  /\ report' = [report EXCEPT ![pos][c] = cell[pos][c]]
  /\ IF copied \cup {c} = CPU THEN pos' = pos + 1 /\ copied' = {}
                              ELSE pos' = pos /\ copied' = copied \cup {c}
  /\ UNCHANGED <<loaderVars, gateMaps, attached, kernel, now>>

\* The process ends after the dump, or before it when the output file cannot
\* be opened; its links go with it.
Exit ==
  /\ loader = "dump"
  /\ pos = LastKey + 1 \/ (pos = 0 /\ copied = {})
  /\ loader' = "exit"
  /\ attached' = FALSE
  /\ UNCHANGED <<stop, pending, gateMaps, kernel, dumpVars, now>>

-----------------------------------------------------------------------------
(* The world around it *)

\* gate_stop of run.sh: kill -INT.
Kill ==
  /\ loader # "exit" /\ ~pending /\ ~stop
  /\ pending' = TRUE
  /\ UNCHANGED <<loader, stop, gateMaps, attached, kernel, dumpVars, now>>

Tick ==
  /\ now < MaxTime
  /\ now' = now + 1
  /\ UNCHANGED <<loaderVars, gateMaps, attached, kernel, dumpVars>>

Hook(c) == Record(c) \/ BumpTotal(c) \/ BumpCode(c) \/ BumpDev(c)

Main ==
  \/ Load \/ InjectTag \/ Attach \/ Check \/ Pause \/ Exit
  \/ \E upt \in {now, 0} : InjectWarrant(upt)
  \/ \E c \in CPU : ReadCell(c)

Next ==
  \/ \E c \in CPU, cg \in Cgroup, mode \in Mode : Open(c, cg, mode)
  \/ \E c \in CPU : Hook(c)
  \/ Main \/ Fail \/ OnSig \/ Kill \/ Tick

Spec == Init /\ [][Next]_vars

\* The kernel runs the process when it can run and delivers a signal it sent;
\* nothing obliges anyone to open files or to send the signal.
FairSpec == Spec /\ WF_vars(Main) /\ WF_vars(OnSig)

-----------------------------------------------------------------------------
(* Properties *)

\* "If it is not planted, tier D falls into tag_miss" (gate.c:159): the tag and
\* its warrant are both in the maps before the first write can be decided, so
\* that no write of the tagged cgroup is ever counted as one without a warrant.
TaggedNeverMisses ==
  \A c \in CPU :
    (InHook(c) /\ hook[c].cgroup = TagCgroup) => hook[c].code # OH_R_TAG_MISS

Classes(of, c) == of[0][c] + of[1][c] + of[2][c] + of[3][c] + of[4][c] + of[5][c]
Buckets(of, c) == MapThenSumSet(LAMBDA b : of[LatKey(b)][c], 0..(LatMax - 1))
Devices(of, c) == of[DevKey("write")][c] + of[DevKey("read")][c]

\* The dump is no snapshot: opens are counted between any two reads.  The hook
\* adds to the total before it adds to a class and dump() reads the total after
\* the classes, so no report shows more classified opens than opens.  The device
\* table is read last but counted last too: each CPU may be in the hook with
\* one open that the total has and the table has not.
ReportTallies ==
  \A c \in CPU :
    /\ pos > OH_C_TOTAL => Classes(report, c) <= report[OH_C_TOTAL][c]
    /\ pos > LastKey => report[OH_C_TOTAL][c] <= Devices(report, c) + 1

\* As the total is read before it, the histogram behind p99 has every open of the total.
LatencyCoversTotal ==
  pos > LatKey(LatMax - 1) => \A c \in CPU : report[OH_C_TOTAL][c] <= Buckets(report, c)

\* Once any CPU has found the warrant expired no CPU finds it valid again: the
\* comparison is with the boot clock, which is one for all CPUs and never set.
SawExpired ==
  \E c \in CPU : cell[OH_R_EXPIRED][c] > 0 \/ (InHook(c) /\ hook[c].code = OH_R_EXPIRED)
ExpiryIsFinal ==
  [][\A c \in CPU : (SawExpired /\ ~InHook(c) /\ InHook(c)')
                        => hook'[c].code # OH_R_TAG_HIT]_vars

\* gate.c:1: the loader writes its statistics on SIGINT, so it ends after one.
SigintDumps == pending ~> loader = "exit"

\* The promise run.sh relies on (GateLife): ready only once attached, there until
\* a SIGINT comes, and a complete report only after one.
Promise == INSTANCE GateLife WITH
  life <- IF loader \in {"load", "tag", "warrant", "attach"} THEN "loading"
          ELSE IF loader = "exit" THEN "gone" ELSE "ready",
  asked <- pending \/ stop,
  stats <- loader = "exit" /\ pos = LastKey + 1
KeepsPromise == Promise!Spec

\* What does hold: it ends when the signal finds it asleep in pause().
SleeperDumps == (pending /\ loader = "paused") ~> loader = "exit"
=============================================================================
