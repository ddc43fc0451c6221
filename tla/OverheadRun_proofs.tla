-------------------------- MODULE OverheadRun_proofs --------------------------
(***************************************************************************)
(* What holds of OverheadRun for any tiers, workloads, passes and polls,   *)
(* when --out names a new directory; and, in the second half, what holds   *)
(* of the report that the run ends in (OverheadReport), for any times,     *)
(* any latencies that ReportAssumption allows and any number of them.      *)
(***************************************************************************)
EXTENDS OverheadRun, OverheadReport, Integers, Sequences, TLAPS, WellFoundedInduction,
        FiniteSetTheorems, SequenceTheorems

-----------------------------------------------------------------------------
(* The inductive invariant *)

\* Rounds of later passes, and those of this pass that are left.
Later == {r \in Round : \/ \E p \in 1..PASSES : p > pass /\ r \in MacroRounds(p)
                        \/ pass <= PASSES /\ r \in MicroRounds}
Ahead == todo \cup Later

\* A round is gone through once.
Order ==
  /\ \/ pass <= PASSES /\ todo \subseteq MacroRounds(pass)
     \/ pass = PASSES + 1 /\ todo \subseteq MicroRounds
  /\ round \notin Ahead
  /\ script \notin {"next", "report", "trap", "exit", "done"} => round \in Round
  /\ script \in {"report", "done"} => todo = {} /\ pass = PASSES + 1

\* It has closed its file, or could not open it.
Answered(r) == out[r] \in {"written", "refused"}

\* A gate says READY when it is, and stays until it is asked; it has answered when
\* it ends after that.
GateTrue ==
  \A r \in Round :
    /\ log[r] = "READY" => life[r] = "ready" \/ (life[r] = "gone" /\ asked[r] /\ Answered(r))
    /\ out[r] = "part" => asked[r]
    /\ life[r] = "none" => ~asked[r]
    /\ r \in Ahead => life[r] = "none"

Dead(r) == life[r] \in {"none", "gone"}

\* The trap can come before the gate has set its handler.
Early == tries = MaxTries \/ interrupted

\* What the script knows of its gate at each of its places.
Held ==
  /\ \A r \in Round : Dead(r) \/ r = round
  /\ script \in {"next", "start", "report", "done"} =>
       GATE_PID = NoGate /\ \A r \in Round : Dead(r)
  /\ script = "start" => life[round] = "none"
  /\ script \in {"start", "forked", "poll", "wait"} => round.tier # "a"
  /\ script = "forked" => GATE_PID = NoGate
  /\ script \in {"poll", "wait", "trap_wait"} => GATE_PID = round
  /\ script \in {"work", "stop"} =>
       IF round.tier = "a" THEN GATE_PID = NoGate /\ \A r \in Round : Dead(r)
                           ELSE GATE_PID = round /\ log[round] = "READY"
  /\ script = "wait" => log[round] = "READY" /\ asked[round]
  /\ script = "trap" /\ GATE_PID # NoGate => life[round] \notin {"none", "forked"} \/ Early
  /\ script = "trap_wait" => asked[round] \/ life[round] = "gone" \/ Early
  /\ script \in {"forked", "poll", "work", "stop"} => ~asked[round]
  /\ script = "trap" =>
       \/ GATE_PID = round
       \/ GATE_PID = NoGate /\ \A r \in Round : Dead(r) \/ (interrupted /\ r = round)
  /\ script = "exit" => \A r \in Round : Dead(r) \/ (interrupted /\ r = round)

\* The gates of the rounds behind have answered, unless the script was broken off.
Running == {"next", "start", "forked", "poll", "work", "stop", "wait", "report", "done"}
Behind ==
  script \in Running =>
    \A r \in Round :
      (r \notin Ahead /\ (r # round \/ script \in {"next", "report", "done"}))
        => r.tier = "a" \/ Answered(r)

IInv == TypeOK /\ Order /\ GateTrue /\ Held /\ Behind

-----------------------------------------------------------------------------
(* Rounds *)

USE TierAssumption, PassesAssumption, TriesAssumption

\* The passes and the second stage have no round in common.
LEMMA Stages ==
  /\ NoGate \notin Round
  /\ \A p \in 1..PASSES : MacroRounds(p) \subseteq Round
  /\ MicroRounds \subseteq Round
  /\ \A p, o \in 1..PASSES : p # o => MacroRounds(p) \cap MacroRounds(o) = {}
  /\ \A p \in 1..PASSES : MacroRounds(p) \cap MicroRounds = {}
  /\ \A r \in Round : (\E p \in 1..PASSES : r \in MacroRounds(p)) \/ r \in MicroRounds
  <1>1. \A p, r : r \in MacroRounds(p) => r.stage = "macro" /\ r.no = p
    BY DEF MacroRounds
  <1>2. \A r \in MicroRounds : r.stage = "micro"
    BY DEF MicroRounds
  <1>3. /\ \A p \in 1..PASSES : MacroRounds(p) \subseteq Round
        /\ MicroRounds \subseteq Round
        /\ \A r \in Round : (\E p \in 1..PASSES : r \in MacroRounds(p)) \/ r \in MicroRounds
    BY DEF Round
  <1>4. NoGate \notin Round
    <2>1. NoGate.stage = "none"
      BY DEF NoGate
    <2>2. \A r \in Round : r.stage = "macro" \/ r.stage = "micro"
      BY <1>1, <1>2, <1>3
    <2> QED
      BY <2>1, <2>2
  <1>5. \A p, o \in 1..PASSES : p # o => MacroRounds(p) \cap MacroRounds(o) = {}
    BY <1>1
  <1>6. \A p \in 1..PASSES : MacroRounds(p) \cap MicroRounds = {}
    BY <1>1, <1>2
  <1> QED
    BY <1>3, <1>4, <1>5, <1>6

\* A pass more leaves no round ahead but those that were.
LEMMA PassOver ==
  ASSUME TypeOK, todo = {}, pass <= PASSES, pass' = pass + 1,
         todo' = IF pass < PASSES THEN MacroRounds(pass + 1) ELSE MicroRounds
  PROVE  /\ Ahead' = Ahead
         /\ \/ pass' <= PASSES /\ todo' \subseteq MacroRounds(pass')
            \/ pass' = PASSES + 1 /\ todo' \subseteq MicroRounds
  <1>1. pass \in 1..(PASSES + 1)
    BY DEF TypeOK
  <1>2. CASE pass < PASSES
    BY <1>1, <1>2, Stages DEF Ahead, Later
  <1>3. CASE pass = PASSES
    BY <1>1, <1>3, Stages DEF Ahead, Later
  <1> QED
    BY <1>1, <1>2, <1>3

\* The round that is picked is not ahead any more.
LEMMA PickOne ==
  ASSUME TypeOK, Order, NEW r \in todo, todo' = todo \ {r}, pass' = pass
  PROVE  /\ r \in Round /\ r \in Ahead
         /\ Ahead' = Ahead \ {r}
         /\ \/ pass' <= PASSES /\ todo' \subseteq MacroRounds(pass')
            \/ pass' = PASSES + 1 /\ todo' \subseteq MicroRounds
  <1>1. pass \in 1..(PASSES + 1) /\ r \in Round
    BY DEF TypeOK
  <1>2. r \notin Later
    BY <1>1, Stages DEF Order, Later
  <1>3. Later' = Later
    BY DEF Later
  <1> QED
    BY <1>1, <1>2, <1>3 DEF Order, Ahead

-----------------------------------------------------------------------------
(* Every step keeps the invariant *)

LEMMA InitIInv == ASSUME FreshOut, Init PROVE IInv
  <1>1. 1 \in 1..PASSES
    OBVIOUS
  <1>2. TypeOK
    <2>1. log \in [Round -> {"absent"}]
      BY DEF Init
    <2>2. log \in [Round -> {"absent", "empty", "READY"}]
      BY <2>1
    <2>3. life \in [Round -> {"none", "forked", "loading", "ready", "gone"}]
      BY DEF Init
    <2>4. /\ asked \in [Round -> BOOLEAN]
          /\ out \in [Round -> {"none", "part", "written", "refused"}]
      BY DEF Init
    <2>5. todo \subseteq Round /\ pass \in 1..(PASSES + 1)
      BY <1>1, Stages DEF Init
    <2>6. tries \in 0..MaxTries
      <3>1. tries = 0
        BY DEF Init
      <3> QED
        BY <3>1
    <2>7. /\ script = "next" /\ round = NoGate /\ GATE_PID = NoGate
          /\ interrupted \in BOOLEAN
      BY DEF Init
    <2> QED
      BY <2>2, <2>3, <2>4, <2>5, <2>6, <2>7 DEF TypeOK
  <1>3. Order
    BY <1>1, Stages DEF Init, Order, Ahead, Later
  <1>4. GateTrue
    BY DEF Init, GateTrue
  <1>5. Held
    BY DEF Init, Held, Dead, Early
  <1>6. Behind
    <2>1. \A r \in Round : r \in Ahead
      BY <1>1, Stages DEF Init, Ahead, Later
    <2> QED
      BY <2>1 DEF Init, Behind
  <1> QED
    BY <1>2, <1>3, <1>4, <1>5, <1>6 DEF IInv

LEMMA PickKeeps == ASSUME IInv, Pick PROVE IInv'
  <1> USE DEF IInv
  <1>1. PICK r \in todo : /\ round' = r /\ todo' = todo \ {r}
                          /\ script' = IF r.tier = "a" THEN "work" ELSE "start"
    BY DEF Pick
  <1>2. /\ script = "next"
        /\ UNCHANGED <<pass, GATE_PID, tries, log, life, asked, out, interrupted>>
    BY DEF Pick, gates
  <1>3. /\ r \in Round /\ r \in Ahead /\ Ahead' = Ahead \ {r}
        /\ \/ pass' <= PASSES /\ todo' \subseteq MacroRounds(pass')
           \/ pass' = PASSES + 1 /\ todo' \subseteq MicroRounds
    BY <1>1, <1>2, PickOne
  <1>4. TypeOK'
    BY <1>1, <1>2, <1>3 DEF TypeOK
  <1>5. Order'
    BY <1>1, <1>2, <1>3 DEF Order
  <1>6. GateTrue'
    BY <1>1, <1>2, <1>3 DEF GateTrue, Answered
  <1>7. Held'
    BY <1>1, <1>2, <1>3 DEF Held, Dead, Early, GateTrue, Answered
  <1>8. Behind'
    BY <1>1, <1>2, <1>3 DEF Behind, Running, Answered
  <1> QED
    BY <1>4, <1>5, <1>6, <1>7, <1>8

LEMMA NextPassKeeps == ASSUME IInv, NextPass PROVE IInv'
  <1> USE DEF IInv
  <1>1. /\ script = "next" /\ todo = {}
        /\ UNCHANGED <<round, GATE_PID, tries, log, life, asked, out, interrupted>>
    BY DEF NextPass, gates
  <1>2. CASE pass <= PASSES
    <2>1. /\ script' = script /\ pass' = pass + 1
          /\ todo' = IF pass < PASSES THEN MacroRounds(pass + 1) ELSE MicroRounds
      BY <1>2 DEF NextPass
    <2>2. /\ Ahead' = Ahead
          /\ \/ pass' <= PASSES /\ todo' \subseteq MacroRounds(pass')
             \/ pass' = PASSES + 1 /\ todo' \subseteq MicroRounds
      BY <1>1, <1>2, <2>1, PassOver
    <2>3. TypeOK'
      <3>1. pass \in 1..(PASSES + 1) /\ pass' \in 1..(PASSES + 1)
        BY <1>2, <2>1 DEF TypeOK
      <3>2. todo' \subseteq Round
        BY <2>2, <3>1, Stages
      <3> QED
        BY <1>1, <2>1, <3>1, <3>2 DEF TypeOK
    <2>4. Order'
      BY <1>1, <2>1, <2>2 DEF Order
    <2>5. GateTrue' /\ Held' /\ Behind'
      BY <1>1, <2>1, <2>2 DEF GateTrue, Held, Dead, Early, Behind, Answered
    <2> QED
      BY <2>3, <2>4, <2>5
  <1>3. CASE ~(pass <= PASSES)
    <2>1. script' = "report" /\ pass' = pass /\ todo' = todo
      BY <1>3 DEF NextPass
    <2>2. Ahead' = Ahead
      BY <2>1 DEF Ahead, Later
    <2>3. pass = PASSES + 1
      BY <1>3 DEF TypeOK
    <2>4. TypeOK' /\ Order'
      BY <1>1, <2>1, <2>2, <2>3 DEF TypeOK, Order
    <2>5. GateTrue' /\ Held' /\ Behind'
      BY <1>1, <2>1, <2>2 DEF GateTrue, Held, Dead, Early, Behind, Running, Answered
    <2> QED
      BY <2>4, <2>5
  <1> QED
    BY <1>2, <1>3

\* A step that leaves the loop, the log and the gates alone keeps these two.
LEMMA LoopKeeps ==
  ASSUME TypeOK, Order, UNCHANGED loop,
         script' \in {"work", "stop", "wait", "poll", "forked", "trap_wait", "trap", "exit",
                      "next"},
         script' \in {"work", "stop", "wait", "poll", "forked", "trap_wait"} => round \in Round
  PROVE  Order' /\ Ahead' = Ahead
  <1>1. Ahead' = Ahead
    BY DEF loop, Ahead, Later
  <1> QED
    BY <1>1 DEF loop, Order

LEMMA WorkKeeps == ASSUME IInv, WorkEnds \/ WorkFails PROVE IInv'
  <1> USE DEF IInv
  <1>1. /\ script = "work" /\ script' \in {"stop", "trap"}
        /\ UNCHANGED <<pass, todo, round, GATE_PID, tries, log, life, asked, out, interrupted>>
    BY DEF WorkEnds, WorkFails, loop, gates
  <1>2. round \in Round
    BY <1>1 DEF Order
  <1>3. Order' /\ Ahead' = Ahead
    BY <1>1, <1>2, LoopKeeps DEF loop
  <1>4. TypeOK'
    BY <1>1 DEF TypeOK
  <1>5. GateTrue'
    BY <1>1, <1>3 DEF GateTrue, Answered
  <1>6. Held'
    BY <1>1, <1>2 DEF Held, Dead, Early, GateTrue
  <1>7. Behind'
    BY <1>1, <1>3 DEF Behind, Running, Answered
  <1> QED
    BY <1>3, <1>4, <1>5, <1>6, <1>7

LEMMA ReportKeeps == ASSUME IInv, Report PROVE IInv'
  <1> USE DEF IInv
  <1>1. /\ script = "report" /\ script' = "done"
        /\ UNCHANGED <<pass, todo, round, GATE_PID, tries, log, life, asked, out, interrupted>>
    BY DEF Report, loop, gates
  <1>2. Ahead' = Ahead
    BY <1>1 DEF Ahead, Later
  <1>3. TypeOK' /\ Order'
    BY <1>1, <1>2 DEF TypeOK, Ended, Order
  <1>4. GateTrue'
    BY <1>1, <1>2 DEF GateTrue, Answered
  <1>5. Held'
    BY <1>1 DEF Held, Dead, Early
  <1>6. Behind'
    BY <1>1, <1>2 DEF Behind, Running, Answered
  <1> QED
    BY <1>3, <1>4, <1>5, <1>6

LEMMA GateStartKeeps == ASSUME IInv, GateStart PROVE IInv'
  <1> USE DEF IInv
  <1>1. /\ script = "start" /\ script' = "forked"
        /\ life' = [life EXCEPT ![round] = "forked"]
        /\ UNCHANGED <<pass, todo, round, GATE_PID, tries, log, asked, out, interrupted>>
    BY DEF GateStart, loop, gates
  <1>2. round \in Round /\ life[round] = "none" /\ round \notin Ahead
    BY <1>1 DEF Order, Held
  <1>3. Order' /\ Ahead' = Ahead
    BY <1>1, <1>2, LoopKeeps DEF loop
  <1>4. TypeOK'
    BY <1>1, <1>2 DEF TypeOK
  <1>5. \A r \in Round : life'[r] = IF r = round THEN "forked" ELSE life[r]
    BY <1>1 DEF TypeOK
  <1>6. GateTrue'
    BY <1>1, <1>2, <1>3, <1>5 DEF GateTrue, Answered
  <1>7. Held'
    BY <1>1, <1>2, <1>5 DEF Held, Dead, Early, GateTrue, Answered
  <1>8. Behind'
    BY <1>1, <1>3 DEF Behind, Running, Answered
  <1> QED
    BY <1>3, <1>4, <1>6, <1>7, <1>8

LEMMA NotePidKeeps == ASSUME IInv, NotePid PROVE IInv'
  <1> USE DEF IInv
  <1>1. /\ script = "forked" /\ script' = "poll" /\ GATE_PID' = round /\ tries' = 0
        /\ UNCHANGED <<pass, todo, round, log, life, asked, out, interrupted>>
    BY DEF NotePid, loop, gates
  <1>2. round \in Round
    BY <1>1 DEF Order
  <1>3. Order' /\ Ahead' = Ahead
    BY <1>1, <1>2, LoopKeeps DEF loop
  <1>4. TypeOK'
    BY <1>1, <1>2 DEF TypeOK
  <1>5. GateTrue'
    BY <1>1, <1>3 DEF GateTrue, Answered
  <1>6. Held'
    BY <1>1 DEF Held, Dead, Early
  <1>7. Behind'
    BY <1>1, <1>3 DEF Behind, Running, Answered
  <1> QED
    BY <1>3, <1>4, <1>5, <1>6, <1>7

LEMMA PollKeeps == ASSUME IInv, Poll PROVE IInv'
  <1> USE DEF IInv
  <1>1. /\ script = "poll"
        /\ UNCHANGED <<pass, todo, round, GATE_PID, log, life, asked, out, interrupted>>
    BY DEF Poll, loop, gates
  <1>2. /\ script' = "poll" \/ script' = "trap" \/ (script' = "work" /\ log[round] = "READY")
        /\ tries' = tries \/ (tries < MaxTries /\ tries' = tries + 1)
        /\ script' = "trap" => life[round] = "gone" \/ (tries = MaxTries /\ tries' = tries)
    <2>1. GATE_PID = round /\ tries \in 0..MaxTries
      BY <1>1 DEF Held, TypeOK
    <2> QED
      BY <1>1, <2>1 DEF Poll
  <1>3. round \in Round
    BY <1>1 DEF Order
  <1>4. Order' /\ Ahead' = Ahead
    BY <1>1, <1>2, <1>3, LoopKeeps DEF loop
  <1>5. TypeOK'
    <2>1. tries' \in 0..MaxTries
      BY <1>2 DEF TypeOK
    <2> QED
      BY <1>1, <1>2, <2>1 DEF TypeOK
  <1>6. GateTrue'
    BY <1>1, <1>4 DEF GateTrue, Answered
  <1>7. Held'
    BY <1>1, <1>2 DEF Held, Dead, Early
  <1>8. Behind'
    BY <1>1, <1>2, <1>4 DEF Behind, Running, Answered
  <1> QED
    BY <1>4, <1>5, <1>6, <1>7, <1>8

LEMMA StopKeeps == ASSUME IInv, Stop PROVE IInv'
  <1> USE DEF IInv
  <1>1. /\ script \in {"stop", "trap"}
        /\ UNCHANGED <<pass, todo, round, GATE_PID, tries, log, life, out, interrupted>>
    BY DEF Stop, loop
  <1>2. CASE GATE_PID = NoGate
    <2>1. asked' = asked /\ script' = IF script = "stop" THEN "next" ELSE "exit"
      BY <1>1, <1>2 DEF Stop, After
    <2>2. Order' /\ Ahead' = Ahead
      BY <1>1, <2>1, LoopKeeps DEF loop
    <2>3. \A r \in Round : Dead(r) \/ (script = "trap" /\ interrupted /\ r = round)
      BY <1>1, <1>2, Stages DEF Held, Order
    <2>4. script = "stop" => round.tier = "a"
      BY <1>1, <1>2, Stages DEF Held, Order
    <2>5. TypeOK' /\ GateTrue'
      BY <1>1, <2>1, <2>2 DEF TypeOK, Ended, GateTrue, Answered
    <2>6. Held'
      BY <1>1, <1>2, <2>1, <2>3 DEF Held, Dead, Early
    <2>7. Behind'
      BY <1>1, <2>1, <2>2, <2>4 DEF Behind, Running, Answered
    <2> QED
      BY <2>2, <2>5, <2>6, <2>7
  <1>3. CASE GATE_PID # NoGate
    <2>1. /\ asked' = SigInt({GATE_PID})
          /\ script' = IF script = "stop" THEN "wait" ELSE "trap_wait"
      BY <1>1, <1>3 DEF Stop
    <2>2. GATE_PID = round /\ round \in Round
      BY <1>1, <1>3 DEF Held, TypeOK
    <2>3. Order' /\ Ahead' = Ahead
      BY <1>1, <2>1, <2>2, LoopKeeps DEF loop
    <2>4. /\ asked' \in [Round -> BOOLEAN]
          /\ \A r \in Round : asked'[r] <=> asked[r] \/ (r = round /\ life[r] \in {"loading", "ready"})
      BY <2>1, <2>2 DEF SigInt, TypeOK
    <2>5. TypeOK'
      BY <1>1, <2>1, <2>4 DEF TypeOK
    <2>6. GateTrue'
      BY <1>1, <2>3, <2>4 DEF GateTrue, Answered
    <2>7. Held'
      <3>1. script = "stop" => life[round] = "ready" /\ log[round] = "READY" /\ round.tier # "a"
        BY <1>1, <1>3, <2>2, Stages DEF Held, GateTrue
      <3>2. asked'[round] \/ life[round] = "gone" \/ Early
        BY <1>1, <1>3, <2>2, <2>4, <3>1 DEF Held, TypeOK
      <3> QED
        BY <1>1, <1>3, <2>1, <2>2, <2>4, <3>1, <3>2 DEF Held, Dead, Early
    <2>8. Behind'
      BY <1>1, <2>1, <2>3 DEF Behind, Running, Answered
    <2> QED
      BY <2>3, <2>5, <2>6, <2>7, <2>8
  <1> QED
    BY <1>2, <1>3

LEMMA WaitKeeps == ASSUME IInv, Wait PROVE IInv'
  <1> USE DEF IInv
  <1>1. /\ script \in {"wait", "trap_wait"} /\ life[GATE_PID] = "gone"
        /\ script' = (IF script = "wait" THEN "next" ELSE "exit") /\ GATE_PID' = NoGate
        /\ UNCHANGED <<pass, todo, round, tries, log, life, asked, out, interrupted>>
    BY DEF Wait, After, loop, gates
  <1>2. GATE_PID = round /\ round \in Round
    BY <1>1 DEF Held, Order
  <1>3. Order' /\ Ahead' = Ahead
    BY <1>1, LoopKeeps DEF loop
  <1>4. \A r \in Round : Dead(r)
    BY <1>1, <1>2 DEF Held, Dead, Early
  <1>5. script = "wait" => Answered(round)
    BY <1>1, <1>2 DEF Held, GateTrue
  <1>6. TypeOK'
    BY <1>1 DEF TypeOK, Ended
  <1>7. GateTrue'
    BY <1>1, <1>3 DEF GateTrue, Answered
  <1>8. Held'
    BY <1>1, <1>4 DEF Held, Dead, Early
  <1>9. Behind'
    BY <1>1, <1>3, <1>5 DEF Behind, Running, Answered
  <1> QED
    BY <1>3, <1>6, <1>7, <1>8, <1>9

LEMMA InterruptKeeps == ASSUME IInv, Interrupt PROVE IInv'
  <1> USE DEF IInv
  <1>1. /\ ~interrupted /\ interrupted' = TRUE /\ script' = "trap"
        /\ script \notin {"done", "exit", "trap", "trap_wait"}
        /\ asked' = SigInt(Round)
        /\ UNCHANGED <<pass, todo, round, GATE_PID, tries, log, life, out>>
    BY DEF Interrupt, Ended, loop
  <1>2. Order' /\ Ahead' = Ahead
    BY <1>1, LoopKeeps DEF loop
  <1>3. /\ asked' \in [Round -> BOOLEAN]
        /\ \A r \in Round : asked'[r] <=> asked[r] \/ life[r] \in {"loading", "ready"}
    BY <1>1 DEF SigInt, TypeOK
  <1>4. TypeOK'
    BY <1>1, <1>3 DEF TypeOK
  <1>5. GateTrue'
    BY <1>1, <1>2, <1>3 DEF GateTrue, Answered
  <1>6. GATE_PID = round \/ GATE_PID = NoGate
    BY <1>1 DEF Held, TypeOK, Ended
  <1>7. Held'
    BY <1>1, <1>6 DEF Held, Dead, Early
  <1>8. Behind'
    BY <1>1 DEF Behind, Running, Answered
  <1> QED
    BY <1>2, <1>4, <1>5, <1>7, <1>8

LEMMA GateKeeps == ASSUME IInv, GateNext PROVE IInv'
  <1> USE DEF IInv
  <1>1. PICK r \in Round : Redirect(r) \/ Listen(r) \/ Ready(r) \/ Fail(r) \/ Dump(r) \/ Close(r)
    BY DEF GateNext
  <1>2. UNCHANGED <<script, pass, todo, round, GATE_PID, tries, asked, interrupted>>
    BY <1>1 DEF Redirect, Listen, Ready, Fail, Dump, Close, loop
  <1>3. Order' /\ Ahead' = Ahead
    BY <1>2 DEF Order, Ahead, Later
  <1>4. ~Dead(r) /\ r = round
    BY <1>1 DEF Redirect, Listen, Ready, Fail, Dump, Close, Dead, Held
  <1>5. CASE Redirect(r)
    <2>1. /\ life[r] = "forked" /\ log' = [log EXCEPT ![r] = "empty"]
          /\ UNCHANGED <<life, out>>
      BY <1>5 DEF Redirect
    <2>2. TypeOK'
      BY <1>2, <2>1 DEF TypeOK
    <2>3. \A o \in Round : log'[o] = IF o = r THEN "empty" ELSE log[o]
      BY <2>1 DEF TypeOK
    <2>4. GateTrue'
      BY <1>2, <1>3, <2>1, <2>3 DEF GateTrue, Answered
    <2>5. log[round] # "READY"
      BY <1>4, <2>1 DEF GateTrue, Answered
    <2>6. Held'
      BY <1>2, <1>4, <2>1, <2>3, <2>5 DEF Held, Dead, Early
    <2>7. Behind'
      BY <1>2, <1>3, <2>1 DEF Behind, Answered
    <2> QED
      BY <1>3, <2>2, <2>4, <2>6, <2>7
  <1>6. CASE Listen(r)
    <2>1. /\ life[r] = "forked" /\ life' = [life EXCEPT ![r] = "loading"]
          /\ UNCHANGED <<log, out>>
      BY <1>6 DEF Listen
    <2>2. TypeOK'
      BY <1>2, <2>1 DEF TypeOK
    <2>3. \A o \in Round : life'[o] = IF o = r THEN "loading" ELSE life[o]
      BY <2>1 DEF TypeOK
    <2>4. GateTrue'
      BY <1>2, <1>3, <2>1, <2>3 DEF GateTrue, Answered
    <2>5. Held'
      BY <1>2, <1>4, <2>1, <2>3 DEF Held, Dead, Early
    <2>6. Behind'
      BY <1>2, <1>3, <2>1 DEF Behind, Answered
    <2> QED
      BY <1>3, <2>2, <2>4, <2>5, <2>6
  <1>7. CASE Ready(r)
    <2>1. /\ life[r] = "loading" /\ life' = [life EXCEPT ![r] = "ready"]
          /\ log' = [log EXCEPT ![r] = "READY"] /\ UNCHANGED out
      BY <1>7 DEF Ready
    <2>2. TypeOK'
      BY <1>2, <2>1 DEF TypeOK
    <2>3. \A o \in Round : /\ life'[o] = IF o = r THEN "ready" ELSE life[o]
                           /\ log'[o] = IF o = r THEN "READY" ELSE log[o]
      BY <2>1 DEF TypeOK
    <2>4. GateTrue'
      BY <1>2, <1>3, <2>1, <2>3 DEF GateTrue, Answered
    <2>5. Held'
      BY <1>2, <1>4, <2>1, <2>3 DEF Held, Dead, Early
    <2>6. Behind'
      BY <1>2, <1>3, <2>1 DEF Behind, Answered
    <2> QED
      BY <1>3, <2>2, <2>4, <2>5, <2>6
  <1>8. CASE Fail(r)
    <2>1. /\ life[r] \in {"forked", "loading"} /\ life' = [life EXCEPT ![r] = "gone"]
          /\ UNCHANGED <<log, out>>
      BY <1>8 DEF Fail
    <2>2. TypeOK'
      BY <1>2, <2>1 DEF TypeOK
    <2>3. \A o \in Round : life'[o] = IF o = r THEN "gone" ELSE life[o]
      BY <2>1 DEF TypeOK
    <2>4. GateTrue'
      BY <1>2, <1>3, <2>1, <2>3 DEF GateTrue, Answered
    <2>5. Held'
      BY <1>2, <1>4, <2>1, <2>3 DEF Held, Dead, Early
    <2>6. Behind'
      BY <1>2, <1>3, <2>1 DEF Behind, Answered
    <2> QED
      BY <1>3, <2>2, <2>4, <2>5, <2>6
  <1>9. CASE Dump(r) /\ UNCHANGED life
    <2>1. /\ life[r] = "ready" /\ asked[r] /\ out' = [out EXCEPT ![r] = "part"]
          /\ UNCHANGED <<life, log>>
      BY <1>9 DEF Dump, TypeOK
    <2>2. TypeOK'
      BY <1>2, <2>1 DEF TypeOK
    <2>3. \A o \in Round : out'[o] = IF o = r THEN "part" ELSE out[o]
      BY <2>1 DEF TypeOK
    <2>4. GateTrue'
      BY <1>2, <1>3, <2>1, <2>3 DEF GateTrue, Answered
    <2>5. Held'
      BY <1>2, <2>1 DEF Held, Dead, Early
    <2>6. Behind'
      <3>1. r \notin Ahead /\ script \notin {"next", "report", "done"}
        BY <1>4, <2>1 DEF Held, GateTrue, Dead
      <3> QED
        BY <1>2, <1>3, <1>4, <2>3, <3>1 DEF Behind, Answered
    <2> QED
      BY <1>3, <2>2, <2>4, <2>5, <2>6
  <1>10. CASE (Dump(r) /\ life' # life) \/ Close(r)
    <2>1. PICK answer \in {"refused", "written"} :
             /\ life[r] = "ready" /\ asked[r] /\ life' = [life EXCEPT ![r] = "gone"]
             /\ out' = [out EXCEPT ![r] = answer] /\ UNCHANGED log
      BY <1>10 DEF Dump, Close, GateTrue
    <2>2. TypeOK'
      BY <1>2, <2>1 DEF TypeOK
    <2>3. \A o \in Round : /\ life'[o] = IF o = r THEN "gone" ELSE life[o]
                           /\ out'[o] = IF o = r THEN answer ELSE out[o]
      BY <2>1 DEF TypeOK
    <2>4. GateTrue'
      <3> SUFFICES ASSUME NEW o \in Round
                   PROVE  /\ log'[o] = "READY" => life'[o] = "ready"
                                \/ (life'[o] = "gone" /\ asked'[o] /\ Answered(o)')
                          /\ out'[o] = "part" => asked'[o]
                          /\ life'[o] = "none" => ~asked'[o]
                          /\ o \in Ahead' => life'[o] = "none"
        BY DEF GateTrue, Answered
      <3>1. CASE o = r
        <4>1. life'[r] = "gone" /\ Answered(r)'
          BY <2>3 DEF Answered
        <4>2. asked'[r]
          BY <1>2, <2>1 DEF TypeOK
        <4>3. r \notin Ahead'
          BY <1>3, <1>4 DEF GateTrue, Dead
        <4> QED
          BY <3>1, <4>1, <4>2, <4>3
      <3>2. CASE o # r
        BY <1>2, <1>3, <2>1, <2>3, <3>2 DEF GateTrue, Answered
      <3> QED
        BY <3>1, <3>2
    <2>5. Held'
      BY <1>2, <1>4, <2>1, <2>3 DEF Held, Dead, Early
    <2>6. Behind'
      BY <1>2, <1>3, <2>3 DEF Behind, Answered
    <2> QED
      BY <1>3, <2>2, <2>4, <2>5, <2>6
  <1> QED
    BY <1>1, <1>5, <1>6, <1>7, <1>8, <1>9, <1>10

LEMMA StutterKeeps == ASSUME IInv, UNCHANGED vars PROVE IInv'
  <1>1. UNCHANGED <<script, pass, todo, round, GATE_PID, tries, log, life, asked, out,
                    interrupted>>
    BY DEF vars, loop, gates
  <1> QED
    BY <1>1 DEF IInv, TypeOK, Order, GateTrue, Held, Dead, Early, Behind, Answered, Ahead, Later

LEMMA NextKeeps == ASSUME IInv, [Next]_vars PROVE IInv'
  <1>1. CASE Script
    BY <1>1, PickKeeps, NextPassKeeps, WorkKeeps, ReportKeeps, GateStartKeeps, NotePidKeeps,
       PollKeeps, StopKeeps, WaitKeeps DEF Script
  <1>2. CASE GateNext
    BY <1>2, GateKeeps
  <1>3. CASE WorkFails
    BY <1>3, WorkKeeps
  <1>4. CASE Interrupt
    BY <1>4, InterruptKeeps
  <1>5. CASE UNCHANGED vars
    BY <1>5, StutterKeeps
  <1> QED
    BY <1>1, <1>2, <1>3, <1>4, <1>5 DEF Next

\* The invariant all the rest follows from.
THEOREM InvariantHolds == ASSUME FreshOut PROVE Spec => []IInv
  <1>1. Init => IInv
    BY InitIInv
  <1>2. IInv /\ [Next]_vars => IInv'
    BY NextKeeps
  <1> QED
    BY <1>1, <1>2, PTL DEF Spec

-----------------------------------------------------------------------------
(* What follows *)

\* While the workloads of a tier run, the gate of that round is attached and no
\* other, none at all for tier A (gate_start, gate_stop), however many gates the
\* run starts and whatever polls it is given; Ctrl-C included.
THEOREM RightGateAlways == ASSUME FreshOut PROVE Spec => []WorkUnderRightGate
  <1>1. IInv => WorkUnderRightGate
    <2> SUFFICES ASSUME IInv, script = "work" PROVE Attached = (IF round.tier = "a" THEN {} ELSE {round})
      BY DEF WorkUnderRightGate
    <2>1. round \in Round /\ ~asked[round]
      BY DEF IInv, Order, Held
    <2>2. CASE round.tier = "a"
      BY <2>2 DEF IInv, Held, Dead, Early, Attached
    <2>3. CASE round.tier # "a"
      <3>1. life[round] = "ready"
        BY <2>1, <2>3 DEF IInv, Held, GateTrue
      <3>2. \A r \in Round : life[r] = "ready" => r = round
        BY DEF IInv, Held, Dead, Early
      <3> QED
        BY <2>1, <2>3, <3>1, <3>2 DEF Attached
    <2> QED
      BY <2>2, <2>3
  <1> QED
    BY <1>1, InvariantHolds, PTL

\* A run that comes to its report has an answer of every gate of every pass and
\* workload: its file of statistics is closed, or could not be opened.
THEOREM AllReportedAlways == ASSUME FreshOut PROVE Spec => []AllReported
  <1>1. IInv => AllReported
    <2> SUFFICES ASSUME IInv, script \in {"report", "done"}, NEW r \in Round, r.tier # "a"
                 PROVE Answered(r)
      BY DEF AllReported, Answered
    <2>1. todo = {} /\ pass = PASSES + 1
      BY DEF IInv, Order
    <2>2. r \notin Ahead
      BY <2>1 DEF Ahead, Later
    <2> QED
      BY <2>2 DEF IInv, Behind, Running
  <1> QED
    BY <1>1, InvariantHolds, PTL

\* The unlimited wait of gate_stop is for a gate that has the signal or has ended,
\* save in a trap that came when the polls were used up, or at a Ctrl-C.
THEOREM StopIsHeardAlways == ASSUME FreshOut PROVE Spec => []StopIsHeard
  <1>1. IInv => StopIsHeard
    BY DEF IInv, Held, Early, StopIsHeard
  <1> QED
    BY <1>1, InvariantHolds, PTL

\* No gate is left behind by a script that has ended, save the one Ctrl-C caught
\* before its pid was noted (the trap on EXIT).
THEOREM NoGateLeftAlways == ASSUME FreshOut PROVE Spec => []NoGateLeft
  <1>1. IInv => NoGateLeft
    BY DEF IInv, Held, Dead, Early, NoGateLeft, Ended
  <1> QED
    BY <1>1, InvariantHolds, PTL

-----------------------------------------------------------------------------
(* Every gate lives as GateLife says *)

Lives(r) == GateOf(r)!Next \/ UNCHANGED GateOf(r)!vars

\* A step that leaves the gates alone.
LEMMA GateStays ==
  ASSUME NEW r \in Round, life'[r] = life[r], asked'[r] = asked[r],
         (out'[r] = "written") = (out[r] = "written")
  PROVE  Lives(r)
  BY DEF Lives, GateOf!vars

\* SIGINT asks the gates that listen.
LEMMA SigIntLives ==
  ASSUME TypeOK, NEW rs, asked' = SigInt(rs), UNCHANGED <<life, out>>, NEW r \in Round
  PROVE  Lives(r)
  <1>1. life'[r] = life[r] /\ out'[r] = out[r]
    OBVIOUS
  <1>2. CASE r \in rs /\ life[r] \in {"loading", "ready"}
    <2>1. asked'[r] = TRUE
      BY <1>2 DEF SigInt
    <2>2. GateOf(r)!Ask
      BY <1>1, <1>2, <2>1 DEF GateOf!Ask
    <2> QED
      BY <2>2 DEF Lives, GateOf!Next
  <1>3. CASE ~(r \in rs /\ life[r] \in {"loading", "ready"})
    <2>1. asked'[r] = asked[r]
      BY <1>3 DEF SigInt, TypeOK
    <2> QED
      BY <1>1, <2>1, GateStays
  <1> QED
    BY <1>2, <1>3

LEMMA StepLives ==
  ASSUME IInv, [Next]_vars, NEW r \in Round PROVE Lives(r)
  <1>1. TypeOK
    BY DEF IInv
  <1>2. CASE UNCHANGED gates
    BY <1>2, GateStays DEF gates
  <1>3. CASE GateStart
    <2>1. life' = [life EXCEPT ![round] = "forked"] /\ UNCHANGED <<asked, out>>
      BY <1>3 DEF GateStart
    <2>2. round \in Round /\ life[round] = "none"
      BY <1>3 DEF IInv, Order, Held, GateStart
    <2>3. CASE r = round
      <3>1. GateOf(r)!Fork
        BY <1>1, <2>1, <2>2, <2>3 DEF GateOf!Fork, TypeOK
      <3> QED
        BY <3>1 DEF Lives, GateOf!Next
    <2>4. CASE r # round
      BY <1>1, <2>1, <2>4, GateStays DEF TypeOK
    <2> QED
      BY <2>3, <2>4
  <1>4. CASE Stop
    <2>1. UNCHANGED <<life, out>> /\ (asked' = asked \/ asked' = SigInt({GATE_PID}))
      BY <1>4 DEF Stop
    <2>2. CASE asked' = asked
      BY <2>1, <2>2, GateStays
    <2>3. CASE asked' = SigInt({GATE_PID})
      BY <1>1, <2>1, <2>3, SigIntLives
    <2> QED
      BY <2>1, <2>2, <2>3
  <1>5. CASE Interrupt
    <2>1. UNCHANGED <<life, out>> /\ asked' = SigInt(Round)
      BY <1>5 DEF Interrupt
    <2> QED
      BY <1>1, <2>1, SigIntLives
  <1>6. CASE GateNext
    <2>1. PICK o \in Round : Redirect(o) \/ Listen(o) \/ Ready(o) \/ Fail(o) \/ Dump(o) \/ Close(o)
      BY <1>6 DEF GateNext
    <2>2. UNCHANGED asked /\ (r # o => life'[r] = life[r] /\ out'[r] = out[r])
      BY <1>1, <2>1 DEF Redirect, Listen, Ready, Fail, Dump, Close, TypeOK
    <2>3. CASE r # o
      BY <2>2, <2>3, GateStays
    <2>4. CASE r = o /\ Redirect(o)
      BY <2>4, GateStays DEF Redirect
    <2>5. CASE r = o /\ Listen(o)
      <3>1. GateOf(r)!Listen
        BY <1>1, <2>5 DEF Listen, GateOf!Listen, TypeOK
      <3> QED
        BY <3>1 DEF Lives, GateOf!Next
    <2>6. CASE r = o /\ Ready(o)
      <3>1. GateOf(r)!Ready
        BY <1>1, <2>6 DEF Ready, GateOf!Ready, TypeOK
      <3> QED
        BY <3>1 DEF Lives, GateOf!Next
    <2>7. CASE r = o /\ Fail(o)
      <3>1. GateOf(r)!Fail
        BY <1>1, <2>7 DEF Fail, GateOf!Fail, TypeOK
      <3> QED
        BY <3>1 DEF Lives, GateOf!Next
    <2>8. CASE r = o /\ Dump(o) /\ UNCHANGED life
      <3>1. out'[r] = "part" /\ out[r] = "none"
        BY <1>1, <2>8 DEF Dump, TypeOK
      <3> QED
        BY <2>2, <2>8, <3>1, GateStays
    <2>9. CASE r = o /\ ((Dump(o) /\ life' # life) \/ Close(o))
      <3>1. life[r] = "ready" /\ asked[r] /\ life'[r] = "gone"
        BY <1>1, <2>9 DEF IInv, GateTrue, Dump, Close, TypeOK
      <3>2. GateOf(r)!Quit
        BY <2>2, <3>1 DEF GateOf!Quit
      <3> QED
        BY <3>2 DEF Lives, GateOf!Next
    <2> QED
      BY <2>1, <2>3, <2>4, <2>5, <2>6, <2>7, <2>8, <2>9
  <1>7. CASE Pick \/ NextPass \/ WorkEnds \/ Report \/ NotePid \/ Poll \/ Wait \/ WorkFails
    BY <1>2, <1>7 DEF Pick, NextPass, WorkEnds, Report, NotePid, Poll, Wait, WorkFails
  <1>8. CASE UNCHANGED vars
    BY <1>2, <1>8 DEF vars
  <1> QED
    BY <1>3, <1>4, <1>5, <1>6, <1>7, <1>8 DEF Next, Script

\* The steps of a gate that OverheadRun writes out are steps of GateLife, which
\* gate.c keeps (PromiseKept of Gate_proofs), or none of them.
LEMMA StepsOfGateLife ==
  ASSUME FreshOut
  PROVE  Spec => (\A r \in Round : GateOf(r)!Init) /\ [][\A r \in Round : Lives(r)]_vars
  <1>1. Init => \A r \in Round : GateOf(r)!Init
    BY DEF Init, GateOf!Init
  <1>2. IInv /\ [Next]_vars => [\A r \in Round : Lives(r)]_vars
    BY StepLives
  <1> QED
    BY <1>1, <1>2, InvariantHolds, PTL DEF Spec

------------------------------------------------------------------------------
(* The report: sums *)

\* A non-empty set of naturals has a least element.
LEMMA NatLeast ==
  ASSUME NEW T, T \subseteq Nat, T # {}
  PROVE  \E x \in T : \A y \in T : x <= y
  <1> DEFINE Less == OpToRel(<, Nat)
  <1>1. IsWellFoundedOn(Less, Nat)
    BY NatLessThanWellFounded
  <1>2. \A x, y \in Nat : y < x => <<y, x>> \in Less
    BY DEF OpToRel
  <1> HIDE DEF Less
  <1>3. PICK x \in T : \A y \in T : ~(<<y, x>> \in Less)
    BY <1>1, WFMin
  <1>4. ASSUME NEW y \in T PROVE x <= y
    <2>1. x \in Nat /\ y \in Nat /\ ~(y < x)
      BY <1>2, <1>3
    <2>2. QED
      BY <2>1
  <1>5. QED
    BY <1>4

\* Induction along the numbers up to n.
LEMMA UpTo ==
  ASSUME NEW n \in Nat, NEW P, 0 \in P, \A k \in 0..(n - 1) : k \in P => k + 1 \in P
  PROVE  0..n \subseteq P
  <1> DEFINE T == (0..n) \ P
  <1> SUFFICES ASSUME T # {} PROVE FALSE
    OBVIOUS
  <1>1. T \subseteq Nat
    OBVIOUS
  <1>2. PICK x \in T : \A y \in T : x <= y
    <2> HIDE DEF T
    <2>1. QED
      BY <1>1, NatLeast
  <1>3. x \in 1..n /\ x - 1 \in 0..(n - 1) /\ x - 1 \notin T
    BY <1>2
  <1>4. QED
    BY <1>2, <1>3

\* Induction over the parts of a finite set.
LEMMA SetInduction ==
  ASSUME NEW K, IsFiniteSet(K), NEW P, {} \in P,
         \A s \in SUBSET K, x \in K : x \notin s /\ s \in P => s \cup {x} \in P
  PROVE  SUBSET K \subseteq P
  <1> SUFFICES ASSUME NEW r \in SUBSET K, r \notin P PROVE FALSE
    OBVIOUS
  <1> DEFINE T == {Cardinality(s) : s \in (SUBSET K) \ P}
  <1>1. \A s \in SUBSET K : IsFiniteSet(s) /\ Cardinality(s) \in Nat
    BY FS_Subset, FS_CardinalityType
  <1>2. T \subseteq Nat /\ T # {}
    <2>1. Cardinality(r) \in T
      OBVIOUS
    <2>2. QED
      BY <1>1, <2>1
  <1>3. PICK n \in T : \A m \in T : n <= m
    <2> HIDE DEF T
    <2>1. QED
      BY <1>2, NatLeast
  <1>4. PICK s \in (SUBSET K) \ P : Cardinality(s) = n
    BY <1>3
  <1>5. PICK x \in s : s \ {x} \notin P
    <2> HIDE DEF T
    <2>1. PICK x \in s : TRUE
      BY <1>4
    <2>2. s = (s \ {x}) \cup {x} /\ s \ {x} \in SUBSET K /\ x \in K /\ x \notin s \ {x}
      BY <1>4, <2>1
    <2>3. QED
      BY <1>4, <2>1, <2>2
  <1>6. Cardinality(s \ {x}) = n - 1
    BY <1>1, <1>4, <1>5, FS_RemoveElement
  <1>7. n - 1 \in T /\ n \in Int
    <2>1. s \ {x} \in (SUBSET K) \ P
      BY <1>4, <1>5
    <2>2. QED
      BY <1>2, <1>6, <2>1
  <1>8. QED
    BY <1>3, <1>7

\* W[s] is the sum of g over s, in whatever order.
Adds(K, g, W) ==
  /\ W \in [SUBSET K -> Int] /\ W[{}] = 0
  /\ \A s \in SUBSET K : \A x \in s : W[s] = g[x] + W[s \ {x}]

Total(K, g) == (CHOOSE W : Adds(K, g, W))[K]
IntOn(K, g) == \A x \in K : g[x] \in Int

LEMMA AddsExist ==
  ASSUME NEW K, IsFiniteSet(K), NEW g, IntOn(K, g)
  PROVE  \E W : Adds(K, g, W)
  <1> DEFINE P == {s \in SUBSET K : \E W : Adds(s, g, W)}
  <1>1. {} \in P
    <2> DEFINE z == [s \in SUBSET {} |-> 0]
    <2>1. Adds({}, g, z)
      BY DEF Adds
    <2>2. QED
      BY <2>1
  <1>2. ASSUME NEW s \in SUBSET K, NEW x \in K, x \notin s, s \in P
        PROVE  s \cup {x} \in P
    <2>1. PICK W : Adds(s, g, W)
      BY <1>2
    <2> DEFINE V == [t \in SUBSET (s \cup {x}) |->
                       IF x \in t THEN g[x] + W[t \ {x}] ELSE W[t]]
    <2>2. \A t \in SUBSET (s \cup {x}) :
            /\ t \ {x} \in SUBSET s /\ (x \notin t => t \in SUBSET s)
            /\ \A y \in t : t \ {y} \in SUBSET (s \cup {x}) /\ (y # x => y \in s)
      OBVIOUS
    <2>3. V \in [SUBSET (s \cup {x}) -> Int] /\ V[{}] = 0
      <3>1. g[x] \in Int
        BY DEF IntOn
      <3>2. QED
        BY <2>1, <2>2, <3>1 DEF Adds
    <2>4. ASSUME NEW t \in SUBSET (s \cup {x}), NEW y \in t
          PROVE  V[t] = g[y] + V[t \ {y}]
      <3>1. CASE x \notin t
        <4>1. t \in SUBSET s /\ t \ {y} \in SUBSET (s \cup {x}) /\ x \notin t \ {y}
          BY <3>1
        <4>2. V[t] = W[t] /\ V[t \ {y}] = W[t \ {y}]
          BY <3>1, <4>1
        <4>3. QED
          BY <2>1, <4>1, <4>2 DEF Adds
      <3>2. CASE x = y
        <4>1. V[t] = g[x] + W[t \ {x}]
          BY <3>2
        <4>2. t \ {x} \in SUBSET (s \cup {x}) /\ x \notin t \ {x}
          OBVIOUS
        <4>3. V[t \ {x}] = W[t \ {x}]
          BY <4>2
        <4> HIDE DEF V
        <4>4. QED
          BY <3>2, <4>1, <4>3
      <3>3. CASE x \in t /\ x # y
        <4> DEFINE r == t \ {x}
                   o == t \ {y}
        <4>1. r \in SUBSET s /\ y \in r /\ o \in SUBSET (s \cup {x}) /\ x \in o
          BY <3>3
        <4>2. o \ {x} = r \ {y} /\ r \ {y} \in SUBSET s
          BY <4>1
        <4>3. V[t] = g[x] + W[r] /\ V[o] = g[x] + W[o \ {x}]
          BY <3>3, <4>1
        <4> HIDE DEF V, r, o
        <4>4. W[r] = g[y] + W[r \ {y}] /\ W[r \ {y}] \in Int
          BY <2>1, <4>1, <4>2 DEF Adds
        <4>5. g[x] \in Int /\ g[y] \in Int
          BY <1>2, <4>1 DEF IntOn
        <4>6. V[o] = g[x] + W[r \ {y}] /\ V[t] = g[x] + W[r]
          BY <4>2, <4>3
        <4>7. V[t] = g[y] + V[o]
          BY <4>4, <4>5, <4>6
        <4>8. QED
          BY <4>7 DEF o
      <3>4. QED
        BY <3>1, <3>2, <3>3
    <2> HIDE DEF V
    <2>5. Adds(s \cup {x}, g, V)
      BY <2>3, <2>4 DEF Adds
    <2>6. QED
      BY <1>2, <2>5
  <1> HIDE DEF P
  <1>3. SUBSET K \subseteq P
    BY <1>1, <1>2, SetInduction
  <1>4. QED
    BY <1>3 DEF P

\* Two such functions agree where both are defined.
LEMMA AddsSame ==
  ASSUME NEW K, IsFiniteSet(K), NEW g, IntOn(K, g), NEW W, Adds(K, g, W), NEW s \in SUBSET K
  PROVE  W[s] = Total(s, g)
  <1>1. IsFiniteSet(s) /\ IntOn(s, g)
    BY FS_Subset DEF IntOn
  <1> DEFINE V == CHOOSE U : Adds(s, g, U)
  <1>2. Adds(s, g, V)
    BY <1>1, AddsExist
  <1>3. Total(s, g) = V[s]
    BY DEF Total
  <1> HIDE DEF V
  <1> DEFINE P == {t \in SUBSET s : W[t] = V[t]}
  <1>4. {} \in P
    BY <1>2 DEF Adds
  <1>5. ASSUME NEW t \in SUBSET s, NEW x \in s, x \notin t, t \in P PROVE t \cup {x} \in P
    <2>1. t \cup {x} \in SUBSET s /\ t \cup {x} \in SUBSET K /\ (t \cup {x}) \ {x} = t
      BY <1>5
    <2>2. W[t \cup {x}] = g[x] + W[t]
      BY <2>1 DEF Adds
    <2>3. V[t \cup {x}] = g[x] + V[t]
      <3>1. \A r \in SUBSET s : \A y \in r : V[r] = g[y] + V[r \ {y}]
        BY <1>2 DEF Adds
      <3>2. V[t \cup {x}] = g[x] + V[(t \cup {x}) \ {x}]
        BY <2>1, <3>1
      <3>3. QED
        BY <2>1, <3>2
    <2>4. QED
      BY <1>5, <2>1, <2>2, <2>3
  <1> HIDE DEF P
  <1>6. SUBSET s \subseteq P
    BY <1>1, <1>4, <1>5, SetInduction
  <1>7. QED
    BY <1>3, <1>6 DEF P

LEMMA TotalAdd ==
  ASSUME NEW K, IsFiniteSet(K), NEW g, IntOn(K, g)
  PROVE  /\ Total(K, g) \in Int /\ Total({}, g) = 0
         /\ \A s \in SUBSET K : \A x \in K :
              x \notin s => Total(s \cup {x}, g) = g[x] + Total(s, g) /\ Total(s, g) \in Int
  <1>1. PICK W : Adds(K, g, W)
    BY AddsExist
  <1>2. \A s \in SUBSET K : W[s] = Total(s, g)
    BY <1>1, AddsSame
  <1>3. ASSUME NEW s \in SUBSET K, NEW x \in K, x \notin s
        PROVE  Total(s \cup {x}, g) = g[x] + Total(s, g) /\ Total(s, g) \in Int
    <2>1. s \cup {x} \in SUBSET K /\ (s \cup {x}) \ {x} = s
      BY <1>3
    <2>2. W[s \cup {x}] = g[x] + W[s] /\ W[s] \in Int
      BY <1>1, <2>1 DEF Adds
    <2>3. QED
      BY <1>2, <2>1, <2>2
  <1>4. {} \in SUBSET K /\ K \in SUBSET K
    OBVIOUS
  <1>5. QED
    BY <1>1, <1>2, <1>3, <1>4 DEF Adds

\* The recursion of MapThenFoldSet has a solution, the sums, in whatever order.
LEMMA TotalFolds ==
  ASSUME NEW K, IsFiniteSet(K), NEW g, IntOn(K, g), NEW s \in SUBSET K, NEW x \in s
  PROVE  /\ s \ {x} \in SUBSET K
         /\ Total(s, g) = g[x] + Total(s \ {x}, g) /\ Total(s \ {x}, g) \in Int
  <1> DEFINE r == s \ {x}
  <1>1. x \in K /\ r \in SUBSET K /\ x \notin r /\ r \cup {x} = s
    OBVIOUS
  <1> HIDE DEF r
  <1>2. Total(r \cup {x}, g) = g[x] + Total(r, g) /\ Total(r, g) \in Int
    BY <1>1, TotalAdd
  <1>3. QED
    BY <1>1, <1>2 DEF r

\* And none but that.
LEMMA FoldIsTotal ==
  ASSUME NEW K, IsFiniteSet(K), NEW g, IntOn(K, g), NEW it, it[{}] = 0,
         \A s \in SUBSET K : s # {} =>
           \E x \in s : it[s \ {x}] \in Int => it[s] = g[x] + it[s \ {x}]
  PROVE  it[K] = Total(K, g)
  <1> DEFINE Q == {n \in Nat : \A s \in SUBSET K : Cardinality(s) <= n => it[s] = Total(s, g)}
  <1>1. \A s \in SUBSET K : IsFiniteSet(s) /\ Cardinality(s) \in Nat
    BY FS_Subset, FS_CardinalityType
  <1>2. 0 \in Q
    <2>1. ASSUME NEW s \in SUBSET K, Cardinality(s) <= 0 PROVE it[s] = Total(s, g)
      <3>1. s = {}
        BY <1>1, <2>1, FS_EmptySet
      <3>2. QED
        BY <3>1, TotalAdd
    <2>2. QED
      BY <2>1
  <1>3. ASSUME NEW n \in 0..(Cardinality(K) - 1), n \in Q PROVE n + 1 \in Q
    <2>1. ASSUME NEW s \in SUBSET K, Cardinality(s) <= n + 1, s # {} PROVE it[s] = Total(s, g)
      <3>1. PICK x \in s : it[s \ {x}] \in Int => it[s] = g[x] + it[s \ {x}]
        BY <2>1
      <3>2. /\ s \ {x} \in SUBSET K
            /\ Total(s, g) = g[x] + Total(s \ {x}, g) /\ Total(s \ {x}, g) \in Int
        BY TotalFolds
      <3>3. Cardinality(s \ {x}) = Cardinality(s) - 1
        BY <1>1, FS_RemoveElement
      <3>4. it[s \ {x}] = Total(s \ {x}, g)
        BY <1>1, <1>3, <2>1, <3>2, <3>3
      <3>5. QED
        BY <3>1, <3>2, <3>4
    <2>2. it[{}] = Total({}, g)
      BY TotalAdd
    <2>3. n + 1 \in Nat
      OBVIOUS
    <2>4. \A s \in SUBSET K : Cardinality(s) <= n + 1 => it[s] = Total(s, g)
      BY <2>1, <2>2
    <2>5. QED
      BY <2>3, <2>4
  <1>4. Cardinality(K) \in Nat /\ K \in SUBSET K
    BY <1>1
  <1> HIDE DEF Q
  <1>5. 0..Cardinality(K) \subseteq Q
    BY <1>2, <1>3, <1>4, UpTo
  <1>6. QED
    BY <1>4, <1>5 DEF Q

\* Sums of values that are no larger.
LEMMA TotalLeq ==
  ASSUME NEW K, IsFiniteSet(K), NEW g, NEW h, IntOn(K, g), IntOn(K, h),
         \A x \in K : g[x] <= h[x]
  PROVE  Total(K, g) <= Total(K, h)
  <1> DEFINE P == {s \in SUBSET K : Total(s, g) <= Total(s, h)}
  <1>1. {} \in P
    BY TotalAdd
  <1>2. ASSUME NEW s \in SUBSET K, NEW x \in K, x \notin s, s \in P PROVE s \cup {x} \in P
    <2>1. Total(s \cup {x}, g) = g[x] + Total(s, g) /\ Total(s, g) \in Int
      BY <1>2, TotalAdd
    <2>2. Total(s \cup {x}, h) = h[x] + Total(s, h) /\ Total(s, h) \in Int
      BY <1>2, TotalAdd
    <2>3. g[x] \in Int /\ h[x] \in Int /\ g[x] <= h[x] /\ Total(s, g) <= Total(s, h)
      BY <1>2 DEF IntOn
    <2>4. QED
      BY <2>1, <2>2, <2>3
  <1> HIDE DEF P
  <1>3. SUBSET K \subseteq P
    BY <1>1, <1>2, SetInduction
  <1>4. QED
    BY <1>3 DEF P

LEMMA TotalSame ==
  ASSUME NEW K, IsFiniteSet(K), NEW g, NEW h, IntOn(K, g), \A x \in K : g[x] = h[x]
  PROVE  Total(K, g) = Total(K, h)
  <1>1. IntOn(K, h) /\ \A x \in K : g[x] <= h[x] /\ h[x] <= g[x]
    BY DEF IntOn
  <1>2. Total(K, g) <= Total(K, h) /\ Total(K, h) <= Total(K, g)
    BY <1>1, TotalLeq
  <1>3. QED
    BY <1>1, <1>2, TotalAdd

LEMMA TotalTimes ==
  ASSUME NEW K, IsFiniteSet(K), NEW g, NEW h, IntOn(K, g), NEW k \in Int,
         \A x \in K : h[x] = k * g[x]
  PROVE  Total(K, h) = k * Total(K, g)
  <1>0. IntOn(K, h)
    BY DEF IntOn
  <1> DEFINE P == {s \in SUBSET K : Total(s, h) = k * Total(s, g)}
  <1>1. {} \in P
    BY <1>0, TotalAdd
  <1>2. ASSUME NEW s \in SUBSET K, NEW x \in K, x \notin s, s \in P PROVE s \cup {x} \in P
    <2>1. Total(s \cup {x}, g) = g[x] + Total(s, g) /\ Total(s, g) \in Int
      BY <1>2, TotalAdd
    <2>2. Total(s \cup {x}, h) = h[x] + Total(s, h)
      BY <1>0, <1>2, TotalAdd
    <2>3. g[x] \in Int /\ h[x] = k * g[x] /\ Total(s, h) = k * Total(s, g)
      BY <1>2 DEF IntOn
    <2>4. \A a, b \in Int : k * a + k * b = k * (a + b)
      OBVIOUS
    <2>5. Total(s \cup {x}, h) = k * (g[x] + Total(s, g))
      BY <2>1, <2>2, <2>3, <2>4
    <2>6. QED
      BY <2>1, <2>5
  <1> HIDE DEF P
  <1>3. SUBSET K \subseteq P
    BY <1>1, <1>2, SetInduction
  <1>4. QED
    BY <1>3 DEF P

LEMMA TotalConst ==
  ASSUME NEW K, IsFiniteSet(K), NEW g, NEW k \in Int, \A x \in K : g[x] = k
  PROVE  Total(K, g) = k * Cardinality(K) /\ Cardinality(K) \in Nat
  <1>0. IntOn(K, g) /\ Cardinality(K) \in Nat
    BY FS_CardinalityType DEF IntOn
  <1> DEFINE P == {s \in SUBSET K : Total(s, g) = k * Cardinality(s)}
  <1>1. {} \in P
    BY <1>0, TotalAdd, FS_EmptySet
  <1>2. ASSUME NEW s \in SUBSET K, NEW x \in K, x \notin s, s \in P PROVE s \cup {x} \in P
    <2>1. Total(s \cup {x}, g) = k + Total(s, g)
      BY <1>0, <1>2, TotalAdd
    <2>2. IsFiniteSet(s) /\ Cardinality(s) \in Nat
      BY FS_Subset, FS_CardinalityType
    <2>3. Cardinality(s \cup {x}) = Cardinality(s) + 1
      BY <1>2, <2>2, FS_AddElement
    <2>4. \A n \in Nat : k + k * n = k * (n + 1)
      OBVIOUS
    <2>5. QED
      BY <1>2, <2>1, <2>2, <2>3, <2>4
  <1> HIDE DEF P
  <1>3. SUBSET K \subseteq P
    BY <1>1, <1>2, SetInduction
  <1>4. QED
    BY <1>0, <1>3 DEF P

\* A sum over two parts that have nothing in common.
LEMMA TotalParts ==
  ASSUME NEW A, NEW K, IsFiniteSet(A), IsFiniteSet(K), A \cap K = {},
         NEW g, IntOn(A \cup K, g)
  PROVE  Total(A \cup K, g) = Total(A, g) + Total(K, g)
  <1>0. IsFiniteSet(A \cup K) /\ IntOn(A, g) /\ IntOn(K, g)
    BY FS_Union DEF IntOn
  <1> DEFINE P == {s \in SUBSET K : Total(A \cup s, g) = Total(A, g) + Total(s, g)}
  <1>1. {} \in P
    <2>1. A \cup {} = A /\ Total({}, g) = 0 /\ Total(A, g) \in Int
      BY <1>0, TotalAdd
    <2>2. QED
      BY <2>1
  <1>2. ASSUME NEW s \in SUBSET K, NEW x \in K, x \notin s, s \in P PROVE s \cup {x} \in P
    <2>1. Total(s \cup {x}, g) = g[x] + Total(s, g) /\ Total(s, g) \in Int
      BY <1>0, <1>2, TotalAdd
    <2>2. /\ A \cup s \in SUBSET (A \cup K) /\ x \in A \cup K /\ x \notin A \cup s
          /\ A \cup (s \cup {x}) = (A \cup s) \cup {x}
      BY <1>2
    <2>3. Total(A \cup (s \cup {x}), g) = g[x] + Total(A \cup s, g)
      <3> DEFINE r == A \cup s
                 U == A \cup K
      <3>1. r \in SUBSET U /\ x \in U /\ x \notin r /\ IsFiniteSet(U) /\ IntOn(U, g)
        BY <1>0, <2>2
      <3> HIDE DEF r, U
      <3>2. Total(r \cup {x}, g) = g[x] + Total(r, g)
        BY <3>1, TotalAdd
      <3>3. QED
        BY <2>2, <3>2 DEF r
    <2>4. g[x] \in Int /\ Total(A, g) \in Int
      BY <1>0, TotalAdd DEF IntOn
    <2>5. QED
      BY <1>2, <2>1, <2>3, <2>4
  <1> HIDE DEF P
  <1>3. SUBSET K \subseteq P
    <2>1. \A s \in SUBSET K, x \in K : x \notin s /\ s \in P => s \cup {x} \in P
      BY <1>2
    <2>2. IsFiniteSet(K)
      OBVIOUS
    <2>3. {} \in P
      BY <1>1
    <2>4. QED
      BY ONLY <2>1, <2>2, <2>3, SetInduction
  <1>4. QED
    BY <1>3 DEF P

------------------------------------------------------------------------------
(* Powers of two, up to what a latency of the model can need *)

LEMMA Powers ==
  /\ 2^0 = 1 /\ 2^1 = 2 /\ 2^2 = 4 /\ 2^3 = 8
  /\ 2^4 = 16 /\ 2^5 = 32 /\ 2^6 = 64 /\ 2^7 = 128
  /\ 2^8 = 256 /\ 2^9 = 512 /\ 2^10 = 1024 /\ 2^11 = 2048
  /\ 2^12 = 4096 /\ 2^13 = 8192 /\ 2^14 = 16384 /\ 2^15 = 32768
  /\ 2^16 = 65536 /\ 2^17 = 131072 /\ 2^18 = 262144 /\ 2^19 = 524288
  /\ 2^20 = 1048576 /\ 2^21 = 2097152 /\ 2^22 = 4194304 /\ 2^23 = 8388608
  /\ 2^24 = 16777216 /\ 2^25 = 33554432 /\ 2^26 = 67108864 /\ 2^27 = 134217728
  /\ 2^28 = 268435456 /\ 2^29 = 536870912 /\ 2^30 = 1073741824 /\ 2^31 = 2147483648
  OBVIOUS

LEMMA PowStep ==
  ASSUME NEW b \in 0..30
  PROVE  2^b \in Nat \ {0} /\ 2^(b + 1) \in Nat \ {0} /\ 2^(b + 1) = 2 * 2^b
  <1>1. CASE b = 0 BY <1>1, Powers
  <1>2. CASE b = 1 BY <1>2, Powers
  <1>3. CASE b = 2 BY <1>3, Powers
  <1>4. CASE b = 3 BY <1>4, Powers
  <1>5. CASE b = 4 BY <1>5, Powers
  <1>6. CASE b = 5 BY <1>6, Powers
  <1>7. CASE b = 6 BY <1>7, Powers
  <1>8. CASE b = 7 BY <1>8, Powers
  <1>9. CASE b = 8 BY <1>9, Powers
  <1>10. CASE b = 9 BY <1>10, Powers
  <1>11. CASE b = 10 BY <1>11, Powers
  <1>12. CASE b = 11 BY <1>12, Powers
  <1>13. CASE b = 12 BY <1>13, Powers
  <1>14. CASE b = 13 BY <1>14, Powers
  <1>15. CASE b = 14 BY <1>15, Powers
  <1>16. CASE b = 15 BY <1>16, Powers
  <1>17. CASE b = 16 BY <1>17, Powers
  <1>18. CASE b = 17 BY <1>18, Powers
  <1>19. CASE b = 18 BY <1>19, Powers
  <1>20. CASE b = 19 BY <1>20, Powers
  <1>21. CASE b = 20 BY <1>21, Powers
  <1>22. CASE b = 21 BY <1>22, Powers
  <1>23. CASE b = 22 BY <1>23, Powers
  <1>24. CASE b = 23 BY <1>24, Powers
  <1>25. CASE b = 24 BY <1>25, Powers
  <1>26. CASE b = 25 BY <1>26, Powers
  <1>27. CASE b = 26 BY <1>27, Powers
  <1>28. CASE b = 27 BY <1>28, Powers
  <1>29. CASE b = 28 BY <1>29, Powers
  <1>30. CASE b = 29 BY <1>30, Powers
  <1>31. CASE b = 30 BY <1>31, Powers
  <1>32. \/ b = 0 \/ b = 1 \/ b = 2 \/ b = 3 \/ b = 4 \/ b = 5 \/ b = 6 \/ b = 7 \/ b = 8 \/ b = 9
         \/ b = 10 \/ b = 11 \/ b = 12 \/ b = 13 \/ b = 14 \/ b = 15 \/ b = 16 \/ b = 17 \/ b = 18 \/ b = 19
         \/ b = 20 \/ b = 21 \/ b = 22 \/ b = 23 \/ b = 24 \/ b = 25 \/ b = 26 \/ b = 27 \/ b = 28 \/ b = 29 \/ b = 30
    OBVIOUS
  <1>33. QED
    BY <1>1, <1>2, <1>3, <1>4, <1>5, <1>6, <1>7, <1>8, <1>9, <1>10, <1>11, <1>12, <1>13, <1>14, <1>15, <1>16,
       <1>17, <1>18, <1>19, <1>20, <1>21, <1>22, <1>23, <1>24, <1>25, <1>26, <1>27, <1>28, <1>29, <1>30, <1>31, <1>32

\* The powers grow.
LEMMA PowMonotone ==
  ASSUME NEW b \in 0..31, NEW c \in 0..31, b <= c
  PROVE  2^b \in Nat \ {0} /\ 2^c \in Nat \ {0} /\ 2^b <= 2^c
  <1> DEFINE P == {k \in 0..(31 - b) : 2^(b + k) \in Nat \ {0} /\ 2^b <= 2^(b + k)}
  <1>1. 2^b \in Nat \ {0}
    <2>1. CASE b = 31
      BY <2>1, Powers
    <2>2. CASE b # 31
      <3>1. b \in 0..30
        BY <2>2
      <3>2. QED
        BY <3>1, PowStep
    <2>3. QED
      BY <2>1, <2>2
  <1>2. 0 \in P
    <2>1. b + 0 = b
      OBVIOUS
    <2>2. QED
      BY <1>1, <2>1
  <1>3. ASSUME NEW k \in 0..(31 - b - 1), k \in P PROVE k + 1 \in P
    <2>1. b + k \in 0..30 /\ (b + k) + 1 = b + (k + 1) /\ k + 1 \in 0..(31 - b)
      OBVIOUS
    <2>2. 2^((b + k) + 1) \in Nat \ {0} /\ 2^((b + k) + 1) = 2 * 2^(b + k)
      BY <2>1, PowStep
    <2>3. 2^b <= 2^((b + k) + 1)
      BY <1>1, <1>3, <2>2
    <2>4. QED
      BY <2>1, <2>2, <2>3
  <1> HIDE DEF P
  <1>4. 0..(31 - b) \subseteq P
    <2>1. 31 - b \in Nat
      OBVIOUS
    <2>2. QED
      BY ONLY <1>2, <1>3, <2>1, UpTo
  <1>5. c - b \in P
    BY <1>4
  <1>6. b + (c - b) = c
    OBVIOUS
  <1>7. QED
    BY <1>1, <1>5, <1>6 DEF P

------------------------------------------------------------------------------
(* The statistics of the report *)

LEMMA MaximumIn ==
  ASSUME NEW n \in Nat, NEW t \in SUBSET (1..n), t # {}
  PROVE  Max(t) \in t /\ \A y \in t : Max(t) >= y
  <1> DEFINE T == {n - x : x \in t}
  <1>1. T \subseteq Nat /\ T # {}
    OBVIOUS
  <1>2. PICK k \in T : \A m \in T : k <= m
    <2> HIDE DEF T
    <2>1. QED
      BY <1>1, NatLeast
  <1>3. PICK x \in t : k = n - x
    BY <1>2
  <1>4. ASSUME NEW y \in t PROVE x >= y
    <2>1. n - y \in T
      OBVIOUS
    <2>2. n - x <= n - y /\ x \in Int /\ y \in Int
      BY <1>2, <1>3, <2>1
    <2>3. QED
      BY <2>2
  <1>5. \E z \in t : \A y \in t : z >= y
    BY <1>4
  <1>6. QED
    BY <1>5 DEF Max

LEMMA MaxUpTo ==
  ASSUME NEW k \in Nat \ {0}
  PROVE  Max(1..k) = k /\ (1..k) \ {k} = 1..(k - 1)
  <1>1. 1..k \in SUBSET (1..k) /\ 1..k # {} /\ k \in 1..k
    OBVIOUS
  <1> DEFINE K == 1..k
  <1>2. \A y \in K : y \in Int /\ y <= k
    OBVIOUS
  <1> HIDE DEF K
  <1>3. Max(K) \in K /\ Max(K) >= k
    BY <1>1, MaximumIn DEF K
  <1>4. Max(K) = k
    BY <1>2, <1>3
  <1>5. (1..k) \ {k} = 1..(k - 1)
    OBVIOUS
  <1>6. QED
    BY <1>4, <1>5 DEF K

\* The sum of a sequence.
LEMMA SumIs ==
  ASSUME NEW s \in Seq(Int)
  PROVE  /\ SumOf(s) = Total(1..Len(s), s) /\ SumOf(s) \in Int
         /\ IsFiniteSet(1..Len(s)) /\ IntOn(1..Len(s), s)
  <1> DEFINE K == 1..Len(s)
             Rec(it) == it = [t \in SUBSET DOMAIN s |->
                                IF t = {} THEN 0 ELSE it[t \ {Max(t)}] + s[Max(t)]]
             W == [t \in SUBSET DOMAIN s |-> Total(t, s)]
  <1>1. SumOf(s) = (CHOOSE it : Rec(it))[DOMAIN s]
    BY DEF SumOf, FoldLeft, MapThenFoldSet
  <1>2. DOMAIN s = K /\ Len(s) \in Nat /\ IntOn(K, s)
    BY DEF IntOn
  <1>3. IsFiniteSet(K)
    BY <1>2, FS_Interval
  <1>4. ASSUME NEW t \in SUBSET K, t # {}
        PROVE  Max(t) \in t /\ s[Max(t)] \in Int
    <2>1. Max(t) \in t
      BY <1>2, <1>4, MaximumIn
    <2>2. QED
      BY <1>2, <2>1 DEF IntOn
  <1> HIDE DEF K
  <1>5. Rec(W)
    <2>1. ASSUME NEW t \in SUBSET K, t # {} PROVE Total(t, s) = W[t \ {Max(t)}] + s[Max(t)]
      <3> DEFINE x == Max(t)
      <3>1. x \in t /\ s[x] \in Int
        BY <1>4, <2>1
      <3> HIDE DEF x
      <3>2. /\ t \ {x} \in SUBSET K
            /\ Total(t, s) = s[x] + Total(t \ {x}, s) /\ Total(t \ {x}, s) \in Int
        <4>1. IntOn(K, s) /\ IsFiniteSet(K) /\ t \in SUBSET K
          BY <1>2, <1>3
        <4>2. QED
          BY ONLY <3>1, <4>1, TotalFolds
      <3>3. W[t \ {x}] = Total(t \ {x}, s)
        BY <1>2, <3>2
      <3> HIDE DEF W
      <3>4. Total(t, s) = W[t \ {x}] + s[x]
        BY <3>1, <3>2, <3>3
      <3>5. QED
        BY <3>4 DEF x
    <2>2. Total({}, s) = 0
      BY <1>2, <1>3, TotalAdd
    <2>3. QED
      BY <1>2, <2>1, <2>2
  <1>6. ASSUME NEW it, Rec(it) PROVE it[K] = Total(K, s)
    <2>1. it[{}] = 0
      BY <1>2, <1>6
    <2>2. ASSUME NEW t \in SUBSET K, t # {}
          PROVE  \E x \in t : it[t \ {x}] \in Int => it[t] = s[x] + it[t \ {x}]
      <3>1. it[t] = it[t \ {Max(t)}] + s[Max(t)]
        BY <1>2, <1>6, <2>2
      <3>2. Max(t) \in t /\ s[Max(t)] \in Int
        BY <1>4, <2>2
      <3> DEFINE x == Max(t)
      <3>3. x \in t /\ s[x] \in Int /\ it[t] = it[t \ {x}] + s[x]
        BY <3>1, <3>2
      <3> HIDE DEF Rec, x
      <3>4. it[t \ {x}] \in Int => it[t] = s[x] + it[t \ {x}]
        BY <3>3
      <3>5. QED
        BY <3>3, <3>4
    <2> HIDE DEF Rec
    <2>3. QED
      BY <1>2, <1>3, <2>1, <2>2, FoldIsTotal
  <1> HIDE DEF Rec
  <1>7. Rec(CHOOSE it : Rec(it))
    BY <1>5
  <1>8. SumOf(s) = Total(K, s)
    BY <1>1, <1>2, <1>6, <1>7
  <1>9. QED
    BY <1>2, <1>3, <1>8, TotalAdd DEF K

\* A sum over buckets of a histogram.
LEMMA CallsIs ==
  ASSUME NEW B, IsFiniteSet(B), NEW hist, IntOn(B, hist)
  PROVE  Calls(hist, B) = Total(B, hist)
  <1> DEFINE c(t) == CHOOSE x \in t : TRUE
             Rec(it) == it = [t \in SUBSET B |->
                                IF t = {} THEN 0 ELSE hist[c(t)] + it[t \ {c(t)}]]
             W == [t \in SUBSET B |-> Total(t, hist)]
  <1>1. Calls(hist, B) = (CHOOSE it : Rec(it))[B]
    BY DEF Calls, MapThenSumSet, MapThenFoldSet
  <1>2. ASSUME NEW t, t # {} PROVE c(t) \in t
    BY <1>2
  <1> HIDE DEF c
  <1>3. Rec(W)
    <2>1. ASSUME NEW t \in SUBSET B, t # {}
          PROVE  t \ {c(t)} \in SUBSET B /\ Total(t, hist) = hist[c(t)] + Total(t \ {c(t)}, hist)
      <3> DEFINE x == c(t)
      <3>1. x \in t
        BY <1>2, <2>1
      <3> HIDE DEF x
      <3>2. t \ {x} \in SUBSET B /\ Total(t, hist) = hist[x] + Total(t \ {x}, hist)
        BY <3>1, TotalFolds
      <3>3. QED
        BY <3>2 DEF x
    <2>2. Total({}, hist) = 0
      BY TotalAdd
    <2>3. QED
      BY <2>1, <2>2
  <1>4. ASSUME NEW it, Rec(it) PROVE it[B] = Total(B, hist)
    <2>1. it[{}] = 0
      BY <1>4
    <2>2. ASSUME NEW t \in SUBSET B, t # {}
          PROVE  \E x \in t : it[t \ {x}] \in Int => it[t] = hist[x] + it[t \ {x}]
      <3>1. it[t] = hist[c(t)] + it[t \ {c(t)}]
        BY <1>4, <2>2
      <3> HIDE DEF Rec
      <3>2. QED
        BY <1>2, <2>2, <3>1
    <2> HIDE DEF Rec
    <2>3. QED
      BY <2>1, <2>2, FoldIsTotal
  <1> HIDE DEF Rec
  <1>5. Rec(CHOOSE it : Rec(it))
    BY <1>3
  <1>6. QED
    BY <1>1, <1>4, <1>5

\* A sum of squares.
LEMMA DevIsNat ==
  ASSUME NEW s \in Seq(Int)
  PROVE  Dev(s) \in Nat
  <1> DEFINE o == [i \in 1..Len(s) |-> Square(Len(s) * s[i] - SumOf(s))]
             z == [i \in 1..Len(s) |-> 0]
  <1>1. SumOf(s) \in Int /\ Len(s) \in Nat
    BY SumIs
  <1>2. \A x \in Int : Square(x) \in Int /\ Square(x) >= 0
    BY DEF Square
  <1>3. \A i \in 1..Len(s) : Len(s) * s[i] - SumOf(s) \in Int
    BY <1>1
  <1>4. \A i \in 1..Len(s) : o[i] \in Int /\ o[i] >= 0
    BY <1>2, <1>3
  <1>5. o \in Seq(Int) /\ Len(o) = Len(s)
    BY <1>1, <1>4
  <1> HIDE DEF o
  <1>6. SumOf(o) = Total(1..Len(s), o) /\ SumOf(o) \in Int
    BY <1>5, SumIs
  <1>7. IsFiniteSet(1..Len(s)) /\ IntOn(1..Len(s), o) /\ IntOn(1..Len(s), z)
    BY <1>4, SumIs DEF IntOn
  <1>8. Total(1..Len(s), z) = 0
    <2>1. \A i \in 1..Len(s) : z[i] = 0
      OBVIOUS
    <2> DEFINE K == 1..Len(s)
               k == 0
    <2>2. \A i \in K : z[i] = k
      BY <2>1
    <2>3. IsFiniteSet(K) /\ k \in Int
      BY <1>7
    <2> HIDE DEF z, K, k
    <2>4. Total(K, z) = k * Cardinality(K) /\ Cardinality(K) \in Nat
      BY <2>2, <2>3, TotalConst
    <2>5. QED
      BY <2>4 DEF K, k
  <1>9. Total(1..Len(s), z) <= Total(1..Len(s), o)
    <2>1. \A i \in 1..Len(s) : z[i] <= o[i]
      BY <1>4
    <2> HIDE DEF z
    <2>2. QED
      BY <1>7, <2>1, TotalLeq
  <1>10. Dev(s) = SumOf(o)
    BY DEF Dev, o
  <1>11. QED
    BY <1>6, <1>8, <1>9, <1>10

LEMMA ProductsOrder ==
  ASSUME NEW a \in Int, NEW b \in Int, NEW n \in Nat \ {0}
  PROVE  /\ a < b => a * n < b * n
         /\ a <= b => a * n <= b * n
  <1>1. b * n - a * n = (b - a) * n
    OBVIOUS
  <1>2. ASSUME NEW d \in Int PROVE (d > 0 => d * n > 0) /\ (d >= 0 => d * n >= 0)
    OBVIOUS
  <1>3. b - a \in Int /\ a * n \in Int /\ b * n \in Int
    OBVIOUS
  <1> DEFINE d == b - a
             x == a * n
             y == b * n
             z == d * n
  <1>4. y - x = z /\ x \in Int /\ y \in Int /\ z \in Int /\ d \in Int
    BY <1>1, <1>3
  <1>5. (d > 0 => z > 0) /\ (d >= 0 => z >= 0)
    BY <1>2, <1>3
  <1> HIDE DEF x, y, z
  <1>6. (a < b => x < y) /\ (a <= b => x <= y)
    BY <1>4, <1>5
  <1>7. QED
    BY <1>6 DEF x, y

\* The three formulas with which report.py judges one row.
LEMMA InvalidIsLoud ==
  ASSUME NEW v \in Seq(Int) \ {<<>>}, NEW base \in Seq(Int) \ {<<>>}, Bogus(v, base)
  PROVE  Significance(v, base) = "over" /\ ~BelowFloor(v, base)
  <1> DEFINE s == Square(Slower(v, base))
             a == Len(v) * Dof(v)
             b == Len(base) * Dof(base)
             d == 4 * Dev(base) * Square(Len(v))
             e == 4 * Dev(v) * Square(Len(base))
  <1>1. Len(v) \in Nat \ {0} /\ Len(base) \in Nat \ {0}
    OBVIOUS
  <1>2. Dof(v) \in Nat \ {0} /\ Dof(base) \in Nat \ {0}
    <2>1. \A n \in Nat \ {0} : (IF n > 1 THEN n - 1 ELSE 1) \in Nat \ {0}
      OBVIOUS
    <2>2. QED
      BY <1>1, <2>1 DEF Dof
  <1>3. \A x, y \in Nat \ {0} : x * y \in Nat \ {0}
    OBVIOUS
  <1>4. a \in Nat \ {0} /\ b \in Nat \ {0}
    BY <1>1, <1>2, <1>3
  <1>5. \A x \in Int : Square(x) \in Nat
    BY DEF Square
  <1>6. s \in Nat
    <2>1. Slower(v, base) \in Int
      BY <1>1, SumIs DEF Slower
    <2>2. QED
      BY <1>5, <2>1
  <1>7. d \in Nat /\ e \in Nat
    <2>1. \A x, y \in Nat : 4 * x * y \in Nat
      OBVIOUS
    <2>2. /\ Dev(v) \in Nat /\ Square(Len(v)) \in Nat
          /\ Dev(base) \in Nat /\ Square(Len(base)) \in Nat
      <3>1. Len(v) \in Int /\ Len(base) \in Int /\ v \in Seq(Int) /\ base \in Seq(Int)
        BY <1>1
      <3>2. QED
        BY <1>5, <3>1, DevIsNat
    <2>3. QED
      BY <2>1, <2>2
  <1>8. DiffSquared(v, base) = s * a * b
    BY DEF DiffSquared
  <1>9. ErrorSquared(v, base) = d * a + e * b
    <2> DEFINE x == Dev(base)
               y == Square(Len(v))
               z == Dev(v)
               w == Square(Len(base))
    <2>1. x \in Nat /\ y \in Nat /\ z \in Nat /\ w \in Nat
      BY <1>1, <1>5, DevIsNat
    <2>2. ErrorSquared(v, base) = 4 * (x * y * a + z * w * b)
      BY DEF ErrorSquared
    <2>3. d * a + e * b = 4 * x * y * a + 4 * z * w * b
      OBVIOUS
    <2> HIDE DEF x, y, z, w, a, b, d, e
    <2>4. 4 * (x * y * a + z * w * b) = 4 * x * y * a + 4 * z * w * b
      BY <1>4, <2>1
    <2>5. QED
      BY <2>2, <2>3, <2>4
  <1>10. BelowFloor(v, base) <=> s * b < d
    BY DEF BelowFloor
  <1>11. s * a * b > d * a + e * b
    BY <1>8, <1>9 DEF Bogus
  <1> HIDE DEF s, a, b, d, e
  <1>12. d * a + e * b >= d * a /\ d * a \in Int
    BY <1>4, <1>7
  <1>13. s * a * b = (s * b) * a /\ s * b \in Int
    BY <1>4, <1>6
  <1>14. ~(s * b < d)
    <2>1. s * b < d => (s * b) * a < d * a
      BY <1>4, <1>7, <1>13, ProductsOrder
    <2> DEFINE x == (s * b) * a
               y == d * a
               z == e * b
    <2>2. x > y + z /\ y + z >= y /\ x \in Int /\ y \in Int /\ z \in Int
      BY <1>4, <1>6, <1>7, <1>11, <1>12, <1>13
    <2> HIDE DEF x, y, z
    <2>3. ~(x < y)
      BY <2>2
    <2>4. QED
      BY <2>1, <2>3 DEF x, y
  <1>15. ~(DiffSquared(v, base) < ErrorSquared(v, base))
    BY <1>4, <1>6, <1>7, <1>8, <1>9, <1>11
  <1>16. QED
    BY <1>10, <1>14, <1>15 DEF Significance

\* The recursion of FoldLeft over the positions 1..n of what is no sum;
\* G[<<i, v>>] is what it makes of position i after v.
Folds(n, base, G, it) ==
  \A t \in SUBSET (1..n) :
    it[t] = IF t = {} THEN base ELSE G[<<Max(t), it[t \ {Max(t)}]>>]

LEMMA MaxOf ==
  ASSUME NEW n \in Nat, NEW t \in SUBSET (1..(n + 1)), n + 1 \in t
  PROVE  Max(t) = n + 1
  <1> DEFINE m == CHOOSE x \in t : \A y \in t : x >= y
  <1>1. \A y \in t : n + 1 >= y /\ y \in Int
    OBVIOUS
  <1>2. m \in t /\ \A y \in t : m >= y
    BY <1>1
  <1>3. m = n + 1
    <2> HIDE DEF m
    <2>1. QED
      BY <1>1, <1>2
  <1>4. QED
    BY <1>3 DEF Max

LEMMA FoldsExist ==
  ASSUME NEW n \in Nat, NEW V, NEW base \in V, NEW G \in [(1..n) \X V -> V]
  PROVE  \E it \in [SUBSET (1..n) -> V] : Folds(n, base, G, it)
  <1> DEFINE P == {k \in 0..n : \E it \in [SUBSET (1..k) -> V] : Folds(k, base, G, it)}
  <1>1. 0 \in P
    <2> DEFINE z == [t \in SUBSET (1..0) |-> base]
    <2>1. z \in [SUBSET (1..0) -> V] /\ Folds(0, base, G, z)
      BY DEF Folds
    <2>2. QED
      BY <2>1
  <1>2. ASSUME NEW k \in 0..(n - 1), k \in P PROVE k + 1 \in P
    <2>1. PICK it \in [SUBSET (1..k) -> V] : Folds(k, base, G, it)
      BY <1>2
    <2> DEFINE s(t) == t \ {k + 1}
               h == [t \in SUBSET (1..(k + 1)) |->
                       IF k + 1 \in t THEN G[<<k + 1, it[s(t)]>>] ELSE it[t]]
    <2>2. ASSUME NEW t \in SUBSET (1..(k + 1))
          PROVE  s(t) \in SUBSET (1..k) /\ (k + 1 \notin t => t \in SUBSET (1..k))
      OBVIOUS
    <2>3. h \in [SUBSET (1..(k + 1)) -> V]
      BY <2>1, <2>2
    <2>4. ASSUME NEW t \in SUBSET (1..k) PROVE h[t] = it[t]
      OBVIOUS
    <2>5. ASSUME NEW t \in SUBSET (1..(k + 1))
          PROVE  h[t] = IF t = {} THEN base ELSE G[<<Max(t), h[t \ {Max(t)}]>>]
      <3>1. CASE k + 1 \in t
        <4>1. Max(t) = k + 1
          BY <3>1, MaxOf
        <4>2. h[t] = G[<<k + 1, it[s(t)]>>]
          BY <3>1
        <4>3. h[s(t)] = it[s(t)]
          BY <2>2, <2>4
        <4>4. QED
          BY <3>1, <4>1, <4>2, <4>3
      <3>2. CASE k + 1 \notin t
        <4>1. h[t] = it[t] /\ t \in SUBSET (1..k)
          BY <2>2, <3>2
        <4>2. it[t] = IF t = {} THEN base ELSE G[<<Max(t), it[t \ {Max(t)}]>>]
          BY <2>1, <4>1 DEF Folds
        <4>3. h[t \ {Max(t)}] = it[t \ {Max(t)}]
          BY <2>4, <4>1
        <4>4. QED
          BY <4>1, <4>2, <4>3
      <3>3. QED
        BY <3>1, <3>2
    <2> HIDE DEF h
    <2>6. Folds(k + 1, base, G, h)
      BY <2>5 DEF Folds
    <2>7. k + 1 \in 0..n
      OBVIOUS
    <2>8. QED
      BY <2>3, <2>6, <2>7
  <1> HIDE DEF P
  <1>3. n \in P
    BY ONLY <1>1, <1>2, n \in Nat, UpTo
  <1>4. QED
    BY <1>3 DEF P

LEMMA PowSum ==
  ASSUME NEW r \in 0..31, NEW s \in 0..(31 - r)
  PROVE  /\ 2^r \in Nat \ {0} /\ 2^s \in Nat \ {0} /\ 2^(r + s) \in Nat \ {0}
         /\ 2^(r + s) = 2^s * 2^r
  <1>1. ASSUME NEW b \in 0..31 PROVE 2^b \in Nat \ {0}
    <2>1. b <= b
      OBVIOUS
    <2>2. QED
      BY <2>1, PowMonotone
  <1> DEFINE P == {k \in 0..(31 - r) : 2^(r + k) = 2^k * 2^r}
  <1>2. 0 \in P
    <2>1. r + 0 = r /\ 2^0 = 1
      OBVIOUS
    <2>2. QED
      BY <1>1, <2>1
  <1>3. ASSUME NEW k \in 0..(31 - r - 1), k \in P PROVE k + 1 \in P
    <2>1. r + k \in 0..30 /\ k \in 0..30 /\ (r + k) + 1 = r + (k + 1) /\ k + 1 \in 0..(31 - r)
      OBVIOUS
    <2>2. 2^((r + k) + 1) = 2 * 2^(r + k) /\ 2^(k + 1) = 2 * 2^k
      BY <2>1, PowStep
    <2>3. 2^r \in Nat /\ 2^k \in Nat
      <3>1. r \in 0..31 /\ k \in 0..31
        BY <2>1
      <3>2. QED
        BY <1>1, <3>1
    <2>4. \A x, y \in Nat : 2 * (x * y) = (2 * x) * y
      OBVIOUS
    <2>5. 2 * (2^k * 2^r) = (2 * 2^k) * 2^r
      BY <2>3, <2>4
    <2>6. QED
      BY <1>3, <2>1, <2>2, <2>5
  <1>4. 31 - r \in Nat
    OBVIOUS
  <1> HIDE DEF P
  <1>5. 0..(31 - r) \subseteq P
    BY ONLY <1>2, <1>3, <1>4, UpTo
  <1>6. s \in P /\ s \in 0..31 /\ r + s \in 0..31
    BY <1>5
  <1>7. QED
    BY <1>1, <1>6 DEF P

------------------------------------------------------------------------------
(* The bucket of a latency *)

LogState == [v : Nat, r : Nat]
Exponents == <<5, 4, 3, 2, 1, 0>>
LogStep == [p \in (1..6) \X LogState |-> log2Step(p[2], Exponents[p[1]])]

\* A step of the loop with 1 << i = s and 2^s = m.
Halved(a, m, s) == IF a.v \div m > 0 THEN [v |-> a.v \div m, r |-> a.r + s] ELSE a

LEMMA StepIs ==
  ASSUME NEW a \in LogState
  PROVE  /\ log2Step(a, 5) = a
         /\ log2Step(a, 4) = Halved(a, 65536, 16)
         /\ log2Step(a, 3) = Halved(a, 256, 8)
         /\ log2Step(a, 2) = Halved(a, 16, 4)
         /\ log2Step(a, 1) = Halved(a, 4, 2)
         /\ log2Step(a, 0) = Halved(a, 2, 1)
  <1>1. Shift(a.v, 2^5) = 0
    BY Powers DEF Shift
  <1>2. log2Step(a, 5) = a
    BY <1>1 DEF log2Step
  <1>3. Shift(a.v, 2^4) = a.v \div 65536 /\ 2^4 = 16
    BY Powers DEF Shift
  <1>4. Shift(a.v, 2^3) = a.v \div 256 /\ 2^3 = 8
    BY Powers DEF Shift
  <1>5. Shift(a.v, 2^2) = a.v \div 16 /\ 2^2 = 4
    BY Powers DEF Shift
  <1>6. Shift(a.v, 2^1) = a.v \div 4 /\ 2^1 = 2
    BY Powers DEF Shift
  <1>7. Shift(a.v, 2^0) = a.v \div 2 /\ 2^0 = 1
    BY Powers DEF Shift
  <1>8. QED
    BY <1>2, <1>3, <1>4, <1>5, <1>6, <1>7 DEF log2Step, Halved

LEMMA HalvedType ==
  ASSUME NEW a \in LogState, NEW m \in Nat \ {0}, NEW s \in Nat
  PROVE  Halved(a, m, s) \in LogState
  <1>1. a.v \div m \in Nat /\ a.r + s \in Nat
    BY DEF LogState
  <1>2. QED
    BY <1>1 DEF Halved, LogState

LEMMA LogStepType == LogStep \in [(1..6) \X LogState -> LogState]
  <1>1. ASSUME NEW k \in 1..6, NEW a \in LogState
        PROVE  log2Step(a, Exponents[k]) \in LogState
    <2>1. Exponents[k] \in {5, 4, 3, 2, 1, 0}
      BY DEF Exponents
    <2>2. /\ Halved(a, 65536, 16) \in LogState /\ Halved(a, 256, 8) \in LogState
          /\ Halved(a, 16, 4) \in LogState /\ Halved(a, 4, 2) \in LogState
          /\ Halved(a, 2, 1) \in LogState
      <3>1. ASSUME NEW m \in {65536, 256, 16, 4, 2}, NEW s \in {16, 8, 4, 2, 1}
            PROVE  Halved(a, m, s) \in LogState
        BY HalvedType
      <3>2. QED
        BY <3>1
    <2>3. QED
      BY <2>1, <2>2, StepIs
  <1>2. QED
    BY <1>1 DEF LogStep

\* What is known of a value that was shifted: it is what v has above bit r.
Above(a, v, m) ==
  /\ a \in LogState /\ a.v >= 1 /\ a.v < m
  /\ 2^a.r \in Nat \ {0} /\ a.v * 2^a.r <= v /\ v < (a.v + 1) * 2^a.r

\* A step of the loop finds whether the highest bit is in the upper half of
\* the 2 * s bits left, and halves what is left.
LEMMA HalvedAbove ==
  ASSUME NEW v \in Nat, NEW a, NEW s \in 1..16, NEW m \in Nat \ {0}, m = 2^s,
         NEW n \in Nat, n <= m * m, Above(a, v, n), a.r + s <= 31
  PROVE  Above(Halved(a, m, s), v, m) /\ Halved(a, m, s).r <= a.r + s
  <1> DEFINE x == a.v
             r == a.r
             p == 2^r
             w == x \div m
  <1>1. x \in Nat /\ r \in Nat /\ x >= 1 /\ x < m * m /\ p \in Nat \ {0}
        /\ x * p <= v /\ v < (x + 1) * p
    <2>1. x < n /\ x \in Nat /\ m * m \in Nat
      BY DEF Above, LogState
    <2>2. QED
      BY <2>1 DEF Above, LogState
  <1>2. w \in Nat /\ w * m <= x /\ x + 1 <= (w + 1) * m /\ w < m
    <2>1. w \in Nat /\ w * m <= x /\ x < (w + 1) * m
      BY <1>1
    <2>2. ~(w >= m)
      <3>1. w >= m => w * m >= m * m
        BY <2>1, ProductsOrder
      <3>2. w * m \in Nat /\ m * m \in Nat
        BY <2>1
      <3>3. QED
        BY <1>1, <2>1, <3>1, <3>2
    <2>3. QED
      BY <1>1, <2>1, <2>2
  <1>3. 2^(r + s) = m * p /\ 2^(r + s) \in Nat \ {0}
    <2>1. r \in Nat
      BY DEF Above, LogState
    <2> HIDE DEF r
    <2>2. r + s <= 31
      BY DEF r
    <2>3. r \in 0..31 /\ s \in 0..(31 - r)
      BY ONLY <2>1, <2>2, s \in 1..16
    <2>4. 2^(r + s) = 2^s * 2^r /\ 2^(r + s) \in Nat \ {0}
      BY ONLY <2>3, PowSum
    <2>5. QED
      BY <2>4
  <1> HIDE DEF w, p, x, r
  <1>4. CASE w > 0
    <2>1. (w * m) * p <= x * p /\ (x + 1) * p <= ((w + 1) * m) * p
      <3>1. w * m \in Int /\ (w + 1) * m \in Int /\ x + 1 \in Int
        BY <1>1, <1>2
      <3>2. QED
        BY <1>1, <1>2, <3>1, ProductsOrder
    <2>2. w * (m * p) = (w * m) * p /\ (w + 1) * (m * p) = ((w + 1) * m) * p
      <3>1. \A y \in Nat : y * (m * p) = (y * m) * p
        BY <1>1
      <3>2. QED
        BY <1>2, <3>1
    <2>3. /\ x * p \in Nat /\ (x + 1) * p \in Nat /\ (w * m) * p \in Nat
          /\ ((w + 1) * m) * p \in Nat
      BY <1>1, <1>2
    <2>4. w * (m * p) <= v /\ v < (w + 1) * (m * p)
      BY <1>1, <2>1, <2>2, <2>3
    <2>5. Halved(a, m, s) = [v |-> w, r |-> r + s]
      BY <1>4 DEF Halved, w, x, r
    <2>6. /\ Halved(a, m, s) \in LogState
          /\ Halved(a, m, s).v = w /\ Halved(a, m, s).r = r + s
      BY <1>1, <1>2, <2>5 DEF LogState
    <2>7. w >= 1
      BY <1>2, <1>4
    <2>8. r + s <= a.r + s
      BY <1>1 DEF r
    <2>9. QED
      BY <1>2, <1>3, <2>4, <2>6, <2>7, <2>8 DEF Above
  <1>5. CASE ~(w > 0)
    <2>1. w = 0
      BY <1>2, <1>5
    <2>2. x < m
      BY <1>1, <1>2, <2>1
    <2>3. Halved(a, m, s) = a
      BY <1>5 DEF Halved, w, x
    <2>4. QED
      BY <1>1, <2>2, <2>3 DEF Above, x, r
  <1>6. QED
    BY <1>4, <1>5

\* The states of the loop of oh_log2.
LEMMA LogRuns ==
  ASSUME NEW v \in Nat
  PROVE  \E f \in [0..6 -> LogState] :
           /\ f[0] = [v |-> v, r |-> 0] /\ oh_log2(v) = f[6].r
           /\ \A k \in 1..6 : f[k] = log2Step(f[k - 1], Exponents[k])
  <1> DEFINE K == 1..6
             base == [v |-> v, r |-> 0]
             Rec(it) == it = [t \in SUBSET DOMAIN Exponents |->
                                IF t = {} THEN base
                                ELSE log2Step(it[t \ {Max(t)}], Exponents[Max(t)])]
  <1>1. oh_log2(v) = (CHOOSE it : Rec(it))[DOMAIN Exponents].r
    BY DEF oh_log2, FoldLeft, MapThenFoldSet, Exponents
  <1>2. DOMAIN Exponents = K /\ base \in LogState /\ base = [v |-> v, r |-> 0]
    BY DEF Exponents, LogState
  <1> HIDE DEF base
  <1>3. PICK it \in [SUBSET K -> LogState] : Folds(6, base, LogStep, it)
    BY <1>2, FoldsExist, LogStepType
  <1>4. Rec(it)
    <2>1. ASSUME NEW t \in SUBSET K, t # {}
          PROVE  it[t] = log2Step(it[t \ {Max(t)}], Exponents[Max(t)])
      <3> DEFINE x == Max(t)
      <3>1. x \in K /\ t \ {x} \in SUBSET K
        BY <2>1, MaximumIn
      <3>2. it[t] = LogStep[<<x, it[t \ {x}]>>] /\ it[t \ {x}] \in LogState
        BY <1>3, <2>1, <3>1 DEF Folds
      <3> HIDE DEF x
      <3>3. it[t] = log2Step(it[t \ {x}], Exponents[x])
        BY <3>1, <3>2 DEF LogStep
      <3>4. QED
        BY <3>3 DEF x
    <2>2. it[{}] = base
      BY <1>3 DEF Folds
    <2>3. it = [t \in SUBSET K |-> it[t]]
      BY <1>3
    <2>4. QED
      BY <1>2, <2>1, <2>2, <2>3
  <1> DEFINE W == CHOOSE c : Rec(c)
             f == [k \in 0..6 |-> W[1..k]]
  <1> HIDE DEF Rec
  <1>5. Rec(W)
    BY <1>4
  <1> HIDE DEF W
  <1>6. f[0] = base
    <2>1. 1..0 = {}
      OBVIOUS
    <2>2. QED
      BY <1>2, <1>5, <2>1 DEF Rec
  <1>7. ASSUME NEW k \in 1..6 PROVE f[k] = log2Step(f[k - 1], Exponents[k])
    <2>1. 1..k \in SUBSET K /\ 1..k # {} /\ k - 1 \in 0..6 /\ k \in Nat \ {0}
      BY ONLY k \in 1..6
    <2>2. Max(1..k) = k /\ (1..k) \ {k} = 1..(k - 1)
      BY ONLY <2>1, MaxUpTo
    <2>3. W = [t \in SUBSET K |-> IF t = {} THEN base
                                 ELSE log2Step(W[t \ {Max(t)}], Exponents[Max(t)])]
      BY <1>2, <1>5 DEF Rec
    <2>4. W[1..k] = log2Step(W[(1..k) \ {Max(1..k)}], Exponents[Max(1..k)])
      <3> HIDE DEF K, f
      <3>1. \A t \in SUBSET K :
              t # {} => W[t] = log2Step(W[t \ {Max(t)}], Exponents[Max(t)])
        BY <2>3
      <3>2. QED
        BY <2>1, <3>1
    <2>5. W[1..k] = log2Step(W[1..(k - 1)], Exponents[k])
      BY <2>1, <2>2, <2>4
    <2>6. f[k] = W[1..k] /\ f[k - 1] = W[1..(k - 1)]
      BY <2>1
    <2>7. QED
      BY <2>5, <2>6
  <1>8. ASSUME NEW k \in 1..6, f[k - 1] \in LogState PROVE f[k] \in LogState
    <2>1. LogStep[<<k, f[k - 1]>>] \in LogState
      BY <1>8, LogStepType
    <2>2. LogStep[<<k, f[k - 1]>>] = log2Step(f[k - 1], Exponents[k])
      BY <1>8 DEF LogStep
    <2>3. QED
      BY <1>7, <2>1, <2>2
  <1>9. oh_log2(v) = f[6].r
    BY <1>1, <1>2 DEF W
  <1>10. f = [k \in 0..6 |-> f[k]]
    OBVIOUS
  <1> HIDE DEF f
  <1>11. \A k \in 0..6 : f[k] \in LogState
    <2>1. f[0] \in LogState
      BY <1>2, <1>6
    <2>2. \A k \in 0..5 : f[k] \in LogState => f[k + 1] \in LogState
      <3>1. ASSUME NEW k \in 0..5, f[k] \in LogState PROVE f[k + 1] \in LogState
        <4>1. k + 1 \in 1..6 /\ (k + 1) - 1 = k
          OBVIOUS
        <4>2. QED
          BY <1>8, <3>1, <4>1
      <3>2. QED
        BY <3>1
    <2>3. \A k \in 0..6 : k = 0 \/ k = 1 \/ k = 2 \/ k = 3 \/ k = 4 \/ k = 5 \/ k = 6
      OBVIOUS
    <2>4. f[1] \in LogState
      BY <2>1, <2>2
    <2>5. f[2] \in LogState
      BY <2>4, <2>2
    <2>6. f[3] \in LogState
      BY <2>5, <2>2
    <2>7. f[4] \in LogState
      BY <2>6, <2>2
    <2>8. f[5] \in LogState
      BY <2>7, <2>2
    <2>9. f[6] \in LogState
      BY <2>8, <2>2
    <2>10. QED
      BY <2>1, <2>3, <2>4, <2>5, <2>6, <2>7, <2>8, <2>9
  <1>12. f \in [0..6 -> LogState]
    BY <1>10, <1>11
  <1>13. QED
    BY <1>2, <1>6, <1>7, <1>9, <1>12

\* The bucket is the position of the highest bit.
LEMMA Log2Is ==
  ASSUME NEW v \in 1..(2^30)
  PROVE  /\ oh_log2(v) \in 0..30
         /\ 2^oh_log2(v) <= v /\ v < 2^(oh_log2(v) + 1)
  <1>1. PICK f \in [0..6 -> LogState] :
          /\ f[0] = [v |-> v, r |-> 0] /\ oh_log2(v) = f[6].r
          /\ \A k \in 1..6 : f[k] = log2Step(f[k - 1], Exponents[k])
    BY LogRuns
  <1>2. /\ f[0] \in LogState /\ f[1] \in LogState /\ f[2] \in LogState
        /\ f[3] \in LogState /\ f[4] \in LogState /\ f[5] \in LogState /\ f[6] \in LogState
    BY <1>1
  <1>3. /\ Exponents[1] = 5 /\ Exponents[2] = 4 /\ Exponents[3] = 3
        /\ Exponents[4] = 2 /\ Exponents[5] = 1 /\ Exponents[6] = 0
    BY DEF Exponents
  <1>4. /\ f[1] = log2Step(f[0], 5) /\ f[2] = log2Step(f[1], 4)
        /\ f[3] = log2Step(f[2], 3) /\ f[4] = log2Step(f[3], 2)
        /\ f[5] = log2Step(f[4], 1) /\ f[6] = log2Step(f[5], 0)
    <2>1. \A k \in 0..5 : k + 1 \in 1..6 /\ (k + 1) - 1 = k
      OBVIOUS
    <2>2. \A k \in 0..5 : f[k + 1] = log2Step(f[k], Exponents[k + 1])
      BY <1>1, <2>1
    <2>3. QED
      BY <1>3, <2>2
  <1>5. /\ f[1] = f[0] /\ f[2] = Halved(f[1], 65536, 16) /\ f[3] = Halved(f[2], 256, 8)
        /\ f[4] = Halved(f[3], 16, 4) /\ f[5] = Halved(f[4], 4, 2) /\ f[6] = Halved(f[5], 2, 1)
    BY <1>2, <1>4, StepIs
  <1>6. v \in Nat /\ v >= 1 /\ v < 2147483648 /\ v <= 1073741824
    BY Powers
  <1>7. Above(f[1], v, 2147483648) /\ f[1].r = 0
    <2>1. f[1].v = v /\ f[1].r = 0
      BY <1>1, <1>5
    <2>2. v * 1 <= v /\ v < (v + 1) * 1
      BY <1>6
    <2>3. QED
      BY <1>2, <1>6, <2>1, <2>2, Powers DEF Above
  <1>8. Above(f[2], v, 65536) /\ f[2].r <= 16
    <2>1. 65536 = 2^16 /\ 2147483648 <= 65536 * 65536 /\ f[1].r + 16 <= 31
      BY <1>7, Powers
    <2>2. QED
      BY <1>2, <1>5, <1>6, <1>7, <2>1, HalvedAbove
  <1>9. Above(f[3], v, 256) /\ f[3].r <= 24
    <2>1. 256 = 2^8 /\ 65536 <= 256 * 256 /\ f[2].r + 8 <= 31 /\ f[2].r \in Nat
      BY <1>2, <1>8, Powers DEF LogState
    <2>2. Above(f[3], v, 256) /\ f[3].r <= f[2].r + 8
      BY <1>2, <1>5, <1>6, <1>8, <2>1, HalvedAbove
    <2>3. f[3].r \in Nat
      BY <1>2 DEF LogState
    <2>4. QED
      BY <1>8, <2>1, <2>2, <2>3
  <1>10. Above(f[4], v, 16) /\ f[4].r <= 28
    <2>1. 16 = 2^4 /\ 256 <= 16 * 16 /\ f[3].r + 4 <= 31 /\ f[3].r \in Nat
      BY <1>2, <1>9, Powers DEF LogState
    <2>2. Above(f[4], v, 16) /\ f[4].r <= f[3].r + 4
      BY <1>2, <1>5, <1>6, <1>9, <2>1, HalvedAbove
    <2>3. f[4].r \in Nat
      BY <1>2 DEF LogState
    <2>4. QED
      BY <1>9, <2>1, <2>2, <2>3
  <1>11. Above(f[5], v, 4) /\ f[5].r <= 30
    <2>1. 4 = 2^2 /\ 16 <= 4 * 4 /\ f[4].r + 2 <= 31 /\ f[4].r \in Nat
      BY <1>2, <1>10, Powers DEF LogState
    <2>2. Above(f[5], v, 4) /\ f[5].r <= f[4].r + 2
      BY <1>2, <1>5, <1>6, <1>10, <2>1, HalvedAbove
    <2>3. f[5].r \in Nat
      BY <1>2 DEF LogState
    <2>4. QED
      BY <1>10, <2>1, <2>2, <2>3
  <1>12. Above(f[6], v, 2) /\ f[6].r <= 31
    <2>1. 2 = 2^1 /\ 4 <= 2 * 2 /\ f[5].r + 1 <= 31 /\ f[5].r \in Nat
      BY <1>2, <1>11, Powers DEF LogState
    <2>2. Above(f[6], v, 2) /\ f[6].r <= f[5].r + 1
      BY <1>2, <1>5, <1>6, <1>11, <2>1, HalvedAbove
    <2>3. f[6].r \in Nat
      BY <1>2 DEF LogState
    <2>4. QED
      BY <1>11, <2>1, <2>2, <2>3
  <1> DEFINE r == f[6].r
             x == f[6].v
  <1>13. x = 1 /\ r \in 0..31 /\ 2^r \in Nat \ {0} /\ x * 2^r <= v /\ v < (x + 1) * 2^r
    BY <1>2, <1>12 DEF Above, LogState
  <1> HIDE DEF r, x
  <1>14. 2^r <= v /\ v < 2 * 2^r
    BY <1>13
  <1>15. r # 31
    <2>1. ASSUME r = 31 PROVE FALSE
      <3>1. 2^r = 2147483648
        BY <2>1, Powers
      <3>2. QED
        BY <1>6, <1>14, <3>1
    <2>2. QED
      BY <2>1
  <1>16. r \in 0..30 /\ 2^(r + 1) = 2 * 2^r
    <2>1. r \in 0..30
      BY <1>13, <1>15
    <2>2. QED
      BY <2>1, PowStep
  <1>17. QED
    BY <1>1, <1>14, <1>16 DEF r

\* A greater latency is in no lower bucket.
LEMMA Log2Order ==
  ASSUME NEW v \in 1..(2^30), NEW w \in 1..(2^30), v <= w
  PROVE  oh_log2(v) <= oh_log2(w)
  <1> DEFINE a == oh_log2(v)
             b == oh_log2(w)
  <1>1. a \in 0..30 /\ b \in 0..30 /\ 2^a <= v /\ w < 2^(b + 1)
    <2>1. a \in 0..30 /\ 2^a <= v
      BY Log2Is
    <2>2. b \in 0..30 /\ w < 2^(b + 1)
      BY Log2Is
    <2>3. QED
      BY <2>1, <2>2
  <1> HIDE DEF a, b
  <1>2. v \in Nat /\ w \in Nat
    BY Powers
  <1>3. ~(b + 1 <= a)
    <2>1. b + 1 <= a => 2^(b + 1) <= 2^a /\ 2^(b + 1) \in Nat /\ 2^a \in Nat
      <3>1. b + 1 \in 0..31 /\ a \in 0..31
        BY <1>1
      <3>2. QED
        BY <3>1, PowMonotone
    <2>2. QED
      BY <1>1, <1>2, <2>1
  <1>4. QED
    BY <1>1, <1>3 DEF a, b

------------------------------------------------------------------------------
(* The histogram *)

LEMMA SameCount == \A S : Cardinality(S) = Cardinality(S)
  BY DEF Cardinality, Cardinality

\* With the weight w of a bucket: g of the buckets of D, f of the calls of K.
Weighs(K, bkt, D, w, g, f) ==
  /\ IntOn(D, w) /\ \A b \in D : g[b] = w[b] * Cardinality({i \in K : bkt[i] = b})
  /\ \A i \in K : bkt[i] \in D => f[i] = w[bkt[i]]

Inside(K, bkt, D) == {i \in K : bkt[i] \in D}

\* A sum over buckets is one over the calls in them.
LEMMA ByBucket ==
  ASSUME NEW K, IsFiniteSet(K), NEW bkt, NEW D, IsFiniteSet(D),
         NEW w, NEW g, NEW f, Weighs(K, bkt, D, w, g, f)
  PROVE  /\ IntOn(D, g) /\ IntOn(Inside(K, bkt, D), f)
         /\ Total(D, g) = Total(Inside(K, bkt, D), f)
  <1> DEFINE At(s) == {i \in K : bkt[i] \in s}
             In(b) == {i \in K : bkt[i] = b}
             P == {s \in SUBSET D : Total(s, g) = Total(At(s), f)}
  <1>0. IntOn(D, w) /\ (\A b \in D : g[b] = w[b] * Cardinality(In(b)))
        /\ \A i \in K : bkt[i] \in D => f[i] = w[bkt[i]]
    BY DEF Weighs
  <1>1. \A b : In(b) \in SUBSET K
    OBVIOUS
  <1>2. \A s \in SUBSET K : IsFiniteSet(s) /\ Cardinality(s) \in Nat
    BY FS_Subset, FS_CardinalityType
  <1>3. IntOn(D, g)
    <2>1. \A b \in D : w[b] \in Int /\ Cardinality(In(b)) \in Int
      BY <1>0, <1>1, <1>2 DEF IntOn
    <2> HIDE DEF In
    <2>2. \A b \in D : w[b] * Cardinality(In(b)) \in Int
      BY <2>1
    <2>3. QED
      BY <1>0, <2>2 DEF IntOn, In
  <1>4. IntOn(At(D), f)
    BY <1>0 DEF IntOn
  <1>5. {} \in P
    <2>1. At({}) = {}
      OBVIOUS
    <2>2. Total({}, g) = 0
      BY <1>3, TotalAdd
    <2>3. Total({}, f) = 0
      <3>1. At(D) \in SUBSET K
        OBVIOUS
      <3>2. IsFiniteSet(At(D))
        BY <1>2, <3>1
      <3> HIDE DEF At
      <3>3. QED
        BY <1>4, <3>2, TotalAdd
    <2>4. QED
      BY <2>1, <2>2, <2>3
  <1>6. ASSUME NEW s \in SUBSET D, NEW x \in D, x \notin s, s \in P
        PROVE  s \cup {x} \in P
    <2>1. At(s \cup {x}) = At(s) \cup In(x) /\ At(s) \cap In(x) = {}
      BY <1>6
    <2>2. At(s) \cup In(x) \subseteq At(D) /\ At(s) \in SUBSET K /\ In(x) \in SUBSET K
      OBVIOUS
    <2>3. IsFiniteSet(At(s)) /\ IsFiniteSet(In(x)) /\ IntOn(At(s) \cup In(x), f)
      BY <1>2, <1>4, <2>2 DEF IntOn
    <2> DEFINE a == At(s)
               c == In(x)
    <2>4. a \cap c = {} /\ IsFiniteSet(a) /\ IsFiniteSet(c) /\ IntOn(a \cup c, f)
      BY <2>1, <2>3
    <2>5. \A i \in c : f[i] = w[x]
      BY <1>0
    <2>6. g[x] = w[x] * Cardinality(c) /\ w[x] \in Int
      BY <1>0 DEF IntOn
    <2>7. Total(s, g) = Total(a, f)
      BY <1>6
    <2>8. At(s \cup {x}) = a \cup c
      BY <2>1
    <2> HIDE DEF a, c
    <2>9. Total(a \cup c, f) = Total(a, f) + Total(c, f)
      BY ONLY <2>4, TotalParts
    <2>10. Total(c, f) = w[x] * Cardinality(c)
      <3> DEFINE k == w[x]
      <3>1. k \in Int /\ \A i \in c : f[i] = k
        BY <2>5, <2>6
      <3> HIDE DEF k
      <3>2. Total(c, f) = k * Cardinality(c)
        BY <2>4, <3>1, TotalConst
      <3>3. QED
        BY <3>2 DEF k
    <2>11. Total(s \cup {x}, g) = g[x] + Total(s, g) /\ Total(s, g) \in Int /\ g[x] \in Int
      <3>1. Total(s \cup {x}, g) = g[x] + Total(s, g) /\ Total(s, g) \in Int
        BY ONLY IsFiniteSet(D), <1>3, <1>6, TotalAdd
      <3>2. QED
        BY <1>3, <3>1 DEF IntOn
    <2>12. Total(s \cup {x}, g) = Total(a \cup c, f)
      BY <2>6, <2>7, <2>9, <2>10, <2>11
    <2>13. QED
      BY <2>8, <2>12
  <1> HIDE DEF P, At, In
  <1>7. SUBSET D \subseteq P
    BY <1>5, <1>6, SetInduction
  <1>8. D \in P
    BY <1>7
  <1>9. Total(D, g) = Total(At(D), f)
    BY <1>8 DEF P
  <1>10. QED
    BY <1>3, <1>4, <1>9 DEF At, Inside

Latency == 1..(2^30)
Buckets == 0..30

\* The histogram of the latencies s and the buckets of them.
Bkt(s) == [i \in 1..Len(s) |-> oh_log2(s[i])]
UpIn(s, B) == {i \in 1..Len(s) : Bkt(s)[i] \in B}

\* Every call is in a bucket, and a bucket has the number of them.
LEMMA HistIs ==
  ASSUME NEW s \in Seq(Latency)
  PROVE  /\ \A i \in 1..Len(s) : /\ Bkt(s)[i] = oh_log2(s[i])
                                 /\ Bkt(s)[i] \in DOMAIN oh_record(s)
         /\ DOMAIN oh_record(s) \subseteq Buckets
         /\ IsFiniteSet(DOMAIN oh_record(s))
         /\ \A b \in DOMAIN oh_record(s) :
              oh_record(s)[b] = Cardinality({i \in 1..Len(s) : Bkt(s)[i] = b})
  <1> DEFINE K == 1..Len(s)
             D == {Bkt(s)[i] : i \in K}
  <1>1. ToSet(Bkt(s)) = D
    BY DEF ToSet, Bkt
  <1>2. oh_record(s) = [b \in D |-> Cardinality({i \in K : Bkt(s)[i] = b})]
    BY <1>1, SameCount DEF oh_record, Bkt
  <1>3. \A i \in K : Bkt(s)[i] = oh_log2(s[i]) /\ Bkt(s)[i] \in D /\ Bkt(s)[i] \in 0..30
    <2>1. ASSUME NEW i \in K PROVE Bkt(s)[i] = oh_log2(s[i]) /\ Bkt(s)[i] \in 0..30
      <3>1. s[i] \in Latency
        OBVIOUS
      <3>2. oh_log2(s[i]) \in 0..30
        BY <3>1, Log2Is DEF Latency
      <3>3. QED
        BY <3>2 DEF Bkt
    <2>2. QED
      BY <2>1
  <1>4. D \subseteq 0..30
    BY <1>3
  <1> HIDE DEF D
  <1>5. IsFiniteSet(D)
    <2>1. \A a, b \in Int : IsFiniteSet(a..b)
      BY FS_Interval
    <2>2. IsFiniteSet(0..30)
      BY ONLY <2>1, 0 \in Int, 30 \in Int
    <2>3. D \in SUBSET (0..30)
      BY <1>4
    <2>4. QED
      BY ONLY <2>2, <2>3, FS_Subset
  <1>6. D \subseteq Buckets
    BY <1>4 DEF Buckets
  <1>7. QED
    BY <1>2, <1>3, <1>5, <1>6

\* The counts of some buckets are the calls in them.
LEMMA CallsCount ==
  ASSUME NEW s \in Seq(Latency), NEW B, B \subseteq DOMAIN oh_record(s)
  PROVE  /\ Calls(oh_record(s), B) = Cardinality(UpIn(s, B))
         /\ Calls(oh_record(s), B) \in Nat
  <1> DEFINE K == 1..Len(s)
             h == oh_record(s)
             bkt == Bkt(s)
             w == [b \in B |-> 1]
             f == [i \in K |-> 1]
  <1>1. IsFiniteSet(K) /\ IsFiniteSet(B)
    BY HistIs, FS_Interval, FS_Subset
  <1>2. \A b \in B : h[b] = Cardinality({i \in K : bkt[i] = b}) /\ w[b] = 1
    BY HistIs
  <1>3. \A b : Cardinality({i \in K : bkt[i] = b}) \in Nat
    <2>1. \A b : {i \in K : bkt[i] = b} \subseteq K
      OBVIOUS
    <2>2. QED
      BY <1>1, <2>1, FS_Subset, FS_CardinalityType
  <1>4. \A b \in B : h[b] = w[b] * Cardinality({i \in K : bkt[i] = b})
    <2>1. ASSUME NEW b \in B PROVE h[b] = w[b] * Cardinality({i \in K : bkt[i] = b})
      <3> DEFINE n == Cardinality({i \in K : bkt[i] = b})
      <3>1. n \in Nat /\ h[b] = n /\ w[b] = 1
        BY <1>2, <1>3
      <3> HIDE DEF n, h, w
      <3>2. h[b] = w[b] * n
        BY <3>1
      <3>3. QED
        BY <3>2 DEF n
    <2>2. QED
      BY <2>1
  <1>5. IntOn(B, w) /\ \A i \in K : bkt[i] \in B => f[i] = w[bkt[i]]
    BY DEF IntOn
  <1>6. \A i \in K : f[i] = 1
    OBVIOUS
  <1> DEFINE C == {i \in K : bkt[i] \in B}
  <1>7. C \in SUBSET K
    OBVIOUS
  <1> HIDE DEF h, bkt, w, f, K
  <1>8. Total(B, h) = Total(C, f) /\ IntOn(B, h)
    <2>1. Weighs(K, bkt, B, w, h, f)
      BY <1>4, <1>5 DEF Weighs
    <2>2. IntOn(B, h) /\ Total(B, h) = Total(Inside(K, bkt, B), f)
      BY ONLY <1>1, <2>1, ByBucket
    <2>3. QED
      BY <2>2 DEF C, Inside
  <1>9. Total(C, f) = Cardinality(C) /\ Cardinality(C) \in Nat
    <2> DEFINE k == 1
    <2>1. IsFiniteSet(C) /\ k \in Int /\ \A i \in C : f[i] = k
      BY <1>1, <1>6, <1>7, FS_Subset
    <2> HIDE DEF C, k
    <2>2. Total(C, f) = k * Cardinality(C) /\ Cardinality(C) \in Nat
      BY <2>1, TotalConst
    <2>3. QED
      BY <2>2 DEF k
  <1>10. Calls(h, B) = Total(B, h)
    BY <1>1, <1>8, CallsIs
  <1>11. C = UpIn(s, B)
    BY DEF C, K, bkt, UpIn
  <1>12. QED
    BY <1>8, <1>9, <1>10, <1>11 DEF h

LEMMA BucketsBelow ==
  ASSUME NEW s \in Seq(Latency)
  PROVE  DOMAIN oh_record(s) \subseteq Buckets
  BY HistIs

\* No call is lost.
LEMMA OpensCount ==
  ASSUME NEW s \in Seq(Latency)
  PROVE  Opens(oh_record(s)) = Len(s)
  <1> DEFINE B == DOMAIN oh_record(s)
  <1>1. UpIn(s, B) = 1..Len(s)
    BY HistIs DEF UpIn
  <1>2. Calls(oh_record(s), B) = Cardinality(1..Len(s))
    <2> HIDE DEF B
    <2>1. B \subseteq DOMAIN oh_record(s)
      BY DEF B
    <2>2. Calls(oh_record(s), B) = Cardinality(UpIn(s, B))
      BY <2>1, CallsCount
    <2>3. QED
      BY <1>1, <2>2
  <1>3. Cardinality(1..Len(s)) = Len(s)
    <2> DEFINE n == Len(s)
    <2>1. n \in Nat
      OBVIOUS
    <2> HIDE DEF n
    <2>2. Cardinality(1..n) = n
      BY ONLY <2>1, FS_Interval
    <2>3. QED
      BY <2>2 DEF n
  <1>4. QED
    BY <1>2, <1>3 DEF Opens

\* What hook_ns adds up.
HookAt(h) == [c \in DOMAIN h |-> 3 * h[c] * 2^c]

LEMMA HookIs ==
  ASSUME NEW h, IsFiniteSet(DOMAIN h), IntOn(DOMAIN h, HookAt(h))
  PROVE  HookTwice(h) = Total(DOMAIN h, HookAt(h))
  <1> DEFINE B == DOMAIN h
             g == HookAt(h)
             c(t) == CHOOSE x \in t : TRUE
             Rec(it) == it = [t \in SUBSET B |->
                                IF t = {} THEN 0 ELSE 3 * h[c(t)] * 2^c(t) + it[t \ {c(t)}]]
             W == [t \in SUBSET B |-> Total(t, g)]
  <1>1. HookTwice(h) = (CHOOSE it : Rec(it))[B]
    BY DEF HookTwice, MapThenSumSet, MapThenFoldSet
  <1>2. ASSUME NEW t, t # {} PROVE c(t) \in t
    BY <1>2
  <1>3. \A x \in B : 3 * h[x] * 2^x = g[x]
    BY DEF HookAt
  <1>4. IsFiniteSet(B) /\ IntOn(B, g)
    OBVIOUS
  <1> HIDE DEF c, g, B
  <1>5. Rec(W)
    <2>1. ASSUME NEW t \in SUBSET B, t # {}
          PROVE  /\ t \ {c(t)} \in SUBSET B
                 /\ Total(t, g) = 3 * h[c(t)] * 2^c(t) + Total(t \ {c(t)}, g)
      <3> DEFINE x == c(t)
      <3>1. x \in t /\ x \in B
        BY <1>2, <2>1
      <3> HIDE DEF x
      <3>2. t \ {x} \in SUBSET B /\ Total(t, g) = g[x] + Total(t \ {x}, g)
        BY <1>4, <3>1, TotalFolds
      <3>3. Total(t, g) = 3 * h[x] * 2^x + Total(t \ {x}, g)
        BY <1>3, <3>1, <3>2
      <3>4. QED
        BY <3>2, <3>3 DEF x
    <2>2. Total({}, g) = 0
      BY <1>4, TotalAdd
    <2>3. QED
      BY <2>1, <2>2
  <1>6. ASSUME NEW it, Rec(it) PROVE it[B] = Total(B, g)
    <2>1. it[{}] = 0
      BY <1>6
    <2>2. ASSUME NEW t \in SUBSET B, t # {}
          PROVE  \E x \in t : it[t \ {x}] \in Int => it[t] = g[x] + it[t \ {x}]
      <3> DEFINE x == c(t)
      <3>1. it[t] = 3 * h[x] * 2^x + it[t \ {x}]
        BY <1>6, <2>2
      <3>2. x \in t /\ x \in B
        BY <1>2, <2>2
      <3> HIDE DEF Rec, x
      <3>3. it[t] = g[x] + it[t \ {x}]
        BY <1>3, <3>1, <3>2
      <3>4. QED
        BY <3>2, <3>3
    <2> HIDE DEF Rec
    <2>3. QED
      BY <1>4, <2>1, <2>2, FoldIsTotal
  <1> HIDE DEF Rec
  <1>7. Rec(CHOOSE it : Rec(it))
    BY <1>5
  <1>8. QED
    BY <1>1, <1>6, <1>7 DEF B, g

LEMMA LatencyPlain == Latency \subseteq Nat \ {0} /\ Seq(Latency) \subseteq Seq(Int)
  <1>1. Latency \subseteq Nat \ {0}
    <2> DEFINE n == 2^30
    <2>1. n \in Nat
      BY Powers
    <2>2. Latency = 1..n
      BY DEF Latency
    <2> HIDE DEF n
    <2>3. QED
      BY <2>1, <2>2
  <1>2. ASSUME NEW s \in Seq(Latency) PROVE s \in Seq(Int)
    <2>1. \A i \in 1..Len(s) : s[i] \in Latency
      OBVIOUS
    <2>2. \A x \in Latency : x \in Int
      BY <1>1
    <2>3. \A i \in 1..Len(s) : s[i] \in Int
      BY ONLY <2>1, <2>2
    <2>4. QED
      BY <2>3
  <1>3. QED
    BY <1>1, <1>2

\* The formula of the middle of a bucket is at most 1.5 times what was spent,
\* and at least 0.75 times.
LEMMA HookBounds ==
  ASSUME NEW s \in Seq(Latency)
  PROVE  /\ HookTwice(oh_record(s)) \in Int /\ SumOf(s) \in Int
         /\ HookTwice(oh_record(s)) <= 3 * SumOf(s)
         /\ 3 * SumOf(s) <= 2 * HookTwice(oh_record(s))
  <1> DEFINE K == 1..Len(s)
             h == oh_record(s)
             D == DOMAIN h
             bkt == Bkt(s)
             w == [b \in D |-> 3 * 2^b]
             f == [i \in K |-> 3 * 2^bkt[i]]
             f2 == [i \in K |-> 2 * f[i]]
             s3 == [i \in K |-> 3 * s[i]]
             g == HookAt(h)
  <1>1. /\ IsFiniteSet(D) /\ D \subseteq Buckets
        /\ \A b \in D : h[b] = Cardinality({i \in K : bkt[i] = b})
        /\ \A i \in K : bkt[i] \in D /\ bkt[i] = oh_log2(s[i])
    BY HistIs
  <1>2. IsFiniteSet(K) /\ s \in Seq(Int)
    <2>1. s \in Seq(Int)
      BY LatencyPlain
    <2>2. QED
      BY <2>1, SumIs
  <1>3. \A b \in Buckets : 2^b \in Nat
    BY PowStep DEF Buckets
  <1>4. \A b : Cardinality({i \in K : bkt[i] = b}) \in Nat
    <2>1. \A b : {i \in K : bkt[i] = b} \subseteq K
      OBVIOUS
    <2>2. QED
      BY <1>2, <2>1, FS_Subset, FS_CardinalityType
  <1>5. ASSUME NEW b \in D PROVE g[b] = w[b] * Cardinality({i \in K : bkt[i] = b})
    <2> DEFINE n == Cardinality({i \in K : bkt[i] = b})
               p == 2^b
    <2>1. n \in Nat /\ h[b] = n /\ p \in Nat
      BY <1>1, <1>3, <1>4
    <2>2. g[b] = 3 * h[b] * p /\ w[b] = 3 * p
      BY DEF HookAt
    <2> HIDE DEF n, p, h, g, w
    <2>3. \A x, y \in Nat : 3 * x * y = (3 * y) * x
      OBVIOUS
    <2>4. g[b] = w[b] * n
      BY <2>1, <2>2, <2>3
    <2>5. QED
      BY <2>4 DEF n
  <1>6. ASSUME NEW i \in K PROVE f[i] = w[bkt[i]] /\ f[i] <= s3[i] /\ s3[i] <= f2[i] /\ f[i] \in Int
    <2> DEFINE b == bkt[i]
               x == s[i]
               p == 2^b
    <2>1. f[i] = 3 * p /\ s3[i] = 3 * x /\ f2[i] = 2 * f[i] /\ f[i] = w[b]
      BY <1>1
    <2>2. b \in Buckets /\ b = oh_log2(x) /\ x \in Latency /\ x \in Nat
      <3>1. x \in Latency
        OBVIOUS
      <3>2. QED
        BY <1>1, <3>1, LatencyPlain
    <2>3. p <= x /\ x < 2 * p /\ p \in Nat
      <3>1. 2^b <= x /\ x < 2^(b + 1)
        <4> HIDE DEF b, x
        <4>1. x \in 1..(2^30)
          BY <2>2 DEF Latency
        <4>2. QED
          BY <2>2, <4>1, Log2Is
      <3> HIDE DEF b, x
      <3>2. 2^(b + 1) = 2 * 2^b /\ 2^b \in Nat
        BY <2>2, PowStep DEF Buckets
      <3>3. QED
        BY <3>1, <3>2 DEF p
    <2> HIDE DEF p, x, b, f, s3, f2, w
    <2>4. f[i] <= s3[i] /\ s3[i] <= f2[i] /\ f[i] \in Int
      BY <2>1, <2>2, <2>3
    <2>5. QED
      BY <2>1, <2>4 DEF b
  <1>7. IntOn(D, w)
    <2>1. \A b \in D : w[b] = 3 * 2^b
      OBVIOUS
    <2>2. ASSUME NEW b \in D PROVE w[b] \in Int
      <3> DEFINE p == 2^b
      <3>1. p \in Nat /\ w[b] = 3 * p
        BY <1>1, <1>3, <2>1
      <3> HIDE DEF p, w
      <3>2. QED
        BY <3>1
    <2> HIDE DEF w, D
    <2>3. QED
      BY <2>2 DEF IntOn
  <1>8. IntOn(K, f) /\ IntOn(K, s3) /\ IntOn(K, f2)
    <2>1. (\A i \in K : f[i] \in Int) /\ \A i \in K : s[i] \in Int
      <3>1. \A i \in K : s[i] \in Int
        BY <1>2
      <3>2. QED
        BY <1>6, <3>1
    <2>2. \A i \in K : f2[i] = 2 * f[i] /\ s3[i] = 3 * s[i]
      OBVIOUS
    <2> HIDE DEF f, s3, f2, K
    <2>3. ASSUME NEW i \in K PROVE f2[i] \in Int /\ s3[i] \in Int
      BY <2>1, <2>2
    <2>4. QED
      BY <2>1, <2>3 DEF IntOn
  <1>9. (\A i \in K : f2[i] = 2 * f[i]) /\ (\A i \in K : s3[i] = 3 * s[i])
    OBVIOUS
  <1>10. Inside(K, bkt, D) = K
    BY <1>1 DEF Inside
  <1> HIDE DEF K, D, bkt, w, f, f2, s3, g
  <1>11. IntOn(D, g) /\ Total(D, g) = Total(K, f)
    <2>1. Weighs(K, bkt, D, w, g, f)
      BY <1>5, <1>6, <1>7 DEF Weighs
    <2>2. QED
      BY ONLY <1>1, <1>2, <1>10, <2>1, ByBucket
  <1>12. Total(K, f) <= Total(K, s3) /\ Total(K, s3) <= Total(K, f2)
    <2>1. \A i \in K : f[i] <= s3[i]
      BY <1>6
    <2>2. \A i \in K : s3[i] <= f2[i]
      BY <1>6
    <2>3. QED
      BY ONLY <1>2, <1>8, <2>1, <2>2, TotalLeq
  <1>13. Total(K, f2) = 2 * Total(K, f)
    <2>1. 2 \in Int
      OBVIOUS
    <2>2. QED
      BY ONLY <1>2, <1>8, <1>9, <2>1, TotalTimes
  <1>14. Total(K, s3) = 3 * Total(K, s) /\ SumOf(s) = Total(K, s) /\ SumOf(s) \in Int
    <2>1. 3 \in Int
      OBVIOUS
    <2>2. IntOn(K, s) /\ SumOf(s) = Total(K, s) /\ SumOf(s) \in Int
      BY <1>2, SumIs DEF K
    <2>3. Total(K, s3) = 3 * Total(K, s)
      BY ONLY <1>2, <1>9, <2>1, <2>2, TotalTimes
    <2>4. QED
      BY <2>2, <2>3
  <1>15. HookTwice(h) = Total(D, g)
    BY <1>1, <1>11, HookIs DEF D, g
  <1>16. Total(K, f) \in Int
    BY <1>2, <1>8, TotalAdd
  <1>17. QED
    BY <1>11, <1>12, <1>13, <1>14, <1>15, <1>16

------------------------------------------------------------------------------
(* The quantiles *)

LEMMA MinimumIn ==
  ASSUME NEW T, T \subseteq Nat, T # {}
  PROVE  Min(T) \in T /\ \A y \in T : Min(T) <= y
  <1>1. \E x \in T : \A y \in T : x <= y
    BY NatLeast
  <1>2. QED
    BY <1>1 DEF Min

\* What is in order one by one is in order.
LEMMA AscendingOrder ==
  ASSUME NEW s \in Seq(Int), Ascending(s), NEW i \in 1..Len(s), NEW j \in i..Len(s)
  PROVE  s[i] <= s[j]
  <1> DEFINE n == Len(s) - i
             P == {k \in 0..n : s[i] <= s[i + k]}
  <1>1. \A k \in 1..Len(s) : s[k] \in Int
    OBVIOUS
  <1>2. 0 \in P /\ n \in Nat
    <2>1. i + 0 = i /\ s[i] <= s[i] /\ n \in Nat
      BY <1>1
    <2>2. QED
      BY <2>1
  <1>3. ASSUME NEW k \in 0..(n - 1), k \in P PROVE k + 1 \in P
    <2>1. /\ i + k \in 1..(Len(s) - 1) /\ i + k \in 1..Len(s) /\ i + (k + 1) = (i + k) + 1
          /\ (i + k) + 1 \in 1..Len(s) /\ k + 1 \in 0..n
      OBVIOUS
    <2>2. s[i + k] <= s[(i + k) + 1]
      BY <2>1 DEF Ascending
    <2>3. s[i] <= s[i + k]
      BY <1>3
    <2>4. s[i] <= s[(i + k) + 1]
      BY <1>1, <2>1, <2>2, <2>3
    <2>5. QED
      BY <2>1, <2>4
  <1>4. j - i \in 0..n /\ i + (j - i) = j
    OBVIOUS
  <1> HIDE DEF P, n
  <1>5. 0..n \subseteq P
    BY ONLY <1>2, <1>3, UpTo
  <1>6. j - i \in P
    BY <1>4, <1>5
  <1>7. QED
    BY <1>4, <1>6 DEF P

\* The calls of the first buckets, up to c, are the first calls.
LEMMA Reached ==
  ASSUME NEW s \in Seq(Latency), Ascending(s), NEW c \in DOMAIN oh_record(s),
         NEW i \in 1..Len(s)
  PROVE  /\ Calls(oh_record(s), {d \in DOMAIN oh_record(s) : d <= c}) \in Nat
         /\ Bkt(s)[i] <= c =>
              Calls(oh_record(s), {d \in DOMAIN oh_record(s) : d <= c}) >= i
         /\ ~(Bkt(s)[i] <= c) =>
              Calls(oh_record(s), {d \in DOMAIN oh_record(s) : d <= c}) <= i - 1
  <1> DEFINE h == oh_record(s)
             D == DOMAIN h
             K == 1..Len(s)
             B == {d \in D : d <= c}
             U == UpIn(s, B)
             bkt == Bkt(s)
             r == Calls(h, B)
  <1>1. /\ D \subseteq Buckets /\ IsFiniteSet(K)
        /\ \A j \in K : bkt[j] \in D /\ bkt[j] = oh_log2(s[j])
    BY HistIs, FS_Interval
  <1>2. r = Cardinality(U) /\ r \in Nat
    <2>1. B \subseteq D
      OBVIOUS
    <2> HIDE DEF B
    <2>2. QED
      BY <2>1, CallsCount
  <1>3. U = {j \in K : bkt[j] <= c}
    BY <1>1 DEF UpIn
  <1>4. ASSUME NEW j \in K, NEW k \in j..Len(s) PROVE bkt[j] <= bkt[k]
    <2>1. s \in Seq(Int) /\ k \in K
      BY LatencyPlain
    <2>2. s[j] <= s[k]
      BY <2>1, AscendingOrder
    <2>3. s[j] \in Latency /\ s[k] \in Latency
      BY <2>1
    <2>4. oh_log2(s[j]) <= oh_log2(s[k])
      <3> DEFINE x == s[j]
                 y == s[k]
      <3>1. x \in 1..(2^30) /\ y \in 1..(2^30) /\ x <= y
        BY <2>2, <2>3 DEF Latency
      <3> HIDE DEF x, y
      <3>2. oh_log2(x) <= oh_log2(y)
        BY <3>1, Log2Order
      <3>3. QED
        BY <3>2 DEF x, y
    <2>5. QED
      BY <1>1, <2>1, <2>4
  <1>5. U \in SUBSET K
    BY <1>3
  <1>6. \A j \in K : bkt[j] \in Int /\ c \in Int
    <2>1. (\A j \in K : bkt[j] \in D) /\ c \in D /\ D \subseteq Buckets
      BY <1>1
    <2> HIDE DEF h, D, K, bkt
    <2>2. \A x \in Buckets : x \in Int
      BY DEF Buckets
    <2>3. QED
      BY ONLY <2>1, <2>2
  <1> HIDE DEF h, D, B, U, bkt, r
  <1>7. ASSUME bkt[i] <= c PROVE r >= i
    <2>1. 1..i \subseteq U
      <3>1. ASSUME NEW j \in 1..i PROVE j \in U
        <4>1. j \in K /\ i \in j..Len(s)
          OBVIOUS
        <4>2. bkt[j] <= bkt[i]
          BY <1>4, <4>1
        <4>3. bkt[j] <= c
          BY <1>6, <1>7, <4>1, <4>2
        <4>4. QED
          BY <1>3, <4>1, <4>3
      <3>2. QED
        BY <3>1
    <2>2. IsFiniteSet(U)
      BY <1>1, <1>5, FS_Subset
    <2>3. Cardinality(1..i) <= Cardinality(U)
      BY <2>1, <2>2, FS_Subset
    <2>4. Cardinality(1..i) = i
      <3>1. i \in Nat /\ i >= 1
        OBVIOUS
      <3>2. QED
        BY <3>1, FS_Interval
    <2>5. QED
      BY <1>2, <2>3, <2>4
  <1>8. ASSUME ~(bkt[i] <= c) PROVE r <= i - 1
    <2> DEFINE m == i - 1
    <2>1. U \subseteq 1..m
      <3>1. ASSUME NEW j \in K, bkt[j] <= c, j >= i PROVE FALSE
        <4>1. j \in i..Len(s)
          BY <3>1
        <4>2. bkt[i] <= bkt[j]
          BY <1>4, <4>1
        <4>3. bkt[i] \in Int /\ bkt[j] \in Int /\ c \in Int
          BY <1>6
        <4>4. QED
          BY <1>8, <3>1, <4>2, <4>3
      <3>2. ASSUME NEW j \in U PROVE j \in 1..m
        <4>1. j \in K /\ bkt[j] <= c
          BY <1>3
        <4>2. ~(j >= i)
          BY <3>1, <4>1
        <4>3. QED
          BY <4>1, <4>2
      <3>3. QED
        BY <3>2
    <2>2. m \in Nat
      OBVIOUS
    <2> HIDE DEF m
    <2>3. IsFiniteSet(1..m) /\ Cardinality(1..m) = m
      BY <2>2, FS_Interval
    <2>4. Cardinality(U) <= Cardinality(1..m)
      BY <2>1, <2>3, FS_Subset
    <2>5. QED
      BY <1>2, <2>3, <2>4 DEF m
  <1>9. QED
    BY <1>2, <1>7, <1>8 DEF h, D, B, bkt, r

\* The index of pct() before it is clamped, and the clamp never acts.
LEMMA PctIndex ==
  ASSUME NEW n \in Nat \ {0}, NEW p \in {500, 900, 990, 999}
  PROVE  /\ (p * n + 999) \div 1000 \in 1..n /\ n * p \in Nat
         /\ 1000 * ((p * n + 999) \div 1000) >= n * p
         /\ 1000 * ((p * n + 999) \div 1000 - 1) < n * p
  <1>1. CASE p = 500
    BY <1>1
  <1>2. CASE p = 900
    BY <1>2
  <1>3. CASE p = 990
    BY <1>3
  <1>4. CASE p = 999
    BY <1>4
  <1>5. QED
    BY <1>1, <1>2, <1>3, <1>4

LEMMA Clamp ==
  ASSUME NEW n \in Nat, NEW i \in 1..n
  PROVE  Min({n, Max({1, i})}) = i
  <1>1. Max({1, i}) = i
    <2> DEFINE t == {1, i}
    <2>1. t \in SUBSET (1..i) /\ t # {} /\ i \in t /\ i \in Nat
      OBVIOUS
    <2>2. \A y \in t : y \in Int /\ y <= i
      OBVIOUS
    <2> HIDE DEF t
    <2>3. Max(t) \in t /\ \A y \in t : Max(t) >= y
      BY <2>1, MaximumIn
    <2>4. QED
      BY <2>1, <2>2, <2>3 DEF t
  <1>2. Min({n, i}) = i
    <2> DEFINE t == {n, i}
    <2>1. t \subseteq Nat /\ t # {} /\ i \in t
      OBVIOUS
    <2>2. \A y \in t : y \in Int /\ i <= y
      OBVIOUS
    <2> HIDE DEF t
    <2>3. Min(t) \in t /\ \A y \in t : Min(t) <= y
      BY <2>1, MinimumIn
    <2>4. QED
      BY <2>1, <2>2, <2>3 DEF t
  <1>3. QED
    BY <1>1, <1>2

Enough(D, R, m) == {c \in D : 1000 * R[c] >= m}

\* R reaches i in bucket k.
Reaches(D, R, k, i) ==
  /\ k \in D /\ D \subseteq Buckets
  /\ \A c \in D : R[c] \in Nat /\ (k <= c => R[c] >= i) /\ (~(k <= c) => R[c] <= i - 1)

\* i is the first position a thousandth of m has.
Position(m, i) == i \in Nat /\ m \in Nat /\ 1000 * i >= m /\ 1000 * (i - 1) < m

\* The first bucket with the calls up to it a p-th of m is that of call i.
LEMMA FirstBucket ==
  ASSUME NEW D, NEW R, NEW k, NEW i, NEW m, Reaches(D, R, k, i), Position(m, i)
  PROVE  Min(Enough(D, R, m)) = k
  <1> DEFINE T == {c \in D : 1000 * R[c] >= m}
             b == Min(T)
  <1>0. i \in Nat /\ m \in Nat /\ 1000 * i >= m /\ 1000 * (i - 1) < m
    BY DEF Position
  <1>10. /\ k \in D
         /\ \A c \in D : R[c] \in Nat /\ (k <= c => R[c] >= i) /\ (~(k <= c) => R[c] <= i - 1)
    BY DEF Reaches
  <1>11. D \subseteq Buckets
    BY DEF Reaches
  <1>12. \A c \in D : c \in Int /\ c \in Nat
    <2>1. \A c \in Buckets : c \in Int /\ c \in Nat
      BY ONLY DEF Buckets
    <2>2. QED
      BY ONLY <1>11, <2>1
  <1>1. k \in T
    <2>1. k <= k
      BY <1>10, <1>12
    <2>2. R[k] \in Nat /\ R[k] >= i
      BY <1>10, <2>1
    <2>3. 1000 * R[k] >= m
      BY <1>0, <2>2
    <2>4. QED
      BY <1>10, <2>3
  <1>2. T \subseteq Nat
    <2>1. D \subseteq Nat
      BY ONLY <1>12
    <2>2. QED
      BY ONLY <2>1
  <1>3. \A c \in T : k <= c
    <2>1. ASSUME NEW c \in T, ~(k <= c) PROVE FALSE
      <3>1. R[c] \in Nat /\ R[c] <= i - 1 /\ 1000 * R[c] >= m
        BY <1>10, <2>1
      <3>2. QED
        BY <1>0, <3>1
    <2>2. QED
      BY <2>1
  <1> HIDE DEF T
  <1>4. b \in T /\ b <= k
    BY ONLY <1>1, <1>2, MinimumIn
  <1>5. b \in Nat /\ k \in Nat /\ k <= b
    BY <1>1, <1>2, <1>3, <1>4
  <1>6. b = k
    BY <1>4, <1>5
  <1>7. QED
    BY <1>6 DEF T, Enough

LEMMA InBucket ==
  ASSUME NEW x \in Latency, NEW b, b = oh_log2(x)
  PROVE  x \in (IF b = 0 THEN 0 ELSE 2^b)..(2^(b + 1) - 1)
  <1>1. x \in 1..(2^30) /\ x \in Nat
    BY LatencyPlain DEF Latency
  <1>2. b \in 0..30 /\ 2^b <= x /\ x < 2^(b + 1)
    BY <1>1, Log2Is
  <1>3. b \in 0..30
    BY <1>2
  <1>4. 2^b \in Nat /\ 2^(b + 1) \in Nat /\ 2^(b + 1) = 2 * 2^b
    BY ONLY <1>3, PowStep
  <1> DEFINE p == 2^b
             o == 2^(b + 1)
  <1>5. p <= x /\ x < o /\ p \in Nat /\ o \in Nat
    BY <1>2, <1>4
  <1> HIDE DEF p, o
  <1>6. x \in (IF b = 0 THEN 0 ELSE p)..(o - 1)
    BY <1>1, <1>5
  <1>7. QED
    BY <1>6 DEF p, o

\* A quantile that o() finds from the counts holds that of the latencies.
LEMMA QuantileIs ==
  ASSUME NEW s \in Seq(Latency), s # <<>>, Ascending(s), NEW p \in {500, 900, 990, 999}
  PROVE  pct(s, p) \in q(oh_record(s), p).lo..q(oh_record(s), p).hi
  <1> DEFINE n == Len(s)
             i == (p * n + 999) \div 1000
             h == oh_record(s)
             D == DOMAIN h
             R == [c \in D |-> Calls(h, {d \in D : d <= c})]
             m == n * p
             k == Bkt(s)[i]
             x == s[i]
             b == Min(Enough(D, R, m))
  <1>1. n \in Nat \ {0}
    OBVIOUS
  <1>2. i \in 1..n /\ m \in Nat /\ 1000 * i >= m /\ 1000 * (i - 1) < m
    BY ONLY <1>1, p \in {500, 900, 990, 999}, PctIndex
  <1>3. pct(s, p) = x
    <2>1. pct(s, p) = s[Min({n, Max({1, i})})]
      BY DEF pct
    <2> HIDE DEF i, n
    <2>2. Min({n, Max({1, i})}) = i
      BY ONLY <1>1, <1>2, Clamp
    <2>3. QED
      BY ONLY <2>1, <2>2
  <1>4. /\ q(h, p).lo = (IF b = 0 THEN 0 ELSE 2^b)
        /\ q(h, p).hi = 2^(b + 1) - 1
    <2> DEFINE T == {c \in D : 1000 * Calls(h, {d \in D : d <= c}) >= m}
    <2>1. Opens(h) = n
      BY OpensCount
    <2>2. T = Enough(D, R, m)
      <3>1. \A c \in D : R[c] = Calls(h, {d \in D : d <= c})
        OBVIOUS
      <3> HIDE DEF R, m, D, h
      <3>2. QED
        BY ONLY <3>1 DEF Enough
    <2>3. q(h, p) = [lo |-> IF Min(T) = 0 THEN 0 ELSE 2^Min(T),
                         hi |-> 2^(Min(T) + 1) - 1]
      BY <2>1 DEF q
    <2> HIDE DEF T, R, D, h, m
    <2>4. QED
      BY ONLY <2>2, <2>3 DEF b
  <1>5. k = oh_log2(x) /\ k \in D
    BY <1>2, HistIs
  <1>15. D \subseteq Buckets
    BY BucketsBelow
  <1>16. k \in D
    BY <1>5
  <1>17. x \in Latency
    BY <1>2
  <1>6. ASSUME NEW c \in D
        PROVE  R[c] \in Nat /\ (k <= c => R[c] >= i) /\ (~(k <= c) => R[c] <= i - 1)
    BY <1>2, Reached
  <1>7. i \in Nat
    BY <1>2
  <1> HIDE DEF n, i, h, D, R, m, x, k
  <1>8. b = k
    <2>1. k \in D
      BY ONLY <1>16
    <2>2. D \subseteq Buckets
      BY ONLY <1>15
    <2>3. m \in Nat /\ 1000 * i >= m /\ 1000 * (i - 1) < m
      BY ONLY <1>2
    <2>4. Reaches(D, R, k, i)
      BY ONLY <1>6, <2>1, <2>2 DEF Reaches
    <2>5. Position(m, i)
      BY ONLY <1>7, <2>3 DEF Position
    <2>6. Min(Enough(D, R, m)) = k
      BY ONLY <2>4, <2>5, FirstBucket
    <2>7. QED
      BY <2>6 DEF b
  <1> HIDE DEF b
  <1>9. b = oh_log2(x)
    BY ONLY <1>5, <1>8
  <1>10. x \in (IF b = 0 THEN 0 ELSE 2^b)..(2^(b + 1) - 1)
    BY ONLY <1>9, <1>17, InBucket
  <1>11. QED
    BY ONLY <1>3, <1>4, <1>10 DEF h

------------------------------------------------------------------------------
(* The cross-check *)

\* The cost that the buckets give bounds what the calls took.
LEMMA CostBound ==
  ASSUME NEW st \in Seq(Latency) \ {<<>>}, NEW sb \in Seq(Latency) \ {<<>>},
         5 * SumOf(st) * Len(sb) >= 14 * SumOf(sb) * Len(st)
  PROVE  /\ Cost(oh_record(st), oh_record(sb)) \in Int
         /\ SumOf(st) * Len(sb) - SumOf(sb) * Len(st) \in Int
         /\ 2 * (SumOf(st) * Len(sb) - SumOf(sb) * Len(st))
              <= 3 * Cost(oh_record(st), oh_record(sb))
  <1> DEFINE S == SumOf(st)
             R == SumOf(sb)
             H == HookTwice(oh_record(st))
             G == HookTwice(oh_record(sb))
             n == Len(sb)
             m == Len(st)
  <1>1. S \in Int /\ R \in Int /\ H \in Int /\ G \in Int /\ 3 * S <= 2 * H /\ G <= 3 * R
    BY HookBounds
  <1>2. n \in Nat \ {0} /\ m \in Nat \ {0}
    OBVIOUS
  <1>3. Cost(oh_record(st), oh_record(sb)) = H * n - G * m
    BY OpensCount DEF Cost
  <1>4. 5 * S * n >= 14 * R * m
    OBVIOUS
  <1> HIDE DEF S, R, H, G, n, m
  <1>5. (3 * S) * n <= (2 * H) * n /\ G * m <= (3 * R) * m
    BY ONLY <1>1, <1>2, ProductsOrder
  <1> DEFINE x == S * n
             y == R * m
             a == H * n
             c == G * m
  <1>6. x \in Int /\ y \in Int /\ a \in Int /\ c \in Int
    BY ONLY <1>1, <1>2
  <1>7. (3 * S) * n = 3 * x /\ (2 * H) * n = 2 * a /\ (3 * R) * m = 3 * y
    BY ONLY <1>1, <1>2
  <1>8. 5 * S * n = 5 * x /\ 14 * R * m = 14 * y
    BY ONLY <1>1, <1>2
  <1>9. 3 * x <= 2 * a /\ c <= 3 * y /\ 5 * x >= 14 * y
    BY ONLY <1>4, <1>5, <1>7, <1>8
  <1> HIDE DEF x, y, a, c
  <1>10. 2 * (x - y) <= 3 * (a - c) /\ a - c \in Int /\ x - y \in Int
    BY ONLY <1>6, <1>9
  <1>11. QED
    BY ONLY <1>3, <1>10 DEF x, y, a, c, S, R, n, m

\* What crosscheck() calls more than three times the cost.
LEMMA FlagSound ==
  ASSUME NEW v \in Seq(Int) \ {<<>>}, NEW base \in Seq(Int) \ {<<>>},
         NEW st \in Seq(Latency) \ {<<>>}, NEW sb \in Seq(Latency) \ {<<>>},
         TooMuch(v, base, oh_record(st), oh_record(sb)),
         5 * SumOf(st) * Len(sb) >= 14 * SumOf(sb) * Len(st)
  PROVE  \/ Slower(v, base) <= 0
         \/ Slower(v, base) * Len(sb)
              > (SumOf(st) * Len(sb) - SumOf(sb) * Len(st)) * Len(base) * Len(v)
         \/ 100000 * (SumOf(st) * Len(sb) - SumOf(sb) * Len(st)) * Len(base)
              <= 3 * Len(sb) * SumOf(base)
  <1> DEFINE C == Cost(oh_record(st), oh_record(sb))
             z == SumOf(st) * Len(sb) - SumOf(sb) * Len(st)
             d == Slower(v, base)
             n == Len(sb)
             k == Len(base)
             l == Len(v)
             s == SumOf(base)
  <1>1. C \in Int /\ z \in Int /\ 2 * z <= 3 * C
    BY CostBound
  <1>2. n \in Nat \ {0} /\ k \in Nat \ {0} /\ l \in Nat \ {0}
    OBVIOUS
  <1>3. s \in Int /\ d \in Int
    <2>1. SumOf(base) \in Int /\ SumOf(v) \in Int
      BY SumIs
    <2>2. QED
      BY <1>2, <2>1 DEF Slower
  <1>4. \/ ~(C * 100000 * k > 2 * n * s)
        \/ 2 * n * Abs(d) > 3 * C * k * l
    BY OpensCount DEF TooMuch, Measurable
  <1> SUFFICES ASSUME d > 0
               PROVE  d * n > z * k * l \/ 100000 * z * k <= 3 * n * s
    BY <1>3
  <1>5. Abs(d) = d
    BY <1>3 DEF Abs
  <1> HIDE DEF C, z, d, n, k, l, s
  <1>6. k * l \in Nat \ {0}
    BY ONLY <1>2
  <1>7. (2 * z) * k <= (3 * C) * k /\ (2 * z) * (k * l) <= (3 * C) * (k * l)
    <2>1. 2 * z \in Int /\ 3 * C \in Int /\ k \in Nat \ {0}
      BY <1>1, <1>2
    <2>2. (2 * z) * k <= (3 * C) * k
      BY ONLY <1>1, <2>1, ProductsOrder
    <2>3. (2 * z) * (k * l) <= (3 * C) * (k * l)
      BY ONLY <1>1, <1>6, <2>1, ProductsOrder
    <2>4. QED
      BY ONLY <2>2, <2>3
  <1> DEFINE ck == C * k
             zk == z * k
             ckl == C * k * l
             zkl == z * k * l
             dn == d * n
             ns == n * s
  <1>8. /\ ck \in Int /\ zk \in Int /\ ckl \in Int /\ zkl \in Int /\ dn \in Int /\ ns \in Int
    BY ONLY <1>1, <1>2, <1>3
  <1>9. /\ (2 * z) * k = 2 * zk /\ (3 * C) * k = 3 * ck
        /\ (2 * z) * (k * l) = 2 * zkl /\ (3 * C) * (k * l) = 3 * ckl
    BY ONLY <1>1, <1>2
  <1>10. /\ C * 100000 * k = 100000 * ck /\ 2 * n * s = 2 * ns
         /\ 2 * n * d = 2 * dn /\ 3 * C * k * l = 3 * ckl
         /\ 100000 * z * k = 100000 * zk /\ 3 * n * s = 3 * ns
    BY ONLY <1>1, <1>2, <1>3
  <1>11. 2 * zk <= 3 * ck /\ 2 * zkl <= 3 * ckl
    BY ONLY <1>7, <1>9
  <1>12. ~(100000 * ck > 2 * ns) \/ 2 * dn > 3 * ckl
    BY <1>4, <1>5, <1>10
  <1> HIDE DEF ck, zk, ckl, zkl, dn, ns
  <1>13. dn > zkl \/ 100000 * zk <= 3 * ns
    BY ONLY <1>8, <1>11, <1>12
  <1>14. QED
    BY ONLY <1>10, <1>13 DEF dn, zkl

------------------------------------------------------------------------------
(* sorted() *)

LEMMA Greatest ==
  ASSUME NEW n \in Nat \ {0}, NEW f \in [1..n -> Int]
  PROVE  \E m \in 1..n : \A j \in 1..n : f[j] <= f[m]
  <1> DEFINE k == n - 1
             P == {c \in 0..k : \E m \in 1..(c + 1) : \A j \in 1..(c + 1) : f[j] <= f[m]}
  <1>1. 0 \in P
    <2>1. 1 \in 1..(0 + 1) /\ \A j \in 1..(0 + 1) : j = 1
      OBVIOUS
    <2>2. f[1] \in Int
      OBVIOUS
    <2>3. f[1] <= f[1]
      BY <2>2
    <2>4. 0 \in 0..k
      OBVIOUS
    <2>5. QED
      BY <2>1, <2>3, <2>4
  <1>2. ASSUME NEW c \in 0..(k - 1), c \in P PROVE c + 1 \in P
    <2>1. PICK m \in 1..(c + 1) : \A j \in 1..(c + 1) : f[j] <= f[m]
      BY <1>2
    <2> DEFINE x == c + 2
               M == IF f[m] <= f[x] THEN x ELSE m
    <2>2. /\ x \in 1..n /\ m \in 1..n /\ M \in 1..x /\ c + 1 \in 0..k /\ (c + 1) + 1 = x
          /\ \A j \in 1..x : j \in 1..n /\ (j = x \/ j \in 1..(c + 1))
      OBVIOUS
    <2>3. \A j \in 1..n : f[j] \in Int
      OBVIOUS
    <2>4. ASSUME NEW j \in 1..x PROVE f[j] <= f[M]
      <3>1. f[j] \in Int /\ f[m] \in Int /\ f[x] \in Int
        BY <2>2, <2>3
      <3>2. j = x \/ f[j] <= f[m]
        BY <2>1, <2>2
      <3>3. QED
        BY <3>1, <3>2
    <2>5. QED
      BY <2>2, <2>4
  <1>3. k \in Nat /\ k + 1 = n
    OBVIOUS
  <1> HIDE DEF P, k
  <1>4. 0..k \subseteq P
    BY ONLY <1>1, <1>2, <1>3, UpTo
  <1>5. k \in P
    BY <1>3, <1>4
  <1>6. QED
    BY <1>3, <1>5 DEF P

LEMMA BijectionIs ==
  ASSUME NEW S, NEW T, NEW p
  PROVE  p \in Bijection(S, T) <=>
           /\ p \in [S -> T]
           /\ \A a, b \in S : p[a] = p[b] => a = b
           /\ \A t \in T : \E a \in S : p[a] = t
  BY DEF Bijection, Injection, Surjection, IsInjective

\* p puts f in order.
Sorts(n, f, p) ==
  /\ p \in [1..n -> 1..n]
  /\ \A a, b \in 1..n : p[a] = p[b] => a = b
  /\ \A t \in 1..n : \E a \in 1..n : p[a] = t
  /\ \A i \in 1..(n - 1) : f[p[i]] <= f[p[i + 1]]

\* Every sequence can be sorted: the greatest last, and the rest sorted.
LEMMA SortsExist ==
  ASSUME NEW n \in Nat, NEW f \in [1..n -> Int]
  PROVE  \E p : Sorts(n, f, p)
  <1> DEFINE P == {k \in 0..n : \A g \in [1..k -> Int] : \E p : Sorts(k, g, p)}
  <1>1. 0 \in P
    <2>1. ASSUME NEW g \in [1..0 -> Int] PROVE \E p : Sorts(0, g, p)
      <3> DEFINE p == [i \in 1..0 |-> i]
      <3>1. Sorts(0, g, p)
        BY DEF Sorts
      <3>2. QED
        BY <3>1
    <2>2. QED
      BY <2>1
  <1>2. ASSUME NEW k \in 0..(n - 1), k \in P PROVE k + 1 \in P
    <2>1. ASSUME NEW g \in [1..(k + 1) -> Int] PROVE \E p : Sorts(k + 1, g, p)
      <3>1. PICK m \in 1..(k + 1) : \A j \in 1..(k + 1) : g[j] <= g[m]
        <4>1. k + 1 \in Nat \ {0}
          OBVIOUS
        <4>2. QED
          BY ONLY <4>1, g \in [1..(k + 1) -> Int], Greatest
      <3> DEFINE swap(i) == IF i = m THEN k + 1 ELSE i
                 h == [i \in 1..k |-> g[swap(i)]]
      <3>2. \A i \in 1..k : swap(i) \in 1..(k + 1) /\ swap(i) # m
        OBVIOUS
      <3>3. h \in [1..k -> Int]
        BY <3>2
      <3>4. PICK p : Sorts(k, h, p)
        BY <1>2, <3>3
      <3>5. /\ p \in [1..k -> 1..k]
            /\ \A a, b \in 1..k : p[a] = p[b] => a = b
            /\ \A t \in 1..k : \E a \in 1..k : p[a] = t
            /\ \A i \in 1..(k - 1) : h[p[i]] <= h[p[i + 1]]
        BY <3>4 DEF Sorts
      <3> DEFINE o == [i \in 1..(k + 1) |-> IF i = k + 1 THEN m ELSE swap(p[i])]
      <3>6. ASSUME NEW i \in 1..k
            PROVE  o[i] = swap(p[i]) /\ p[i] \in 1..k /\ o[i] \in 1..(k + 1) /\ o[i] # m
                   /\ g[o[i]] = h[p[i]]
        <4>1. p[i] \in 1..k
          BY <3>5
        <4>2. i # k + 1 /\ i \in 1..(k + 1)
          OBVIOUS
        <4>3. o[i] = swap(p[i])
          BY <4>2
        <4> HIDE DEF o
        <4>4. QED
          BY <3>2, <4>1, <4>3
      <3>7. o[k + 1] = m /\ \A i \in 1..(k + 1) : i = k + 1 \/ i \in 1..k
        OBVIOUS
      <3>8. o \in [1..(k + 1) -> 1..(k + 1)]
        <4>1. \A i \in 1..(k + 1) : o[i] \in 1..(k + 1)
          BY ONLY <3>6, <3>7, m \in 1..(k + 1)
        <4>2. o = [i \in 1..(k + 1) |-> o[i]]
          OBVIOUS
        <4> HIDE DEF o
        <4>3. QED
          BY <4>1, <4>2
      <3>9. \A a, b \in 1..k : swap(a) = swap(b) => a = b
        OBVIOUS
      <3> HIDE DEF o, h
      <3>10. ASSUME NEW a \in 1..(k + 1), NEW b \in 1..(k + 1), o[a] = o[b] PROVE a = b
        <4>1. CASE a \in 1..k /\ b \in 1..k
          <5>1. o[a] = swap(p[a]) /\ o[b] = swap(p[b]) /\ p[a] \in 1..k /\ p[b] \in 1..k
            BY <3>6, <4>1
          <5>2. p[a] = p[b]
            BY <3>9, <3>10, <5>1
          <5>3. QED
            BY <3>5, <4>1, <5>2
        <4>2. CASE ~(a \in 1..k /\ b \in 1..k)
          BY <3>6, <3>7, <3>10, <4>2
        <4>3. QED
          BY <4>1, <4>2
      <3>11. ASSUME NEW t \in 1..(k + 1) PROVE \E a \in 1..(k + 1) : o[a] = t
        <4>1. CASE t = m
          <5>1. k + 1 \in 1..(k + 1)
            OBVIOUS
          <5>2. QED
            BY <3>7, <4>1, <5>1
        <4>2. CASE t # m
          <5> DEFINE u == IF t = k + 1 THEN m ELSE t
          <5>1. u \in 1..k /\ swap(u) = t
            BY <4>2
          <5>2. PICK a \in 1..k : p[a] = u
            BY <3>5, <5>1
          <5>3. o[a] = t /\ a \in 1..(k + 1)
            BY <3>6, <5>1, <5>2
          <5>4. QED
            BY <5>3
        <4>3. QED
          BY <4>1, <4>2
      <3>12. ASSUME NEW i \in 1..((k + 1) - 1) PROVE g[o[i]] <= g[o[i + 1]]
        <4>1. i \in 1..k
          OBVIOUS
        <4>2. CASE i = k
          BY <3>1, <3>6, <3>7, <4>1, <4>2
        <4>3. CASE i # k
          <5>1. i \in 1..(k - 1) /\ i + 1 \in 1..k
            BY <4>1, <4>3
          <5>2. QED
            BY <3>5, <3>6, <4>1, <5>1
        <4>4. QED
          BY <4>2, <4>3
      <3>13. Sorts(k + 1, g, o)
        BY <3>8, <3>10, <3>11, <3>12 DEF Sorts
      <3>14. QED
        BY <3>13
    <2>2. k + 1 \in 0..n
      OBVIOUS
    <2>3. QED
      BY <2>1, <2>2
  <1> HIDE DEF P
  <1>3. 0..n \subseteq P
    <2>1. n \in Nat
      OBVIOUS
    <2>2. QED
      BY ONLY <1>1, <1>2, <2>1, UpTo
  <1>4. n \in 0..n
    OBVIOUS
  <1>5. n \in P
    BY <1>3, <1>4
  <1>6. QED
    BY <1>5 DEF P

\* sorted() returns as many of the same values, in order.
LEMMA SortedIs ==
  ASSUME NEW S, S \subseteq Int, NEW s \in Seq(S)
  PROVE  sorted(s) \in Seq(S) /\ Len(sorted(s)) = Len(s) /\ Ascending(sorted(s))
  <1> DEFINE n == Len(s)
             R == {[i \in DOMAIN s |-> s[p[i]]] : p \in Bijection(DOMAIN s, DOMAIN s)}
             r == sorted(s)
  <1>1. n \in Nat /\ DOMAIN s = 1..n /\ s \in [1..n -> S] /\ s \in [1..n -> Int]
    <2>1. n \in Nat /\ DOMAIN s = 1..n /\ s \in [1..n -> S]
      OBVIOUS
    <2>2. \A i \in 1..n : s[i] \in Int
      BY ONLY <2>1, S \subseteq Int
    <2>3. s = [i \in 1..n |-> s[i]]
      BY <2>1
    <2> HIDE DEF n
    <2>4. QED
      BY ONLY <2>1, <2>2, <2>3
  <1>2. r = CHOOSE x \in R : Ascending(x)
    BY DEF sorted
  <1>3. PICK p : Sorts(n, s, p)
    BY <1>1, SortsExist
  <1> DEFINE x == [i \in 1..n |-> s[p[i]]]
  <1>4. p \in Bijection(1..n, 1..n) /\ p \in [1..n -> 1..n]
    <2> DEFINE K == 1..n
    <2>1. /\ p \in [K -> K] /\ (\A a, b \in K : p[a] = p[b] => a = b)
          /\ \A t \in K : \E a \in K : p[a] = t
      BY <1>3 DEF Sorts
    <2> HIDE DEF K
    <2>2. p \in Bijection(K, K)
      BY ONLY <2>1, BijectionIs
    <2>3. QED
      BY <2>1, <2>2 DEF K
  <1>5. x \in R
    BY <1>1, <1>4
  <1>6. Ascending(x)
    <2>1. Len(x) = n
      BY <1>1
    <2>2. ASSUME NEW i \in 1..(n - 1) PROVE x[i] <= x[i + 1]
      <3>1. i \in 1..n /\ i + 1 \in 1..n
        BY <1>1
      <3>2. x[i] = s[p[i]] /\ x[i + 1] = s[p[i + 1]]
        BY <3>1
      <3>3. QED
        BY <1>3, <3>2 DEF Sorts
    <2> HIDE DEF x, n
    <2>3. QED
      BY <2>1, <2>2 DEF Ascending
  <1> HIDE DEF r
  <1>7. r \in R /\ Ascending(r)
    BY <1>2, <1>5, <1>6
  <1>8. PICK o \in Bijection(1..n, 1..n) : r = [i \in 1..n |-> s[o[i]]]
    BY <1>1, <1>7
  <1>9. o \in [1..n -> 1..n]
    BY <1>8, BijectionIs
  <1>10. r \in Seq(S) /\ Len(r) = n
    BY <1>1, <1>8, <1>9
  <1>11. QED
    BY <1>7, <1>10 DEF r

------------------------------------------------------------------------------
(* The run that the report is made of *)

Microed == ToSet(MicroTiers)

\* What the report prints of the files.
Printed ==
  [macro |-> macro_table, invalid |-> invalid, micro |-> micro_table,
   cross |-> crosscheck, raised |-> Raises]

\* The files of the tiers; what was printed is what they say, as nothing is
\* written after the report.
Progress == measured \in 1..PASSES /\ left \subseteq Tier /\ micro \in 0..Len(MicroTiers)
Macros ==
  /\ times \in [Tier -> Seq(Times)]
  /\ \A t \in Tier :
       /\ Ascending(times[t])
       /\ Len(times[t]) = RUNS * (IF t \in left THEN measured - 1 ELSE measured)
Micros ==
  /\ lat \in [Microed -> Seq(Latencies)]
  /\ \A t \in Microed :
       /\ Ascending(lat[t])
       /\ lat[t] # <<>> <=> \E i \in 1..micro : MicroTiers[i] = t
Shown == table # None => table = Printed
FilesInv == Progress /\ Macros /\ Micros /\ Shown

LEMMA ConstantsAre ==
  /\ "a" \in Tier /\ Microed \subseteq Tier \ {"a"} /\ "b" \in Microed
  /\ MicroTiers \in Seq(Microed) /\ MicroTiers # <<>>
  /\ RUNS \in Nat \ {0} /\ PASSES \in Nat \ {0} /\ MaxOpens \in Nat \ {0}
  /\ Times \subseteq Int /\ Latencies \subseteq Int
  /\ Seq(Times) \subseteq Seq(Int) /\ Seq(Latencies) \subseteq Seq(Latency)
  <1>1. /\ "a" \in Tier /\ MicroTiers \in Seq(Tier \ {"a"}) /\ MicroTiers # <<>>
        /\ MicroTiers[1] = "b"
        /\ RUNS \in Nat \ {0} /\ PASSES \in Nat \ {0} /\ MaxOpens \in Nat \ {0}
    BY TierAssumption, PassesAssumption, ReportAssumption
  <1>2. Times \subseteq Nat \ {0} /\ Latencies \subseteq Latency
    BY ReportAssumption DEF Latency
  <1>3. Microed = {MicroTiers[i] : i \in 1..Len(MicroTiers)}
    BY <1>1 DEF Microed, ToSet
  <1>4. Microed \subseteq Tier \ {"a"} /\ "b" \in Microed /\ MicroTiers \in Seq(Microed)
    BY <1>1, <1>3
  <1>5. Times \subseteq Int
    BY <1>2
  <1>6. Latencies \subseteq Int
    <2>1. Latency \subseteq Int
      BY LatencyPlain
    <2>2. QED
      BY <1>2, <2>1
  <1>7. ASSUME NEW S, NEW T, S \subseteq T PROVE Seq(S) \subseteq Seq(T)
    <2>1. ASSUME NEW s \in Seq(S) PROVE s \in Seq(T)
      BY <1>7
    <2>2. QED
      BY <2>1
  <1>8. Seq(Times) \subseteq Seq(Int) /\ Seq(Latencies) \subseteq Seq(Latency)
    BY ONLY <1>2, <1>5, <1>7
  <1>9. QED
    BY <1>1, <1>4, <1>5, <1>6, <1>8

LEMMA FilesInit == ReportInit => FilesInv
  <1> SUFFICES ASSUME ReportInit PROVE FilesInv
    OBVIOUS
  <1>1. /\ times = [t \in Tier |-> <<>>] /\ lat = [t \in Microed |-> <<>>]
        /\ measured = 1 /\ left = Tier /\ micro = 0 /\ table = None
    BY DEF ReportInit, Microed
  <1>2. PASSES \in Nat \ {0} /\ RUNS \in Nat \ {0} /\ MicroTiers \in Seq(Microed)
    BY ConstantsAre
  <1>3. Progress
    <2>1. Len(MicroTiers) \in Nat
      BY <1>2
    <2>2. QED
      BY <1>1, <1>2, <2>1 DEF Progress
  <1>4. \A S : <<>> \in Seq(S) /\ Len(<<>>) = 0
    OBVIOUS
  <1>5. Ascending(<<>>)
    BY DEF Ascending
  <1>6. Macros
    <2>1. \A t \in Tier : times[t] = <<>> /\ t \in left
      BY <1>1
    <2>2. times \in [Tier -> Seq(Times)]
      BY <1>1, <1>4
    <2>3. 0 = RUNS * (measured - 1)
      BY <1>1, <1>2
    <2>4. QED
      BY <1>4, <1>5, <2>1, <2>2, <2>3 DEF Macros
  <1>7. Micros
    <2>1. \A t \in Microed : lat[t] = <<>>
      BY <1>1
    <2>2. lat \in [Microed -> Seq(Latencies)]
      BY <1>1, <1>4
    <2>3. 1..micro = {}
      BY <1>1
    <2>4. QED
      BY <1>5, <2>1, <2>2, <2>3 DEF Micros
  <1>8. QED
    BY <1>1, <1>3, <1>6, <1>7 DEF FilesInv, Shown

LEMMA FilesMacro ==
  ASSUME FilesInv, NEW t \in Tier, MacroRound(t)
  PROVE  FilesInv'
  <1>1. Progress /\ Macros /\ Micros
    BY DEF FilesInv
  <1>2. PICK s \in {s \in [1..RUNS -> Times] : Ascending(s)} :
          times' = [times EXCEPT ![t] = sorted(@ \o s)]
    BY DEF MacroRound
  <1>3. /\ table = None /\ t \in left /\ table' = table /\ lat' = lat /\ micro' = micro
        /\ \/ left = {t} /\ measured < PASSES /\ measured' = measured + 1 /\ left' = Tier
           \/ left' = left \ {t} /\ measured' = measured
    BY DEF MacroRound
  <1>4. PASSES \in Nat \ {0} /\ RUNS \in Nat \ {0} /\ Times \subseteq Int
    BY ConstantsAre
  <1>5. Progress'
    BY <1>1, <1>3, <1>4 DEF Progress
  <1>6. Shown'
    BY <1>3 DEF Shown
  <1>7. Micros'
    BY <1>1, <1>3 DEF Micros, Microed
  <1>8. /\ times[t] \o s \in Seq(Times) /\ Len(times[t] \o s) = RUNS * measured
    <2>1. s \in Seq(Times) /\ Len(s) = RUNS
      BY <1>2, <1>4
    <2>2. times[t] \in Seq(Times) /\ Len(times[t]) = RUNS * (measured - 1)
      BY <1>1, <1>3 DEF Macros
    <2>3. measured \in Nat
      BY <1>1, <1>4 DEF Progress
    <2>4. RUNS * (measured - 1) + RUNS = RUNS * measured
      BY <1>4, <2>3
    <2>5. Len(times[t] \o s) = RUNS * (measured - 1) + RUNS /\ times[t] \o s \in Seq(Times)
      BY <2>1, <2>2
    <2>6. QED
      BY <2>4, <2>5
  <1> DEFINE r == sorted(times[t] \o s)
  <1>9. r \in Seq(Times) /\ Len(r) = RUNS * measured /\ Ascending(r)
    BY <1>4, <1>8, SortedIs
  <1>10. /\ times' \in [Tier -> Seq(Times)] /\ times'[t] = r
         /\ \A u \in Tier \ {t} : times'[u] = times[u]
    <2>1. times' = [times EXCEPT ![t] = r] /\ times \in [Tier -> Seq(Times)]
      BY <1>1, <1>2 DEF Macros
    <2> HIDE DEF r
    <2>2. QED
      BY <1>9, <2>1
  <1> HIDE DEF r
  <1>11. \A u \in Tier : Ascending(times'[u])
    <2>1. \A u \in Tier : Ascending(times[u])
      BY <1>1 DEF Macros
    <2>2. QED
      BY <1>9, <1>10, <2>1
  <1>12. ASSUME NEW u \in Tier
         PROVE  Len(times'[u]) = RUNS * (IF u \in left' THEN measured' - 1 ELSE measured')
    <2>1. Len(times[u]) = RUNS * (IF u \in left THEN measured - 1 ELSE measured)
      BY <1>1 DEF Macros
    <2>2. measured \in Int /\ (measured + 1) - 1 = measured
      BY <1>1, <1>4 DEF Progress
    <2>3. CASE left = {t} /\ measured' = measured + 1 /\ left' = Tier
      <3>1. Len(times'[u]) = RUNS * measured
        BY <1>9, <1>10, <2>1, <2>3
      <3>2. u \in left' /\ measured' - 1 = measured
        BY <2>2, <2>3
      <3>3. QED
        BY <3>1, <3>2
    <2>4. CASE left' = left \ {t} /\ measured' = measured
      <3>1. CASE u = t
        BY <1>9, <1>10, <2>4, <3>1
      <3>2. CASE u # t
        BY <1>10, <2>1, <2>4, <3>2
      <3>3. QED
        BY <3>1, <3>2
    <2>5. QED
      BY <1>3, <2>3, <2>4
  <1>13. Macros'
    BY <1>10, <1>11, <1>12 DEF Macros, Ascending
  <1>14. QED
    BY <1>5, <1>6, <1>7, <1>13 DEF FilesInv

LEMMA FilesMicro ==
  ASSUME FilesInv, MicroRound
  PROVE  FilesInv'
  <1>1. Progress /\ Macros /\ Micros
    BY DEF FilesInv
  <1>2. PICK s \in {s \in UNION {[1..n -> Latencies] : n \in 1..MaxOpens} : Ascending(s)} :
          lat' = [lat EXCEPT ![MicroTiers[micro + 1]] = s]
    BY DEF MicroRound
  <1>3. /\ table = None /\ micro < Len(MicroTiers) /\ micro' = micro + 1
        /\ times' = times /\ measured' = measured /\ left' = left /\ table' = table
    BY DEF MicroRound
  <1>4. MicroTiers \in Seq(Microed) /\ Len(MicroTiers) \in Nat
    BY ConstantsAre
  <1>5. micro + 1 \in 1..Len(MicroTiers) /\ micro \in Nat
    BY <1>1, <1>3, <1>4 DEF Progress
  <1>6. Progress'
    BY <1>1, <1>3, <1>4, <1>5 DEF Progress
  <1>7. Macros' /\ Shown'
    BY <1>1, <1>3 DEF Macros, Shown, Ascending
  <1> DEFINE t == MicroTiers[micro + 1]
  <1>8. t \in Microed
    BY <1>4, <1>5
  <1>9. s \in Seq(Latencies) /\ s # <<>> /\ Ascending(s)
    <2>1. PICK n \in 1..MaxOpens : s \in [1..n -> Latencies]
      BY <1>2
    <2>2. n \in Nat \ {0} /\ s \in Seq(Latencies) /\ Len(s) = n
      BY <2>1, ConstantsAre
    <2>3. QED
      BY <1>2, <2>2
  <1>10. \A i \in 1..micro' : i = micro + 1 \/ i \in 1..micro
    BY <1>3, <1>5
  <1>11. 1..micro \subseteq 1..micro' /\ micro + 1 \in 1..micro'
    BY <1>3, <1>5
  <1> HIDE DEF t
  <1>12. /\ lat' \in [Microed -> Seq(Latencies)] /\ lat'[t] = s
         /\ \A u \in Microed \ {t} : lat'[u] = lat[u]
    <2>1. lat' = [lat EXCEPT ![t] = s] /\ lat \in [Microed -> Seq(Latencies)]
      BY <1>1, <1>2 DEF Micros, t
    <2>2. QED
      BY <1>8, <1>9, <2>1
  <1>13. ASSUME NEW u \in Microed
         PROVE  Ascending(lat'[u]) /\ (lat'[u] # <<>> <=> \E i \in 1..micro' : MicroTiers[i] = u)
    <2>1. CASE u = t
      <3>1. \E i \in 1..micro' : MicroTiers[i] = t
        BY <1>11 DEF t
      <3>2. QED
        BY <1>9, <1>12, <2>1, <3>1
    <2>2. CASE u # t
      <3>1. lat'[u] = lat[u] /\ Ascending(lat[u])
        BY <1>1, <1>12, <2>2 DEF Micros
      <3>2. lat[u] # <<>> <=> \E i \in 1..micro : MicroTiers[i] = u
        BY <1>1 DEF Micros
      <3>3. (\E i \in 1..micro : MicroTiers[i] = u) <=> \E i \in 1..micro' : MicroTiers[i] = u
        BY <1>10, <1>11, <2>2 DEF t
      <3>4. QED
        BY <3>1, <3>2, <3>3
    <2>3. QED
      BY <2>1, <2>2
  <1>14. Micros'
    <2>1. Microed' = Microed
      BY DEF Microed
    <2>2. QED
      BY <1>12, <1>13, <2>1 DEF Micros, Ascending
  <1>15. QED
    BY <1>6, <1>7, <1>14 DEF FilesInv

LEMMA PrintedSame ==
  ASSUME times' = times, lat' = lat
  PROVE  Printed' = Printed
  BY DEF Printed, macro_table, invalid, micro_table, crosscheck, Raises,
         Probed, Hist, Checked

LEMMA FilesReport ==
  ASSUME FilesInv, main
  PROVE  FilesInv'
  <1>1. Progress /\ Macros /\ Micros
    BY DEF FilesInv
  <1>2. /\ times' = times /\ lat' = lat /\ measured' = measured /\ left' = left
        /\ micro' = micro /\ table' = Printed
    BY DEF main, Printed
  <1>3. Progress' /\ Macros' /\ Micros'
    BY <1>1, <1>2 DEF Progress, Macros, Micros, Microed, Ascending
  <1>4. Shown'
    BY <1>2, PrintedSame DEF Shown
  <1>5. QED
    BY <1>3, <1>4 DEF FilesInv

LEMMA FilesStay ==
  ASSUME FilesInv, UNCHANGED reportVars
  PROVE  FilesInv'
  <1>1. /\ times' = times /\ lat' = lat /\ measured' = measured /\ left' = left
        /\ micro' = micro /\ table' = table
    BY DEF reportVars
  <1>2. Printed' = Printed
    BY <1>1, PrintedSame
  <1>3. QED
    BY <1>1, <1>2 DEF FilesInv, Progress, Macros, Micros, Shown, Microed, Ascending

\* The files grow one tier at a time, in order, and what was printed is what
\* report.py makes of them.
THEOREM FilesInvariant == ReportSpec => []FilesInv
  <1>1. ReportInit => FilesInv
    BY FilesInit
  <1>2. FilesInv /\ [ReportNext]_(reportVars) => FilesInv'
    <2> SUFFICES ASSUME FilesInv, [ReportNext]_(reportVars) PROVE FilesInv'
      OBVIOUS
    <2>1. CASE \E t \in Tier : MacroRound(t)
      BY <2>1, FilesMacro
    <2>2. CASE MicroRound
      BY <2>2, FilesMicro
    <2>3. CASE main
      BY <2>3, FilesReport
    <2>4. CASE UNCHANGED reportVars
      BY <2>4, FilesStay
    <2>5. QED
      BY <2>1, <2>2, <2>3, <2>4 DEF ReportNext
  <1>3. QED
    BY <1>1, <1>2, PTL DEF ReportSpec

------------------------------------------------------------------------------
(* What the report says *)

LEMMA FlagsAgreeNow ==
  ASSUME FilesInv
  PROVE  FlagsAgree
  <1> SUFFICES ASSUME table # None, NEW t \in table.invalid
               PROVE  table.macro[t] = "over" /\ (t # "b" => table.cross[t] # "noise")
    BY DEF FlagsAgree
  <1>1. /\ table.invalid = invalid /\ table.macro = macro_table
        /\ table.cross = crosscheck
    BY DEF FilesInv, Shown, Printed
  <1>2. /\ t \in Tier \ {"a"} /\ times[t] # <<>> /\ times["a"] # <<>>
        /\ Bogus(times[t], times["a"])
    BY <1>1 DEF invalid
  <1>3. times[t] \in Seq(Int) /\ times["a"] \in Seq(Int)
    BY <1>2, ConstantsAre DEF FilesInv, Macros
  <1>4. Significance(times[t], times["a"]) = "over" /\ ~BelowFloor(times[t], times["a"])
    BY <1>2, <1>3, InvalidIsLoud
  <1>5. table.macro[t] = "over"
    BY <1>1, <1>2, <1>4 DEF macro_table
  <1>6. ASSUME t # "b" PROVE table.cross[t] # "noise"
    <2>1. t \in Tier \ {"a", "b"}
      BY <1>2, <1>6
    <2>2. \/ crosscheck[t] = "absent"
          \/ crosscheck[t] = Verdict(times[t], times["a"], Hist(t), Hist("b"))
      BY <2>1 DEF crosscheck
    <2>3. Verdict(times[t], times["a"], Hist(t), Hist("b")) # "noise"
      BY <1>4 DEF Verdict
    <2>4. QED
      BY <1>1, <2>2, <2>3
  <1>7. QED
    BY <1>5, <1>6

LEMMA QuantileRightNow ==
  ASSUME FilesInv
  PROVE  QuantileRight
  <1> SUFFICES ASSUME table # None, NEW t \in DOMAIN table.micro, NEW p \in DOMAIN table.micro[t]
               PROVE  pct(lat[t], p) \in table.micro[t][p].lo..table.micro[t][p].hi
    BY DEF QuantileRight
  <1>1. table.micro = micro_table
    BY DEF FilesInv, Shown, Printed
  <1>2. t \in Probed
    BY <1>1 DEF micro_table
  <1>3. micro_table[t] = [o \in {500, 900, 990, 999} |-> q(Hist(t), o)]
    BY <1>2 DEF micro_table
  <1>4. p \in {500, 900, 990, 999} /\ micro_table[t][p] = q(Hist(t), p)
    BY <1>1, <1>3
  <1>5. t \in Microed /\ lat[t] # <<>>
    BY <1>2 DEF Probed, Microed
  <1>6. lat[t] \in Seq(Latency) /\ Ascending(lat[t])
    BY <1>5, ConstantsAre DEF FilesInv, Micros
  <1> DEFINE s == lat[t]
  <1>7. s \in Seq(Latency) /\ s # <<>> /\ Ascending(s)
    BY <1>5, <1>6
  <1>8. Hist(t) = oh_record(s)
    BY DEF Hist
  <1> HIDE DEF s
  <1>9. pct(s, p) \in q(oh_record(s), p).lo..q(oh_record(s), p).hi
    BY ONLY <1>4, <1>7, QuantileIs
  <1>10. QED
    BY <1>1, <1>4, <1>8, <1>9 DEF s

LEMMA FlagSoundNow ==
  ASSUME FilesInv
  PROVE  FlagSoundWhenDear
  <1> SUFFICES ASSUME NEW t \in Tier \ {"a", "b"}, Flagged(t),
                      5 * Spent(t) * Len(lat["b"]) >= 14 * Spent("b") * Len(lat[t])
               PROVE  \/ Slower(times[t], times["a"]) <= 0
                      \/ MoreThanSpent(t) \/ Negligible(t)
    BY DEF FlagSoundWhenDear
  <1>1. crosscheck[t] = "impossible"
    BY DEF Flagged, FilesInv, Shown, Printed
  <1>2. /\ times["a"] # <<>> /\ "b" \in Probed /\ t \in Probed /\ times[t] # <<>>
        /\ Verdict(times[t], times["a"], Hist(t), Hist("b")) = "impossible"
    BY <1>1 DEF crosscheck, Checked
  <1>3. TooMuch(times[t], times["a"], Hist(t), Hist("b"))
    BY <1>2 DEF Verdict
  <1>4. times[t] \in Seq(Int) \ {<<>>} /\ times["a"] \in Seq(Int) \ {<<>>}
    BY <1>2, ConstantsAre DEF FilesInv, Macros
  <1>5. lat[t] \in Seq(Latency) \ {<<>>} /\ lat["b"] \in Seq(Latency) \ {<<>>}
    BY <1>2, ConstantsAre DEF FilesInv, Micros, Probed, Microed
  <1> DEFINE v == times[t]
             base == times["a"]
             st == lat[t]
             sb == lat["b"]
  <1>6. /\ v \in Seq(Int) \ {<<>>} /\ base \in Seq(Int) \ {<<>>}
        /\ st \in Seq(Latency) \ {<<>>} /\ sb \in Seq(Latency) \ {<<>>}
    BY <1>4, <1>5
  <1>7. /\ TooMuch(v, base, oh_record(st), oh_record(sb))
        /\ 5 * SumOf(st) * Len(sb) >= 14 * SumOf(sb) * Len(st)
    BY <1>3 DEF Hist, Spent
  <1> DEFINE Loss == \/ Slower(v, base) <= 0
                     \/ Slower(v, base) * Len(sb)
                          > (SumOf(st) * Len(sb) - SumOf(sb) * Len(st)) * Len(base) * Len(v)
                     \/ 100000 * (SumOf(st) * Len(sb) - SumOf(sb) * Len(st)) * Len(base)
                          <= 3 * Len(sb) * SumOf(base)
  <1>8. Loss
    <2> HIDE DEF v, base, st, sb
    <2>1. QED
      BY ONLY <1>6, <1>7, FlagSound
  <1>9. QED
    BY <1>8 DEF MoreThanSpent, Negligible, Spent

LEMMA ReportTyped ==
  ASSUME FilesInv
  PROVE  ReportTypeOK
  <1>1. measured \in 1..PASSES /\ left \subseteq Tier /\ micro \in 0..Len(MicroTiers)
    BY DEF FilesInv, Progress
  <1>2. \A S : \A s \in Seq(S) : ToSet(s) \subseteq S
    BY DEF ToSet
  <1>3. ASSUME NEW t \in Tier
        PROVE  /\ ToSet(times[t]) \subseteq Times /\ Ascending(times[t])
               /\ Len(times[t]) = RUNS * (IF t \in left THEN measured - 1 ELSE measured)
    <2>1. times[t] \in Seq(Times)
      BY DEF FilesInv, Macros
    <2>2. QED
      BY <1>2, <2>1 DEF FilesInv, Macros
  <1>4. ASSUME NEW t \in ToSet(MicroTiers)
        PROVE  /\ ToSet(lat[t]) \subseteq Latencies
               /\ lat[t] # <<>> <=> \E i \in 1..micro : MicroTiers[i] = t
    <2>1. lat[t] \in Seq(Latencies)
      BY DEF FilesInv, Micros, Microed
    <2>2. QED
      BY <1>2, <2>1 DEF FilesInv, Micros, Microed
  <1>5. ASSUME table # None
        PROVE  /\ table.macro \in [Tier \ {"a"} -> {"absent", "noise", "over"}]
               /\ table.cross \in [Tier \ {"a", "b"} -> Verdicts]
               /\ table.raised => ~\E t \in DOMAIN table.cross : table.cross[t] # "absent"
    <2>1. /\ table.macro = macro_table /\ table.cross = crosscheck
          /\ table.raised = Raises
      BY <1>5 DEF FilesInv, Shown, Printed
    <2>2. macro_table \in [Tier \ {"a"} -> {"absent", "noise", "over"}]
      BY DEF macro_table, Significance
    <2>3. crosscheck \in [Tier \ {"a", "b"} -> Verdicts]
      BY DEF crosscheck, Verdict, Verdicts
    <2>4. ASSUME Raises, NEW t \in DOMAIN crosscheck PROVE crosscheck[t] = "absent"
      <3>1. t \in Tier \ {"a", "b"}
        BY DEF crosscheck
      <3>2. t \notin Probed
        BY <2>4, <3>1 DEF Raises
      <3>3. QED
        BY <3>1, <3>2 DEF crosscheck
    <2>5. QED
      BY <2>1, <2>2, <2>3, <2>4
  <1>6. QED
    BY <1>1, <1>3, <1>4, <1>5 DEF ReportTypeOK

\* Every variable of the report has its type, and the lengths are those of the
\* rounds that ran.
THEOREM ReportTypeCorrect == ReportSpec => []ReportTypeOK
  <1>1. FilesInv => ReportTypeOK
    BY ReportTyped
  <1>2. QED
    BY <1>1, FilesInvariant, PTL

\* A quantile of micro_table() is the range that holds the quantile of the
\* latencies themselves.
THEOREM QuantileRightAlways == ReportSpec => []QuantileRight
  <1>1. FilesInv => QuantileRight
    BY QuantileRightNow
  <1>2. QED
    BY <1>1, FilesInvariant, PTL

\* A tier that makes the measurement invalid is above the noise of macro_table()
\* and of crosscheck().
THEOREM FlagsAgreeAlways == ReportSpec => []FlagsAgree
  <1>1. FilesInv => FlagsAgree
    BY FlagsAgreeNow
  <1>2. QED
    BY <1>1, FilesInvariant, PTL

\* A Delta that crosscheck() calls impossible is none that the hook caused, where
\* a call takes at least 14/5 of the time it takes in b.
THEOREM FlagSoundAlways == ReportSpec => []FlagSoundWhenDear
  <1>1. FilesInv => FlagSoundWhenDear
    BY FlagSoundNow
  <1>2. QED
    BY <1>1, FilesInvariant, PTL

=============================================================================
