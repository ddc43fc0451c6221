--------------------------- MODULE InodeWatch_proofs ---------------------------
(***************************************************************************)
(* What holds of InodeWatch for any number of polls and mishaps, with and  *)
(* without --with-apt.  That a verdict says what happened needs that the   *)
(* sleep after an operation is long enough (Prompt), the rest does not.    *)
(***************************************************************************)
EXTENDS InodeWatch, Integers, SequenceTheorems, FiniteSetTheorems, WellFoundedInduction, TLAPS

-----------------------------------------------------------------------------
(* The inductive invariant *)

Place == {"launch", "poll", "case", "op", "count", "kill", "wait", "report", "exit",
          "trap_wait", "rm", "end"}
Over == {"exit", "trap_wait", "rm", "end"}
Row == [changed : BOOLEAN, fan : BOOLEAN, there : BOOLEAN]

\* A case of the script is gone through once and has its row at its end.
Order ==
  /\ script \in Place
  /\ i \in Nat \ {0}
  /\ rows \in [CaseNo -> Row]
  /\ script \in {"op", "count"} => i \in CaseNo
  /\ script = "count" => Cases[i].kind # "prep"
  /\ \A c \in CaseNo : c >= i => ~rows[c].there
  /\ \A c \in CaseNo : rows[c].changed => rows[c].there

\* Where an event is between the kernel and the log.
Delivery ==
  /\ queue \subseteq raised /\ buf \subseteq raised /\ since \subseteq raised
  /\ raised \subseteq CaseNo
  /\ watcher # "print" => buf = {}
  /\ \A c \in raised : c <= i /\ (script \in {"launch", "poll", "case"} => c < i)
  /\ script \in {"op", "count"} /\ i \in raised => i \in queue \cup buf \cup since
  /\ Prompt => \A c \in queue \cup buf : ~rows[c].there
  /\ Prompt /\ script \in {"op", "count"} /\ Cases[i].kind # "prep" => \A c \in since : ~rows[c].there

\* What the rows, and the verdict, say.
Truthful ==
  /\ Prompt => \A c \in CaseNo : rows[c].there /\ ~rows[c].fan => c \notin raised
  /\ verdict # "none" => script \in Over
  /\ Prompt /\ verdict = "fail" => \E c \in CaseNo : rows[c].changed /\ c \notin raised
  /\ verdict = "pass" => \A c \in CaseNo : rows[c].changed => rows[c].fan

\* The directory above a denied one is marked while cases run.
OfLab == [at |-> "lab", whole |-> FALSE]
Denied ==
  /\ ino = [p \in Path |-> ino[p]]
  /\ watcher \in {"none", "start", "check", "read", "print", "gone"}
  /\ script = "launch" => watcher = "none"
  /\ script = "poll" => watcher # "none"
  /\ watcher \in {"check", "read", "print"} => OfLab \in marks
  /\ script \in {"case", "op", "count"} => OfLab \in marks
  /\ script \in {"op", "count"} /\ Cases[i].kind = "deny" =>
       before = ino["etc"] \/ i \in raised
  /\ \A c \in CaseNo : Cases[c].kind = "deny" /\ rows[c].changed => c \in raised

Gone == script \in {"rm", "end"} /\ trapped => watcher = "gone"

IInv == Order /\ Delivery /\ Truthful /\ Denied /\ Gone

-----------------------------------------------------------------------------
(* The cases *)

USE FlagAssumption, NumberAssumption

LEMMA CaseCount == Len(Cases) \in Nat /\ CaseNo \subseteq Nat \ {0}
  <1>1. Len(Lab) = 18
    BY DEF Lab
  <1>2. Lab \in Seq({Lab[k] : k \in 1..18})
    BY DEF Lab
  <1>3. Len(Cases) \in Nat
    BY <1>1, <1>2 DEF Cases
  <1> QED
    BY <1>3 DEF CaseNo

LEMMA CaseIs ==
  \A c \in CaseNo : (c \in 1..18 /\ Cases[c] = Lab[c]) \/ Cases[c] = Apt
  <1>1. Len(Lab) = 18
    BY DEF Lab
  <1>2. Lab \in Seq({Lab[k] : k \in 1..18})
    BY DEF Lab
  <1>3. CASE WithApt
    <2> DEFINE S == {Lab[k] : k \in 1..18} \cup {Apt}
    <2>1. Lab \in Seq(S) /\ Apt \in S
      BY <1>2
    <2>2. Cases = Append(Lab, Apt)
      BY <1>3 DEF Cases
    <2> HIDE DEF S
    <2>3. /\ Len(Append(Lab, Apt)) = Len(Lab) + 1
          /\ \A c \in 1..Len(Lab) : Append(Lab, Apt)[c] = Lab[c]
          /\ Append(Lab, Apt)[Len(Lab) + 1] = Apt
      BY <2>1, AppendProperties
    <2> QED
      BY <1>1, <2>2, <2>3 DEF CaseNo
  <1>4. CASE ~WithApt
    BY <1>1, <1>4 DEF CaseNo, Cases
  <1> QED
    BY <1>3, <1>4

\* Only /etc of the laboratory is replaced where the deny list forbids it.
LEMMA DenyIsEtc == \A c \in CaseNo : Cases[c].kind = "deny" => Cases[c].target = "etc"
  <1>1. \A c \in 1..18 : Lab[c].kind = "deny" => Lab[c].target = "etc"
    BY DEF Lab, Case
  <1>2. Apt.kind = "allow"
    BY DEF Apt, Case
  <1> QED
    BY <1>1, <1>2, CaseIs

\* A step that changes what a name stands for raises an event about the directory
\* the name is in.
LEMMA ChangeRaises ==
  ASSUME ino = [p \in Path |-> ino[p]], NEW op, NEW p \in Path, After(op)[p] # ino[p]
  PROVE  \E ev \in Raises(op) : ev[1] \in Mask /\ ev[2] = Parent[p]
  <1>1. CASE op.do = "rename"
    <2>1. p = op.to \/ p = op.path
      BY <1>1 DEF After
    <2>2. /\ <<"MOVED_FROM", Parent[op.path]>> \in Raises(op)
          /\ <<"MOVED_TO", Parent[op.to]>> \in Raises(op)
      BY <1>1 DEF Raises
    <2> QED
      BY <2>1, <2>2 DEF Mask
  <1>2. CASE op.do = "unlink"
    <2>1. p = op.path
      BY <1>2 DEF After
    <2>2. <<"DELETE", Parent[op.path]>> \in Raises(op)
      BY <1>2 DEF Raises
    <2> QED
      BY <2>1, <2>2 DEF Mask
  <1>3. CASE op.do # "rename" /\ op.do # "unlink"
    <2>1. op.do = "write" /\ ino[op.path] = 0 /\ p = op.path
      BY <1>3 DEF After
    <2>2. <<"CREATE", Parent[op.path]>> \in Raises(op)
      BY <1>3, <2>1 DEF Raises
    <2> QED
      BY <2>1, <2>2 DEF Mask
  <1> QED
    BY <1>1, <1>2, <1>3

LEMMA AfterIsFunction ==
  ASSUME ino = [p \in Path |-> ino[p]], NEW op
  PROVE  After(op) = [p \in Path |-> After(op)[p]]
  BY DEF After

-----------------------------------------------------------------------------
(* Every step keeps the invariant *)

LEMMA InitIInv == Init => IInv
  <1> SUFFICES ASSUME Init PROVE IInv
    OBVIOUS
  <1>1. script = "launch" /\ i = 1 /\ verdict = "none" /\ watcher = "none"
    BY DEF Init
  <1>2. queue = {} /\ buf = {} /\ since = {} /\ raised = {}
    BY DEF Init
  <1>3. rows = [c \in CaseNo |-> NoRow]
    BY DEF Init
  <1>4. Order
    BY <1>1, <1>3 DEF Order, Place, Row, NoRow
  <1>5. Delivery
    BY <1>1, <1>2 DEF Delivery
  <1>6. Truthful
    BY <1>1, <1>3 DEF Truthful, NoRow
  <1>7. Denied
    <2>1. ino = [p \in Path |-> ino[p]]
      BY DEF Init
    <2> QED
      BY <1>1, <1>3, <2>1 DEF Denied, NoRow
  <1>8. Gone
    BY <1>1 DEF Gone
  <1> QED
    BY <1>4, <1>5, <1>6, <1>7, <1>8 DEF IInv

\* The steps of the script that have nothing to do with a case.
LEMMA MoveKeeps ==
  ASSUME IInv, Launch \/ Poll \/ Kill \/ Wait \/ Trap \/ TrapWait \/ Remove \/ Die \/ Interrupt
  PROVE  IInv'
  <1> USE DEF IInv
  <1>1. UNCHANGED <<i, before, rows, verdict, ino, marks, queue, buf, since, raised>>
    BY DEF Launch, Poll, Kill, Wait, Trap, TrapWait, Remove, Die, Interrupt, world, fs,
           process, events, outcome
  <1>2. /\ script' \in Place \ {"launch", "op", "count"}
        /\ script' = "case" => script \in {"poll", "case"}
        /\ script' = "poll" => script \in {"launch", "poll"}
        /\ script \in Over => script' \in Over
    BY DEF Launch, Poll, Kill, Wait, Trap, TrapWait, Remove, Die, Interrupt, Place, Over
  <1>3. Order'
    BY <1>1, <1>2 DEF Order, Place
  <1>4. /\ watcher' = watcher \/ (watcher' = "start" /\ script = "launch")
        /\ script = "launch" => watcher' = "start" \/ script' \notin {"poll", "case"}
        /\ script = "poll" /\ script' = "case" => watcher \notin {"start", "gone"}
    BY DEF Launch, Poll, Kill, Wait, Trap, TrapWait, Remove, Die, Interrupt, world, fs, process
  <1>5. Delivery'
    BY <1>1, <1>2, <1>4 DEF Delivery, Denied
  <1>6. Truthful'
    BY <1>1, <1>2 DEF Truthful
  <1>7. Denied'
    BY <1>1, <1>2, <1>4 DEF Denied
  <1>8. Gone'
    <2>1. CASE script \in {"rm", "end"}
      BY <2>1 DEF Launch, Poll, Kill, Wait, Trap, TrapWait, Remove, Die, Interrupt, Gone, world,
                  process
    <2>2. CASE script \notin {"rm", "end"}
      BY <2>2 DEF Launch, Poll, Kill, Wait, Trap, TrapWait, Remove, Die, Interrupt, Gone, world,
                  process
    <2> QED
      BY <2>1, <2>2
  <1> QED
    BY <1>3, <1>5, <1>6, <1>7, <1>8

LEMMA BeginKeeps == ASSUME IInv, Begin PROVE IInv'
  <1> USE DEF IInv
  <1>1. /\ script = "case" /\ i <= Len(Cases) /\ script' = "op"
        /\ before' = ino[Cases[i].target]
        /\ UNCHANGED <<i, rows, verdict, ino, marks, watcher, queue, buf, raised>>
        /\ since' = IF Cases[i].kind = "prep" THEN since ELSE {}
    BY DEF Begin, fs, process, outcome
  <1>2. i \in CaseNo
    BY <1>1, CaseCount DEF Order, CaseNo
  <1>3. i \notin raised
    BY <1>1, <1>2, CaseCount DEF Delivery
  <1>4. Order'
    BY <1>1, <1>2 DEF Order, Place
  <1>5. Delivery'
    BY <1>1, <1>3 DEF Delivery
  <1>6. Truthful'
    BY <1>1 DEF Truthful, Over
  <1>7. Denied'
    BY <1>1, <1>2, DenyIsEtc DEF Denied
  <1>8. Gone'
    BY <1>1 DEF Gone
  <1> QED
    BY <1>4, <1>5, <1>6, <1>7, <1>8

LEMMA OperateKeeps == ASSUME IInv, Operate PROVE IInv'
  <1> USE DEF IInv
  <1> DEFINE op == Cases[i].ops[step]
             told == \E ev \in Raises(op) : Told(ev)
  <1>1. /\ script = "op"
        /\ ino' = After(op)
        /\ queue' = IF told THEN queue \cup {i} ELSE queue
        /\ raised' = IF told THEN raised \cup {i} ELSE raised
        /\ UNCHANGED <<before, rows, verdict, watcher, marks, buf, since>>
    BY DEF Operate, process, outcome
  <1>2. \/ script' = "op" /\ i' = i
        \/ script' = "count" /\ i' = i /\ Cases[i].kind # "prep"
        \/ script' = "case" /\ i' = i + 1 /\ Cases[i].kind = "prep"
    BY <1>1 DEF Operate
  <1>3. i \in CaseNo /\ i \in Nat \ {0}
    BY <1>1 DEF Order
  <1>4. Order'
    BY <1>1, <1>2, <1>3, CaseCount DEF Order, Place
  <1>5. Delivery'
    BY <1>1, <1>2, <1>3, CaseCount DEF Delivery, Order
  <1>6. Truthful'
    BY <1>1, <1>2, <1>3, CaseCount DEF Truthful, Order, Over
  <1>7. Denied'
    <2>1. ino' = [p \in Path |-> ino'[p]]
      BY <1>1, AfterIsFunction DEF Denied
    <2>2. "etc" \in Path /\ Parent["etc"] = "lab"
      BY DEF Path, Parent
    <2>3. ino'["etc"] = ino["etc"] \/ i \in raised'
      <3> SUFFICES ASSUME After(op)["etc"] # ino["etc"] PROVE told
        BY <1>1
      <3>1. PICK ev \in Raises(op) : ev[1] \in Mask /\ ev[2] = "lab"
        BY <2>2, ChangeRaises DEF Denied
      <3>2. OfLab \in marks /\ OfLab.at = "lab"
        BY <1>1 DEF Denied, OfLab
      <3>3. Told(ev)
        BY <3>1, <3>2 DEF Told
      <3> QED
        BY <3>3
    <2> QED
      BY <1>1, <1>2, <2>1, <2>3 DEF Denied
  <1>8. Gone'
    BY <1>2 DEF Gone
  <1> QED
    BY <1>4, <1>5, <1>6, <1>7, <1>8

LEMMA SkipKeeps == ASSUME IInv, Skip PROVE IInv'
  <1> USE DEF IInv
  <1>1. /\ script = "op" /\ script' = "case" /\ i' = i + 1
        /\ UNCHANGED <<before, rows, verdict, ino, watcher, marks, queue, buf, since, raised>>
    BY DEF Skip, world, fs, process, events, outcome
  <1>2. i \in CaseNo /\ i \in Nat \ {0}
    BY <1>1 DEF Order
  <1>3. Order'
    BY <1>1, <1>2, CaseCount DEF Order, Place
  <1>4. Delivery'
    BY <1>1, <1>2, CaseCount DEF Delivery
  <1>5. Truthful' /\ Denied' /\ Gone'
    BY <1>1 DEF Truthful, Denied, Gone, Over
  <1> QED
    BY <1>3, <1>4, <1>5

LEMMA CountKeeps == ASSUME IInv, Count PROVE IInv'
  <1> USE DEF IInv
  <1> DEFINE differs == before # ino[Cases[i].target]
             seen == since # {}
  <1>1. /\ script = "count" /\ script' = "case" /\ i' = i + 1
        /\ Prompt => queue = {} /\ buf = {}
        /\ rows' = [rows EXCEPT ![i] = [changed |-> differs, fan |-> seen, there |-> TRUE]]
        /\ UNCHANGED <<before, verdict, ino, watcher, marks, queue, buf, since, raised>>
    BY DEF Count, world, fs, process, events
  <1>2. i \in CaseNo /\ i \in Nat \ {0}
    BY <1>1 DEF Order
  <1>3. /\ rows' \in [CaseNo -> Row]
        /\ \A c \in CaseNo : c # i => rows'[c] = rows[c]
        /\ rows'[i].changed = differs /\ rows'[i].fan = seen /\ rows'[i].there = TRUE
    BY <1>1, <1>2 DEF Order, Row
  <1>4. Order'
    BY <1>1, <1>2, <1>3, CaseCount DEF Order, Place
  <1>5. Delivery'
    BY <1>1, <1>2, <1>3, CaseCount DEF Delivery
  <1>6. Prompt /\ i \in raised => seen
    BY <1>1 DEF Delivery
  <1>7. Truthful'
    BY <1>1, <1>2, <1>3, <1>6 DEF Truthful, Over
  <1>8. Denied'
    BY <1>1, <1>2, <1>3, DenyIsEtc DEF Denied
  <1>9. Gone'
    BY <1>1 DEF Gone
  <1> QED
    BY <1>4, <1>5, <1>7, <1>8, <1>9

LEMMA ReportKeeps == ASSUME IInv, Report PROVE IInv'
  <1> USE DEF IInv
  <1>1. /\ script = "report" /\ script' = "exit"
        /\ verdict' = IF Changed = {} THEN "undecided" ELSE IF Missed = {} THEN "pass" ELSE "fail"
        /\ UNCHANGED <<i, before, rows, ino, watcher, marks, queue, buf, since, raised>>
    BY DEF Report, world, fs, process, events
  <1>2. Order' /\ Delivery'
    BY <1>1 DEF Order, Place, Delivery
  <1>3. Truthful'
    BY <1>1 DEF Truthful, Over, Missed, Changed, Order
  <1>4. Denied' /\ Gone'
    BY <1>1 DEF Denied, Gone
  <1> QED
    BY <1>2, <1>3, <1>4

LEMMA WatcherKeeps == ASSUME IInv, Watcher \/ MarkFails \/ OnSig PROVE IInv'
  <1> USE DEF IInv
  <1>1. /\ UNCHANGED <<script, i, before, rows, verdict, trapped, ino, raised>>
        /\ marks' = marks \/ OfLab \in marks'
    BY DEF Watcher, Mark, MarkFails, Check, Read, PrintLine, OnSig, others, fs, outcome, OfLab
  <1>2. Order' /\ Truthful'
    BY <1>1 DEF Order, Truthful
  <1>3. CASE Mark \/ MarkFails \/ Check \/ OnSig
    <2>1. /\ UNCHANGED <<queue, buf, since>>
          /\ watcher \notin {"none", "gone"} /\ watcher' # "none"
          /\ watcher' = "print" => watcher = "print"
          /\ watcher = "print" => watcher' = "print"
          /\ watcher' \in {"check", "read", "print"} =>
                watcher \in {"check", "read", "print"} \/ OfLab \in marks'
      <3>1. CASE Mark
        BY <3>1 DEF Mark, OfLab
      <3>2. CASE MarkFails
        BY <3>2 DEF MarkFails
      <3>3. CASE Check
        BY <3>3 DEF Check
      <3>4. CASE OnSig
        BY <3>4 DEF OnSig
      <3> QED
        BY <1>3, <3>1, <3>2, <3>3, <3>4
    <2>2. watcher' \in {"none", "start", "check", "read", "print", "gone"}
      BY <1>3 DEF Mark, MarkFails, Check, OnSig, Denied
    <2>3. Delivery'
      BY <1>1, <2>1 DEF Delivery
    <2>4. Denied' /\ Gone'
      BY <1>1, <2>1, <2>2, <1>3 DEF Denied, Gone
    <2> QED
      BY <1>2, <2>3, <2>4
  <1>4. CASE Read
    <2>1. /\ watcher = "read" /\ watcher' = "print" /\ buf' = queue /\ queue' = {}
          /\ UNCHANGED <<since, marks>>
      BY <1>4 DEF Read
    <2>2. Delivery'
      BY <1>1, <2>1 DEF Delivery
    <2>3. Denied' /\ Gone'
      BY <1>1, <2>1 DEF Denied, Gone
    <2> QED
      BY <1>2, <2>2, <2>3
  <1>5. CASE PrintLine
    <2>1. PICK c \in buf : /\ since' = since \cup {c} /\ buf' = buf \ {c}
                           /\ watcher' = IF buf = {c} THEN "check" ELSE "print"
      BY <1>5 DEF PrintLine
    <2>2. watcher = "print" /\ UNCHANGED <<queue, marks>>
      BY <1>5 DEF PrintLine
    <2>3. Delivery'
      BY <1>1, <2>1, <2>2 DEF Delivery
    <2>4. Denied' /\ Gone'
      BY <1>1, <2>1, <2>2 DEF Denied, Gone
    <2> QED
      BY <1>2, <2>3, <2>4
  <1> QED
    BY <1>3, <1>4, <1>5 DEF Watcher

LEMMA NextKeeps == ASSUME IInv, [Next]_vars PROVE IInv'
  <1>1. CASE Script
    BY <1>1, MoveKeeps, BeginKeeps, OperateKeeps, CountKeeps, ReportKeeps DEF Script
  <1>2. CASE Watcher \/ MarkFails \/ OnSig
    BY <1>2, WatcherKeeps
  <1>3. CASE Skip
    BY <1>3, SkipKeeps
  <1>4. CASE Die \/ Interrupt
    BY <1>4, MoveKeeps
  <1>5. CASE UNCHANGED vars
    <2>1. UNCHANGED <<script, i, before, rows, verdict, trapped, ino, raised, queue, buf, since,
                      watcher, marks>>
      BY <1>5 DEF vars, outcome, fs, process, events
    <2>2. Order' /\ Delivery'
      BY <2>1 DEF IInv, Order, Delivery
    <2>3. Truthful' /\ Denied' /\ Gone'
      BY <2>1 DEF IInv, Truthful, Denied, Gone
    <2> QED
      BY <2>2, <2>3 DEF IInv
  <1> QED
    BY <1>1, <1>2, <1>3, <1>4, <1>5 DEF Next

\* The invariant the rest follows from.
THEOREM InvariantHolds == Spec => []IInv
  <1>1. IInv /\ [Next]_vars => IInv'
    BY NextKeeps
  <1> QED
    BY <1>1, InitIInv, PTL DEF Spec

-----------------------------------------------------------------------------
(* What follows *)

\* A row that says fanotify saw nothing is right, so that a verdict of failure is
\* no false alarm and a pass leaves out no replacement (report.py), whatever
\* fails and whenever Ctrl-C is typed, if 0.3 s (cases.sh) is time enough for
\* inowatch to print what an operation raised.
THEOREM VerdictSoundAlways == ASSUME Prompt PROVE Spec => []VerdictSound
  <1>1. IInv => VerdictSound
    <2> SUFFICES ASSUME IInv PROVE VerdictSound
      OBVIOUS
    <2>1. script = "count" => \A c \in since : c = i \/ Cases[c].kind = "prep" \/ ~rows[c].there
      <3> SUFFICES ASSUME script = "count" PROVE
                     \A c \in since : c = i \/ Cases[c].kind = "prep" \/ ~rows[c].there
        OBVIOUS
      <3>1. \A c \in since : ~rows[c].there
        BY DEF IInv, Order, Delivery
      <3> QED
        BY <3>1
    <2>2. \A c \in CaseNo : rows[c].there /\ ~rows[c].fan => c \notin raised
      BY DEF IInv, Truthful
    <2>3. /\ verdict = "fail" => \E c \in CaseNo : rows[c].changed /\ c \notin raised
          /\ verdict = "pass" => \A c \in CaseNo : rows[c].changed => rows[c].fan
      BY DEF IInv, Truthful
    <2> QED
      BY <2>1, <2>2, <2>3 DEF VerdictSound
  <1> QED
    BY <1>1, InvariantHolds, PTL

\* Whatever replaces a directory of the deny list is reported, for the directory
\* above it is marked (inowatch.c).
THEOREM DenyReplacementSeenAlways == Spec => []DenyReplacementSeen
  <1>1. IInv => DenyReplacementSeen
    BY DEF IInv, Denied, DenyReplacementSeen
  <1> QED
    BY <1>1, InvariantHolds, PTL

\* No inowatch outlives a script that had set its trap (trap, cases.sh).
THEOREM NoWatcherLeftAlways == Spec => []NoWatcherLeft
  <1>1. IInv => NoWatcherLeft
    BY DEF IInv, Gone, NoWatcherLeft
  <1> QED
    BY <1>1, InvariantHolds, PTL

-----------------------------------------------------------------------------
(* The steps of an operation *)

Op == [do : {"write", "rename", "unlink", "chmod"}, path : Path, to : Path]
OpsOK(ops) == ops \in Seq(Op) /\ Len(ops) \in 1..7

LEMMA OpTypes ==
  ASSUME NEW p \in Path, NEW q \in Path
  PROVE  /\ Write(p) \in Op /\ Mkdir(p) \in Op /\ Rename(p, q) \in Op
         /\ Unlink(p) \in Op /\ Chmod(p) \in Op
  BY DEF Write, Mkdir, Rename, Unlink, Chmod, Op

LEMMA OpsLengths ==
  /\ \A a \in Op : OpsOK(<<a>>)
  /\ \A a, b \in Op : OpsOK(<<a, b>>)
  /\ \A a, b, c \in Op : OpsOK(<<a, b, c>>)
  /\ \A a, b, c, d, e, f, g \in Op : OpsOK(<<a, b, c, d, e, f, g>>)
  BY DEF OpsOK

LEMMA PathNames ==
  Path = {"bin", "etc", "log", "etc_new", "bind", "tool", "tool_new", "link", "link_new", "conf",
          "conf_new", "added", "app", "app_old", "jq", "jq_new", "usr_bin"}
  BY DEF Path, Parent

LEMMA CaseSteps ==
  \A c \in CaseNo : OpsOK(Cases[c].ops) /\ Cases[c].target \in Path
  <1> DEFINE OK(c) == OpsOK(c.ops) /\ c.target \in Path
  <1>0. \A t \in Path : \A k, ops : OpsOK(ops) => OK(Case(t, k, ops))
    BY DEF Case
  <1> HIDE DEF OK
  <1>1. OK(Lab[1])
    BY <1>0, OpTypes, OpsLengths, PathNames DEF Lab
  <1>2. OK(Lab[2])
    BY <1>0, OpTypes, OpsLengths, PathNames DEF Lab
  <1>3. OK(Lab[3])
    BY <1>0, OpTypes, OpsLengths, PathNames DEF Lab
  <1>4. OK(Lab[4])
    BY <1>0, OpTypes, OpsLengths, PathNames DEF Lab
  <1>5. OK(Lab[5])
    BY <1>0, OpTypes, OpsLengths, PathNames DEF Lab
  <1>6. OK(Lab[6])
    BY <1>0, OpTypes, OpsLengths, PathNames DEF Lab
  <1>7. OK(Lab[7])
    BY <1>0, OpTypes, OpsLengths, PathNames DEF Lab
  <1>8. OK(Lab[8])
    BY <1>0, OpTypes, OpsLengths, PathNames DEF Lab
  <1>9. OK(Lab[9])
    BY <1>0, OpTypes, OpsLengths, PathNames DEF Lab
  <1>10. OK(Lab[10])
    BY <1>0, OpTypes, OpsLengths, PathNames DEF Lab
  <1>11. OK(Lab[11])
    BY <1>0, OpTypes, OpsLengths, PathNames DEF Lab
  <1>12. OK(Lab[12])
    BY <1>0, OpTypes, OpsLengths, PathNames DEF Lab
  <1>13. OK(Lab[13])
    BY <1>0, OpTypes, OpsLengths, PathNames DEF Lab
  <1>14. OK(Lab[14])
    BY <1>0, OpTypes, OpsLengths, PathNames DEF Lab
  <1>15. OK(Lab[15])
    BY <1>0, OpTypes, OpsLengths, PathNames DEF Lab
  <1>16. OK(Lab[16])
    BY <1>0, OpTypes, OpsLengths, PathNames DEF Lab
  <1>17. OK(Lab[17])
    BY <1>0, OpTypes, OpsLengths, PathNames DEF Lab
  <1>18. OK(Lab[18])
    BY <1>0, OpTypes, OpsLengths, PathNames DEF Lab
  <1>19. OK(Apt)
    BY <1>0, OpTypes, OpsLengths, PathNames DEF Apt
  <1>20. \A c \in 1..18 : OK(Lab[c])
    BY <1>1, <1>2, <1>3, <1>4, <1>5, <1>6, <1>7, <1>8, <1>9, <1>10, <1>11, <1>12, <1>13, <1>14,
       <1>15, <1>16, <1>17, <1>18
  <1>21. \A c \in CaseNo : OK(Cases[c])
    BY <1>19, <1>20, CaseIs
  <1> QED
    BY <1>21 DEF OK

LEMMA PathFinite == IsFiniteSet(Path)
  <1> DEFINE name == <<"bin", "etc", "log", "etc_new", "bind", "tool", "tool_new", "link", "link_new",
                       "conf", "conf_new", "added", "app", "app_old", "jq", "jq_new", "usr_bin">>
  <1>1. name \in Surjection(1..17, Path)
    BY PathNames DEF Surjection
  <1>2. IsFiniteSet(1..17)
    <2>1. 1 \in Int /\ 17 \in Int
      OBVIOUS
    <2> QED
      BY <2>1, FS_Interval
  <1> HIDE DEF name
  <1> QED
    BY <1>1, <1>2, FS_Surjection

-----------------------------------------------------------------------------
(* Inode numbers *)

\* A non-empty set of naturals has a least element.
LEMMA NatLeast ==
  ASSUME NEW T, T \subseteq Nat, T # {}
  PROVE  \E x \in T : \A y \in T : x <= y
  <1> DEFINE R == OpToRel(<, Nat)
  <1>1. IsWellFoundedOn(R, Nat)
    BY NatLessThanWellFounded
  <1>2. \A x, y \in Nat : y < x => <<y, x>> \in R
    BY DEF OpToRel
  <1> HIDE DEF R
  <1>3. PICK x \in T : \A y \in T : ~(<<y, x>> \in R)
    BY <1>1, WFMin
  <1>4. ASSUME NEW y \in T PROVE x <= y
    <2>1. x \in Nat /\ y \in Nat /\ ~(y < x)
      BY <1>2, <1>3
    <2> QED
      BY <2>1
  <1> QED
    BY <1>4

\* Two names never stand for one inode.
OneName == \A p, q \in Path : ino[p] # 0 /\ ino[p] = ino[q] => p = q

\* Where numbers are not given out again, what the steps so far have made is below
\* what the next one makes.
Made ==
  ~reuse => /\ script \in {"launch", "poll", "case"} => \A p \in Path : ino[p] <= 10 * i + 1
            /\ script \in {"op", "count"} => \A p \in Path : ino[p] <= 10 * i + step

Inodes == ino \in [Path -> Nat] /\ OneName /\ Made

\* Among the numbers up to one more than there are paths one is free.
LEMMA LowestFree ==
  ASSUME ino \in [Path -> Nat]
  PROVE  LET used == {ino[p] : p \in Path} IN
         \E n \in 1..(Cardinality(Path) + 1) : n \notin used /\ \A k \in 1..(n - 1) : k \in used
  <1> DEFINE used == {ino[p] : p \in Path}
             card == Cardinality(Path)
             free == (1..(card + 1)) \ used
  <1>1. card \in Nat
    BY PathFinite, FS_CardinalityType
  <1>2. ino \in Surjection(Path, used)
    BY DEF Surjection
  <1>3. IsFiniteSet(used) /\ Cardinality(used) <= card /\ Cardinality(used) \in Nat
    <2> HIDE DEF used
    <2> QED
      BY <1>2, PathFinite, FS_Surjection, FS_CardinalityType
  <1>4. Cardinality(1..(card + 1)) = card + 1
    <2>1. 1 \in Int /\ card + 1 \in Int /\ ~(1 > card + 1) /\ (card + 1) - 1 + 1 = card + 1
      BY <1>1
    <2> HIDE DEF card
    <2> QED
      BY <2>1, FS_Interval
  <1>5. free # {}
    <2> SUFFICES ASSUME free = {} PROVE FALSE
      OBVIOUS
    <2>1. 1..(card + 1) \in SUBSET used
      OBVIOUS
    <2> HIDE DEF used, card
    <2>2. Cardinality(1..(card + 1)) <= Cardinality(used)
      BY <1>3, <2>1, FS_Subset
    <2> QED
      BY <1>1, <1>3, <1>4, <2>2
  <1>6. free \subseteq Nat
    BY <1>1
  <1>7. PICK n \in free : \A y \in free : n <= y
    <2> HIDE DEF free
    <2> QED
      BY <1>5, <1>6, NatLeast
  <1>8. ASSUME NEW k \in 1..(n - 1) PROVE k \in used
    <2>1. k \in 1..(card + 1) /\ ~(n <= k)
      BY <1>1, <1>7
    <2> QED
      BY <1>7, <2>1
  <1> QED
    BY <1>7, <1>8

\* A new file gets a number no other file has.
LEMMA FreshIsFree ==
  ASSUME Inodes, script = "op", i \in Nat, step \in Nat
  PROVE  /\ FreshIno \in Nat \ {0} /\ \A p \in Path : ino[p] # FreshIno
         /\ ~reuse => FreshIno = 1 + 10 * i + step
  <1>1. CASE reuse
    <2> DEFINE used == {ino[p] : p \in Path}
               card == Cardinality(Path)
    <2>1. \E n \in 1..(card + 1) : n \notin used /\ \A k \in 1..(n - 1) : k \in used
      BY LowestFree DEF Inodes
    <2>2. FreshIno = CHOOSE n \in 1..(card + 1) : n \notin used /\ \A k \in 1..(n - 1) : k \in used
      BY <1>1 DEF FreshIno
    <2>3. FreshIno \in 1..(card + 1) /\ FreshIno \notin used
      <3> HIDE DEF used, card
      <3> QED
        BY <2>1, <2>2
    <2>4. card \in Nat
      BY PathFinite, FS_CardinalityType
    <2>5. FreshIno \in Nat \ {0}
      <3> HIDE DEF card
      <3> QED
        BY <2>3, <2>4
    <2> QED
      BY <1>1, <2>3, <2>5
  <1>2. CASE ~reuse
    <2>1. FreshIno = 1 + 10 * i + step
      BY <1>2 DEF FreshIno
    <2>2. \A p \in Path : ino[p] \in Nat /\ ino[p] <= 10 * i + step
      BY <1>2 DEF Inodes, Made
    <2> QED
      BY <1>2, <2>1, <2>2
  <1> QED
    BY <1>1, <1>2

LEMMA AfterKeeps ==
  ASSUME Inodes, NEW op \in Op, FreshIno \in Nat \ {0}, \A p \in Path : ino[p] # FreshIno
  PROVE  /\ After(op) \in [Path -> Nat]
         /\ \A p, q \in Path : After(op)[p] # 0 /\ After(op)[p] = After(op)[q] => p = q
         /\ \A p \in Path : \/ After(op)[p] \in {0, FreshIno}
                            \/ \E q \in Path : After(op)[p] = ino[q]
  <1>1. op.path \in Path /\ op.to \in Path
    BY DEF Op
  <1>2. /\ ino \in [Path -> Nat]
        /\ \A p, q \in Path : ino[p] # 0 /\ ino[p] = ino[q] => p = q
    BY DEF Inodes, OneName
  <1>3. CASE op.do = "rename"
    <2>1. After(op) = [ino EXCEPT ![op.to] = ino[op.path], ![op.path] = 0]
      BY <1>3 DEF After
    <2>2. \A p \in Path : After(op)[p] = IF p = op.path THEN 0
                                         ELSE IF p = op.to THEN ino[op.path] ELSE ino[p]
      BY <1>1, <1>2, <2>1
    <2>3. After(op) \in [Path -> Nat]
      BY <1>1, <1>2, <2>1
    <2> QED
      BY <1>1, <1>2, <2>2, <2>3
  <1>4. CASE op.do = "unlink"
    <2>1. After(op) = [ino EXCEPT ![op.path] = 0]
      BY <1>4 DEF After
    <2> QED
      BY <1>1, <1>2, <2>1
  <1>5. CASE op.do \notin {"rename", "unlink"} /\ op.do = "write" /\ ino[op.path] = 0
    <2>1. After(op) = [ino EXCEPT ![op.path] = FreshIno]
      BY <1>5 DEF After
    <2> QED
      BY <1>1, <1>2, <2>1
  <1>6. CASE op.do \notin {"rename", "unlink"} /\ ~(op.do = "write" /\ ino[op.path] = 0)
    <2>1. After(op) = ino
      BY <1>6 DEF After
    <2> QED
      BY <1>2, <2>1
  <1> QED
    BY <1>3, <1>4, <1>5, <1>6

-----------------------------------------------------------------------------
(* Types *)

\* The counters, and the flags.
Counts ==
  /\ i <= Len(Cases) + 1
  /\ step \in 1..8 /\ (script = "op" => step <= Len(Cases[i].ops))
  /\ tries \in 0..MaxTries /\ mishaps \in 0..MaxMishaps
  /\ before \in Nat
  /\ verdict \in {"none", "undecided", "pass", "fail"}
  /\ trapped \in BOOLEAN /\ lab \in BOOLEAN /\ iw_stop \in BOOLEAN /\ pending \in BOOLEAN

TInv == Counts /\ Inodes

LEMMA InitTInv == Init => TInv
  <1> SUFFICES ASSUME Init PROVE TInv
    OBVIOUS
  <1>1. Counts
    <2>1. /\ script = "launch" /\ i = 1 /\ step = 1 /\ tries = 0 /\ before = 0 /\ mishaps = 0
          /\ verdict = "none" /\ trapped = FALSE /\ lab = TRUE /\ iw_stop = FALSE /\ pending = FALSE
      BY DEF Init
    <2>2. 1 <= Len(Cases) + 1 /\ 0 \in 0..MaxTries /\ 0 \in 0..MaxMishaps
      BY CaseCount
    <2>3. /\ i <= Len(Cases) + 1 /\ step \in 1..8 /\ tries \in 0..MaxTries /\ before \in Nat
          /\ mishaps \in 0..MaxMishaps /\ script # "op"
          /\ verdict \in {"none", "undecided", "pass", "fail"}
      BY <2>1, <2>2
    <2>4. trapped \in BOOLEAN /\ lab \in BOOLEAN /\ iw_stop \in BOOLEAN /\ pending \in BOOLEAN
      BY <2>1
    <2> QED
      BY <2>3, <2>4 DEF Counts
  <1>2. ino = [p \in Path |-> IF p = "jq" THEN 1 ELSE IF p = "usr_bin" THEN 2 ELSE 0]
        /\ i = 1 /\ script = "launch"
    BY DEF Init
  <1>3. ino \in [Path -> Nat] /\ \A p \in Path : ino[p] <= 2
    BY <1>2
  <1>4. OneName
    BY <1>2 DEF OneName
  <1>5. Made
    BY <1>2, <1>3 DEF Made
  <1> QED
    BY <1>1, <1>3, <1>4, <1>5 DEF TInv, Inodes

LEMMA MoveTypes ==
  ASSUME IInv, TInv,
         Launch \/ Poll \/ Kill \/ Wait \/ Trap \/ TrapWait \/ Remove \/ Die \/ Interrupt
  PROVE  TInv'
  <1>1. UNCHANGED <<i, step, before, verdict, ino, reuse, iw_stop>>
    BY DEF Launch, Poll, Kill, Wait, Trap, TrapWait, Remove, Die, Interrupt, world, fs,
           process, outcome
  <1>2. /\ script' \notin {"op", "count"}
        /\ script' \in {"launch", "poll", "case"} => script \in {"launch", "poll", "case"}
    BY DEF Launch, Poll, Kill, Wait, Trap, TrapWait, Remove, Die, Interrupt
  <1>3. tries \in 0..MaxTries /\ mishaps \in 0..MaxMishaps /\ trapped \in BOOLEAN
        /\ lab \in BOOLEAN /\ pending \in BOOLEAN
    BY DEF TInv, Counts
  <1>4. /\ tries' = tries \/ (tries < MaxTries /\ tries' = tries + 1)
        /\ mishaps' = mishaps \/ (mishaps < MaxMishaps /\ mishaps' = mishaps + 1)
    BY DEF Launch, Poll, Kill, Wait, Trap, TrapWait, Remove, Die, Interrupt
  <1>5. tries' \in 0..MaxTries /\ mishaps' \in 0..MaxMishaps
    BY <1>3, <1>4
  <1>6. trapped' \in BOOLEAN /\ lab' \in BOOLEAN /\ pending' \in BOOLEAN
    <2>1. trapped' \in BOOLEAN /\ lab' \in BOOLEAN
      BY <1>3 DEF Launch, Poll, Kill, Wait, Trap, TrapWait, Remove, Die, Interrupt
    <2>2. pending' \in BOOLEAN
      BY <1>3 DEF Launch, Poll, Kill, Wait, Trap, TrapWait, Remove, Die, Interrupt
    <2> QED
      BY <2>1, <2>2
  <1>7. Counts'
    BY <1>1, <1>2, <1>5, <1>6 DEF TInv, Counts
  <1>8. Inodes'
    BY <1>1, <1>2 DEF TInv, Inodes, OneName, Made
  <1> QED
    BY <1>7, <1>8 DEF TInv

LEMMA BeginTypes == ASSUME IInv, TInv, Begin PROVE TInv'
  <1>1. /\ script = "case" /\ i <= Len(Cases) /\ script' = "op" /\ step' = 1
        /\ before' = ino[Cases[i].target]
        /\ UNCHANGED <<i, tries, verdict, trapped, lab, ino, reuse, iw_stop, pending, mishaps>>
    BY DEF Begin, fs, process, outcome
  <1>2. i \in CaseNo
    BY <1>1, CaseCount DEF IInv, Order, CaseNo
  <1>3. Len(Cases[i].ops) \in 1..7 /\ Cases[i].target \in Path
    BY <1>2, CaseSteps DEF OpsOK
  <1>4. Counts'
    <2>1. before' \in Nat
      BY <1>1, <1>3 DEF TInv, Inodes
    <2> DEFINE n == Len(Cases[i].ops)
    <2>2. n \in 1..7
      BY <1>3
    <2> HIDE DEF n
    <2>3. 1 \in 1..8 /\ 1 <= n
      BY <2>2
    <2> QED
      BY <1>1, <2>1, <2>3 DEF TInv, Counts, n
  <1>5. Inodes'
    BY <1>1 DEF TInv, Inodes, OneName, Made
  <1> QED
    BY <1>4, <1>5 DEF TInv

LEMMA OperateTypes == ASSUME IInv, TInv, Operate PROVE TInv'
  <1> DEFINE ops == Cases[i].ops
             op == Cases[i].ops[step]
  <1>1. /\ script = "op" /\ ino' = After(op) /\ step' = step + 1
        /\ UNCHANGED <<tries, before, verdict, trapped, lab, reuse, iw_stop, pending, mishaps>>
    BY DEF Operate, process, outcome
  <1>2. i \in CaseNo /\ i \in Nat \ {0}
    BY <1>1 DEF IInv, Order
  <1>3. ops \in Seq(Op) /\ Len(ops) \in 1..7
    BY <1>2, CaseSteps DEF OpsOK
  <1>4. step \in 1..Len(ops) /\ step \in Nat
    <2> HIDE DEF ops
    <2>1. step \in 1..8 /\ step <= Len(ops)
      BY <1>1 DEF TInv, Counts, ops
    <2> QED
      BY <1>3, <2>1
  <1>5. op \in Op
    BY <1>3, <1>4
  <1>6. \/ script' = "op" /\ i' = i /\ step < Len(ops)
        \/ script' = "count" /\ i' = i
        \/ script' = "case" /\ i' = i + 1
    BY <1>1 DEF Operate
  <1>7. step' \in 1..8 /\ (script' = "op" => step' <= Len(ops))
    <2> DEFINE n == Len(ops)
    <2>1. n \in 1..7 /\ step \in 1..n
      BY <1>3, <1>4
    <2> HIDE DEF n
    <2>2. step + 1 \in 1..8 /\ (step < n => step + 1 <= n)
      BY <2>1
    <2>3. script' = "op" => step < n
      BY <1>6 DEF n
    <2> QED
      BY <1>1, <2>2, <2>3 DEF n
  <1>8. i' <= Len(Cases) + 1
    BY <1>2, <1>6, CaseCount DEF CaseNo
  <1>9. Counts'
    BY <1>1, <1>6, <1>7, <1>8 DEF TInv, Counts
  <1>10. /\ FreshIno \in Nat \ {0} /\ \A p \in Path : ino[p] # FreshIno
         /\ ~reuse => FreshIno = 1 + 10 * i + step
    BY <1>1, <1>2, <1>4, FreshIsFree DEF TInv
  <1> HIDE DEF op, ops
  <1>11. /\ ino' \in [Path -> Nat]
         /\ \A p, q \in Path : ino'[p] # 0 /\ ino'[p] = ino'[q] => p = q
         /\ \A p \in Path : ino'[p] \in {0, FreshIno} \/ \E q \in Path : ino'[p] = ino[q]
    BY <1>1, <1>5, <1>10, AfterKeeps DEF TInv
  <1>12. ASSUME ~reuse PROVE \A p \in Path : ino'[p] <= 10 * i + step'
    <2>1. \A p \in Path : ino[p] \in Nat /\ ino[p] <= 10 * i + step
      BY <1>1, <1>12 DEF TInv, Inodes, Made
    <2>2. FreshIno = 1 + 10 * i + step /\ step' = step + 1
      BY <1>1, <1>10, <1>12
    <2> TAKE p \in Path
    <2>3. CASE ino'[p] \in {0, FreshIno}
      BY <1>2, <1>4, <2>2, <2>3
    <2>4. CASE \E q \in Path : ino'[p] = ino[q]
      BY <1>2, <1>4, <2>1, <2>2, <2>4
    <2> QED
      BY <1>11, <2>3, <2>4
  <1>13. Made'
    <2>1. i \in Nat /\ step' \in 1..8 /\ reuse' = reuse /\ \A p \in Path : ino'[p] \in Nat
      BY <1>1, <1>2, <1>7, <1>11
    <2> QED
      BY <1>6, <1>12, <2>1 DEF Made
  <1> QED
    BY <1>9, <1>11, <1>13 DEF TInv, Inodes, OneName

LEMMA CaseEndTypes == ASSUME IInv, TInv, Skip \/ Count PROVE TInv'
  <1>1. /\ script \in {"op", "count"} /\ script' = "case" /\ i' = i + 1
        /\ mishaps' = mishaps \/ (mishaps < MaxMishaps /\ mishaps' = mishaps + 1)
        /\ UNCHANGED <<step, tries, before, verdict, trapped, lab, ino, reuse, iw_stop, pending>>
    BY DEF Skip, Count, world, fs, process, outcome
  <1>2. i \in CaseNo /\ i \in Nat \ {0}
    BY <1>1 DEF IInv, Order
  <1>3. step \in 1..8 /\ mishaps' \in 0..MaxMishaps
    BY <1>1 DEF TInv, Counts
  <1>4. i' <= Len(Cases) + 1
    BY <1>1, <1>2, CaseCount DEF CaseNo
  <1>5. Counts'
    BY <1>1, <1>3, <1>4 DEF TInv, Counts
  <1>6. Made'
    <2>1. ~reuse => \A p \in Path : ino[p] \in Nat /\ ino[p] <= 10 * i + step
      BY <1>1 DEF TInv, Inodes, Made
    <2>2. ~reuse => \A p \in Path : ino[p] <= 10 * (i + 1) + 1
      BY <1>2, <1>3, <2>1
    <2> QED
      BY <1>1, <2>2 DEF Made
  <1> QED
    BY <1>1, <1>5, <1>6 DEF TInv, Inodes, OneName

LEMMA ReportTypes == ASSUME IInv, TInv, Report PROVE TInv'
  <1>1. /\ script' = "exit" /\ verdict' \in {"undecided", "pass", "fail"}
        /\ UNCHANGED <<i, step, tries, before, trapped, lab, ino, reuse, iw_stop, pending, mishaps>>
    BY DEF Report, world, fs, process
  <1> QED
    BY <1>1 DEF TInv, Counts, Inodes, OneName, Made

LEMMA WatcherTypes == ASSUME IInv, TInv, Watcher \/ MarkFails \/ OnSig PROVE TInv'
  <1>1. UNCHANGED <<script, i, step, tries, before, verdict, trapped, lab, ino, reuse, mishaps>>
    BY DEF Watcher, Mark, MarkFails, Check, Read, PrintLine, OnSig, others, fs, outcome
  <1>2. iw_stop' \in BOOLEAN /\ pending' \in BOOLEAN
    BY DEF Watcher, Mark, MarkFails, Check, Read, PrintLine, OnSig, others, TInv, Counts
  <1> QED
    BY <1>1, <1>2 DEF TInv, Counts, Inodes, OneName, Made

LEMMA NextTypes == ASSUME IInv, TInv, [Next]_vars PROVE TInv'
  <1>1. CASE UNCHANGED vars
    BY <1>1 DEF vars, outcome, fs, process, TInv, Counts, Inodes, OneName, Made
  <1> QED
    BY <1>1, MoveTypes, BeginTypes, OperateTypes, CaseEndTypes, ReportTypes, WatcherTypes
       DEF Next, Script

\* TypeOK: whatever fails and whenever Ctrl-C is typed, no two names of the
\* laboratory have one inode, on a file system that gives numbers out again and on
\* one that does not, and no counter leaves its range.
THEOREM TypeCorrect == Spec => []TypeOK
  <1>1. IInv /\ TInv => TypeOK
    <2> SUFFICES ASSUME IInv, TInv PROVE TypeOK
      OBVIOUS
    <2>1. i \in 1..(Len(Cases) + 1)
      BY CaseCount DEF IInv, Order, TInv, Counts
    <2>2. queue \subseteq CaseNo /\ buf \subseteq CaseNo /\ since \subseteq CaseNo /\ raised \subseteq CaseNo
      BY DEF IInv, Delivery
    <2> QED
      BY <2>1, <2>2 DEF TypeOK, IInv, Order, Place, Row, Denied, TInv, Counts, Inodes, OneName
  <1>2. IInv /\ TInv /\ [Next]_vars => TInv'
    BY NextTypes
  <1> QED
    BY <1>1, <1>2, InitTInv, InvariantHolds, PTL DEF Spec
=============================================================================
