--------------------------- MODULE TagProbe_proofs ---------------------------
(***************************************************************************)
(* Proofs about TagProbe, for any set of pids and cgroups and any size of  *)
(* the record map.                                                         *)
(*                                                                         *)
(* None of the properties is inductive: that the shell's child is tagged   *)
(* needs the tag of the session's cgroup and the position of the shell in  *)
(* it, that a record is right needs the tags it was copied from.  IInv     *)
(* collects those facts, one named conjunct each.                          *)
(***************************************************************************)
EXTENDS TagProbe, TLAPS

\* The loader tags the session before it attaches anything, and is ready only
\* with both programs attached.
LoaderOrder ==
  /\ loader \in {"attach_fork", "attach_exec", "ready"} => wb_cg_tag[SessionCg] = Wid
  /\ loader \notin {"attach_exec", "ready"} => attached = {}
  /\ loader = "attach_exec" => attached = {"wb_fork"}
  /\ loader = "ready" => attached = Program

ShellAtHome ==
  \A p \in Pid : origin[p] = "shell" => cgroup[p] = SessionCg

SessionTagged ==
  \A p \in Pid : origin[p] = "session" =>
    wb_task_tag[p] = Wid /\ wb_cg_tag[SessionCg] = Wid

DelegatedUntagged ==
  \A p \in Pid : origin[p] = "pid1" =>
    wb_task_tag[p] = NoWarrant /\ wb_cg_tag[cgroup[p]] = NoWarrant

RecordFaithful ==
  \A p \in Pid : lastExec[p] = "recorded" =>
    /\ loader # "down"
    /\ wb_pid_tag[p] \in Rec
    /\ wb_pid_tag[p].warrant_task = wb_task_tag[p]
    /\ wb_pid_tag[p].warrant_cg # NoWarrant =>
         wb_cg_tag[wb_pid_tag[p].cgroup_id] = wb_pid_tag[p].warrant_cg
    /\ origin[p] = "session" /\ wb_pid_tag[p].cgroup_id = SessionCg =>
         wb_pid_tag[p].warrant_cg = Wid
    /\ origin[p] = "pid1" => wb_pid_tag[p].warrant_cg = NoWarrant

\* wb_exec found no room for the pid, and nothing else writes under it.
DroppedHasNone ==
  \A p \in Pid : lastExec[p] = "dropped" => loader # "down" /\ wb_pid_tag[p] = NoRec

IInv ==
  /\ TypeOK
  /\ LoaderOrder
  /\ ShellAtHome
  /\ SessionTagged
  /\ DelegatedUntagged
  /\ RecordFaithful
  /\ DroppedHasNone

-----------------------------------------------------------------------------
(* Each step, on each part of the invariant *)

USE DEF NoWarrant, Wid, Warrant

\* The effective tag is a warrant, and is none only when both layers say so.
LEMMA EffectiveTagFacts ==
  ASSUME TypeOK, NEW p \in Pid
  PROVE  /\ EffectiveTag(p) \in Warrant
         /\ EffectiveTag(p) = NoWarrant <=>
              wb_task_tag[p] = NoWarrant /\ wb_cg_tag[cgroup[p]] = NoWarrant
  BY DEF TypeOK, EffectiveTag, wb_tag_by_task, wb_tag_by_cgroup

LEMMA ExecRecordType ==
  ASSUME TypeOK, NEW p \in Pid
  PROVE  ExecRecord(p) \in Rec
  BY DEF TypeOK, ExecRecord, Rec, wb_tag_by_task, wb_tag_by_cgroup

LEMMA InitIInv == Init => IInv
  <1> SUFFICES ASSUME Init PROVE IInv
    OBVIOUS
  <1>1. TypeOK
    BY PidAssumption, CgroupAssumption
    DEF Init, TypeOK, LoaderState, Origin, LastExec, Program
  <1>2. LoaderOrder /\ ShellAtHome /\ SessionTagged /\ DelegatedUntagged
    BY PidAssumption, CgroupAssumption
    DEF Init, LoaderOrder, ShellAtHome, SessionTagged, DelegatedUntagged
  <1>3. RecordFaithful /\ DroppedHasNone
    BY DEF Init, RecordFaithful, DroppedHasNone
  <1>4. QED
    BY <1>1, <1>2, <1>3 DEF IInv

LEMMA ForkIInv ==
  ASSUME IInv, NEW p \in Pid, NEW c \in Pid, NEW slot \in BOOLEAN, Fork(p, c, slot)
  PROVE  IInv'
  <1> DEFINE o == ChildOrigin(p, slot)
             w == ForkTag(p, slot)
  <1>1. o \in Origin /\ w \in Warrant
    BY EffectiveTagFacts DEF IInv, TypeOK, ChildOrigin, ForkTag, Origin
  <1>2. TypeOK'
    BY <1>1 DEF IInv, TypeOK, Fork, LastExec
  <1>3. LoaderOrder'
    BY DEF IInv, LoaderOrder, Fork
  <1>4. o \in {"shell", "none"} => origin[p] = o
    BY DEF ChildOrigin
  <1>5. origin[p] # "shell" \/ o # "shell"
    BY DEF ChildOrigin
  <1>6. ShellAtHome'
    BY <1>4, <1>5 DEF IInv, TypeOK, ShellAtHome, Fork
  <1>7. o = "session" => w = Wid /\ wb_cg_tag[SessionCg] = Wid
    <2> SUFFICES ASSUME o = "session" PROVE w = Wid /\ wb_cg_tag[SessionCg] = Wid
      OBVIOUS
    <2>1. loader = "ready" /\ slot /\ origin[p] \in {"shell", "session"}
      BY DEF ChildOrigin
    <2>2. "wb_fork" \in attached /\ wb_cg_tag[SessionCg] = Wid
      BY <2>1 DEF IInv, LoaderOrder, Program
    <2>3. EffectiveTag(p) = Wid
      BY <2>1, <2>2 DEF IInv, ShellAtHome, SessionTagged, EffectiveTag,
                        TypeOK, wb_tag_by_task, wb_tag_by_cgroup
    <2>4. QED
      BY <2>1, <2>2, <2>3 DEF ForkTag
  <1>8. SessionTagged'
    BY <1>7 DEF IInv, TypeOK, SessionTagged, Fork
  <1>9. o = "pid1" => w = NoWarrant /\ wb_cg_tag[cgroup[p]] = NoWarrant
    BY EffectiveTagFacts DEF IInv, DelegatedUntagged, ChildOrigin, ForkTag
  <1>10. DelegatedUntagged'
    BY <1>9 DEF IInv, TypeOK, DelegatedUntagged, Fork
  <1>11. RecordFaithful' /\ DroppedHasNone'
    BY DEF IInv, TypeOK, RecordFaithful, DroppedHasNone, Fork
  <1>12. QED
    BY <1>2, <1>3, <1>6, <1>8, <1>10, <1>11 DEF IInv

LEMMA ExecIInv ==
  ASSUME IInv, NEW p \in Pid, Exec(p)
  PROVE  IInv'
  <1>1. ExecRecord(p) \in Rec
    BY ExecRecordType DEF IInv
  <1>2. TypeOK'
    BY <1>1 DEF IInv, TypeOK, Exec, LastExec
  <1>3. LoaderOrder' /\ ShellAtHome' /\ SessionTagged' /\ DelegatedUntagged'
    BY DEF IInv, LoaderOrder, ShellAtHome, SessionTagged, DelegatedUntagged, Exec
  <1>4. ASSUME Recorded(p) PROVE RecordFaithful'
    <2>1. loader # "down"
      BY <1>4 DEF IInv, LoaderOrder, Recorded
    <2>2. wb_pid_tag' = [wb_pid_tag EXCEPT ![p] = ExecRecord(p)]
      BY <1>4 DEF Exec
    <2>3. \A q \in Pid \ {p} : lastExec'[q] = lastExec[q] /\ wb_pid_tag'[q] = wb_pid_tag[q]
      BY <2>2 DEF IInv, TypeOK, Exec
    <2>4. wb_pid_tag'[p] = ExecRecord(p)
      BY <2>2 DEF IInv, TypeOK
    <2>5. /\ wb_pid_tag'[p].cgroup_id = cgroup[p]
          /\ wb_pid_tag'[p].warrant_cg = wb_cg_tag[cgroup[p]]
          /\ wb_pid_tag'[p].warrant_task = wb_task_tag[p]
      BY <2>4 DEF ExecRecord, wb_tag_by_cgroup, wb_tag_by_task
    <2>6. QED
      BY <1>1, <2>1, <2>3, <2>4, <2>5
      DEF IInv, RecordFaithful, SessionTagged, DelegatedUntagged, Exec
  <1>5. ASSUME ~Recorded(p) PROVE RecordFaithful'
    BY <1>5 DEF IInv, TypeOK, RecordFaithful, Exec
  <1>6. RecordFaithful'
    BY <1>4, <1>5
  <1>7. DroppedHasNone'
    <2>1. CASE Recorded(p)
      BY <2>1 DEF IInv, TypeOK, DroppedHasNone, Exec
    <2>2. CASE ~Recorded(p)
      <3>1. "wb_exec" \in attached => loader # "down" /\ wb_pid_tag[p] = NoRec
        BY <2>2 DEF IInv, LoaderOrder, Recorded, RoomFor
      <3>2. QED
        BY <2>2, <3>1 DEF IInv, TypeOK, DroppedHasNone, Exec
    <2>3. QED
      BY <2>1, <2>2
  <1>8. QED
    BY <1>2, <1>3, <1>6, <1>7 DEF IInv

LEMMA MigrateIInv ==
  ASSUME IInv, NEW p \in Pid, NEW g \in Cgroup, Migrate(p, g)
  PROVE  IInv'
  <1>1. TypeOK'
    BY DEF IInv, TypeOK, Migrate, maps, GuestIf, Origin
  <1>2. LoaderOrder'
    BY DEF IInv, LoaderOrder, Migrate, maps
  <1>3. ShellAtHome'
    BY DEF IInv, TypeOK, ShellAtHome, Migrate, GuestIf
  <1>4. SessionTagged'
    BY DEF IInv, TypeOK, SessionTagged, Migrate, maps, GuestIf
  <1>5. DelegatedUntagged'
    BY DEF IInv, TypeOK, DelegatedUntagged, Migrate, maps, GuestIf
  <1>6. RecordFaithful' /\ DroppedHasNone'
    BY DEF IInv, TypeOK, RecordFaithful, DroppedHasNone, Migrate, maps, GuestIf
  <1>7. QED
    BY <1>1, <1>2, <1>3, <1>4, <1>5, <1>6 DEF IInv

LEMMA ExitIInv ==
  ASSUME IInv, NEW p \in Pid, Exit(p)
  PROVE  IInv'
  <1>1. TypeOK'
    BY CgroupAssumption DEF IInv, TypeOK, Exit, Origin, LastExec
  <1>2. LoaderOrder' /\ ShellAtHome' /\ SessionTagged' /\ DelegatedUntagged'
    BY DEF IInv, TypeOK, LoaderOrder, ShellAtHome, SessionTagged, DelegatedUntagged, Exit
  <1>3. RecordFaithful' /\ DroppedHasNone'
    BY DEF IInv, TypeOK, RecordFaithful, DroppedHasNone, Exit
  <1>4. QED
    BY <1>1, <1>2, <1>3 DEF IInv

\* Load and Quit: whatever else they do, no map holds anything afterwards.
LEMMA ForgetAllIInv ==
  ASSUME IInv, ForgetAll, UNCHANGED Processes, loader' \in LoaderState,
         loader' \notin {"attach_fork", "attach_exec", "ready"}, attached' = {}
  PROVE  IInv'
  <1>1. TypeOK'
    BY DEF IInv, TypeOK, ForgetAll, Processes, Origin, LastExec, Program
  <1>2. LoaderOrder' /\ SessionTagged' /\ DelegatedUntagged'
    BY DEF IInv, TypeOK, LoaderOrder, SessionTagged, DelegatedUntagged, ForgetAll,
           Processes
  <1>3. ShellAtHome'
    BY DEF IInv, TypeOK, ShellAtHome, ForgetAll, Processes
  <1>4. RecordFaithful' /\ DroppedHasNone'
    BY DEF IInv, TypeOK, RecordFaithful, DroppedHasNone, ForgetAll
  <1>5. QED
    BY <1>1, <1>2, <1>3, <1>4 DEF IInv

\* TagSession and CmdTag: one cgroup is tagged.
LEMMA SetTagIInv ==
  ASSUME IInv, NEW g \in Cgroup, SetTag(g),
         UNCHANGED <<Processes, wb_task_tag, wb_pid_tag, attached, lastExec>>,
         \/ loader' = loader /\ loader # "down"
         \/ loader = "tag" /\ loader' = "attach_fork" /\ g = SessionCg
  PROVE  IInv'
  <1>1. TypeOK'
    BY DEF IInv, TypeOK, SetTag, Processes, GuestIf, Origin, LoaderState
  <1>2. wb_cg_tag'[g] = Wid /\ \A h \in Cgroup \ {g} : wb_cg_tag'[h] = wb_cg_tag[h]
    BY DEF IInv, TypeOK, SetTag
  <1>3. LoaderOrder'
    BY <1>2, CgroupAssumption DEF IInv, LoaderOrder
  <1>4. ShellAtHome' /\ SessionTagged' /\ DelegatedUntagged'
    BY <1>2, CgroupAssumption
    DEF IInv, TypeOK, ShellAtHome, SessionTagged, DelegatedUntagged, SetTag, GuestIf, Processes
  <1>5. RecordFaithful' /\ DroppedHasNone'
    BY <1>2 DEF IInv, TypeOK, RecordFaithful, DroppedHasNone, SetTag, GuestIf, Rec
  <1>6. QED
    BY <1>1, <1>3, <1>4, <1>5 DEF IInv

\* AttachFork, AttachExec and Crash touch neither a map nor a process.
LEMMA ProgramsIInv ==
  ASSUME IInv, AttachFork \/ AttachExec \/ Crash
  PROVE  IInv'
  <1>1. UNCHANGED <<Processes, maps, origin, lastExec>> /\ loader' # "down"
    BY DEF AttachFork, AttachExec, Crash
  <1>2. TypeOK'
    BY <1>1 DEF IInv, TypeOK, Processes, maps, AttachFork, AttachExec, Crash,
                Program, LoaderState
  <1>3. LoaderOrder'
    BY <1>1 DEF IInv, LoaderOrder, maps, AttachFork, AttachExec, Crash, Program
  <1>4. /\ ShellAtHome' /\ SessionTagged' /\ DelegatedUntagged'
        /\ RecordFaithful' /\ DroppedHasNone'
    BY <1>1 DEF IInv, ShellAtHome, SessionTagged, DelegatedUntagged, RecordFaithful,
                DroppedHasNone, Processes, maps
  <1>5. QED
    BY <1>2, <1>3, <1>4 DEF IInv

LEMMA NextIInv == IInv /\ [Next]_vars => IInv'
  <1> SUFFICES ASSUME IInv, [Next]_vars PROVE IInv'
    OBVIOUS
  <1>1. ASSUME NEW p \in Pid, NEW c \in Pid, NEW slot \in BOOLEAN, Fork(p, c, slot)
        PROVE  IInv'
    BY <1>1, ForkIInv
  <1>2. ASSUME NEW p \in Pid, Exec(p) PROVE IInv'
    BY <1>2, ExecIInv
  <1>3. ASSUME NEW p \in Pid, NEW g \in Cgroup, Migrate(p, g) PROVE IInv'
    BY <1>3, MigrateIInv
  <1>4. ASSUME NEW p \in Pid, Exit(p) PROVE IInv'
    BY <1>4, ExitIInv
  <1>5. CASE Load
    BY <1>5, ForgetAllIInv DEF Load, IInv, LoaderOrder, LoaderState
  <1>6. CASE Quit
    BY <1>6, ForgetAllIInv DEF Quit, LoaderState
  <1>7. CASE TagSession
    BY <1>7, SetTagIInv, CgroupAssumption DEF TagSession
  <1>8. ASSUME NEW g \in Cgroup, CmdTag(g) PROVE IInv'
    BY <1>8, SetTagIInv DEF CmdTag
  <1>9. CASE AttachFork \/ AttachExec \/ Crash
    BY <1>9, ProgramsIInv
  <1>10. CASE UNCHANGED vars
    BY <1>10 DEF vars, maps, IInv, TypeOK, LoaderOrder, ShellAtHome, SessionTagged,
                 DelegatedUntagged, RecordFaithful, DroppedHasNone
  <1>11. QED
    BY <1>1, <1>2, <1>3, <1>4, <1>5, <1>6, <1>7, <1>8, <1>9, <1>10
    DEF Next, ProcessStep, LoaderStep

-----------------------------------------------------------------------------
(* What follows from the invariant *)

LEMMA Invariance == Spec => []IInv
  BY InitIInv, NextIInv, PTL DEF Spec

\* Every variable of the model keeps its type.
THEOREM TypeCorrect == Spec => []TypeOK
  <1>1. IInv => TypeOK
    BY DEF IInv
  <1>2. QED
    BY <1>1, Invariance, PTL

\* bats rows 1 to 3 of any session of any size: all that is forked from the
\* shell while the probe is ready keeps the task tag.
THEOREM SessionKeepsTagAlways == Spec => []SessionKeepsTag
  <1>1. IInv => SessionKeepsTag
    BY DEF IInv, TypeOK, SessionTagged, SessionKeepsTag
  <1>2. QED
    BY <1>1, Invariance, PTL

\* bats rows 4 to 7: a process forked by a daemon outside the session has no
\* tag in either layer.
THEOREM DelegatedHasNoneAlways == Spec => []DelegatedHasNone
  <1>1. IInv => DelegatedHasNone
    BY EffectiveTagFacts DEF IInv, TypeOK, DelegatedUntagged, DelegatedHasNone
  <1>2. QED
    BY <1>1, Invariance, PTL

\* The answers the bats cases assert, both columns, for a process whose last exec
\* the probe recorded, and "unknown" for one whose record the full map refused.
THEOREM BatsTableAlways == Spec => []BatsTable
  <1>1. ASSUME IInv PROVE BatsTable
    <2> SUFFICES
          ASSUME NEW p \in alive
          PROVE  /\ lastExec[p] = "recorded" =>
                      LET g == wb_pid_tag[p].cgroup_id
                      IN /\ origin[p] = "session" /\ g = SessionCg =>
                              AssertTag(p, "yes", "yes")
                         /\ origin[p] = "session" /\ wb_cg_tag[g] = NoWarrant =>
                              AssertTag(p, "no", "yes")
                         /\ origin[p] = "pid1" => AssertTag(p, "no", "no")
                 /\ lastExec[p] = "dropped" =>
                      Query(p).kind = "unknown" /\ AssertTag(p, "no", "no")
      BY DEF BatsTable
    <2> DEFINE r == wb_pid_tag[p]
               column(w) == IF w # NoWarrant THEN "yes" ELSE "no"
    <2>1. p \in Pid
      BY <1>1 DEF IInv, TypeOK
    <2>2. CASE lastExec[p] = "recorded"
      <3>1. /\ loader # "down" /\ r \in Rec /\ r # NoRec
            /\ r.warrant_task = wb_task_tag[p]
            /\ wb_cg_tag[r.cgroup_id] = NoWarrant => r.warrant_cg = NoWarrant
        BY <1>1, <2>1, <2>2, NoRecAssumption DEF IInv, RecordFaithful
      <3>2. Query(p) = [kind |-> "record", rec |-> r]
        BY <3>1 DEF Query
      <3>3. AssertTag(p, column(r.warrant_cg), column(r.warrant_task))
        BY <3>2 DEF AssertTag, Got
      <3>4. origin[p] = "session" =>
              /\ r.warrant_task = Wid
              /\ r.cgroup_id = SessionCg => r.warrant_cg = Wid
        BY <1>1, <2>1, <2>2, <3>1 DEF IInv, SessionTagged, RecordFaithful
      <3>5. origin[p] = "pid1" => r.warrant_task = NoWarrant /\ r.warrant_cg = NoWarrant
        BY <1>1, <2>1, <2>2, <3>1 DEF IInv, DelegatedUntagged, RecordFaithful
      <3>6. QED
        BY <2>2, <3>1, <3>3, <3>4, <3>5
    <2>3. CASE lastExec[p] = "dropped"
      <3>1. Query(p) = [kind |-> "unknown"]
        BY <1>1, <2>1, <2>3 DEF IInv, DroppedHasNone, Query
      <3>2. QED
        BY <2>3, <3>1 DEF AssertTag, Got
    <2>4. QED
      BY <2>2, <2>3
  <1>2. QED
    BY <1>1, Invariance, PTL

\* wb_exec writes a record whose fork column stays right for as long as its
\* process lives, and whose cgroup column never shows a tag that is gone.
THEOREM RecordSoundAlways == Spec => []RecordSound
  <1>1. IInv => RecordSound
    BY NoRecAssumption DEF IInv, TypeOK, RecordFaithful, RecordSound
  <1>2. QED
    BY <1>1, Invariance, PTL
=============================================================================
