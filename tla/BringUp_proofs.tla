---------------------------- MODULE BringUp_proofs ----------------------------
(***************************************************************************)
(* What holds of BringUp for any security modules, edits and mishaps: the  *)
(* administrator's boot parameters are not lost, and what the script calls *)
(* done is what boots exactly if the line was one it could edit.           *)
(***************************************************************************)
EXTENDS BringUp, TLAPS

-----------------------------------------------------------------------------
(* The inductive invariant *)

IsLine(l) == l = [form |-> l.form, lsm |-> l.lsm]
IsFile(f) == f = [line |-> f.line, rest |-> f.rest] /\ IsLine(f.line)

\* The script has read the line, and has not finished with it.
HasLine == {"ask", "backup", "python", "writing", "update"}

\* What is in the files is what lines look like, and the new line of a run is that
\* of its old one: nobody boots while the script runs.
Shape ==
  /\ system \in Systems
  /\ script \in HasLine \cup {"idle", "grubby"}
  /\ IsFile(grub) /\ \A bak \in baks : IsFile(bak)
  /\ script \in HasLine => IsLine(LINE) /\ LINE # NoLine /\ UPDATED = WithBpf(LINE)
  /\ script = "grubby" => ~system.file

\* From the backup on the file can be lost without what somebody left in it.
Backed ==
  /\ original \in {grub} \cup baks
  /\ script \in {"python", "writing"} => original \in baks

\* What is promised has bpf, and some file is where it is promised of: of a line
\* that can be edited the file and the boot configuration have it, but for the
\* moment it is written; of any other the boot configuration has no list.
Promised == said # NoLsm /\ ours
Holds == said \subseteq Boots(bootcfg)
Kept ==
  /\ Promised => "bpf" \in said /\ (system.file => system.updater)
  /\ Promised /\ grub # Torn =>
       /\ Holds <=> ~system.file \/ Editable(grub.line)
       /\ system.file /\ Editable(grub.line) => said \subseteq grub.line.lsm
  /\ script = "writing" =>
       /\ s = [line |-> LINE, rest |-> s.rest]
       /\ Promised => (Holds <=> ~system.file \/ Editable(LINE))
       /\ Promised /\ system.file /\ Editable(LINE) => said \subseteq LINE.lsm

IInv == Shape /\ Backed /\ Kept

-----------------------------------------------------------------------------
(* Lines *)

\* The new line is one, and names bpf if the old one could be edited, beside all
\* that it named or, if it named nothing, all that runs.
LEMMA NewLine ==
  ASSUME NEW l, IsLine(l)
  PROVE  /\ IsLine(WithBpf(l))
         /\ l.lsm # NoLsm => WithBpf(l).lsm = l.lsm \cup {"bpf"}
         /\ l.lsm = NoLsm /\ Editable(l) => WithBpf(l).lsm = running \cup {"bpf"}
  BY DEF WithBpf, IsLine, Editable, NoLsm

LEMMA BpfIsNamed ==
  /\ \A lsm : "bpf" \in lsm => lsm # NoLsm /\ Boots(lsm) = lsm
  /\ "bpf" \notin Boots(NoLsm)
  BY LsmAssumption DEF NoLsm, Boots

\* What was promised of a line boots with it exactly if the line can be edited: if
\* it cannot, it has no lsm= and the kernel runs its default.
LEMMA BootsOf ==
  ASSUME NEW l, NEW promise, "bpf" \in promise, Editable(l) => promise \subseteq l.lsm
  PROVE  promise \subseteq Boots(l.lsm) <=> Editable(l)
  BY BpfIsNamed DEF Editable

LEMMA TornIsFile == IsFile(Torn) /\ Torn.line = NoLine
  BY DEF IsFile, IsLine, Torn, NoLine

-----------------------------------------------------------------------------
(* Every step keeps the invariant *)

LEMMA InitIInv == Init => IInv
  <1> SUFFICES ASSUME Init PROVE IInv
    OBVIOUS
  <1>1. IsFile(grub)
    BY DEF Init, IsFile, IsLine, NoLine
  <1> QED
    BY <1>1 DEF Init, IInv, Shape, Backed, Kept, Promised, HasLine

\* The first line of the script to the question.
LEMMA AskKeeps == ASSUME IInv, Enable \/ Answer(TRUE) \/ Answer(FALSE) PROVE IInv'
  <1> USE DEF IInv
  <1>1. UNCHANGED <<system, grub, baks, bootcfg, running, original, said, ours>>
    BY DEF Enable, Answer, others, fixed, boot, history
  <1>2. /\ script \in {"idle", "ask"} /\ script' \in {"idle", "ask", "backup", "grubby"}
        /\ script' = "grubby" => ~system.file
    BY DEF Enable, Answer
  <1>3. script' \in HasLine => IsLine(LINE') /\ LINE' # NoLine /\ UPDATED' = WithBpf(LINE')
    <2>1. CASE Enable
      BY <1>2, <2>1 DEF Enable, Shape, IsFile, HasLine
    <2>2. CASE Answer(TRUE) \/ Answer(FALSE)
      BY <1>2, <2>2 DEF Answer, Shape, HasLine
    <2> QED
      BY <2>1, <2>2
  <1>4. script' \in HasLine => UPDATED' = WithBpf(LINE)'
    BY <1>1, <1>3 DEF WithBpf
  <1>5. Shape'
    BY <1>1, <1>2, <1>3, <1>4 DEF Shape, HasLine, IsFile, IsLine
  <1>6. Backed' /\ Kept'
    BY <1>1, <1>2 DEF Backed, Kept, Promised, Holds
  <1> QED
    BY <1>5, <1>6

LEMMA BackupKeeps == ASSUME IInv, Backup PROVE IInv'
  <1> USE DEF IInv
  <1>1. /\ script = "backup" /\ script' = "python" /\ baks' = baks \cup {grub}
        /\ UNCHANGED <<system, grub, bootcfg, running, LINE, UPDATED, s, original, said, ours>>
    BY DEF Backup, others, fixed, history
  <1>2. Shape'
    BY <1>1 DEF Shape, HasLine, IsFile, IsLine, WithBpf
  <1>3. Backed' /\ Kept'
    BY <1>1 DEF Backed, Kept, Promised, Holds
  <1> QED
    BY <1>2, <1>3

\* The moment without the file.
LEMMA TruncateKeeps == ASSUME IInv, Truncate PROVE IInv'
  <1> USE DEF IInv
  <1>1. /\ script = "python" /\ s' = grub
        /\ \/ grub.line = LINE /\ script' = "writing" /\ grub' = Torn
           \/ script' = "idle" /\ grub' = grub
        /\ UNCHANGED <<system, baks, bootcfg, running, LINE, UPDATED, original, said, ours>>
    BY DEF Truncate, others, fixed, history
  <1>2. Shape'
    BY <1>1, TornIsFile DEF Shape, HasLine, WithBpf, IsLine, IsFile
  <1>3. Backed'
    BY <1>1 DEF Backed
  <1>4. Kept'
    <2>1. CASE script' = "writing"
      <3>1. grub # Torn
        BY <1>1, <2>1, TornIsFile DEF Shape, HasLine
      <3> QED
        BY <1>1, <2>1, <3>1 DEF Kept, Promised, Holds, Shape, IsFile
    <2>2. CASE script' = "idle"
      BY <1>1, <2>2 DEF Kept, Promised, Holds
    <2> QED
      BY <1>1, <2>1, <2>2
  <1> QED
    BY <1>2, <1>3, <1>4

LEMMA WriteKeeps == ASSUME IInv, Write PROVE IInv'
  <1> USE DEF IInv
  <1>1. /\ script = "writing" /\ script' = "update" /\ grub' = [s EXCEPT !.line = UPDATED]
        /\ UNCHANGED <<system, baks, bootcfg, running, LINE, UPDATED, s, original, said, ours>>
    BY DEF Write, others, fixed, history
  <1>2. IsLine(LINE) /\ UPDATED = WithBpf(LINE) /\ IsLine(UPDATED)
    BY <1>1, NewLine DEF Shape, HasLine
  <1>3. grub'.line = UPDATED /\ IsFile(grub)'
    BY <1>1, <1>2 DEF Kept, IsFile, IsLine
  <1>4. Shape'
    BY <1>1, <1>2, <1>3 DEF Shape, HasLine, WithBpf, IsLine, IsFile
  <1>5. Backed'
    BY <1>1 DEF Backed
  <1>6. /\ Editable(UPDATED) <=> Editable(LINE)
        /\ Promised /\ system.file /\ Editable(LINE) => said \subseteq UPDATED.lsm
    <2>1. Editable(UPDATED) <=> Editable(LINE)
      BY <1>2, NewLine, BpfIsNamed DEF Editable, WithBpf
    <2>2. Promised /\ system.file /\ Editable(LINE) => said \subseteq LINE.lsm /\ LINE.lsm # NoLsm
      BY <1>1, BpfIsNamed DEF Kept
    <2> QED
      BY <1>2, <2>1, <2>2, NewLine
  <1>7. Kept'
    BY <1>1, <1>3, <1>6 DEF Kept, Promised, Holds, Holds
  <1> QED
    BY <1>4, <1>5, <1>7

\* "Done", with update-grub and with grubby.
LEMMA UpdateKeeps == ASSUME IInv, Update PROVE IInv'
  <1> USE DEF IInv
  <1>1. /\ script = "update" /\ script' = "idle" /\ bootcfg' = grub.line.lsm
        /\ UNCHANGED <<system, grub, baks, running, LINE, UPDATED, s, original>>
        /\ said' = {"bpf"} \cup (IF LINE.lsm = NoLsm THEN running ELSE LINE.lsm)
        /\ ours' = (grub.line = UPDATED)
    BY DEF Update, others, fixed
  <1>2. Shape'
    BY <1>1 DEF Shape, HasLine, WithBpf, IsLine, IsFile
  <1>3. Backed'
    BY <1>1 DEF Backed
  <1>4. "bpf" \in said' /\ system.updater /\ system.file
    BY <1>1 DEF Update, Shape, Systems
  <1>5. IsLine(LINE) /\ UPDATED = WithBpf(LINE)
    BY <1>1 DEF Shape, HasLine
  <1>6. ours' /\ Editable(grub.line) => said' \subseteq grub.line.lsm
    <2> SUFFICES ASSUME ours', Editable(grub.line) PROVE said' \subseteq grub.line.lsm
      OBVIOUS
    <2>1. grub.line = WithBpf(LINE)
      BY <1>1, <1>5
    <2>2. Editable(LINE)
      BY <2>1 DEF Editable, WithBpf
    <2> QED
      BY <1>1, <1>5, <2>1, <2>2, NewLine
  <1>7. ours' => (said' \subseteq Boots(grub.line.lsm) <=> Editable(grub.line))
    BY <1>4, <1>6, BootsOf
  <1>8. Kept'
    BY <1>1, <1>4, <1>6, <1>7 DEF Kept, Promised, Holds, Boots
  <1> QED
    BY <1>2, <1>3, <1>8

LEMMA GrubbyKeeps == ASSUME IInv, Grubby PROVE IInv'
  <1> USE DEF IInv
  <1>1. /\ script = "grubby" /\ script' = "idle"
        /\ bootcfg' = running \cup {"bpf"} /\ said' = running \cup {"bpf"} /\ ours'
        /\ UNCHANGED <<system, grub, baks, running, LINE, UPDATED, s, original>>
    BY DEF Grubby, others, fixed
  <1>2. Shape'
    BY <1>1 DEF Shape, HasLine, WithBpf, IsLine, IsFile
  <1>3. Backed'
    BY <1>1 DEF Backed
  <1>4. ~system.file
    BY <1>1 DEF Shape
  <1>5. Kept'
    BY <1>1, <1>4, BpfIsNamed DEF Kept, Promised, Holds, Boots
  <1> QED
    BY <1>2, <1>3, <1>5

\* The ends of the script without a promise.
LEMMA EndKeeps == ASSUME IInv, UpdateMissing \/ Abort PROVE IInv'
  <1> USE DEF IInv
  <1>1. /\ script' = "idle"
        /\ baks' = baks \/ baks' = baks \cup {Torn}
        /\ UNCHANGED <<system, grub, bootcfg, running, LINE, UPDATED, s, original, said, ours>>
    BY DEF UpdateMissing, Abort, others, fixed, boot, history
  <1>2. Shape'
    BY <1>1, TornIsFile DEF Shape, HasLine, WithBpf, IsLine, IsFile
  <1>3. Backed' /\ Kept'
    BY <1>1 DEF Backed, Kept, Promised, Holds
  <1> QED
    BY <1>2, <1>3

\* Somebody else writes the file, and the promise is off.
LEMMA EditKeeps ==
  ASSUME IInv, NEW l \in [form : {"plain", "odd"}, lsm : {NoLsm, Default, Default \cup {"bpf"}}],
         Edit(l)
  PROVE  IInv'
  <1> USE DEF IInv
  <1>1. /\ script \notin {"python", "writing"} /\ script' = script
        /\ grub' = [line |-> l, rest |-> edits + 1] /\ original' = grub' /\ ours' = FALSE
        /\ UNCHANGED <<system, baks, bootcfg, running, LINE, UPDATED, s>>
    BY DEF Edit, Touchable, fixed, enable
  <1>2. IsFile(grub)'
    BY <1>1 DEF IsFile, IsLine
  <1>3. Shape'
    BY <1>1, <1>2 DEF Shape, HasLine, WithBpf, IsLine, IsFile
  <1>4. Backed' /\ Kept'
    BY <1>1 DEF Backed, Kept, Promised, Holds
  <1> QED
    BY <1>3, <1>4

LEMMA RestoreKeeps == ASSUME IInv, NEW bak \in baks, Restore(bak) PROVE IInv'
  <1> USE DEF IInv
  <1>1. /\ script = "idle" /\ script' = script
        /\ grub' = bak /\ original' = bak /\ ours' = FALSE
        /\ UNCHANGED <<system, baks, running, LINE, UPDATED, s>>
    BY DEF Restore, fixed, enable
  <1>2. Shape'
    BY <1>1 DEF Shape, HasLine, IsFile, IsLine
  <1>3. Backed' /\ Kept'
    BY <1>1 DEF Backed, Kept, Promised, Holds
  <1> QED
    BY <1>2, <1>3

\* A package upgrade makes the boot configuration of the file, which names what is
\* promised.
LEMMA RegenerateKeeps == ASSUME IInv, Regenerate PROVE IInv'
  <1> USE DEF IInv
  <1>1. /\ system.updater /\ script' = script /\ script # "writing"
        /\ bootcfg' = grub.line.lsm
        /\ UNCHANGED <<system, grub, baks, running, LINE, UPDATED, s, original, said, ours>>
    BY DEF Regenerate, Touchable, fixed, enable, history
  <1>2. Shape'
    BY <1>1 DEF Shape, HasLine, WithBpf, IsLine, IsFile
  <1>3. Backed'
    BY <1>1 DEF Backed
  <1>4. system.file
    BY <1>1 DEF Shape, Systems
  <1>5. Promised /\ grub # Torn =>
          (said \subseteq Boots(grub.line.lsm) <=> Editable(grub.line))
    BY <1>4, BootsOf DEF Kept
  <1>6. Kept'
    BY <1>1, <1>4, <1>5 DEF Kept, Promised, Holds, Boots
  <1> QED
    BY <1>2, <1>3, <1>6

LEMMA RebootKeeps == ASSUME IInv, Reboot \/ RebootOtherwise PROVE IInv'
  <1> USE DEF IInv
  <1>1. /\ script = "idle" /\ script' = script
        /\ UNCHANGED <<system, grub, baks, bootcfg, LINE, UPDATED, s, original, said, ours>>
    BY DEF Reboot, RebootOtherwise, fixed, enable, history
  <1>2. Shape'
    BY <1>1 DEF Shape, HasLine, IsFile, IsLine
  <1>3. Backed' /\ Kept'
    BY <1>1 DEF Backed, Kept, Promised, Holds, Boots
  <1> QED
    BY <1>2, <1>3

\* The steps of bootstrap.sh and of make, and none at all.
LEMMA OthersKeep ==
  ASSUME IInv,
         \/ Check \/ Install \/ InstallFails \/ Make \/ (\E all \in BOOLEAN : Clean(all)) \/ Smoke
         \/ UNCHANGED vars
  PROVE  IInv'
  <1> USE DEF IInv
  <1>1. UNCHANGED <<fixed, boot, enable, history>>
    <2>1. CASE Check \/ Install \/ InstallFails \/ Smoke
      BY <2>1 DEF Check, Install, InstallFails, Smoke
    <2>2. CASE Make
      BY <2>2 DEF Make, MakeVmlinux, MakeObj, MakeSkel, MakeLoader, rest
    <2>3. CASE \E all \in BOOLEAN : Clean(all)
      BY <2>3 DEF Clean
    <2>4. CASE UNCHANGED vars
      BY <2>4 DEF vars
    <2> QED
      BY <2>1, <2>2, <2>3, <2>4
  <1>2. UNCHANGED <<system, grub, baks, bootcfg, running, script, LINE, UPDATED, s, original, said, ours>>
    BY <1>1 DEF fixed, boot, enable, history
  <1>3. Shape'
    BY <1>2 DEF Shape, HasLine, WithBpf, IsLine, IsFile
  <1>4. Backed' /\ Kept'
    BY <1>2 DEF Backed, Kept, Promised, Holds, Boots
  <1> QED
    BY <1>3, <1>4

LEMMA NextKeeps == ASSUME IInv, [Next]_vars PROVE IInv'
  <1>1. CASE Enable \/ Answer(TRUE) \/ Answer(FALSE)
    BY <1>1, AskKeeps
  <1>2. CASE EnableSteps \/ Abort
    BY <1>2, AskKeeps, GrubbyKeeps, BackupKeeps, TruncateKeeps, WriteKeeps, UpdateKeeps, EndKeeps
       DEF EnableSteps
  <1>3. CASE \E l \in [form : {"plain", "odd"}, lsm : {NoLsm, Default, Default \cup {"bpf"}}] :
               Edit(l)
    BY <1>3, EditKeeps
  <1>4. CASE (\E bak \in baks : Restore(bak)) \/ Regenerate \/ Reboot \/ RebootOtherwise
    BY <1>4, RestoreKeeps, RegenerateKeeps, RebootKeeps
  <1>5. CASE \/ Check \/ Install \/ InstallFails \/ Make
             \/ (\E all \in BOOLEAN : Clean(all)) \/ Smoke \/ UNCHANGED vars
    BY <1>5, OthersKeep
  <1> QED
    BY <1>1, <1>2, <1>3, <1>4, <1>5 DEF Next

\* The invariant the rest follows from.
THEOREM InvariantHolds == Spec => []IInv
  <1>1. IInv /\ [Next]_vars => IInv'
    BY NextKeeps
  <1> QED
    BY <1>1, InitIInv, PTL DEF Spec

-----------------------------------------------------------------------------
(* What follows *)

\* Whatever is edited, restored, interrupted or started again, what somebody other
\* than enable-bpf-lsm.sh last left in /etc/default/grub is in it or in a backup.
THEOREM OriginalKeptAlways == Spec => []OriginalKept
  <1>1. IInv => OriginalKept
    BY DEF IInv, Backed, OriginalKept
  <1> QED
    BY <1>1, InvariantHolds, PTL

\* For any modules and any default of the kernel: after the "done" of
\* enable-bpf-lsm.sh, as long as nobody else is at the file, the next boot runs bpf
\* and all that was promised with it exactly if the line was one the script could
\* edit; of any other the "done" is false.
THEOREM DoneHoldsAlways == Spec => []DoneHolds
  <1>1. IInv => DoneHolds
    BY DEF IInv, Kept, Promised, Holds, DoneHolds
  <1> QED
    BY <1>1, InvariantHolds, PTL

-----------------------------------------------------------------------------
(* Types *)

LineOrNone == Lines \cup {NoLine}

LEMMA FileParts ==
  ASSUME NEW f \in File
  PROVE  /\ f.line \in LineOrNone /\ f.rest \in 0..(MaxEdits + 1)
         /\ f.line.lsm \in (SUBSET LSM) \cup {NoLsm}
         /\ \A l \in LineOrNone : [f EXCEPT !.line = l] \in File
  BY DEF File, LineOrNone, Lines, NoLine

LEMMA TornType == Torn \in File
  <1>1. MaxEdits + 1 \in 0..(MaxEdits + 1)
    BY NumberAssumption
  <1> QED
    BY <1>1 DEF Torn, File

LEMMA LineLsm ==
  ASSUME NEW l \in LineOrNone
  PROVE  /\ l # NoLine => l \in Lines
         /\ l.lsm # NoLsm => l.lsm \subseteq LSM
  BY DEF LineOrNone, Lines, NoLine

LEMMA NewLineType ==
  ASSUME NEW l \in Lines, running \subseteq LSM
  PROVE  WithBpf(l) \in LineOrNone
  <1>1. "bpf" \in LSM
    BY LsmAssumption
  <1>2. l.form \in {"plain", "odd"} /\ l.lsm \in (SUBSET LSM) \cup {NoLsm}
    BY DEF Lines
  <1>3. \A x \in SUBSET LSM : [l EXCEPT !.lsm = x] \in Lines
    BY <1>2 DEF Lines
  <1>4. l.lsm # NoLsm => l.lsm \cup {"bpf"} \in SUBSET LSM
    BY <1>1, <1>2
  <1>5. running \cup {"bpf"} \in SUBSET LSM
    BY <1>1
  <1> QED
    BY <1>3, <1>4, <1>5 DEF WithBpf, LineOrNone

LEMMA InitTypeOK == Init => TypeOK
  <1> SUFFICES ASSUME Init PROVE TypeOK
    OBVIOUS
  <1>1. NoLine \in LineOrNone
    BY DEF LineOrNone
  <1>2. Default \subseteq LSM /\ Default \cup {"bpf"} \subseteq LSM
    BY LsmAssumption
  <1>3. [form : {"plain", "odd"}, lsm : {NoLsm, Default \cup {"bpf"}}] \subseteq LineOrNone
    BY <1>2 DEF LineOrNone, Lines
  <1>4. 0 \in 0..(MaxEdits + 1) /\ 0 \in 0..MaxEdits /\ 0 \in 0..MaxMishaps
    BY NumberAssumption
  <1>5. PICK l \in {NoLine} \cup [form : {"plain", "odd"}, lsm : {NoLsm, Default \cup {"bpf"}}] :
               grub = [line |-> l, rest |-> 0]
    BY DEF Init
  <1>6. l \in LineOrNone
    BY <1>1, <1>3
  <1>7. grub \in File
    BY <1>4, <1>5, <1>6 DEF File, LineOrNone
  <1> QED
    BY <1>1, <1>2, <1>4, <1>7, TornType DEF Init, TypeOK, LineOrNone, Package, Built

LEMMA ScriptTypes ==
  ASSUME TypeOK, Enable \/ EnableSteps \/ Answer(FALSE) \/ Abort
  PROVE  TypeOK'
  <1>1. UNCHANGED <<fixed, node, build, edits>>
    BY DEF EnableSteps, Enable, Answer, Grubby, Backup, Truncate, Write, Update, UpdateMissing,
           Abort, others
  <1>2. UNCHANGED <<system, kernelOk, packages, bpftool, ready, vmlinux, obj, skel, loader, smoked,
                    edits>>
    BY <1>1 DEF fixed, node, build
  <1>3. /\ running \subseteq LSM /\ "bpf" \in LSM /\ grub \in File /\ s \in File /\ baks \subseteq File
        /\ LINE \in LineOrNone /\ UPDATED \in LineOrNone /\ mishaps \in 0..MaxMishaps
        /\ bootcfg \in (SUBSET LSM) \cup {NoLsm} /\ said \in (SUBSET LSM) \cup {NoLsm}
        /\ ours \in BOOLEAN
        /\ original \in File /\ script \in HasLine \cup {"idle", "grubby"}
        /\ script \in HasLine => LINE # NoLine
    BY LsmAssumption DEF TypeOK, LineOrNone, HasLine
  <1> DEFINE Script == /\ running \subseteq LSM /\ grub \in File /\ s \in File /\ baks \subseteq File
                       /\ LINE \in LineOrNone /\ UPDATED \in LineOrNone /\ mishaps \in 0..MaxMishaps
                       /\ bootcfg \in (SUBSET LSM) \cup {NoLsm} /\ said \in (SUBSET LSM) \cup {NoLsm}
                       /\ ours \in BOOLEAN
                       /\ original \in File /\ script \in HasLine \cup {"idle", "grubby"}
                       /\ script \in HasLine => LINE # NoLine
  <1>4. ASSUME Script' PROVE TypeOK'
    BY <1>2, <1>4 DEF TypeOK, LineOrNone, HasLine
  <1>5. CASE Enable
    <2>1. UNCHANGED <<running, grub, s, baks, mishaps, bootcfg, said, ours, original>>
      BY <1>5 DEF Enable, boot, history
    <2>2. CASE /\ grub.line # NoLine /\ script' = "ask" /\ LINE' = grub.line
               /\ UPDATED' = WithBpf(grub.line)
      <3>1. grub.line \in Lines
        BY <1>3, <2>2, FileParts, LineLsm
      <3>2. WithBpf(grub.line) \in LineOrNone /\ grub.line \in LineOrNone
        BY <1>3, <3>1, NewLineType, FileParts
      <3> QED
        BY <1>3, <1>4, <2>1, <2>2, <3>2 DEF HasLine
    <2>3. CASE script' = "grubby" /\ UNCHANGED <<LINE, UPDATED>>
      BY <1>3, <1>4, <2>1, <2>3 DEF HasLine
    <2> QED
      BY <1>5, <2>2, <2>3 DEF Enable
  <1>6. CASE Answer(TRUE) \/ Answer(FALSE)
    <2>1. /\ UNCHANGED <<running, grub, s, baks, mishaps, bootcfg, said, ours, original, LINE, UPDATED>>
          /\ script \in HasLine /\ script' \in HasLine \cup {"idle"}
      BY <1>6 DEF Answer, boot, history, HasLine
    <2> QED
      BY <1>3, <1>4, <2>1
  <1>7. CASE Grubby
    <2>1. /\ UNCHANGED <<running, grub, s, baks, mishaps, original, LINE, UPDATED>>
          /\ script' = "idle" /\ bootcfg' = running \cup {"bpf"} /\ said' = running \cup {"bpf"}
          /\ ours' = TRUE
      BY <1>7 DEF Grubby
    <2> QED
      BY <1>3, <1>4, <2>1 DEF HasLine
  <1>8. CASE Backup
    <2>1. /\ UNCHANGED <<running, grub, s, bootcfg, said, ours, mishaps, original, LINE, UPDATED>>
          /\ script' = "python" /\ script = "backup" /\ baks' = baks \cup {grub}
      BY <1>8 DEF Backup, history
    <2> QED
      BY <1>3, <1>4, <2>1 DEF HasLine
  <1>9. CASE Truncate
    <2>1. /\ UNCHANGED <<running, baks, bootcfg, said, ours, mishaps, original, LINE, UPDATED>>
          /\ s' = grub /\ script = "python" /\ script' \in {"writing", "idle"}
          /\ grub' \in {grub, Torn}
      BY <1>9 DEF Truncate, history
    <2> QED
      BY <1>3, <1>4, <2>1, TornType DEF HasLine
  <1>10. CASE Write
    <2>1. /\ UNCHANGED <<running, baks, bootcfg, said, ours, mishaps, original, LINE, UPDATED, s>>
          /\ script = "writing" /\ script' = "update" /\ grub' = [s EXCEPT !.line = UPDATED]
      BY <1>10 DEF Write, history
    <2>2. grub' \in File
      BY <1>3, <2>1, FileParts
    <2> QED
      BY <1>3, <1>4, <2>1, <2>2 DEF HasLine
  <1>11. CASE Update
    <2>1. /\ UNCHANGED <<running, grub, baks, mishaps, original, LINE, UPDATED, s>>
          /\ script = "update" /\ script' = "idle" /\ bootcfg' = grub.line.lsm
          /\ said' = {"bpf"} \cup (IF LINE.lsm = NoLsm THEN running ELSE LINE.lsm)
          /\ ours' \in BOOLEAN
      BY <1>11 DEF Update
    <2>2. bootcfg' \in (SUBSET LSM) \cup {NoLsm}
      BY <1>3, <2>1, FileParts
    <2>3. LINE.lsm # NoLsm => LINE.lsm \subseteq LSM
      BY <1>3, LineLsm
    <2>4. {"bpf"} \cup (IF LINE.lsm = NoLsm THEN running ELSE LINE.lsm) \in SUBSET LSM
      BY <1>3, <2>3
    <2> QED
      BY <1>3, <1>4, <2>1, <2>2, <2>4 DEF HasLine
  <1>12. CASE UpdateMissing \/ Abort
    <2>1. /\ UNCHANGED <<running, grub, bootcfg, said, ours, original, LINE, UPDATED, s>>
          /\ script' = "idle" /\ (baks' = baks \/ baks' = baks \cup {Torn})
          /\ mishaps' = mishaps \/ (mishaps < MaxMishaps /\ mishaps' = mishaps + 1)
      BY <1>12 DEF UpdateMissing, Abort, boot, history
    <2>2. mishaps' \in 0..MaxMishaps
      BY <1>3, <2>1, NumberAssumption
    <2> HIDE DEF Script
    <2>3. baks' \subseteq File
      <3>1. baks \subseteq File /\ baks \cup {Torn} \subseteq File
        BY <1>3, TornType
      <3> QED
        BY <2>1, <3>1
    <2>4. Script'
      BY <1>3, <2>1, <2>2, <2>3 DEF HasLine, Script
    <2> QED
      BY <1>4, <2>4
  <1> QED
    BY <1>5, <1>6, <1>7, <1>8, <1>9, <1>10, <1>11, <1>12 DEF EnableSteps

LEMMA OutsideTypes ==
  ASSUME TypeOK,
         \/ \E l \in [form : {"plain", "odd"}, lsm : {NoLsm, Default, Default \cup {"bpf"}}] : Edit(l)
         \/ \E bak \in baks : Restore(bak)
         \/ Regenerate \/ Reboot \/ RebootOtherwise
  PROVE  TypeOK'
  <1>1. /\ bootcfg \in (SUBSET LSM) \cup {NoLsm} /\ running \subseteq LSM
        /\ grub \in File /\ baks \subseteq File /\ edits \in 0..MaxEdits /\ mishaps \in 0..MaxMishaps
        /\ MaxEdits \in Nat /\ MaxMishaps \in Nat /\ Default \subseteq LSM /\ "bpf" \in LSM
    BY LsmAssumption, NumberAssumption DEF TypeOK
  <1>2. CASE \E l \in [form : {"plain", "odd"}, lsm : {NoLsm, Default, Default \cup {"bpf"}}] : Edit(l)
    <2>1. PICK l \in [form : {"plain", "odd"}, lsm : {NoLsm, Default, Default \cup {"bpf"}}] : Edit(l)
      BY <1>2
    <2>2. /\ edits < MaxEdits /\ edits' = edits + 1 /\ grub' = [line |-> l, rest |-> edits + 1]
          /\ original' = grub' /\ ours' = FALSE
          /\ UNCHANGED <<fixed, baks, bootcfg, running, enable, node, build, mishaps, said>>
      BY <2>1 DEF Edit
    <2>3. l \in LineOrNone
      BY <1>1 DEF LineOrNone, Lines
    <2>4. edits + 1 \in 0..(MaxEdits + 1) /\ edits' \in 0..MaxEdits
      BY <1>1, <2>2
    <2>5. grub' \in File
      BY <2>2, <2>3, <2>4 DEF File, LineOrNone
    <2> QED
      BY <2>2, <2>4, <2>5 DEF TypeOK, fixed, enable, node, build
  <1>3. CASE \E bak \in baks : Restore(bak)
    <2>1. PICK bak \in baks : Restore(bak)
      BY <1>3
    <2>2. /\ mishaps < MaxMishaps /\ mishaps' = mishaps + 1 /\ grub' = bak /\ original' = bak
          /\ bootcfg' = bak.line.lsm /\ ours' = FALSE
          /\ UNCHANGED <<fixed, baks, running, enable, node, build, edits, said>>
      BY <2>1 DEF Restore
    <2>3. bak \in File /\ bak.line.lsm \in (SUBSET LSM) \cup {NoLsm} /\ mishaps' \in 0..MaxMishaps
      BY <1>1, <2>2, FileParts
    <2> QED
      BY <2>2, <2>3 DEF TypeOK, fixed, enable, node, build
  <1>4. CASE Regenerate
    <2>1. /\ mishaps < MaxMishaps /\ mishaps' = mishaps + 1 /\ bootcfg' = grub.line.lsm
          /\ UNCHANGED <<fixed, grub, baks, running, enable, node, build, edits, history>>
      BY <1>4 DEF Regenerate
    <2>2. bootcfg' \in (SUBSET LSM) \cup {NoLsm} /\ mishaps' \in 0..MaxMishaps
      BY <1>1, <2>1, FileParts
    <2> QED
      BY <2>1, <2>2 DEF TypeOK, fixed, enable, node, build, history
  <1>5. \A lsm \in (SUBSET LSM) \cup {NoLsm} : Boots(lsm) \subseteq LSM
    BY <1>1 DEF Boots
  <1>6. CASE Reboot \/ RebootOtherwise
    <2>1. /\ mishaps' = mishaps \/ (mishaps < MaxMishaps /\ mishaps' = mishaps + 1)
          /\ running' \in {Default, Boots(bootcfg)}
          /\ bpftool' \in {bpftool, "broken"}
          /\ UNCHANGED <<fixed, grub, baks, bootcfg, enable, packages, ready, build, edits, history>>
      BY <1>6 DEF Reboot, RebootOtherwise, node
    <2>2. running' \subseteq LSM /\ mishaps' \in 0..MaxMishaps
      BY <1>1, <1>5, <2>1
    <2> QED
      BY <2>1, <2>2 DEF TypeOK, fixed, enable, build, history
  <1> QED
    BY <1>2, <1>3, <1>4, <1>6

LEMMA BuildTypes ==
  ASSUME TypeOK,
         \/ Check \/ Install \/ InstallFails \/ Make \/ (\E all \in BOOLEAN : Clean(all)) \/ Smoke
         \/ UNCHANGED vars
  PROVE  TypeOK'
  <1>1. mishaps \in 0..MaxMishaps /\ MaxMishaps \in Nat
    BY NumberAssumption DEF TypeOK
  <1>2. CASE Check \/ Install
    BY <1>2 DEF Check, Install, Passes, TypeOK, fixed, boot, enable, build, history, Package
  <1>3. CASE InstallFails
    <2>1. mishaps' \in 0..MaxMishaps
      BY <1>1, <1>3 DEF InstallFails
    <2> QED
      BY <1>3, <2>1 DEF InstallFails, TypeOK, fixed, boot, enable, build, history
  <1>4. CASE Make
    BY <1>4 DEF Make, MakeVmlinux, MakeObj, MakeSkel, MakeLoader, rest, TypeOK, fixed, boot, enable,
                node, history, Built
  <1>5. CASE \E all \in BOOLEAN : Clean(all)
    <2>1. mishaps' \in 0..MaxMishaps
      BY <1>1, <1>5 DEF Clean
    <2> QED
      BY <1>5, <2>1 DEF Clean, TypeOK, fixed, boot, enable, node, history, Built
  <1>6. CASE Smoke
    BY <1>6 DEF Smoke, TypeOK, fixed, boot, enable, node, history
  <1>7. CASE UNCHANGED vars
    BY <1>7 DEF vars, TypeOK, fixed, boot, enable, node, build, history
  <1> QED
    BY <1>2, <1>3, <1>4, <1>5, <1>6, <1>7

\* TypeOK: whatever the two scripts, make, the administrator and the boots do, the
\* files stay files of lines that can be, the kernel runs modules it knows, and
\* the script never works on a line it has not found.
THEOREM TypeCorrect == Spec => []TypeOK
  <1>1. TypeOK /\ [Next]_vars => TypeOK'
    <2> SUFFICES ASSUME TypeOK, [Next]_vars PROVE TypeOK'
      OBVIOUS
    <2> QED
      BY ScriptTypes, OutsideTypes, BuildTypes DEF Next
  <1> QED
    BY <1>1, InitTypeOK, PTL DEF Spec
=============================================================================
