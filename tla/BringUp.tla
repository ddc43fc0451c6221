------------------------------- MODULE BringUp -------------------------------
(***************************************************************************)
(* From a Linux box to a node on which bpf/smoke runs: enable-bpf-lsm.sh   *)
(* puts bpf into the boot parameter lsm=, a reboot takes it, bootstrap.sh  *)
(* says what is missing and installs it, and bpf/Makefile builds.          *)
(*                                                                         *)
(* The boot parameters pass through two files: the script edits            *)
(* /etc/default/grub, update-grub makes the boot configuration of it, and  *)
(* the kernel reads that one at the next boot.  The administrator edits    *)
(* the first, a package upgrade runs update-grub, a boot can be made with  *)
(* lsm= deleted in the menu, and any command can fail or be interrupted.   *)
(***************************************************************************)
EXTENDS Naturals, FiniteSets

CONSTANTS
  LSM,         \* the modules this kernel knows, "bpf" among them
  Default,     \* those it runs when no lsm= is given (CONFIG_LSM)
  MaxEdits,    \* bound on the edits by the administrator
  MaxMishaps   \* bound on failing and interrupted commands, menu boots and cleanings

ASSUME LsmAssumption ==
  {"bpf"} \subseteq LSM /\ "none" \notin LSM /\ Default \subseteq LSM \ {"bpf"}
ASSUME NumberAssumption == MaxEdits \in Nat /\ MaxMishaps \in Nat

VARIABLES
  system,      \* what there is of /etc/default/grub, update-grub and grubby
  kernelOk,    \* the kernel is new enough, has CONFIG_BPF_LSM and its BTF
  grub,        \* /etc/default/grub
  baks,        \* its backups, each under a time of its own
  bootcfg,     \* lsm= of the generated boot configuration
  running,     \* /sys/kernel/security/lsm
  script,      \* where enable-bpf-lsm.sh is
  LINE, UPDATED, s, \* its variables, and that of its python
  packages,    \* of clang, libbpf and make, those that are there
  bpftool,     \* "broken": the one on the path is none for this kernel
  ready,       \* bootstrap.sh said so last
  vmlinux, obj, skel, loader, \* bpf/vmlinux.h, smoke.bpf.o, smoke.skel.h, smoke
  smoked,      \* smoke was loaded and attached
  edits, mishaps,
  (* History, read by properties only. *)
  original,    \* /etc/default/grub as somebody other than the script last left it
  said,        \* the modules the last "done" promised, or NoLsm: none was said yet
  ours         \* that was said of the line in the file, and nobody else has been at it since

boot == <<grub, baks, bootcfg, running>>
enable == <<script, LINE, UPDATED, s>>
node == <<packages, bpftool, ready>>
build == <<vmlinux, obj, skel, loader, smoked>>
fixed == <<system, kernelOk>>
history == <<original, said, ours>>
vars == <<fixed, boot, enable, node, build, edits, mishaps, history>>

-----------------------------------------------------------------------------
\* No lsm= in a line or in the boot configuration.
NoLsm == {"none"}

Package == {"clang", "libbpf", "make"}

\* A GRUB_CMDLINE_LINUX_DEFAULT= line: its value is in double quotes that end
\* the line ("plain"), or not ("odd": single quotes, a comment behind), or there
\* is no such line.  Of the rest of the file only which version it is.
Lines == [form : {"plain", "odd"}, lsm : (SUBSET LSM) \cup {NoLsm}]
NoLine == [form |-> "none", lsm |-> NoLsm]
File == [line : Lines \cup {NoLine}, rest : 0..(MaxEdits + 1)]
\* An empty file: rest has no version.
Torn == [line |-> NoLine, rest |-> MaxEdits + 1]

Systems == {[file |-> TRUE, updater |-> TRUE, grubby |-> FALSE],   \* Debian, Ubuntu
            [file |-> TRUE, updater |-> FALSE, grubby |-> TRUE],   \* RHEL, Rocky
            [file |-> FALSE, updater |-> FALSE, grubby |-> TRUE],
            [file |-> FALSE, updater |-> FALSE, grubby |-> FALSE]}

Built == {"absent", "part", "whole"}

TypeOK ==
  /\ system \in Systems /\ kernelOk \in BOOLEAN
  /\ grub \in File /\ baks \subseteq File
  /\ bootcfg \in (SUBSET LSM) \cup {NoLsm} /\ running \subseteq LSM
  /\ script \in {"idle", "ask", "grubby", "backup", "python", "writing", "update"}
  /\ {LINE, UPDATED} \subseteq Lines \cup {NoLine}
  /\ script \in {"ask", "backup", "python", "writing", "update"} => LINE # NoLine
  /\ s \in File
  /\ packages \subseteq Package /\ bpftool \in {"absent", "broken", "works"}
  /\ ready \in BOOLEAN /\ smoked \in BOOLEAN
  /\ vmlinux \in Built /\ obj \in Built \ {"part"} /\ skel \in Built /\ loader \in Built \ {"part"}
  /\ edits \in 0..MaxEdits /\ mishaps \in 0..MaxMishaps
  /\ original \in File /\ said \in (SUBSET LSM) \cup {NoLsm} /\ ours \in BOOLEAN

\* The kernel at boot: a module that is named twice is taken once.
Boots(lsm) == IF lsm = NoLsm THEN Default ELSE lsm

Init ==
  /\ system \in Systems /\ kernelOk \in BOOLEAN
  /\ grub \in {[line |-> l, rest |-> 0] :
                 l \in {NoLine} \cup [form : {"plain", "odd"}, lsm : {NoLsm, Default \cup {"bpf"}}]}
  /\ baks = {}
  /\ bootcfg = NoLsm /\ running = Default
  /\ script = "idle" /\ LINE = NoLine /\ UPDATED = NoLine /\ s = Torn
  /\ packages = {} /\ bpftool \in {"absent", "broken"}
  /\ ready = FALSE /\ smoked = FALSE
  /\ vmlinux = "absent" /\ obj = "absent" /\ skel = "absent" /\ loader = "absent"
  /\ edits = 0 /\ mishaps = 0
  /\ original = grub /\ said = NoLsm /\ ours = FALSE

-----------------------------------------------------------------------------
(* enable-bpf-lsm.sh *)

\* Mutant: lsm=bpf alone.
WithBpfAlone(l) ==
  IF l.lsm # NoLsm THEN [l EXCEPT !.lsm = @ \cup {"bpf"}]
  ELSE IF l.form = "plain" THEN [l EXCEPT !.lsm = {"bpf"}] ELSE l

\* The two sed: ,bpf behind an lsm= that is there, however the line is quoted,
\* or the list that runs, with ,bpf, before a double quote that ends the line.
WithBpf(l) ==
  IF l.lsm # NoLsm THEN [l EXCEPT !.lsm = @ \cup {"bpf"}]
  ELSE IF l.form = "plain" THEN [l EXCEPT !.lsm = running \cup {"bpf"}] ELSE l

others == <<fixed, node, build, edits>>

\* Mutant: the line may be missing.
EnableBlind ==
  /\ script = "idle" /\ "bpf" \notin running
  /\ system.file
  /\ script' = "ask" /\ LINE' = grub.line /\ UPDATED' = grub.line
  /\ UNCHANGED <<others, boot, s, mishaps, history>>

\* Root, the list, the line: each way out before the question leaves all as it
\* was.  The file is looked for before grubby is.
Enable ==
  /\ script = "idle" /\ "bpf" \notin running
  /\ \/ /\ system.file /\ grub.line # NoLine
        /\ script' = "ask" /\ LINE' = grub.line /\ UPDATED' = WithBpf(grub.line)
     \/ /\ ~system.file /\ system.grubby
        /\ script' = "grubby" /\ UNCHANGED <<LINE, UPDATED>>
  /\ UNCHANGED <<others, boot, s, mishaps, history>>

Answer(yes) ==
  /\ script = "ask"
  /\ script' = IF yes THEN "backup" ELSE "idle"
  /\ UNCHANGED <<others, boot, LINE, UPDATED, s, mishaps, history>>

Grubby ==
  /\ script = "grubby"
  /\ script' = "idle"
  /\ bootcfg' = running \cup {"bpf"}
  /\ said' = running \cup {"bpf"} /\ ours' = TRUE
  /\ UNCHANGED <<others, grub, baks, running, LINE, UPDATED, s, mishaps, original>>

\* Mutant: a backup that is there is good enough.
BackupOnce ==
  /\ script = "backup"
  /\ script' = "python"
  /\ baks' = IF baks = {} THEN {grub} ELSE baks
  /\ UNCHANGED <<others, grub, bootcfg, running, LINE, UPDATED, s, mishaps, history>>

\* cp -a
Backup ==
  /\ script = "backup"
  /\ script' = "python"
  /\ baks' = baks \cup {grub}
  /\ UNCHANGED <<others, grub, bootcfg, running, LINE, UPDATED, s, mishaps, history>>

\* python3 reads the file, ends if the line is not in it any more, and opens the
\* file to write it, which empties it.
Truncate ==
  /\ script = "python"
  /\ s' = grub
  /\ IF grub.line = LINE THEN script' = "writing" /\ grub' = Torn
                         ELSE script' = "idle" /\ UNCHANGED grub
  /\ UNCHANGED <<others, baks, bootcfg, running, LINE, UPDATED, mishaps, history>>

Write ==
  /\ script = "writing"
  /\ script' = "update"
  /\ grub' = [s EXCEPT !.line = UPDATED]
  /\ UNCHANGED <<others, baks, bootcfg, running, LINE, UPDATED, s, mishaps, history>>

\* The line could be changed: there is an lsm= or a double quote at its end.
Editable(l) == l.lsm # NoLsm \/ l.form = "plain"

\* Mutant: the boot configuration is not made anew.
UpdateNot ==
  /\ script = "update" /\ system.updater
  /\ script' = "idle"
  /\ UNCHANGED <<others, boot, LINE, UPDATED, s, mishaps, history>>

\* update-grub, and "done", whether or not sed found anything to change: bpf is
\* to be seen after the next boot, beside what the line named or, if it named
\* nothing, what runs now.
Update ==
  /\ script = "update" /\ system.updater
  /\ script' = "idle"
  /\ bootcfg' = grub.line.lsm
  /\ said' = {"bpf"} \cup (IF LINE.lsm = NoLsm THEN running ELSE LINE.lsm)
  /\ ours' = (grub.line = UPDATED)
  /\ UNCHANGED <<others, grub, baks, running, LINE, UPDATED, s, mishaps, original>>

\* There is none: the script ends with the file edited.
UpdateMissing ==
  /\ script = "update" /\ ~system.updater
  /\ script' = "idle"
  /\ UNCHANGED <<others, boot, LINE, UPDATED, s, mishaps, history>>

\* A command fails or is interrupted, cp perhaps half way, and set -e ends the
\* script.
Abort ==
  /\ script # "idle" /\ mishaps < MaxMishaps
  /\ mishaps' = mishaps + 1
  /\ script' = "idle"
  /\ baks' \in {baks, IF script = "backup" THEN baks \cup {Torn} ELSE baks}
  /\ UNCHANGED <<others, grub, bootcfg, running, LINE, UPDATED, s, history>>

-----------------------------------------------------------------------------
(* The administrator, the package manager, the kernel *)

\* The moments between the copy and the writing of the script are too short for
\* anybody else to be at the file.
Touchable == script \in {"idle", "ask", "update"}

Edit(line) ==
  /\ system.file /\ edits < MaxEdits /\ Touchable
  /\ edits' = edits + 1
  /\ grub' = [line |-> line, rest |-> edits + 1]
  /\ original' = grub' /\ ours' = FALSE
  /\ UNCHANGED <<fixed, baks, bootcfg, running, enable, node, build, mishaps, said>>

\* "cp $BAK $GRUB && update-grub", as the script advises for a broken boot.
Restore(bak) ==
  /\ system.updater /\ script = "idle" /\ mishaps < MaxMishaps
  /\ mishaps' = mishaps + 1
  /\ bak \in baks
  /\ grub' = bak /\ original' = bak
  /\ bootcfg' = bak.line.lsm
  /\ ours' = FALSE
  /\ UNCHANGED <<fixed, baks, running, enable, node, build, edits, said>>

\* A kernel package is installed.
Regenerate ==
  /\ system.updater /\ mishaps < MaxMishaps /\ Touchable
  /\ mishaps' = mishaps + 1
  /\ bootcfg' = grub.line.lsm
  /\ UNCHANGED <<fixed, grub, baks, running, enable, node, build, edits, history>>

Reboot ==
  /\ script = "idle"
  /\ running' = Boots(bootcfg)
  /\ UNCHANGED <<fixed, grub, baks, bootcfg, enable, node, build, edits, mishaps, history>>

\* With lsm=... deleted in the menu, or into a new kernel, for which there is no
\* bpftool yet.
RebootOtherwise ==
  /\ script = "idle" /\ mishaps < MaxMishaps
  /\ mishaps' = mishaps + 1
  /\ \/ running' = Default /\ UNCHANGED bpftool
     \/ running' = Boots(bootcfg) /\ bpftool' = IF bpftool = "works" THEN "broken" ELSE bpftool
  /\ UNCHANGED <<fixed, grub, baks, bootcfg, enable, packages, ready, build, edits, history>>

-----------------------------------------------------------------------------
(* bootstrap.sh *)

\* FAIL is 0.  A bpftool on the path is enough, one that fails has an empty
\* version.
Passes ==
  kernelOk /\ "bpf" \in running /\ packages = Package /\ bpftool # "absent"

Check ==
  /\ ready' = Passes
  /\ UNCHANGED <<fixed, boot, enable, packages, bpftool, build, edits, mishaps, history>>

\* --install: the packages for the kernel that runs, bpftool among them, after
\* the checks, so that the result is that of before.
Install ==
  /\ ready' = Passes
  /\ packages' = Package /\ bpftool' = "works"
  /\ UNCHANGED <<fixed, boot, enable, build, edits, mishaps, history>>

\* apt-get fails half way, and set -e ends the script without a result.
InstallFails ==
  /\ mishaps < MaxMishaps
  /\ mishaps' = mishaps + 1
  /\ packages' \in {p \in SUBSET Package : packages \subseteq p}
  /\ bpftool' \in {bpftool, IF bpftool = "absent" THEN "broken" ELSE bpftool}
  /\ UNCHANGED <<fixed, boot, enable, ready, build, edits, history>>

-----------------------------------------------------------------------------
(* bpf/Makefile: one rule each.  What is made again makes old what was made of *)
(* it, and old is as good as absent.  A shell redirection leaves an empty file *)
(* when its command fails, which make takes for made.                          *)

rest == <<fixed, boot, enable, node, smoked, edits, mishaps, history>>
CanMake == "make" \in packages

MakeVmlinux ==
  /\ CanMake /\ vmlinux = "absent" /\ kernelOk /\ bpftool # "absent"
  /\ vmlinux' = IF bpftool = "works" THEN "whole" ELSE "part"
  /\ obj' = "absent" /\ skel' = "absent" /\ loader' = "absent"
  /\ UNCHANGED rest

\* clang removes what it could not finish.
MakeObj ==
  /\ CanMake /\ vmlinux = "whole" /\ obj = "absent" /\ {"clang", "libbpf"} \subseteq packages
  /\ obj' = "whole" /\ skel' = "absent" /\ loader' = "absent"
  /\ UNCHANGED <<rest, vmlinux>>

MakeSkel ==
  /\ CanMake /\ obj = "whole" /\ skel = "absent" /\ bpftool # "absent"
  /\ skel' = IF bpftool = "works" THEN "whole" ELSE "part"
  /\ loader' = "absent"
  /\ UNCHANGED <<rest, vmlinux, obj>>

MakeLoader ==
  /\ CanMake /\ skel = "whole" /\ loader = "absent" /\ "libbpf" \in packages
  /\ loader' = "whole"
  /\ UNCHANGED <<rest, vmlinux, obj, skel>>

\* make clean keeps vmlinux.h; to remove it is a command it names.
Clean(all) ==
  /\ mishaps < MaxMishaps
  /\ mishaps' = mishaps + 1
  /\ obj' = "absent" /\ skel' = "absent" /\ loader' = "absent"
  /\ vmlinux' = IF all THEN "absent" ELSE vmlinux
  /\ UNCHANGED <<fixed, boot, enable, node, smoked, edits, history>>

\* sudo ./bpf/smoke, which bootstrap.sh names when all is ready: it loads and
\* attaches if the kernel runs bpf.
Smoke ==
  /\ ready /\ loader = "whole" /\ kernelOk /\ "bpf" \in running
  /\ smoked' = TRUE
  /\ UNCHANGED <<fixed, boot, enable, node, vmlinux, obj, skel, loader, edits, mishaps, history>>

-----------------------------------------------------------------------------
EnableSteps == Answer(TRUE) \/ Grubby \/ Backup \/ Truncate \/ Write \/ Update \/ UpdateMissing
Make == MakeVmlinux \/ MakeObj \/ MakeSkel \/ MakeLoader

Next ==
  \/ Enable \/ EnableSteps \/ Answer(FALSE) \/ Abort
  \/ \E l \in [form : {"plain", "odd"}, lsm : {NoLsm, Default, Default \cup {"bpf"}}] : Edit(l)
  \/ \E bak \in baks : Restore(bak)
  \/ Regenerate \/ Reboot \/ RebootOtherwise
  \/ Check \/ Install \/ InstallFails
  \/ Make \/ (\E all \in BOOLEAN : Clean(all)) \/ Smoke

Spec == Init /\ [][Next]_vars

\* A script that was started runs on, and the user does again and again what the
\* two scripts and deploy/README.md say is to be done next.
FairSpec ==
  /\ Spec
  /\ WF_vars(EnableSteps) /\ WF_vars(Make)
  /\ SF_vars(Enable) /\ SF_vars(Answer(TRUE)) /\ SF_vars(Reboot)
  /\ SF_vars(Check) /\ SF_vars(Install) /\ SF_vars(Smoke)

-----------------------------------------------------------------------------
(* Properties *)

\* deploy/README.md:44, "the original grub is backed up with a time stamp": what
\* somebody other than the script last left in the file is in the file or in a
\* backup, wherever runs of the script, and runs after an interrupted run, end.
OriginalKept == original \in {grub} \cup baks

\* The head of enable-bpf-lsm.sh: lsm=bpf alone would drop AppArmor, so bpf is
\* added to a list.  After "done", and until somebody else changes the file, the
\* next boot runs bpf and every module promised with it, after any number of
\* further runs, finished or not, if none of them was cut off while it wrote the
\* file -- but only if the line was one the script's sed could change.  Of any
\* other line (no lsm=, and no double quote at its end) the "done" of
\* enable-bpf-lsm.sh:66-72, which no test guards, is false: the next boot does
\* not run bpf, however often the script is run or the configuration made anew.
DoneHolds ==
  said # NoLsm /\ ours /\ grub # Torn =>
    (said \subseteq Boots(bootcfg) <=> ~system.file \/ Editable(grub.line))

\* A user who does what the scripts say gets to a smoke that runs, if the kernel
\* can do it at all, update-grub is there, the line stays one that can be
\* edited, and no half-written file of the build is left for make to trust.
AdviceConverges ==
  (/\ kernelOk /\ system.updater
   /\ <>[](script = "writing" \/ (grub.line # NoLine /\ Editable(grub.line)))
   /\ <>[](vmlinux # "part" /\ skel # "part"))
    => <>smoked
=============================================================================
