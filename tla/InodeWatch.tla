------------------------------ MODULE InodeWatch ------------------------------
(***************************************************************************)
(* bench/inode: cases.sh replaces files and directories in its laboratory  *)
(* and asks whether inowatch, a process that reads fanotify events, is     *)
(* told.  Each case notes how long the log of inowatch is, runs one        *)
(* operation, sleeps, and counts the lines that have come since.           *)
(*                                                                         *)
(* The kernel queues an event when the operation runs; when inowatch reads *)
(* and prints it is up to the scheduler.  The script knows nothing about   *)
(* the events but the lines of the log.                                    *)
(***************************************************************************)
EXTENDS Naturals, Sequences, FiniteSets

CONSTANTS
  WithApt,     \* --with-apt
  Prompt,      \* TRUE: 0.3 s is time enough for every event to be printed
  MaxTries,    \* polls for READY (100 in the source)
  MaxMishaps   \* bound on the operations that fail and the Ctrl-C typed

ASSUME FlagAssumption == WithApt \in BOOLEAN /\ Prompt \in BOOLEAN
ASSUME NumberAssumption == MaxTries \in Nat /\ MaxMishaps \in Nat

VARIABLES
  script,      \* where cases.sh is
  i,           \* the case at hand
  step,        \* the step of its operation that is next
  tries,
  before,      \* the inode of the target before the operation
  rows,        \* cases.csv: rows[c] for a case that has its row, else NoRow
  verdict,     \* of report.py
  trapped,     \* the trap that stops inowatch is set
  lab,         \* the laboratory exists
  ino,         \* ino[p]: the inode number at a path, 0 for none
  usrMount,    \* /usr is a file system of its own
  reuse,       \* the file system gives a freed inode number out again
  watcher, iw_stop, pending, \* inowatch: main(), its flag, a SIGINT on its way
  marks,
  queue,       \* the cases with events in the kernel's queue
  buf,         \* those with events in the buffer of the last read
  since,       \* those with lines in the log since the length was noted
  mishaps,
  (* History, read by properties only. *)
  raised       \* the cases whose operation raised an event for a mark

fs == <<ino, usrMount, reuse>>
process == <<watcher, iw_stop, marks>>
events == <<queue, buf, since, raised>>
outcome == <<rows, verdict>>
vars == <<script, i, step, tries, before, outcome, trapped, lab, fs, process, pending,
          events, mishaps>>

-----------------------------------------------------------------------------
(* The laboratory and the operations *)

\* The directory of every path; "new" files are what an operation renames.
Parent == [bin |-> "lab", etc |-> "lab", log |-> "lab", etc_new |-> "lab", bind |-> "lab",
           tool |-> "bin", tool_new |-> "bin", link |-> "bin", link_new |-> "bin",
           conf |-> "etc", conf_new |-> "etc", added |-> "etc",
           app |-> "log", app_old |-> "log",
           jq |-> "usr_bin", jq_new |-> "usr_bin", usr_bin |-> "usr"]
Path == DOMAIN Parent

\* open with O_CREAT | O_TRUNC and write; the rest is a system call each.
Write(p) == [do |-> "write", path |-> p, to |-> p]
Mkdir(p) == Write(p)
Rename(p, q) == [do |-> "rename", path |-> p, to |-> q]
Unlink(p) == [do |-> "unlink", path |-> p, to |-> p]
Chmod(p) == [do |-> "chmod", path |-> p, to |-> p]

Case(target, kind, ops) == [target |-> target, kind |-> kind, ops |-> ops]

\* The operations of cases.sh in its order; sed -i and ln -sfn write a new file
\* and rename it, install unlinks first.  A case whose kind is "prep" is no case:
\* the script makes directories without counting.
Lab == <<
  Case("bin", "prep", <<Mkdir("bin"), Mkdir("etc"), Mkdir("log"), Write("tool"),
                        Chmod("tool"), Write("conf"), Write("app")>>),
  Case("conf", "allow", <<Write("conf_new"), Rename("conf_new", "conf")>>),  \* vim
  Case("conf", "allow", <<Write("conf")>>),                                  \* in place
  Case("conf", "allow", <<Write("conf_new"), Rename("conf_new", "conf")>>),  \* sed -i
  Case("tool", "allow", <<Write("tool_new"), Write("tool")>>),               \* cp
  Case("tool", "allow", <<Write("tool_new"), Rename("tool_new", "tool")>>),  \* mv
  Case("tool", "allow", <<Write("tool_new"), Unlink("tool"), Write("tool")>>),
  Case("tool", "allow", <<Unlink("tool"), Write("tool"), Chmod("tool")>>),
  Case("tool", "allow", <<Chmod("tool")>>),
  Case("tool", "allow", <<Write("tool"), Write("tool")>>),                   \* truncate
  Case("bin", "prep", <<Write("link")>>),
  Case("link", "allow", <<Write("link_new"), Rename("link_new", "link")>>),
  Case("app", "allow", <<Write("app_old"), Write("app")>>),                  \* copytruncate
  Case("app", "allow", <<Rename("app", "app_old"), Write("app")>>),          \* create
  Case("etc", "deny", <<Write("added")>>),
  Case("etc", "deny", <<Rename("conf", "added"), Write("conf")>>),
  Case("etc", "deny", <<Mkdir("etc_new"), Unlink("etc"), Rename("etc_new", "etc")>>),
  Case("bin", "prep", <<Mkdir("bind")>>) >>
Apt == Case("jq", "allow", <<Write("jq_new"), Rename("jq_new", "jq")>>)
Cases == IF WithApt THEN Append(Lab, Apt) ELSE Lab
CaseNo == 1..Len(Cases)

NoRow == [changed |-> FALSE, fan |-> FALSE, there |-> FALSE]

TypeOK ==
  /\ script \in {"launch", "poll", "case", "op", "count", "kill", "wait", "report", "exit",
                 "trap_wait", "rm", "end"}
  /\ i \in 1..(Len(Cases) + 1) /\ step \in 1..8 /\ tries \in 0..MaxTries
  /\ before \in Nat
  /\ rows \in [CaseNo -> [changed : BOOLEAN, fan : BOOLEAN, there : BOOLEAN]]
  /\ verdict \in {"none", "undecided", "pass", "fail"}
  /\ trapped \in BOOLEAN /\ lab \in BOOLEAN
  /\ ino \in [Path -> Nat]
  /\ \A p, q \in Path : ino[p] # 0 /\ ino[p] = ino[q] => p = q
  /\ watcher \in {"none", "start", "check", "read", "print", "gone"}
  /\ iw_stop \in BOOLEAN /\ pending \in BOOLEAN
  /\ queue \subseteq CaseNo /\ buf \subseteq CaseNo /\ since \subseteq CaseNo
  /\ raised \subseteq CaseNo /\ mishaps \in 0..MaxMishaps

Init ==
  /\ script = "launch" /\ i = 1 /\ step = 1 /\ tries = 0 /\ before = 0
  /\ rows = [c \in CaseNo |-> NoRow] /\ verdict = "none"
  /\ trapped = FALSE /\ lab = TRUE
  /\ ino = [p \in Path |-> IF p = "jq" THEN 1 ELSE IF p = "usr_bin" THEN 2 ELSE 0]
  /\ usrMount \in BOOLEAN /\ reuse \in BOOLEAN
  /\ watcher = "none" /\ iw_stop = FALSE /\ pending = FALSE /\ marks = {}
  /\ queue = {} /\ buf = {} /\ since = {} /\ raised = {}
  /\ mishaps = 0

-----------------------------------------------------------------------------
(* What the kernel does with one step of an operation *)

\* The number a new file gets: the lowest free one, or one never given before.
FreshIno ==
  LET used == {ino[p] : p \in Path} IN
  IF reuse THEN CHOOSE n \in 1..(Cardinality(Path) + 1) :
                  n \notin used /\ \A k \in 1..(n - 1) : k \in used
  ELSE 1 + 10 * i + step

After(op) ==
  IF op.do = "rename" THEN [ino EXCEPT ![op.to] = ino[op.path], ![op.path] = 0]
  ELSE IF op.do = "unlink" THEN [ino EXCEPT ![op.path] = 0]
  ELSE IF op.do = "write" /\ ino[op.path] = 0 THEN [ino EXCEPT ![op.path] = FreshIno]
  ELSE ino

\* The events of a step: about a name in a directory, or about the object.
Raises(op) ==
  IF op.do = "rename" THEN {<<"MOVED_FROM", Parent[op.path]>>, <<"MOVED_TO", Parent[op.to]>>,
                            <<"MOVE_SELF", op.path>>}
  ELSE IF op.do = "unlink" THEN {<<"DELETE", Parent[op.path]>>, <<"DELETE_SELF", op.path>>}
  ELSE IF op.do = "chmod" THEN {<<"ATTRIB", op.path>>}
  ELSE {<<"MODIFY", op.path>>}
         \cup (IF ino[op.path] = 0 THEN {<<"CREATE", Parent[op.path]>>} ELSE {})

\* Mutant: only what happens to a watched object itself.
MaskSelf == {"MODIFY", "ATTRIB", "DELETE_SELF", "MOVE_SELF"}

Mask == {"CREATE", "DELETE", "MOVED_FROM", "MOVED_TO", "MODIFY", "ATTRIB", "DELETE_SELF",
         "MOVE_SELF"}

InUsr == {"usr", "usr_bin", "jq", "jq_new"}

\* A mark on a directory is told of its own names and of itself, not, without
\* FAN_EVENT_ON_CHILD, of what happens to its files; one on a file system of all.
Told(ev) ==
  /\ ev[1] \in Mask
  /\ \E m \in marks : ev[2] = m.at \/ (m.whole /\ ev[2] \in InUsr)

-----------------------------------------------------------------------------
(* cases.sh *)

world == <<fs, process, events>>

Launch ==
  /\ script = "launch"
  /\ script' = "poll"
  /\ watcher' = "start"
  /\ UNCHANGED <<i, step, tries, before, outcome, trapped, lab, fs, iw_stop, marks, pending,
                 events, mishaps>>

\* Mutant: the loop has no end.
PollOn ==
  /\ script = "poll"
  /\ \/ watcher \notin {"start", "gone"} /\ script' = "case" /\ trapped' = TRUE /\ UNCHANGED tries
     \/ watcher = "gone" /\ script' = "exit" /\ UNCHANGED <<tries, trapped>>
     \/ watcher = "start" /\ tries' = tries + 1 /\ UNCHANGED <<script, trapped>>
  /\ UNCHANGED <<i, step, before, outcome, lab, world, pending, mishaps>>

\* READY is in the log, or the process is dead (exit 1), or the next turn; after
\* the last one exit 1 too.  The trap that stops inowatch is set after READY.
\* The READY is that of this inowatch: with the --out of an earlier run the log is
\* there until the child's redirection empties it (cases.sh:60-63), and an old
\* READY that is read in that moment is not modelled.
Poll ==
  /\ script = "poll"
  /\ \/ /\ watcher \notin {"start", "gone"}
        /\ script' = "case" /\ trapped' = TRUE /\ UNCHANGED tries
     \/ /\ watcher = "gone"
        /\ script' = "exit" /\ UNCHANGED <<tries, trapped>>
     \/ /\ watcher = "start"
        /\ IF tries < MaxTries THEN tries' = tries + 1 /\ UNCHANGED script
                               ELSE script' = "exit" /\ UNCHANGED tries
        /\ UNCHANGED trapped
  /\ UNCHANGED <<i, step, before, outcome, lab, world, pending, mishaps>>

\* Mutant: the length of the log is noted for the first case only.
BeginUnmarked ==
  /\ script = "case" /\ i <= Len(Cases)
  /\ script' = "op" /\ step' = 1
  /\ before' = ino[Cases[i].target]
  /\ UNCHANGED <<i, tries, outcome, trapped, lab, world, pending, mishaps>>

\* run_case: the length of the log is noted, and the inode of the target.
Begin ==
  /\ script = "case" /\ i <= Len(Cases)
  /\ script' = "op" /\ step' = 1
  /\ before' = ino[Cases[i].target]
  /\ since' = IF Cases[i].kind = "prep" THEN since ELSE {}
  /\ UNCHANGED <<i, tries, outcome, trapped, lab, fs, process, pending, queue, buf, raised,
                 mishaps>>

\* One step of the operation.
Operate ==
  /\ script = "op"
  /\ LET ops == Cases[i].ops
         told == \E ev \in Raises(ops[step]) : Told(ev)
     IN  /\ ino' = After(ops[step])
         /\ queue' = IF told THEN queue \cup {i} ELSE queue
         /\ raised' = IF told THEN raised \cup {i} ELSE raised
         /\ step' = step + 1
         /\ IF step < Len(ops) THEN UNCHANGED <<script, i>>
            ELSE IF Cases[i].kind = "prep" THEN script' = "case" /\ i' = i + 1
            ELSE script' = "count" /\ UNCHANGED i
  /\ UNCHANGED <<tries, before, outcome, trapped, lab, usrMount, reuse, process, pending, buf,
                 since, mishaps>>

\* The operation fails at this step: the case is left out.
Skip ==
  /\ script = "op" /\ Cases[i].kind # "prep" /\ mishaps < MaxMishaps
  /\ mishaps' = mishaps + 1
  /\ script' = "case" /\ i' = i + 1
  /\ UNCHANGED <<step, tries, before, outcome, trapped, lab, world, pending>>

\* Mutant: the lines are counted without the sleep.
CountEarly ==
  /\ script = "count"
  /\ rows' = [rows EXCEPT ![i] = [changed |-> before # ino[Cases[i].target],
                                  fan |-> since # {}, there |-> TRUE]]
  /\ script' = "case" /\ i' = i + 1
  /\ UNCHANGED <<step, tries, before, verdict, trapped, lab, world, pending, mishaps>>

\* After the sleep: a row with both answers.
Count ==
  /\ script = "count"
  /\ Prompt => queue = {} /\ buf = {}
  /\ rows' = [rows EXCEPT ![i] = [changed |-> before # ino[Cases[i].target],
                                  fan |-> since # {}, there |-> TRUE]]
  /\ script' = "case" /\ i' = i + 1
  /\ UNCHANGED <<step, tries, before, verdict, trapped, lab, world, pending, mishaps>>

Kill ==
  /\ script = "case" /\ i > Len(Cases)
  /\ script' = "wait"
  /\ pending' = (watcher # "gone")
  /\ UNCHANGED <<i, step, tries, before, outcome, trapped, lab, world, mishaps>>

Wait ==
  /\ script = "wait" /\ watcher = "gone"
  /\ script' = "report"
  /\ UNCHANGED <<i, step, tries, before, outcome, trapped, lab, world, pending, mishaps>>

\* report.py
Changed == {c \in CaseNo : rows[c].there /\ rows[c].changed}

Missed == {c \in Changed : ~rows[c].fan}

Report ==
  /\ script = "report"
  /\ script' = "exit"
  /\ verdict' = IF Changed = {} THEN "undecided" ELSE IF Missed = {} THEN "pass" ELSE "fail"
  /\ UNCHANGED <<i, step, tries, before, rows, trapped, lab, world, pending, mishaps>>

\* The trap on EXIT: the first one only removes the laboratory.
Trap ==
  /\ script = "exit"
  /\ IF trapped THEN script' = "trap_wait" /\ pending' = (pending \/ watcher # "gone")
                ELSE script' = "rm" /\ UNCHANGED pending
  /\ UNCHANGED <<i, step, tries, before, outcome, trapped, lab, world, mishaps>>

\* Mutant: the trap does not wait for the process.
TrapWaitNot ==
  /\ script = "trap_wait"
  /\ script' = "rm"
  /\ UNCHANGED <<i, step, tries, before, outcome, trapped, lab, world, pending, mishaps>>

TrapWait ==
  /\ script = "trap_wait" /\ watcher = "gone"
  /\ script' = "rm"
  /\ UNCHANGED <<i, step, tries, before, outcome, trapped, lab, world, pending, mishaps>>

Remove ==
  /\ script = "rm"
  /\ script' = "end"
  /\ lab' = FALSE
  /\ UNCHANGED <<i, step, tries, before, outcome, trapped, world, pending, mishaps>>

\* set -e: a command outside run_case fails.
Die ==
  /\ script \in {"case", "op"}
  /\ script = "op" => Cases[i].kind = "prep"
  /\ script' = "exit"
  /\ UNCHANGED <<i, step, tries, before, outcome, trapped, lab, world, pending, mishaps>>

\* Ctrl-C goes to both; a process that has no handler yet ignores it, as bash
\* starts a job in the background with SIGINT ignored.
Interrupt ==
  /\ script \notin {"exit", "trap_wait", "rm", "end"} /\ mishaps < MaxMishaps
  /\ mishaps' = mishaps + 1
  /\ script' = "exit"
  /\ pending' \in IF watcher = "start" THEN BOOLEAN ELSE {watcher \notin {"none", "gone"}}
  /\ UNCHANGED <<i, step, tries, before, outcome, trapped, lab, world>>

-----------------------------------------------------------------------------
(* inowatch.c *)

others == <<script, i, step, tries, before, outcome, trapped, lab, fs, pending, raised, mishaps>>

\* The marks, READY, and the loop; or an error return.
Mark ==
  /\ watcher = "start"
  /\ watcher' = "check"
  /\ marks' = {[at |-> "lab", whole |-> FALSE], [at |-> "usr", whole |-> usrMount]}
  /\ UNCHANGED <<others, iw_stop, queue, buf, since>>

MarkFails ==
  /\ watcher = "start"
  /\ watcher' = "gone"
  /\ UNCHANGED <<others, iw_stop, marks, queue, buf, since>>

\* while (!iw_stop)
Check ==
  /\ watcher = "check"
  /\ watcher' = IF iw_stop THEN "gone" ELSE "read"
  /\ UNCHANGED <<others, iw_stop, marks, queue, buf, since>>

\* read() sleeps until there is an event.  A handled signal does not end it:
\* signal() of glibc asks for system calls to be restarted.
Read ==
  /\ watcher = "read" /\ queue # {}
  /\ watcher' = "print"
  /\ buf' = queue /\ queue' = {}
  /\ UNCHANGED <<others, iw_stop, marks, since>>

\* The events of the buffer, one line each.
PrintLine ==
  /\ watcher = "print"
  /\ \E c \in buf :
       /\ since' = since \cup {c}
       /\ buf' = buf \ {c}
       /\ watcher' = IF buf = {c} THEN "check" ELSE "print"
  /\ UNCHANGED <<others, iw_stop, marks, queue>>

\* Mutant: the handler does not set the flag.
OnSigSilent ==
  /\ pending /\ watcher \notin {"none", "gone"}
  /\ pending' = FALSE
  /\ UNCHANGED <<script, i, step, tries, before, outcome, trapped, lab, fs, raised, mishaps,
                 watcher, iw_stop, marks, queue, buf, since>>

\* iw_sig; the handlers are set first of all.
OnSig ==
  /\ pending /\ watcher \notin {"none", "gone"}
  /\ pending' = FALSE
  /\ iw_stop' = TRUE
  /\ UNCHANGED <<script, i, step, tries, before, outcome, trapped, lab, fs, raised, mishaps,
                 watcher, marks, queue, buf, since>>

-----------------------------------------------------------------------------
Script == Launch \/ Poll \/ Begin \/ Operate \/ Count \/ Kill \/ Wait \/ Report \/ Trap
          \/ TrapWait \/ Remove
Watcher == Mark \/ Check \/ Read \/ PrintLine

Next == Script \/ Watcher \/ Skip \/ Die \/ Interrupt \/ MarkFails \/ OnSig

Spec == Init /\ [][Next]_vars

\* Both processes run when they can, and a signal that was sent arrives.
FairSpec == Spec /\ WF_vars(Script) /\ WF_vars(Watcher) /\ WF_vars(OnSig)

-----------------------------------------------------------------------------
(* Properties *)

\* README.md:28 of the harness: a replacement fanotify does not report is a
\* failure.  A row that says fanotify saw nothing is right (the sleep being long
\* enough), so a verdict of failure is never a false alarm; a pass never leaves
\* out a row whose inode changed without an event.  What a case
\* counts and did not cause comes from directories the script made since the case
\* before, or from a case that failed and has no row, never from another row.
VerdictSound ==
  /\ script = "count" => \A c \in since : c = i \/ Cases[c].kind = "prep" \/ ~rows[c].there
  /\ \A c \in CaseNo : rows[c].there /\ ~rows[c].fan => c \notin raised
  /\ verdict = "fail" => \E c \in CaseNo : rows[c].changed /\ c \notin raised
  /\ verdict = "pass" => \A c \in CaseNo : rows[c].changed => rows[c].fan

\* The replacement of a directory the deny list names, which opens what was
\* forbidden, is reported: the directory above it is marked for its names.
DenyReplacementSeen ==
  \A c \in CaseNo : Cases[c].kind = "deny" /\ rows[c].changed => c \in raised

\* The script ends and removes its laboratory, whatever failed and whenever Ctrl-C
\* was typed, unless it waits for an inowatch that has been told to stop and
\* sleeps in read().
RemovedUnlessAsleep == <>(~lab) \/ <>[](iw_stop /\ watcher = "read")

\* However the script ends, inowatch is gone, once the trap for it was set.
NoWatcherLeft == script = "end" /\ trapped => watcher = "gone"

\* README.md:102 of the harness, "the lab is removed at the end".
LabRemoved == <>(~lab)
=============================================================================
