------------------------------ MODULE TagProbe ------------------------------
(***************************************************************************)
(* The two-layer tag of bench/bypass: the BPF programs wb_fork and wb_exec *)
(* of tagprobe.bpf.c, the start-up and the end of their loader             *)
(* (tagprobe.c daemon), and the processes and cgroups they watch.          *)
(*                                                                         *)
(* Layer 1 is the cgroup: wb_cg_tag maps a cgroup id to a warrant.         *)
(* Layer 2 is the fork chain: wb_fork copies the parent's effective tag    *)
(* into the child's task storage, wb_task_tag.  wb_exec writes what both   *)
(* layers say at exec time to wb_pid_tag, which `tagprobe query` reads by  *)
(* pid.                                                                    *)
(*                                                                         *)
(* The session is the one the bats files set up: Shell is the process that *)
(* runs the cases, and the loader is given the id of its cgroup.  Pid1     *)
(* stands for every process that forks on behalf of others (systemd, atd,  *)
(* containerd-shim).                                                       *)
(***************************************************************************)
EXTENDS Naturals, FiniteSets

CONSTANTS
  Pid,          \* process ids; one that is free can be used again
  Pid1,         \* systemd: alive throughout, never in the session
  Shell,        \* the pid of the session's shell (the bats process)
  Cgroup,       \* cgroup ids; kernfs does not use one twice
  RootCg,       \* the cgroup of Pid1
  SessionCg,    \* the session's scope, given to --tag-cgroup
  MaxEntries,   \* max_entries of wb_pid_tag (8192 in the source)
  NoRec         \* what a lookup of an absent key yields

ASSUME PidAssumption == {Pid1, Shell} \subseteq Pid /\ Pid1 # Shell
ASSUME CgroupAssumption ==
  {RootCg, SessionCg} \subseteq Cgroup /\ RootCg # SessionCg
ASSUME MaxEntriesAssumption == MaxEntries \in Nat

VARIABLES
  alive,        \* the pids in use
  cgroup,       \* cgroup[p]: where the kernel accounts process p
  wb_cg_tag,    \* layer 1: warrant of a cgroup, NoWarrant when absent
  wb_task_tag,  \* layer 2: warrant in the task storage of a process
  wb_pid_tag,   \* last exec record written under a pid, or NoRec
  attached,     \* the BPF programs that are attached
  loader,       \* how far the loader has got
  (* History, read by properties only. *)
  origin,       \* origin[p]: where the fork chain of p starts (see Fork)
  lastExec      \* lastExec[p]: what became of the last exec of p

maps == <<wb_cg_tag, wb_task_tag, wb_pid_tag>>
vars == <<alive, cgroup, maps, attached, loader, origin, lastExec>>

-----------------------------------------------------------------------------
NoWarrant == 0
Wid == 1                 \* the only warrant id the loader ever writes
Warrant == {NoWarrant, Wid}

Rec == [cgroup_id : Cgroup, warrant_cg : Warrant, warrant_task : Warrant]
ASSUME NoRecAssumption == NoRec \notin Rec

Program == {"wb_fork", "wb_exec"}
\* "down": nothing runs and nothing is pinned.  "crashed": the loader ended
\* without removing its pins.
LoaderState == {"down", "crashed", "tag", "attach_fork", "attach_exec", "ready"}

(***************************************************************************)
(* "shell"    the session's shell itself                                   *)
(* "session"  every fork from the shell down to p was made after READY     *)
(* "pid1"     Pid1, or forked from it the same way, and neither p nor an   *)
(*            ancestor was in a tagged cgroup since                        *)
(* "guest"    as "pid1", but moved into a tagged cgroup                    *)
(* "other"    forked while no loader was ready, or before the last start,  *)
(*            or a fork on the way got no storage slot                     *)
(* "none"     the pid is free                                              *)
(***************************************************************************)
Origin == {"shell", "session", "pid1", "guest", "other", "none"}

\* "missed": wb_exec was not attached; "dropped": it was, and the map was full.
LastExec == {"none", "missed", "dropped", "recorded"}

TypeOK ==
  /\ alive \subseteq Pid
  /\ cgroup \in [Pid -> Cgroup]
  /\ wb_cg_tag \in [Cgroup -> Warrant]
  /\ wb_task_tag \in [Pid -> Warrant]
  /\ wb_pid_tag \in [Pid -> Rec \cup {NoRec}]
  /\ attached \subseteq Program
  /\ loader \in LoaderState
  /\ origin \in [Pid -> Origin]
  /\ lastExec \in [Pid -> LastExec]

Init ==
  /\ alive = {Pid1, Shell}
  /\ cgroup = [p \in Pid |-> IF p = Shell THEN SessionCg ELSE RootCg]
  /\ wb_cg_tag = [g \in Cgroup |-> NoWarrant]
  /\ wb_task_tag = [p \in Pid |-> NoWarrant]
  /\ wb_pid_tag = [p \in Pid |-> NoRec]
  /\ attached = {}
  /\ loader = "down"
  /\ origin = [p \in Pid |-> IF p = Shell THEN "shell"
                             ELSE IF p = Pid1 THEN "pid1" ELSE "none"]
  /\ lastExec = [p \in Pid |-> IF p \in {Pid1, Shell} THEN "missed" ELSE "none"]

-----------------------------------------------------------------------------
(* tagprobe.bpf.c *)

wb_tag_by_cgroup(p) == wb_cg_tag[cgroup[p]]

wb_tag_by_task(p) == wb_task_tag[p]

\* Mutant: the fork chain is not asked, only the cgroup.
EffectiveTagByCgroup(p) == wb_tag_by_cgroup(p)

\* The parent's effective tag, as wb_fork computes it: layer 2 first.
EffectiveTag(p) ==
  IF wb_tag_by_task(p) # NoWarrant THEN wb_tag_by_task(p) ELSE wb_tag_by_cgroup(p)

\* Mutant: a parent that has a record under its pid is asked there.
ForkTagByPid(p, slot) ==
  IF ~("wb_fork" \in attached /\ slot) THEN NoWarrant
  ELSE IF wb_pid_tag[p] # NoRec THEN wb_pid_tag[p].warrant_task ELSE EffectiveTag(p)

\* What wb_fork leaves in the storage of a child of p.  `slot' tells whether
\* bpf_task_storage_get could create the storage: a failure is ignored.
ForkTag(p, slot) ==
  IF "wb_fork" \in attached /\ slot THEN EffectiveTag(p) ELSE NoWarrant

\* Mutants: the lookup by cgroup is left out; the two tags change places; one
\* column is filled with the effective tag.
ExecRecordUnlooked(p) ==
  [cgroup_id |-> cgroup[p], warrant_cg |-> cgroup[p], warrant_task |-> wb_tag_by_task(p)]
ExecRecordSwapped(p) ==
  [cgroup_id |-> cgroup[p], warrant_cg |-> wb_tag_by_task(p),
   warrant_task |-> wb_tag_by_cgroup(p)]
ExecRecordEffectiveTask(p) ==
  [cgroup_id |-> cgroup[p], warrant_cg |-> wb_tag_by_cgroup(p),
   warrant_task |-> EffectiveTag(p)]

ExecRecord(p) ==
  [cgroup_id |-> cgroup[p],
   warrant_cg |-> wb_tag_by_cgroup(p),
   warrant_task |-> wb_tag_by_task(p)]

\* bpf_map_update_elem with BPF_ANY fails on a full hash map unless the key is
\* present; wb_exec ignores the result.
RoomFor(p) ==
  \/ wb_pid_tag[p] # NoRec
  \/ Cardinality({q \in Pid : wb_pid_tag[q] # NoRec}) < MaxEntries

Recorded(p) == "wb_exec" \in attached /\ RoomFor(p)

-----------------------------------------------------------------------------
(* Processes and cgroups *)

ChildOrigin(p, slot) ==
  IF loader # "ready" \/ ~slot THEN "other"
  ELSE IF origin[p] = "shell" THEN "session" ELSE origin[p]

\* fork, clone or vfork of p.  The tracepoint runs before the child does, with
\* the child already in its parent's cgroup.
Fork(p, c, slot) ==
  /\ p \in alive
  /\ c \in Pid \ alive
  /\ alive' = alive \cup {c}
  /\ cgroup' = [cgroup EXCEPT ![c] = cgroup[p]]
  /\ wb_task_tag' = [wb_task_tag EXCEPT ![c] = ForkTag(p, slot)]
  /\ origin' = [origin EXCEPT ![c] = ChildOrigin(p, slot)]
  /\ lastExec' = [lastExec EXCEPT ![c] = "none"]
  /\ UNCHANGED <<wb_cg_tag, wb_pid_tag, attached, loader>>

\* execve by p: bprm_check_security runs wb_exec, which never denies.
Exec(p) ==
  /\ p \in alive
  /\ wb_pid_tag' = IF Recorded(p)
                   THEN [wb_pid_tag EXCEPT ![p] = ExecRecord(p)]
                   ELSE wb_pid_tag
  /\ lastExec' = [lastExec EXCEPT ![p] = IF Recorded(p) THEN "recorded"
                                         ELSE IF "wb_exec" \in attached THEN "dropped"
                                         ELSE "missed"]
  /\ UNCHANGED <<alive, cgroup, wb_cg_tag, wb_task_tag, attached, loader, origin>>

GuestIf(o, tagged) == IF o = "pid1" /\ tagged THEN "guest" ELSE o

\* systemd (or anyone with the right to) writes p to another cgroup.procs, as
\* it does for a new scope.  Nothing moves Pid1 or the shell of the session.
Migrate(p, g) ==
  /\ p \in alive
  /\ origin[p] # "shell" /\ p # Pid1
  /\ g \in Cgroup \ {cgroup[p]}
  /\ cgroup' = [cgroup EXCEPT ![p] = g]
  /\ origin' = [origin EXCEPT ![p] = GuestIf(@, wb_cg_tag[g] # NoWarrant)]
  /\ UNCHANGED <<alive, maps, attached, loader, lastExec>>

\* The task ends: its storage is freed, its pid can be used again.  The entry
\* of the pid in wb_pid_tag stays.
Exit(p) ==
  /\ p \in alive \ {Pid1}
  /\ alive' = alive \ {p}
  /\ wb_task_tag' = [wb_task_tag EXCEPT ![p] = NoWarrant]
  /\ cgroup' = [cgroup EXCEPT ![p] = RootCg]
  /\ origin' = [origin EXCEPT ![p] = "none"]
  /\ lastExec' = [lastExec EXCEPT ![p] = "none"]
  /\ UNCHANGED <<wb_cg_tag, wb_pid_tag, attached, loader>>

-----------------------------------------------------------------------------
(* tagprobe.c: daemon and tag *)

Processes == <<alive, cgroup>>

\* A warrant for cgroup g; the processes in g that came from Pid1 are guests of
\* the session from now on.
SetTag(g) ==
  /\ wb_cg_tag' = [wb_cg_tag EXCEPT ![g] = Wid]
  /\ origin' = [p \in Pid |-> GuestIf(origin[p], cgroup[p] = g)]

\* No map of this loader holds anything: it has none, or has just made them.
\* The chains start again at the shell and at Pid1.
ForgetAll ==
  /\ wb_cg_tag' = [g \in Cgroup |-> NoWarrant]
  /\ wb_task_tag' = [p \in Pid |-> NoWarrant]
  /\ wb_pid_tag' = [p \in Pid |-> NoRec]
  /\ origin' = [p \in Pid |-> IF p = Pid1 THEN "pid1"
                               ELSE IF origin[p] \in {"shell", "none"} THEN origin[p]
                               ELSE "other"]
  /\ lastExec' = [p \in Pid |-> IF lastExec[p] = "none" THEN "none" ELSE "missed"]

\* Open, load and pin: new and empty maps take the place of those an earlier
\* loader may have left behind its pins.
Load ==
  /\ loader \in {"down", "crashed"}
  /\ loader' = "tag"
  /\ ForgetAll
  /\ UNCHANGED <<Processes, attached>>

\* --tag-cgroup: before any program is attached.
TagSession ==
  /\ loader = "tag"
  /\ loader' = "attach_fork"
  /\ SetTag(SessionCg)
  /\ UNCHANGED <<Processes, wb_task_tag, wb_pid_tag, attached, lastExec>>

\* bpf_object__for_each_program attaches in the order of the object file.
AttachFork ==
  /\ loader = "attach_fork"
  /\ loader' = "attach_exec"
  /\ attached' = {"wb_fork"}
  /\ UNCHANGED <<Processes, maps, origin, lastExec>>

\* The last program is attached and READY printed.
AttachExec ==
  /\ loader = "attach_exec"
  /\ loader' = "ready"
  /\ attached' = attached \cup {"wb_exec"}
  /\ UNCHANGED <<Processes, maps, origin, lastExec>>

\* `tagprobe tag <cgroup-id>' through the pin of wb_cg_tag.
CmdTag(g) ==
  /\ loader # "down"
  /\ SetTag(g)
  /\ UNCHANGED <<Processes, wb_task_tag, wb_pid_tag, attached, loader, lastExec>>

\* SIGINT or SIGTERM after READY: the pins are removed, the maps go with the
\* process.
Quit ==
  /\ loader = "ready"
  /\ loader' = "down"
  /\ attached' = {}
  /\ ForgetAll
  /\ UNCHANGED Processes

\* An error return or a crash once the maps are pinned.  The pins keep the maps;
\* the links are not pinned, so no program stays attached.
Crash ==
  /\ loader \notin {"down", "crashed"}
  /\ loader' = "crashed"
  /\ attached' = {}
  /\ UNCHANGED <<Processes, maps, origin, lastExec>>

-----------------------------------------------------------------------------
(* tagprobe.c: query, and the assertion helpers.bash builds on it *)

\* What `tagprobe query <pid>' finds: an error without a pin, nothing for a pid
\* with no entry ("tagged=unknown"), and the record otherwise.
Query(p) ==
  IF loader = "down" THEN [kind |-> "error"]
  ELSE IF wb_pid_tag[p] = NoRec THEN [kind |-> "unknown"]
  ELSE [kind |-> "record", rec |-> wb_pid_tag[p]]

\* assert_tag: an empty answer fails; a field that is missing or 0 counts as no.
Got(out, field) ==
  IF out.kind = "record" /\ out.rec[field] # NoWarrant THEN "yes" ELSE "no"

AssertTag(p, want_cg, want_task) ==
  LET out == Query(p)
  IN /\ out.kind # "error"
     /\ Got(out, "warrant_cg") = want_cg
     /\ Got(out, "warrant_task") = want_task

-----------------------------------------------------------------------------
ProcessStep ==
  \/ \E p, c \in Pid, slot \in BOOLEAN : Fork(p, c, slot)
  \/ \E p \in Pid : Exec(p)
  \/ \E p \in Pid, g \in Cgroup : Migrate(p, g)
  \/ \E p \in Pid : Exit(p)

LoaderStep ==
  \/ Load \/ TagSession \/ AttachFork \/ AttachExec \/ Quit \/ Crash
  \/ \E g \in Cgroup : CmdTag(g)

Next == ProcessStep \/ LoaderStep

Spec == Init /\ [][Next]_vars

-----------------------------------------------------------------------------
(* Properties *)

\* First rows of the table of tag_propagation.bats ("the session itself" makes
\* the process: nohup, setsid, &, sudo, su, systemd-run --scope): whatever is
\* forked from the session's shell, through any number of forks, keeps the tag
\* of wb_fork, wherever it is moved and whatever it executes.
SessionKeepsTag ==
  \A p \in alive : origin[p] = "session" => wb_task_tag[p] = Wid

\* Last rows of the table (systemd-run, systemctl start, at, docker exec): what
\* a daemon outside the session forks has no tag by either layer.
DelegatedHasNone ==
  \A p \in alive : origin[p] = "pid1" => EffectiveTag(p) = NoWarrant

\* What the bats cases assert, for a process whose last exec came while wb_exec
\* was attached.  With a record, one of the session passes "yes yes" if it
\* executed in the session's cgroup and "no yes" if a scope had moved it to a
\* cgroup that carries no tag, and a delegated one passes "no no".  (Of a
\* session process that executed in another tagged cgroup the table says
\* nothing: its first column depends on when `tagprobe tag' ran.)  When the full
\* map took no record, the query answers "unknown" and never with the record of
\* an earlier owner of the pid, so that assert_tag sees "no no" whatever the
\* tags are.
BatsTable ==
  \A p \in alive :
    /\ lastExec[p] = "recorded" =>
         LET g == wb_pid_tag[p].cgroup_id
         IN /\ origin[p] = "session" /\ g = SessionCg => AssertTag(p, "yes", "yes")
            /\ origin[p] = "session" /\ wb_cg_tag[g] = NoWarrant =>
                 AssertTag(p, "no", "yes")
            /\ origin[p] = "pid1" => AssertTag(p, "no", "no")
    /\ lastExec[p] = "dropped" => Query(p).kind = "unknown" /\ AssertTag(p, "no", "no")

\* A record shows the cgroup and the tags of exec time, and its process is
\* moved and its cgroup tagged afterwards.  The fork column is never out of
\* date, for the task tag is decided by the fork, before any exec; the cgroup
\* column only in one direction: a tag it shows is still that of the cgroup.
RecordSound ==
  \A p \in alive : lastExec[p] = "recorded" =>
    /\ wb_pid_tag[p] # NoRec
    /\ wb_pid_tag[p].warrant_task = wb_task_tag[p]
    /\ wb_pid_tag[p].warrant_cg # NoWarrant =>
         wb_cg_tag[wb_pid_tag[p].cgroup_id] = wb_pid_tag[p].warrant_cg
=============================================================================
