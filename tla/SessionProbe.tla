---------------------------- MODULE SessionProbe ----------------------------
(***************************************************************************)
(* bench/pamtiming: the probe in the PAM stack (pamprobe.c), behind        *)
(* pam_systemd as _patch puts it, the log its calls append to, make        *)
(* collect, and the verdict of report.py.                                  *)
(*                                                                         *)
(* Every login is a process of its own in which PAM runs.  logind, which   *)
(* makes the session and its scope, and the logins are external.  A cgroup *)
(* id never comes back, so the scope of a login is named by the login; the *)
(* number of a session does come back.                                     *)
(***************************************************************************)
EXTENDS Naturals, FiniteSets, Sequences

CONSTANTS
  Login,
  Sid,          \* numbers logind gives to sessions
  NoSid,        \* XDG_SESSION_ID is not set
  NoScope,      \* stat() found nothing: id 0
  MaxPolls,     \* wait_ms * 1000 / WP_STEP_US (400 in the source)
  MaxCollects   \* bound: how often make collect runs

ASSUME NameAssumption == NoSid \notin Sid /\ NoScope \notin Login
ASSUME NumberAssumption == MaxPolls \in Nat /\ MaxCollects \in Nat

VARIABLES
  service, caller, \* of a login: its PAM service, and the cgroup it is called in
  at,          \* where its process is in the PAM stack
  phase,       \* of wp_record
  proc_cg, scope_id, present_t0, polls, \* locals of wp_record
  sid,         \* its XDG_SESSION_ID
  scope,       \* its session scope: "none", "up", "down"
  moved,       \* its process is in its scope
  waits,       \* logind answers only when the scope is there
  log,         \* WP_LOG: rows
  wrote,       \* history: every row, and whether it came during a collect
  collect, dirs, \* where make collect is; pamprobe.log of each out directory
  spoiled      \* history: a copy failed

locals == <<phase, proc_cg, scope_id, present_t0, polls>>
logind == <<sid, scope, moved, waits>>
files == <<log, wrote, collect, dirs, spoiled>>
vars == <<service, caller, at, locals, logind, files>>

-----------------------------------------------------------------------------
\* Who calls in which cgroup: sshd is a system service, su is typed in a
\* terminal of the desktop or in an ssh session, pamtester is started in either
\* or, by test-detached, in system.slice.
Kinds == [service : {"sshd"}, caller : {"system"}]
         \cup [service : {"su"}, caller : {"user_mgr", "session"}]
         \cup [service : {"warrant-probe"}, caller : {"system", "user_mgr", "session"}]

Row == [login : Login, phase : {"acct_mgmt", "open_session", "close_session"},
        service : {"sshd", "su", "warrant-probe"}, xdg_session_id : Sid \cup {NoSid},
        proc_cgroup : {"system", "user_mgr", "session", "own"},
        scope_cgid : Login \cup {NoScope}, present_t0 : BOOLEAN,
        waited : BOOLEAN, match : BOOLEAN]

TypeOK ==
  /\ \A l \in Login : [service |-> service[l], caller |-> caller[l]] \in Kinds
  /\ at \in [Login -> {"idle", "reply", "proc", "scope", "poll", "emit", "session", "done"}]
  /\ phase \in [Login -> {"open_session", "close_session"}]
  /\ proc_cg \in [Login -> {"system", "user_mgr", "session", "own"}]
  /\ scope_id \in [Login -> Login \cup {NoScope}]
  /\ present_t0 \in [Login -> BOOLEAN] /\ polls \in [Login -> 0..MaxPolls]
  /\ sid \in [Login -> Sid \cup {NoSid}] /\ scope \in [Login -> {"none", "up", "down"}]
  /\ moved \in [Login -> BOOLEAN] /\ waits \in BOOLEAN
  /\ log \subseteq Row /\ wrote \subseteq Row \X BOOLEAN
  /\ collect \in {"idle", "copied"}
  /\ \A k \in DOMAIN dirs : dirs[k] \subseteq Row
  /\ Len(dirs) <= MaxCollects /\ spoiled \in BOOLEAN

Init ==
  /\ \E kind \in [Login -> Kinds] :
       /\ service = [l \in Login |-> kind[l].service]
       /\ caller = [l \in Login |-> kind[l].caller]
  /\ at = [l \in Login |-> "idle"]
  /\ phase = [l \in Login |-> "open_session"]
  /\ proc_cg = caller
  /\ scope_id = [l \in Login |-> NoScope]
  /\ present_t0 = [l \in Login |-> FALSE]
  /\ polls = [l \in Login |-> 0]
  /\ sid = [l \in Login |-> NoSid] /\ scope = [l \in Login |-> "none"]
  /\ moved = [l \in Login |-> FALSE] /\ waits \in BOOLEAN
  /\ log = {} /\ wrote = {} /\ collect = "idle" /\ dirs = <<>> /\ spoiled = FALSE

-----------------------------------------------------------------------------
(* logind and pam_systemd *)

\* pam_systemd has given the session back, or the process has ended.
Released(l) == at[l] = "done" \/ phase[l] = "close_session"

\* A number is free when its session is over and its scope is gone.
FreeSid == {s \in Sid : \A m \in Login : sid[m] = s => Released(m) /\ scope[m] # "up"}

\* The session part of the stack begins.  Nothing is made for a process that is
\* in a session of the user already.
CreateSession(l) ==
  /\ at[l] = "idle"
  /\ \/ /\ caller[l] = "system"
        /\ \E s \in FreeSid : sid' = [sid EXCEPT ![l] = s]
        /\ at' = [at EXCEPT ![l] = "reply"]
     \/ /\ caller[l] # "system"
        /\ at' = [at EXCEPT ![l] = "proc"]
        /\ UNCHANGED sid
  /\ UNCHANGED <<service, caller, locals, scope, moved, waits, files>>

ScopeUp(l) ==
  /\ sid[l] # NoSid /\ scope[l] = "none" /\ ~Released(l)
  /\ scope' = [scope EXCEPT ![l] = "up"]
  /\ UNCHANGED <<service, caller, at, locals, sid, moved, waits, files>>

Move(l) ==
  /\ scope[l] = "up" /\ ~moved[l] /\ at[l] # "done"
  /\ moved' = [moved EXCEPT ![l] = TRUE]
  /\ UNCHANGED <<service, caller, at, locals, sid, scope, waits, files>>

Reply(l) ==
  /\ at[l] = "reply"
  /\ waits => moved[l]
  /\ at' = [at EXCEPT ![l] = "proc"]
  /\ UNCHANGED <<service, caller, locals, logind, files>>

\* A scope goes when the session is over and nobody is in it.
ScopeDown(l) ==
  /\ scope[l] = "up" /\ Released(l)
  /\ ~moved[l]
  /\ scope' = [scope EXCEPT ![l] = "down"]
  /\ UNCHANGED <<service, caller, at, locals, sid, moved, waits, files>>

-----------------------------------------------------------------------------
(* pamprobe.c *)

\* Mutant: the scope of some session of the user.
wp_cgidAny(l) ==
  LET there == {m \in Login : sid[l] # NoSid /\ scope[m] = "up"}
  IN  IF there = {} THEN NoScope ELSE CHOOSE m \in there : TRUE

\* stat() of /user.slice/user-%u.slice/session-%s.scope, if there is a sid.
wp_cgid(l) ==
  LET there == {m \in Login : sid[l] # NoSid /\ sid[m] = sid[l] /\ scope[m] = "up"}
  IN  IF there = {} THEN NoScope ELSE CHOOSE m \in there : TRUE

\* Mutant: O_TRUNC where O_APPEND is meant.
wp_emitTrunc(row) ==
  /\ log' = {row}
  /\ wrote' = wrote \cup {<<row, collect = "copied">>}
  /\ UNCHANGED <<collect, dirs, spoiled>>

\* wp_emit: one write() with O_APPEND.
wp_emit(row) ==
  /\ log' = log \cup {row}
  /\ wrote' = wrote \cup {<<row, collect = "copied">>}
  /\ UNCHANGED <<collect, dirs, spoiled>>

\* Mutant: present_t0 is worked out after the wait.
RowOfLate(l, ph) ==
  [login |-> l, phase |-> ph, service |-> service[l], xdg_session_id |-> sid[l],
   proc_cgroup |-> proc_cg[l], scope_cgid |-> scope_id[l],
   present_t0 |-> scope_id[l] # NoScope, waited |-> FALSE,
   match |-> proc_cg[l] = "own" /\ scope_id[l] = l]

RowOf(l, ph) ==
  [login |-> l, phase |-> ph, service |-> service[l], xdg_session_id |-> sid[l],
   proc_cgroup |-> proc_cg[l], scope_cgid |-> scope_id[l], present_t0 |-> present_t0[l],
   waited |-> ~present_t0[l] /\ scope_id[l] # NoScope,
   match |-> proc_cg[l] = "own" /\ scope_id[l] = l]

\* pam_sm_acct_mgmt, which only the stack of warrant-probe calls: no session yet,
\* so wp_record looks at nothing that others change.
Acct(l) ==
  /\ at[l] = "idle" /\ service[l] = "warrant-probe"
  /\ \A w \in wrote : w[1].login # l
  /\ wp_emit(RowOf(l, "acct_mgmt"))
  /\ UNCHANGED <<service, caller, at, locals, logind>>

\* wp_proc_cgroup
ReadProc(l) ==
  /\ at[l] = "proc"
  /\ at' = [at EXCEPT ![l] = "scope"]
  /\ proc_cg' = [proc_cg EXCEPT ![l] = IF moved[l] THEN "own" ELSE caller[l]]
  /\ UNCHANGED <<service, caller, phase, scope_id, present_t0, polls, logind, files>>

\* close_session does not wait.
MayPoll(l) == phase[l] = "open_session" /\ sid[l] # NoSid /\ polls[l] < MaxPolls

Stat(l) ==
  /\ at[l] = "scope"
  /\ scope_id' = [scope_id EXCEPT ![l] = wp_cgid(l)]
  /\ present_t0' = [present_t0 EXCEPT ![l] = wp_cgid(l) # NoScope]
  /\ at' = [at EXCEPT ![l] = IF wp_cgid(l) = NoScope /\ MayPoll(l) THEN "poll" ELSE "emit"]
  /\ UNCHANGED <<service, caller, phase, proc_cg, polls, logind, files>>

\* usleep and another look.
Poll(l) ==
  /\ at[l] = "poll"
  /\ \/ /\ MayPoll(l) /\ scope_id[l] = NoScope
        /\ scope_id' = [scope_id EXCEPT ![l] = wp_cgid(l)]
        /\ polls' = [polls EXCEPT ![l] = @ + 1]
        /\ UNCHANGED at
     \/ /\ ~(MayPoll(l) /\ scope_id[l] = NoScope)
        /\ at' = [at EXCEPT ![l] = "emit"]
        /\ UNCHANGED <<scope_id, polls>>
  /\ UNCHANGED <<service, caller, phase, proc_cg, present_t0, logind, files>>

Emit(l) ==
  /\ at[l] = "emit"
  /\ wp_emit(RowOf(l, phase[l]))
  /\ at' = [at EXCEPT ![l] = IF phase[l] = "open_session" THEN "session" ELSE "done"]
  /\ moved' = [moved EXCEPT ![l] = @ /\ phase[l] = "open_session"]
  /\ proc_cg' = [proc_cg EXCEPT ![l] = caller[l]]
  /\ scope_id' = [scope_id EXCEPT ![l] = NoScope]
  /\ present_t0' = [present_t0 EXCEPT ![l] = FALSE]
  /\ UNCHANGED <<service, caller, phase, polls, sid, scope, waits>>

\* sshd and su close the session, pam_systemd first; pamtester just ends.
Logout(l) ==
  /\ at[l] = "session"
  /\ \/ /\ service[l] = "warrant-probe"
        /\ at' = [at EXCEPT ![l] = "done"]
        /\ moved' = [moved EXCEPT ![l] = FALSE]
        /\ UNCHANGED phase
     \/ /\ service[l] # "warrant-probe"
        /\ at' = [at EXCEPT ![l] = "proc"]
        /\ phase' = [phase EXCEPT ![l] = "close_session"]
        /\ UNCHANGED moved
  /\ UNCHANGED <<service, caller, proc_cg, scope_id, present_t0, polls, sid, scope, waits, files>>

-----------------------------------------------------------------------------
(* make collect *)

\* test -s, a new directory, cp.
Copy ==
  /\ collect = "idle" /\ log # {} /\ Len(dirs) < MaxCollects
  /\ dirs' = Append(dirs, log)
  /\ collect' = "copied"
  /\ UNCHANGED <<service, caller, at, locals, logind, log, wrote, spoiled>>

\* The disk is full, and the commands after cp run all the same.
CopyFails ==
  /\ collect = "idle" /\ log # {} /\ Len(dirs) < MaxCollects
  /\ dirs' = Append(dirs, {})
  /\ collect' = "copied" /\ spoiled' = TRUE
  /\ UNCHANGED <<service, caller, at, locals, logind, log, wrote>>

\* : > $(LOG)
Empty ==
  /\ collect = "copied"
  /\ log' = {}
  /\ collect' = "idle"
  /\ UNCHANGED <<service, caller, at, locals, logind, wrote, dirs, spoiled>>

-----------------------------------------------------------------------------
(* report.py *)

Sess(rows) == {r \in rows : r.phase = "open_session"}
Ssh(rows) == {r \in Sess(rows) : r.service = "sshd"}
Target(rows) == IF Ssh(rows) # {} THEN Ssh(rows) ELSE Sess(rows)

\* IN_USER_MGR: only /user@N.service/ tells that the caller is in a session.
Usable(rows) == {r \in Target(rows) : r.proc_cgroup # "user_mgr"}

\* Mutant: rows without a session are counted with the others.
VerdictUnsorted(rows) ==
  LET use == Usable(rows)
      t0 == {r \in use : r.present_t0}
  IN  IF rows = {} THEN "no_rows"
      ELSE IF Target(rows) = {} THEN "crash"
      ELSE IF use = {} THEN "undecided"
      ELSE IF t0 = use THEN "pass"
      ELSE IF t0 # {} THEN "unstable"
      ELSE IF \E r \in use : r.waited THEN "late" ELSE "never"

\* The conditions of main() in their order; scope_label reads target[0] before
\* an empty target is asked for.
Verdict(rows) ==
  LET use == Usable(rows)
      hasSid == {r \in use : r.xdg_session_id # NoSid}
      t0 == {r \in use : r.present_t0}
  IN  IF rows = {} THEN "no_rows"
      ELSE IF Target(rows) = {} THEN "crash"
      ELSE IF use = {} THEN "undecided"
      ELSE IF hasSid = {} THEN "misplaced"
      ELSE IF hasSid # use THEN "mixed"
      ELSE IF t0 = use THEN "pass"
      ELSE IF t0 # {} THEN "unstable"
      ELSE IF \E r \in use : r.waited THEN "late" ELSE "never"

\* Mutant: by_sid takes the rows of every phase.
ReusedAnyPhase(rows) ==
  {s \in Sid : \E r, q \in rows :
      r.xdg_session_id = s /\ q.xdg_session_id = s /\ r.scope_cgid # q.scope_cgid}

\* by_sid has more than one cgroup id for it.
Reused(rows) ==
  {s \in Sid : \E r, q \in Usable(rows) :
      r.xdg_session_id = s /\ q.xdg_session_id = s /\ r.scope_cgid # q.scope_cgid}

-----------------------------------------------------------------------------
Probe(l) == ReadProc(l) \/ Stat(l) \/ Poll(l) \/ Emit(l)

Next ==
  \/ \E l \in Login :
       Acct(l) \/ CreateSession(l) \/ ScopeUp(l) \/ Move(l) \/ Reply(l) \/ ScopeDown(l)
         \/ Probe(l) \/ Logout(l)
  \/ Copy \/ CopyFails \/ Empty

Spec == Init /\ [][Next]_vars

-----------------------------------------------------------------------------
(* Properties *)

\* "The module can get the cgroup id from XDG_SESSION_ID, the path and stat
\* alone" (report.py:132): when the report passes, every call it counted found
\* the scope without waiting, and it was that of its own session, whatever
\* numbers were given out again in the meantime.  And when it says that
\* XDG_SESSION_ID was reused (report.py:166), two sessions had the number.
PassRight ==
  \A k \in DOMAIN dirs :
    /\ Verdict(dirs[k]) = "pass" =>
         \A r \in Usable(dirs[k]) : r.scope_cgid = r.login /\ polls[r.login] = 0
    /\ \A s \in Reused(dirs[k]) : \E l, m \in Login : l # m /\ sid[l] = s /\ sid[m] = s

\* A logind that answers when the scope is there never gets a report of a gap or
\* of an unsteady result, whoever logs in, from where and however the rows fall
\* into the directories.
NoFalseGap ==
  waits => \A k \in DOMAIN dirs : Verdict(dirs[k]) \notin {"late", "never", "unstable"}

\* "One directory is one measurement" (README.md:64 of the harness): no row is in
\* two of them, and one is lost only when it is written between cp and the
\* emptying of the log, or when a copy failed.  A directory of closed sessions
\* only, on which report.py fails, comes of a collect in the middle of a session
\* and of nothing else: the row of its opening is in an earlier directory, or is
\* one of those lost.
RowsKept ==
  /\ \A j, k \in DOMAIN dirs : j # k => dirs[j] \cap dirs[k] = {}
  /\ \A w \in wrote : w[2] \/ spoiled \/ w[1] \in log \cup UNION {dirs[k] : k \in DOMAIN dirs}
  /\ \A k \in DOMAIN dirs : Verdict(dirs[k]) = "crash" =>
       \A r \in dirs[k] : r.phase = "close_session" =>
         \/ \E j \in 1 .. k - 1 : \E o \in Sess(dirs[j]) : o.login = r.login
         \/ \E w \in wrote : w[1].phase = "open_session" /\ w[1].login = r.login /\ (w[2] \/ spoiled)
=============================================================================
