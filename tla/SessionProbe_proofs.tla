-------------------------- MODULE SessionProbe_proofs --------------------------
(***************************************************************************)
(* What holds of SessionProbe for any logins, session numbers, polls and   *)
(* collects: what a pass of report.py means, that it reports no gap that   *)
(* was none, and where rows can be lost.                                   *)
(***************************************************************************)
EXTENDS SessionProbe, SequenceTheorems, TLAPS

-----------------------------------------------------------------------------
(* The inductive invariant *)

\* A login whose number may be given out again, which it can be for good.
Over(l) == Released(l) /\ scope[l] # "up"

Opening(l) == phase[l] = "open_session"

\* The functions, as far as the steps below need them.
Types ==
  /\ at \in [Login -> {"idle", "reply", "proc", "scope", "poll", "emit", "session", "done"}]
  /\ phase \in [Login -> {"open_session", "close_session"}]
  /\ scope_id = [l \in Login |-> scope_id[l]]
  /\ present_t0 = [l \in Login |-> present_t0[l]]
  /\ polls \in [Login -> Nat]
  /\ sid = [l \in Login |-> sid[l]]
  /\ scope \in [Login -> {"none", "up", "down"}]
  /\ moved = [l \in Login |-> moved[l]]

\* A login gets one number, before anything else, and is moved only into a scope
\* that is there and stays as long as it is in it.
Stages ==
  \A l \in Login :
    /\ at[l] \in {"idle", "reply", "poll", "session"} => Opening(l)
    /\ at[l] = "idle" => sid[l] = NoSid
    /\ sid[l] = NoSid => scope[l] = "none"
    /\ moved[l] => scope[l] = "up"

\* logind gives a number to nobody while another one uses it.
Numbers ==
  \A l, m \in Login : l # m /\ sid[l] = sid[m] /\ sid[l] # NoSid => Over(l) \/ Over(m)

\* What wp_record has found out while its session opens.
Found ==
  \A l \in Login : Opening(l) =>
    /\ at[l] \in {"idle", "reply", "proc", "scope"} => polls[l] = 0
    /\ at[l] \in {"poll", "emit"} => scope_id[l] \in {l, NoScope}
    /\ at[l] = "poll" => ~present_t0[l]
    /\ at[l] = "emit" /\ present_t0[l] => scope_id[l] = l /\ polls[l] = 0
    /\ waits /\ sid[l] # NoSid =>
         /\ at[l] \in {"proc", "scope"} => moved[l]
         /\ at[l] # "poll"
         /\ at[l] = "emit" => present_t0[l]

Written == {w[1] : w \in wrote}

\* The rows of a login come in their order, one of each phase, and say what is so.
Opened(l) == \E r \in Written : r.phase = "open_session" /\ r.login = l
Rows ==
  /\ \A r \in Written :
       /\ r.login \in Login
       /\ r.phase \in {"acct_mgmt", "open_session", "close_session"}
       /\ r.phase = "open_session" =>
            /\ at[r.login] \in {"session", "done"} \/ ~Opening(r.login)
            /\ r.xdg_session_id = sid[r.login]
            /\ r.scope_cgid \in {r.login, NoScope}
            /\ r.present_t0 => r.scope_cgid = r.login /\ polls[r.login] = 0
            /\ waits /\ r.xdg_session_id # NoSid => r.present_t0
       /\ r.phase = "close_session" => at[r.login] = "done"
  /\ \A r, q \in Written : r.phase = "open_session" /\ q.phase = "open_session"
                             /\ r.login = q.login => r = q
  /\ \A l \in Login : at[l] = "session" \/ ~Opening(l) => Opened(l)

\* Where a row is.  Lost(l): the row of the opening of l may be nowhere.
Lost(l) == \E w \in wrote : /\ w[1].phase = "open_session" /\ w[1].login = l
                            /\ w[2] \/ spoiled
Kept(r) == \E k \in DOMAIN dirs : r \in dirs[k]
Places ==
  /\ collect \in {"idle", "copied"}
  /\ \E S : dirs \in Seq(S)
  /\ log \subseteq Written
  /\ \A k \in DOMAIN dirs : dirs[k] \subseteq Written
  /\ \A j, k \in DOMAIN dirs : j # k => dirs[j] \cap dirs[k] = {}
  /\ collect = "idle" => \A r \in log : ~Kept(r)
  /\ \A w \in wrote : w[2] \/ spoiled \/ w[1] \in log \/ Kept(w[1])
  /\ collect = "copied" => \A w \in wrote : w[2] \/ spoiled \/ Kept(w[1])
  /\ \A r \in log : r.phase = "close_session" =>
       \/ Lost(r.login)
       \/ \E o \in log : o.phase = "open_session" /\ o.login = r.login
       \/ \E k \in DOMAIN dirs : \E o \in Sess(dirs[k]) : o.login = r.login
  /\ \A k \in DOMAIN dirs : \A r \in dirs[k] : r.phase = "close_session" =>
       \/ Lost(r.login)
       \/ \E j \in 1..k : \E o \in Sess(dirs[j]) : o.login = r.login

Process == Types /\ Stages /\ Numbers /\ Found
IInv == Process /\ Rows /\ Places

USE NameAssumption, NumberAssumption

-----------------------------------------------------------------------------
(* stat() finds the own scope or none *)

\* While the session of a login opens, only its own scope has its number.
LEMMA OwnScope ==
  ASSUME Process, NEW l \in Login, Opening(l), at[l] # "done"
  PROVE  wp_cgid(l) = IF sid[l] # NoSid /\ scope[l] = "up" THEN l ELSE NoScope
  <1> DEFINE there == {m \in Login : sid[l] # NoSid /\ sid[m] = sid[l] /\ scope[m] = "up"}
  <1>1. ~Released(l)
    BY DEF Released, Opening
  <1>2. \A m \in there : m = l
    BY <1>1 DEF Process, Numbers, Over
  <1>3. wp_cgid(l) = IF there = {} THEN NoScope ELSE CHOOSE m \in there : TRUE
    BY DEF wp_cgid
  <1>4. CASE sid[l] # NoSid /\ scope[l] = "up"
    <2>1. there = {l}
      BY <1>2, <1>4
    <2> QED
      BY <1>3, <1>4, <2>1
  <1>5. CASE ~(sid[l] # NoSid /\ scope[l] = "up")
    <2>1. there = {}
      BY <1>2, <1>5
    <2> QED
      BY <1>3, <1>5, <2>1
  <1> QED
    BY <1>4, <1>5

-----------------------------------------------------------------------------
(* Every step keeps what is known of the processes *)

LEMMA InitProcess == Init => Process
  <1> SUFFICES ASSUME Init PROVE Process
    OBVIOUS
  <1>1. Types
    BY DEF Init, Types
  <1>2. Stages /\ Numbers
    BY DEF Init, Stages, Numbers, Opening
  <1>3. Found
    BY DEF Init, Found
  <1> QED
    BY <1>1, <1>2, <1>3 DEF Process

\* A step that lets nothing begin and no scope come up leaves the numbers apart.
LEMMA NumbersKept ==
  ASSUME Numbers, UNCHANGED sid,
         \A l \in Login : Over(l) => Over(l)'
  PROVE  Numbers'
  BY DEF Numbers

LEMMA CreateKeeps == ASSUME Process, NEW l \in Login, CreateSession(l) PROVE Process'
  <1> USE DEF Process
  <1>1. /\ at[l] = "idle" /\ Opening(l) /\ sid[l] = NoSid /\ scope[l] = "none"
        /\ UNCHANGED <<phase, scope_id, present_t0, polls, scope, moved, waits>>
    BY DEF CreateSession, Stages, locals
  <1>2. \/ \E s \in FreeSid : sid' = [sid EXCEPT ![l] = s] /\ at' = [at EXCEPT ![l] = "reply"]
        \/ sid' = sid /\ at' = [at EXCEPT ![l] = "proc"]
    BY DEF CreateSession
  <1>3. /\ at'[l] \in {"reply", "proc"} /\ (sid'[l] \in FreeSid \/ sid'[l] = NoSid)
        /\ at'[l] = "proc" => sid'[l] = NoSid
        /\ \A m \in Login : m # l => at'[m] = at[m] /\ sid'[m] = sid[m]
    BY <1>1, <1>2 DEF Types
  <1>4. Types'
    BY <1>1, <1>2 DEF Types
  <1>5. Stages'
    BY <1>1, <1>3 DEF Stages, Opening
  <1>6. \A m \in Login : m # l => (Released(m) => Released(m)')
    BY <1>1, <1>3 DEF Released
  <1>7. Numbers'
    <2>1. \A m \in Login : m # l /\ sid'[m] = sid'[l] /\ sid'[l] # NoSid => Over(m)'
      BY <1>1, <1>3, <1>6 DEF FreeSid, Over
    <2>2. \A m, n \in Login : m # l /\ n # l /\ m # n /\ sid'[m] = sid'[n] /\ sid'[m] # NoSid
            => Over(m)' \/ Over(n)'
      BY <1>1, <1>3, <1>6 DEF Numbers, Over
    <2> QED
      BY <2>1, <2>2 DEF Numbers
  <1>8. Found'
    BY <1>1, <1>3 DEF Found, Opening
  <1> QED
    BY <1>4, <1>5, <1>7, <1>8

\* The scope comes and goes, the process is moved.
LEMMA ScopeUpKeeps == ASSUME Process, NEW l \in Login, ScopeUp(l) PROVE Process'
  <1> USE DEF Process
  <1>1. /\ sid[l] # NoSid /\ scope[l] = "none" /\ ~Released(l)
        /\ scope' = [scope EXCEPT ![l] = "up"]
        /\ UNCHANGED <<at, phase, scope_id, present_t0, polls, sid, moved, waits>>
    BY DEF ScopeUp, locals
  <1>2. scope'[l] = "up" /\ \A m \in Login : m # l => scope'[m] = scope[m]
    BY <1>1 DEF Types
  <1>3. Types'
    BY <1>1 DEF Types
  <1>4. Stages'
    BY <1>1, <1>2 DEF Stages, Opening
  <1>5. \A m \in Login : Over(m) => Over(m)'
    BY <1>1, <1>2 DEF Over, Released
  <1>6. Numbers'
    BY <1>1, <1>5, NumbersKept
  <1>7. Found'
    BY <1>1 DEF Found, Opening
  <1> QED
    BY <1>3, <1>4, <1>6, <1>7

LEMMA ScopeDownKeeps == ASSUME Process, NEW l \in Login, ScopeDown(l) PROVE Process'
  <1> USE DEF Process
  <1>1. /\ scope[l] = "up" /\ Released(l) /\ ~moved[l]
        /\ scope' = [scope EXCEPT ![l] = "down"]
        /\ UNCHANGED <<at, phase, scope_id, present_t0, polls, sid, moved, waits>>
    BY DEF ScopeDown, locals
  <1>2. scope'[l] = "down" /\ \A m \in Login : m # l => scope'[m] = scope[m]
    BY <1>1 DEF Types
  <1>3. Types'
    BY <1>1 DEF Types
  <1>4. Stages'
    BY <1>1, <1>2 DEF Stages, Opening
  <1>5. \A m \in Login : Over(m) => Over(m)'
    BY <1>1, <1>2 DEF Over, Released
  <1>6. Numbers'
    BY <1>1, <1>5, NumbersKept
  <1>7. Found'
    BY <1>1 DEF Found, Opening
  <1> QED
    BY <1>3, <1>4, <1>6, <1>7

LEMMA MoveKeeps == ASSUME Process, NEW l \in Login, Move(l) PROVE Process'
  <1> USE DEF Process
  <1>1. /\ scope[l] = "up"
        /\ moved' = [moved EXCEPT ![l] = TRUE]
        /\ UNCHANGED <<at, phase, scope_id, present_t0, polls, sid, scope, waits>>
    BY DEF Move, locals
  <1>2. moved'[l]
    BY <1>1 DEF Types
  <1>3. \A m \in Login : m # l => moved'[m] = moved[m]
    BY <1>1 DEF Types
  <1>4. Types'
    BY <1>1 DEF Types
  <1>5. Stages'
    BY <1>1, <1>3 DEF Stages, Opening
  <1>6. \A m \in Login : Over(m) => Over(m)'
    BY <1>1 DEF Over, Released
  <1>7. Numbers'
    BY <1>1, <1>6, NumbersKept
  <1>8. Found'
    BY <1>1, <1>2, <1>3 DEF Found, Opening
  <1> QED
    BY <1>4, <1>5, <1>7, <1>8

LEMMA ReplyKeeps == ASSUME Process, NEW l \in Login, Reply(l) PROVE Process'
  <1> USE DEF Process
  <1>1. /\ at[l] = "reply" /\ (waits => moved[l])
        /\ at' = [at EXCEPT ![l] = "proc"]
        /\ UNCHANGED <<phase, scope_id, present_t0, polls, sid, scope, moved, waits>>
    BY DEF Reply, locals, logind
  <1>2. at'[l] = "proc" /\ \A m \in Login : m # l => at'[m] = at[m]
    BY <1>1 DEF Types
  <1>3. Types'
    BY <1>1 DEF Types
  <1>4. Stages'
    BY <1>1, <1>2 DEF Stages, Opening
  <1>5. \A m \in Login : Over(m) => Over(m)'
    BY <1>1, <1>2 DEF Over, Released
  <1>6. Numbers'
    BY <1>1, <1>5, NumbersKept
  <1>7. Found'
    BY <1>1, <1>2 DEF Found, Opening
  <1> QED
    BY <1>3, <1>4, <1>6, <1>7

LEMMA ReadProcKeeps == ASSUME Process, NEW l \in Login, ReadProc(l) PROVE Process'
  <1> USE DEF Process
  <1>1. /\ at[l] = "proc" /\ at' = [at EXCEPT ![l] = "scope"]
        /\ UNCHANGED <<phase, scope_id, present_t0, polls, sid, scope, moved, waits>>
    BY DEF ReadProc, logind
  <1>2. at'[l] = "scope" /\ \A m \in Login : m # l => at'[m] = at[m]
    BY <1>1 DEF Types
  <1>3. Types'
    BY <1>1 DEF Types
  <1>4. Stages'
    BY <1>1, <1>2 DEF Stages, Opening
  <1>5. \A m \in Login : Over(m) => Over(m)'
    BY <1>1, <1>2 DEF Over, Released
  <1>6. Numbers'
    BY <1>1, <1>5, NumbersKept
  <1>7. Found'
    BY <1>1, <1>2 DEF Found, Opening
  <1> QED
    BY <1>3, <1>4, <1>6, <1>7

LEMMA StatKeeps == ASSUME Process, NEW l \in Login, Stat(l) PROVE Process'
  <1> USE DEF Process
  <1> DEFINE id == wp_cgid(l)
  <1>1. /\ at[l] = "scope"
        /\ scope_id' = [scope_id EXCEPT ![l] = id]
        /\ at' = [at EXCEPT ![l] = IF id = NoScope /\ MayPoll(l) THEN "poll" ELSE "emit"]
        /\ UNCHANGED <<phase, polls, sid, scope, moved, waits>>
    BY DEF Stat, logind
  <1>2. present_t0' = [present_t0 EXCEPT ![l] = id # NoScope]
    BY DEF Stat
  <1>3. at'[l] \in {"poll", "emit"} /\ (at'[l] = "poll" => Opening(l) /\ sid[l] # NoSid)
    BY <1>1 DEF Types, MayPoll, Opening
  <1>4. scope_id'[l] = id /\ (at'[l] = "poll" => id = NoScope)
    BY <1>1 DEF Types
  <1>5. \A m \in Login : m # l => at'[m] = at[m] /\ scope_id'[m] = scope_id[m]
    BY <1>1 DEF Types
  <1>6. present_t0'[l] <=> id # NoScope
    BY <1>2 DEF Types
  <1>7. \A m \in Login : m # l => present_t0'[m] = present_t0[m]
    BY <1>2 DEF Types
  <1>8. Types'
    <2>1. /\ scope_id' = [m \in Login |-> scope_id'[m]]
          /\ at' \in [Login -> {"idle", "reply", "proc", "scope", "poll", "emit", "session", "done"}]
      BY <1>1 DEF Types
    <2>2. present_t0' = [m \in Login |-> present_t0'[m]]
      BY <1>2 DEF Types
    <2> QED
      BY <1>1, <2>1, <2>2 DEF Types
  <1>9. Opening(l) => id = IF sid[l] # NoSid /\ scope[l] = "up" THEN l ELSE NoScope
    BY <1>1, OwnScope
  <1> HIDE DEF id
  <1>10. Stages'
    BY <1>1, <1>3, <1>5 DEF Stages, Opening
  <1>11. \A m \in Login : Over(m) => Over(m)'
    BY <1>1, <1>3, <1>5 DEF Over, Released
  <1>12. Numbers'
    BY <1>1, <1>11, NumbersKept
  <1>13. Opening(l) /\ waits /\ sid[l] # NoSid => id = l
    BY <1>1, <1>9 DEF Found, Stages
  <1>14. Found'
    <2> SUFFICES ASSUME NEW m \in Login, Opening(m)'
                 PROVE  /\ at'[m] \in {"idle", "reply", "proc", "scope"} => polls'[m] = 0
                        /\ at'[m] \in {"poll", "emit"} => scope_id'[m] \in {m, NoScope}
                        /\ at'[m] = "poll" => ~present_t0'[m]
                        /\ at'[m] = "emit" /\ present_t0'[m] => scope_id'[m] = m /\ polls'[m] = 0
                        /\ waits' /\ sid'[m] # NoSid =>
                             /\ at'[m] \in {"proc", "scope"} => moved'[m]
                             /\ at'[m] # "poll"
                             /\ at'[m] = "emit" => present_t0'[m]
      BY DEF Found
    <2>1. Opening(m)
      BY <1>1 DEF Opening
    <2>2. CASE m # l
      BY <1>1, <1>5, <1>7, <2>1, <2>2 DEF Found
    <2>3. CASE m = l
      <3>1. polls[l] = 0
        BY <1>1, <2>1, <2>3 DEF Found
      <3>2. id \in {l, NoScope} /\ l # NoScope
        BY <1>9, <2>1, <2>3
      <3> QED
        BY <1>1, <1>3, <1>4, <1>6, <1>13, <2>1, <2>3, <3>1, <3>2
    <2> QED
      BY <2>2, <2>3
  <1> QED
    BY <1>8, <1>10, <1>12, <1>14

LEMMA PollKeeps == ASSUME Process, NEW l \in Login, Poll(l) PROVE Process'
  <1> USE DEF Process
  <1>1. /\ at[l] = "poll"
        /\ UNCHANGED <<phase, present_t0, sid, scope, moved, waits>>
    BY DEF Poll, logind
  <1>2. Opening(l)
    BY <1>1 DEF Stages
  <1>3. wp_cgid(l) \in {l, NoScope}
    BY <1>1, <1>2, OwnScope
  <1>4. \/ /\ scope_id' = [scope_id EXCEPT ![l] = wp_cgid(l)]
           /\ polls' = [polls EXCEPT ![l] = @ + 1] /\ at' = at
        \/ at' = [at EXCEPT ![l] = "emit"] /\ scope_id' = scope_id /\ polls' = polls
    BY DEF Poll
  <1>5. /\ at'[l] \in {"poll", "emit"} /\ scope_id'[l] \in {l, NoScope}
        /\ \A m \in Login : m # l => /\ at'[m] = at[m] /\ scope_id'[m] = scope_id[m]
                                     /\ polls'[m] = polls[m]
    BY <1>1, <1>2, <1>3, <1>4 DEF Types, Found
  <1>6. Types'
    BY <1>1, <1>4 DEF Types
  <1>7. Stages'
    BY <1>1, <1>2, <1>5 DEF Stages, Opening
  <1>8. \A m \in Login : Over(m) => Over(m)'
    BY <1>1, <1>2, <1>5 DEF Over, Released, Opening
  <1>9. Numbers'
    BY <1>1, <1>8, NumbersKept
  <1>10. Found'
    BY <1>1, <1>2, <1>5 DEF Found, Opening
  <1> QED
    BY <1>6, <1>7, <1>9, <1>10

LEMMA EmitKeeps == ASSUME Process, NEW l \in Login, Emit(l) PROVE Process'
  <1> USE DEF Process
  <1>1. /\ at[l] = "emit"
        /\ at' = [at EXCEPT ![l] = IF Opening(l) THEN "session" ELSE "done"]
        /\ scope_id' = [scope_id EXCEPT ![l] = NoScope]
        /\ UNCHANGED <<phase, polls, sid, scope, waits>>
    BY DEF Emit, Opening
  <1>2. /\ moved' = [moved EXCEPT ![l] = @ /\ phase[l] = "open_session"]
        /\ present_t0' = [present_t0 EXCEPT ![l] = FALSE]
    BY DEF Emit
  <1>3. /\ at'[l] \in {"session", "done"} /\ (at'[l] = "session" => Opening(l))
        /\ \A m \in Login : m # l => at'[m] = at[m] /\ scope_id'[m] = scope_id[m]
    BY <1>1 DEF Types
  <1>4. moved'[l] => moved[l]
    BY <1>2 DEF Types
  <1>5. \A m \in Login : m # l => moved'[m] = moved[m]
    BY <1>2 DEF Types
  <1>6. \A m \in Login : m # l => present_t0'[m] = present_t0[m]
    BY <1>2 DEF Types
  <1>7. Types'
    <2>1. moved' = [m \in Login |-> moved'[m]] /\ present_t0' = [m \in Login |-> present_t0'[m]]
      BY <1>2 DEF Types
    <2> QED
      BY <1>1, <2>1 DEF Types
  <1>8. Stages'
    BY <1>1, <1>3, <1>4, <1>5 DEF Stages, Opening
  <1>9. \A m \in Login : Over(m) => Over(m)'
    BY <1>1, <1>3 DEF Over, Released
  <1>10. Numbers'
    BY <1>1, <1>9, NumbersKept
  <1>11. Found'
    BY <1>1, <1>3, <1>5, <1>6 DEF Found, Opening
  <1> QED
    BY <1>7, <1>8, <1>10, <1>11

LEMMA LogoutKeeps == ASSUME Process, NEW l \in Login, Logout(l) PROVE Process'
  <1> USE DEF Process
  <1>1. /\ at[l] = "session"
        /\ UNCHANGED <<scope_id, present_t0, polls, sid, scope, waits>>
        /\ \/ at' = [at EXCEPT ![l] = "done"] /\ phase' = phase
           \/ at' = [at EXCEPT ![l] = "proc"] /\ phase' = [phase EXCEPT ![l] = "close_session"]
    BY DEF Logout
  <1>2. moved' = moved \/ moved' = [moved EXCEPT ![l] = FALSE]
    BY DEF Logout
  <1>3. /\ at'[l] \in {"proc", "done"} /\ (at'[l] = "proc" => phase'[l] = "close_session")
        /\ \A m \in Login : m # l => at'[m] = at[m] /\ phase'[m] = phase[m]
    BY <1>1 DEF Types
  <1>4. moved'[l] => moved[l]
    BY <1>2 DEF Types
  <1>5. \A m \in Login : m # l => moved'[m] = moved[m]
    BY <1>2 DEF Types
  <1>6. Types'
    <2>1. moved' = [m \in Login |-> moved'[m]]
      BY <1>2 DEF Types
    <2> QED
      BY <1>1, <2>1 DEF Types
  <1>7. Stages'
    BY <1>1, <1>3, <1>4, <1>5 DEF Stages, Opening
  <1>8. \A m \in Login : Over(m) => Over(m)'
    BY <1>1, <1>3 DEF Over, Released
  <1>9. Numbers'
    BY <1>1, <1>8, NumbersKept
  <1>10. Found'
    BY <1>1, <1>3, <1>5 DEF Found, Opening
  <1> QED
    BY <1>6, <1>7, <1>9, <1>10

LEMMA ProcessStep == ASSUME Process, [Next]_vars PROVE Process'
  <1>1. CASE \E l \in Login : CreateSession(l) \/ ScopeUp(l) \/ Move(l) \/ Reply(l) \/ ScopeDown(l)
                                \/ Probe(l) \/ Logout(l)
    BY <1>1, CreateKeeps, ScopeUpKeeps, MoveKeeps, ReplyKeeps, ScopeDownKeeps, ReadProcKeeps,
       StatKeeps, PollKeeps, EmitKeeps, LogoutKeeps DEF Probe
  <1>2. CASE (\E l \in Login : Acct(l)) \/ Copy \/ CopyFails \/ Empty \/ UNCHANGED vars
    <2>1. UNCHANGED <<at, phase, scope_id, present_t0, polls, sid, scope, moved, waits>>
      BY <1>2 DEF Acct, Copy, CopyFails, Empty, vars, locals, logind
    <2>2. Types' /\ Stages' /\ Numbers' /\ Found'
      BY <2>1 DEF Process, Types, Stages, Numbers, Over, Released, Found, Opening
    <2> QED
      BY <2>2 DEF Process
  <1> QED
    BY <1>1, <1>2 DEF Next

-----------------------------------------------------------------------------
(* Every step keeps what is known of the rows *)

LEMMA WrittenGrows ==
  ASSUME NEW row, wp_emit(row)
  PROVE  Written' = Written \cup {row}
  <1> DEFINE during == collect = "copied"
  <1>1. wrote' = wrote \cup {<<row, during>>}
    BY DEF wp_emit
  <1>2. <<row, during>>[1] = row
    OBVIOUS
  <1> HIDE DEF during
  <1>3. ASSUME NEW r PROVE r \in Written' <=> r \in Written \cup {row}
    BY <1>1, <1>2 DEF Written
  <1> QED
    BY <1>3

\* What RowOf makes of a login.
LEMMA RowFields ==
  ASSUME NEW l \in Login, NEW ph
  PROVE  LET r == RowOf(l, ph)
         IN  /\ r.login = l /\ r.phase = ph /\ r.xdg_session_id = sid[l]
             /\ r.scope_cgid = scope_id[l] /\ r.present_t0 = present_t0[l]
  BY DEF RowOf

\* Rows stay true in a step that writes none, does not take a login back and
\* does not change what they are about.
LEMMA RowsStay ==
  ASSUME Process, Rows, Written' = Written, UNCHANGED waits,
         \A l \in Login :
           /\ at[l] = "done" => at'[l] = "done"
           /\ at[l] = "session" \/ ~Opening(l) => at'[l] \in {"session", "done"} \/ ~Opening(l)'
           /\ at'[l] = "session" \/ ~Opening(l)' => at[l] = "session" \/ ~Opening(l)
           /\ at[l] \in {"session", "done"} \/ ~Opening(l) => sid'[l] = sid[l] /\ polls'[l] = polls[l]
  PROVE  Rows'
  <1>1. \A l \in Login : Opened(l)' <=> Opened(l)
    BY DEF Opened
  <1>2. ASSUME NEW r \in Written, r.phase = "open_session"
        PROVE  /\ at'[r.login] \in {"session", "done"} \/ ~Opening(r.login)'
               /\ sid'[r.login] = sid[r.login] /\ polls'[r.login] = polls[r.login]
    BY <1>2 DEF Rows
  <1> QED
    BY <1>1, <1>2 DEF Rows

LEMMA InitRows == Init => Rows
  <1> SUFFICES ASSUME Init PROVE Rows
    OBVIOUS
  <1>1. Written = {}
    BY DEF Init, Written
  <1>2. \A l \in Login : at[l] # "session" /\ Opening(l)
    BY DEF Init, Opening
  <1> QED
    BY <1>1, <1>2 DEF Rows

\* pam_sm_acct_mgmt
LEMMA AcctRows == ASSUME Process, Rows, NEW l \in Login, Acct(l) PROVE Rows'
  <1> DEFINE row == RowOf(l, "acct_mgmt")
  <1>1. /\ Written' = Written \cup {row}
        /\ UNCHANGED <<at, phase, polls, sid, waits>>
    BY WrittenGrows DEF Acct, locals, logind
  <1>2. row.login = l /\ row.phase = "acct_mgmt"
    BY RowFields
  <1> HIDE DEF row
  <1>3. \A m \in Login : Opened(m)' <=> Opened(m)
    BY <1>1, <1>2 DEF Opened
  <1> QED
    BY <1>1, <1>2, <1>3 DEF Rows, Opening

LEMMA EmitRows == ASSUME Process, Rows, NEW l \in Login, Emit(l) PROVE Rows'
  <1> DEFINE row == RowOf(l, phase[l])
  <1>1. /\ at[l] = "emit" /\ Written' = Written \cup {row}
        /\ UNCHANGED <<phase, polls, sid, waits>>
        /\ at' = [at EXCEPT ![l] = IF phase[l] = "open_session" THEN "session" ELSE "done"]
    BY WrittenGrows DEF Emit
  <1>2. /\ row.login = l /\ row.phase = phase[l] /\ row.xdg_session_id = sid[l]
        /\ row.scope_cgid = scope_id[l] /\ row.present_t0 = present_t0[l]
    BY RowFields
  <1> HIDE DEF row
  <1>3. /\ at'[l] = IF Opening(l) THEN "session" ELSE "done"
        /\ \A m \in Login : m # l => at'[m] = at[m]
    BY <1>1 DEF Process, Types, Opening
  <1>4. \A r \in Written : r.login = l =>
          r.phase # "close_session" /\ (r.phase = "open_session" => ~Opening(l))
    BY <1>1 DEF Rows
  <1>5. /\ row.phase \in {"open_session", "close_session"}
        /\ row.phase = "open_session" =>
             /\ Opening(l)
             /\ row.scope_cgid \in {l, NoScope}
             /\ row.present_t0 => row.scope_cgid = l /\ polls[l] = 0
             /\ waits /\ row.xdg_session_id # NoSid => row.present_t0
    BY <1>1, <1>2 DEF Process, Types, Found, Opening
  <1>6. ASSUME NEW r \in Written'
        PROVE  /\ r.login \in Login
               /\ r.phase \in {"acct_mgmt", "open_session", "close_session"}
               /\ r.phase = "open_session" =>
                    /\ at'[r.login] \in {"session", "done"} \/ ~Opening(r.login)'
                    /\ r.xdg_session_id = sid'[r.login]
                    /\ r.scope_cgid \in {r.login, NoScope}
                    /\ r.present_t0 => r.scope_cgid = r.login /\ polls'[r.login] = 0
                    /\ waits' /\ r.xdg_session_id # NoSid => r.present_t0
               /\ r.phase = "close_session" => at'[r.login] = "done"
    <2>1. CASE r = row
      BY <1>1, <1>2, <1>3, <1>5, <2>1 DEF Opening
    <2>2. CASE r \in Written
      <3>1. r.login = l => r.phase # "close_session" /\ (r.phase = "open_session" => ~Opening(l))
        BY <1>4, <2>2
      <3> QED
        BY <1>1, <1>3, <2>2, <3>1 DEF Rows, Opening
    <2> QED
      BY <1>1, <1>6, <2>1, <2>2
  <1>7. \A r, q \in Written' : r.phase = "open_session" /\ q.phase = "open_session"
                                 /\ r.login = q.login => r = q
    BY <1>1, <1>2, <1>4, <1>5 DEF Rows
  <1>8. \A m \in Login : at'[m] = "session" \/ ~Opening(m)' => Opened(m)'
    <2> SUFFICES ASSUME NEW m \in Login, at'[m] = "session" \/ ~Opening(m)' PROVE Opened(m)'
      OBVIOUS
    <2>1. Opened(m) => Opened(m)'
      BY <1>1 DEF Opened
    <2>2. CASE m = l /\ Opening(l)
      BY <1>1, <1>2, <2>2 DEF Opened, Opening
    <2>3. CASE ~(m = l /\ Opening(l))
      BY <1>1, <1>3, <2>1, <2>3 DEF Rows, Opening
    <2> QED
      BY <2>2, <2>3
  <1> QED
    BY <1>6, <1>7, <1>8 DEF Rows

LEMMA OtherRows ==
  ASSUME Process, Rows, NEW l \in Login,
         \/ CreateSession(l) \/ ScopeUp(l) \/ Move(l) \/ Reply(l) \/ ScopeDown(l)
         \/ ReadProc(l) \/ Stat(l) \/ Poll(l) \/ Logout(l)
  PROVE  Rows'
  <1> USE DEF Process
  <1>1. UNCHANGED <<wrote, waits>>
    BY DEF CreateSession, ScopeUp, Move, Reply, ScopeDown, ReadProc, Stat, Poll, Logout, files, logind
  <1>2. Written' = Written
    BY <1>1 DEF Written
  <1>3. CASE CreateSession(l)
    <2>1. /\ at[l] = "idle" /\ Opening(l) /\ at'[l] \in {"reply", "proc"}
          /\ phase' = phase /\ polls' = polls
          /\ \A m \in Login : m # l => at'[m] = at[m] /\ sid'[m] = sid[m]
      BY <1>3 DEF CreateSession, locals, Types, Stages
    <2> QED
      BY <1>1, <1>2, <2>1, RowsStay DEF Opening
  <1>4. CASE ScopeUp(l) \/ Move(l) \/ ScopeDown(l)
    <2>1. UNCHANGED <<at, phase, polls, sid>>
      BY <1>4 DEF ScopeUp, Move, ScopeDown, locals
    <2> QED
      BY <1>1, <1>2, <2>1, RowsStay DEF Opening
  <1>5. CASE Reply(l) \/ ReadProc(l) \/ Stat(l)
    <2>1. /\ at[l] \in {"reply", "proc", "scope"} /\ at'[l] \in {"proc", "scope", "poll", "emit"}
          /\ UNCHANGED <<phase, polls, sid>>
          /\ \A m \in Login : m # l => at'[m] = at[m]
      BY <1>5 DEF Reply, ReadProc, Stat, locals, logind, Types
    <2> QED
      BY <1>1, <1>2, <2>1, RowsStay DEF Opening
  <1>6. CASE Poll(l)
    <2>1. /\ at[l] = "poll" /\ Opening(l) /\ at'[l] \in {"poll", "emit"}
          /\ UNCHANGED <<phase, sid>>
          /\ \A m \in Login : m # l => at'[m] = at[m] /\ polls'[m] = polls[m]
      BY <1>6 DEF Poll, logind, Types, Stages
    <2> QED
      BY <1>1, <1>2, <2>1, RowsStay DEF Opening
  <1>7. CASE Logout(l)
    <2>1. /\ at[l] = "session" /\ UNCHANGED <<polls, sid>>
          /\ \/ at'[l] = "done" /\ phase'[l] = phase[l]
             \/ at'[l] = "proc" /\ phase'[l] = "close_session"
          /\ \A m \in Login : m # l => at'[m] = at[m] /\ phase'[m] = phase[m]
      BY <1>7 DEF Logout, Types
    <2> QED
      BY <1>1, <1>2, <2>1, RowsStay DEF Opening
  <1> QED
    BY <1>3, <1>4, <1>5, <1>6, <1>7

LEMMA RowsStep == ASSUME Process, Rows, [Next]_vars PROVE Rows'
  <1>1. CASE \E l \in Login : Acct(l) \/ Emit(l)
    BY <1>1, AcctRows, EmitRows
  <1>2. CASE \E l \in Login : \/ CreateSession(l) \/ ScopeUp(l) \/ Move(l) \/ Reply(l)
                              \/ ScopeDown(l) \/ ReadProc(l) \/ Stat(l) \/ Poll(l) \/ Logout(l)
    BY <1>2, OtherRows
  <1>3. CASE Copy \/ CopyFails \/ Empty \/ UNCHANGED vars
    <2>1. UNCHANGED <<at, phase, polls, sid, waits, wrote>>
      BY <1>3 DEF Copy, CopyFails, Empty, vars, locals, logind, files
    <2>2. Written' = Written
      BY <2>1 DEF Written
    <2> QED
      BY <2>1, <2>2, RowsStay DEF Opening
  <1> QED
    BY <1>1, <1>2, <1>3 DEF Next, Probe

-----------------------------------------------------------------------------
(* Every step keeps what is known of the files *)

\* A new directory is behind the others.
LEMMA NewDir ==
  ASSUME NEW rows, \E S : dirs \in Seq(S), dirs' = Append(dirs, rows)
  PROVE  /\ \E S : dirs' \in Seq(S)
         /\ Len(dirs) \in Nat /\ DOMAIN dirs = 1 .. Len(dirs)
         /\ DOMAIN dirs' = 1 .. Len(dirs) + 1
         /\ \A k \in 1 .. Len(dirs) : dirs'[k] = dirs[k]
         /\ dirs'[Len(dirs) + 1] = rows
  <1>1. PICK S : dirs \in Seq(S)
    OBVIOUS
  <1> DEFINE T == S \cup {rows}
  <1>2. dirs \in [1 .. Len(dirs) -> S] /\ Len(dirs) \in Nat
    BY <1>1, LenProperties
  <1>3. dirs \in Seq(T) /\ rows \in T
    <2>1. dirs \in [1 .. Len(dirs) -> T]
      BY <1>2
    <2> QED
      BY <1>2, <2>1, SeqDef
  <1> HIDE DEF T
  <1>4. Append(dirs, rows) \in Seq(T) /\ Len(Append(dirs, rows)) = Len(dirs) + 1
    BY <1>3, AppendProperties
  <1>5. \A k \in 1 .. Len(dirs) : Append(dirs, rows)[k] = dirs[k]
    BY <1>3, AppendProperties
  <1>6. Append(dirs, rows)[Len(dirs) + 1] = rows
    BY <1>3, AppendProperties
  <1>7. DOMAIN dirs' = 1 .. Len(dirs) + 1
    BY <1>4, LenProperties
  <1> QED
    BY <1>2, <1>4, <1>5, <1>6, <1>7

LEMMA InitPlaces == Init => Places
  <1> SUFFICES ASSUME Init PROVE Places
    OBVIOUS
  <1>1. /\ wrote = {} /\ log = {} /\ dirs = <<>> /\ collect = "idle"
    BY DEF Init
  <1>2. DOMAIN dirs = {}
    BY <1>1
  <1>3. \E S : dirs \in Seq(S)
    <2>1. <<>> \in Seq({})
      BY EmptySeq
    <2> QED
      BY <1>1, <2>1
  <1> QED
    BY <1>1, <1>2, <1>3 DEF Places

\* A row is appended that is in no file yet.
LEMMA EmitPlaces ==
  ASSUME Places, NEW row, wp_emit(row), row \notin Written,
         row.phase = "close_session" => Opened(row.login)
  PROVE  Places'
  <1> DEFINE during == collect = "copied"
             new == <<row, during>>
  <1>1. /\ log' = log \cup {row} /\ wrote' = wrote \cup {new}
        /\ UNCHANGED <<collect, dirs, spoiled>>
    BY DEF wp_emit
  <1>2. new[1] = row
    OBVIOUS
  <1>3. during => new[2]
    OBVIOUS
  <1>4. Written' = Written \cup {row}
    BY WrittenGrows
  <1>5. during <=> collect = "copied"
    OBVIOUS
  <1> HIDE DEF during, new
  <1>6. \A r : Kept(r)' <=> Kept(r)
    BY <1>1 DEF Kept
  <1>7. ~Kept(row)
    BY DEF Places, Kept
  <1>8. \A l : Lost(l) => Lost(l)'
    BY <1>1 DEF Lost
  <1>9. collect' = "idle" => \A r \in log' : ~Kept(r)'
    BY <1>1, <1>6, <1>7 DEF Places
  <1>10. \A w \in wrote' : w[2] \/ spoiled' \/ w[1] \in log' \/ Kept(w[1])'
    BY <1>1, <1>2, <1>6 DEF Places
  <1>11. collect' = "copied" => \A w \in wrote' : w[2] \/ spoiled' \/ Kept(w[1])'
    BY <1>1, <1>3, <1>5, <1>6 DEF Places
  <1>12. ASSUME NEW r \in log', r.phase = "close_session"
         PROVE  \/ Lost(r.login)'
                \/ \E o \in log' : o.phase = "open_session" /\ o.login = r.login
                \/ \E k \in DOMAIN dirs' : \E o \in Sess(dirs'[k]) : o.login = r.login
    <2>1. CASE r \in log
      BY <1>1, <1>8, <1>12, <2>1 DEF Places
    <2>2. CASE r = row
      <3>1. PICK w \in wrote : w[1].phase = "open_session" /\ w[1].login = r.login
        BY <1>12, <2>2 DEF Opened, Written
      <3>2. CASE w[2] \/ spoiled
        <4>1. Lost(r.login)
          BY <3>1, <3>2 DEF Lost
        <4> QED
          BY <1>8, <4>1
      <3>3. CASE w[1] \in log
        BY <1>1, <3>1, <3>3
      <3>4. CASE Kept(w[1])
        BY <1>1, <3>1, <3>4 DEF Kept, Sess
      <3> QED
        BY <3>1, <3>2, <3>3, <3>4 DEF Places
    <2> QED
      BY <1>1, <1>12, <2>1, <2>2
  <1>13. \A k \in DOMAIN dirs' : \A r \in dirs'[k] : r.phase = "close_session" =>
           Lost(r.login)' \/ \E j \in 1..k : \E o \in Sess(dirs'[j]) : o.login = r.login
    BY <1>1, <1>8 DEF Places
  <1>14. \E S : dirs' \in Seq(S)
    BY <1>1 DEF Places
  <1>15. log' \subseteq Written' /\ \A k \in DOMAIN dirs' : dirs'[k] \subseteq Written'
    BY <1>1, <1>4 DEF Places
  <1>16. collect' \in {"idle", "copied"} /\ \A j, k \in DOMAIN dirs' : j # k => dirs'[j] \cap dirs'[k] = {}
    BY <1>1 DEF Places
  <1> QED
    BY <1>9, <1>10, <1>11, <1>12, <1>13, <1>14, <1>15, <1>16 DEF Places, Sess

\* cp to a new directory, whole or not at all.
LEMMA CopyPlaces == ASSUME Places, Copy \/ CopyFails PROVE Places'
  <1>1. PICK rows : /\ dirs' = Append(dirs, rows)
                    /\ \/ rows = log /\ spoiled' = spoiled
                       \/ rows = {} /\ spoiled' = TRUE
    BY DEF Copy, CopyFails
  <1>2. collect = "idle" /\ collect' = "copied" /\ log' = log /\ wrote' = wrote
    BY DEF Copy, CopyFails
  <1> DEFINE n == Len(dirs)
  <1>3. /\ \E S : dirs' \in Seq(S)
        /\ n \in Nat /\ DOMAIN dirs = 1 .. n /\ DOMAIN dirs' = 1 .. n + 1
        /\ \A k \in 1 .. n : dirs'[k] = dirs[k]
        /\ dirs'[n + 1] = rows
    BY <1>1, NewDir DEF Places
  <1> HIDE DEF n
  <1>4. rows \subseteq log /\ (spoiled => spoiled') /\ (spoiled' \/ rows = log)
    BY <1>1
  <1>5. Written' = Written
    BY <1>2 DEF Written
  <1>6. \A r : Kept(r)' <=> Kept(r) \/ r \in rows
    BY <1>3 DEF Kept
  <1>7. \A l : Lost(l) => Lost(l)'
    BY <1>2, <1>4 DEF Lost
  <1>8. log' \subseteq Written' /\ \A k \in DOMAIN dirs' : dirs'[k] \subseteq Written'
    BY <1>2, <1>3, <1>4, <1>5 DEF Places
  <1>9. ASSUME NEW j \in DOMAIN dirs', NEW k \in DOMAIN dirs', j # k
        PROVE  dirs'[j] \cap dirs'[k] = {}
    <2>1. \A m \in 1 .. n : dirs[m] \cap rows = {}
      BY <1>2, <1>3, <1>4 DEF Places, Kept
    <2>2. CASE j \in 1 .. n /\ k \in 1 .. n
      BY <1>3, <1>9, <2>2 DEF Places
    <2>3. CASE j = n + 1 /\ k \in 1 .. n
      BY <1>3, <2>1, <2>3
    <2>4. CASE j \in 1 .. n /\ k = n + 1
      BY <1>3, <2>1, <2>4
    <2> QED
      BY <1>3, <1>9, <2>2, <2>3, <2>4
  <1>10. \A w \in wrote' : w[2] \/ spoiled' \/ Kept(w[1])'
    BY <1>2, <1>4, <1>6 DEF Places
  <1>11. ASSUME NEW r \in log, r.phase = "close_session"
         PROVE  Lost(r.login)' \/ \E j \in DOMAIN dirs' : \E o \in Sess(dirs'[j]) : o.login = r.login
    <2>1. CASE Lost(r.login)
      BY <1>7, <2>1
    <2>2. CASE \E o \in log : o.phase = "open_session" /\ o.login = r.login
      <3>1. PICK o \in log : o.phase = "open_session" /\ o.login = r.login
        BY <2>2
      <3>2. CASE spoiled'
        <4>1. PICK w \in wrote : w[1] = o
          BY <3>1 DEF Places, Written
        <4> QED
          BY <1>2, <3>1, <3>2, <4>1 DEF Lost
      <3>3. CASE rows = log
        BY <1>3, <3>1, <3>3 DEF Sess
      <3> QED
        BY <1>4, <3>2, <3>3
    <2>3. CASE \E k \in DOMAIN dirs : \E o \in Sess(dirs[k]) : o.login = r.login
      BY <1>3, <2>3
    <2> QED
      BY <1>11, <2>1, <2>2, <2>3 DEF Places
  <1>12. ASSUME NEW k \in DOMAIN dirs', NEW r \in dirs'[k], r.phase = "close_session"
         PROVE  Lost(r.login)' \/ \E j \in 1..k : \E o \in Sess(dirs'[j]) : o.login = r.login
    <2>1. CASE k = n + 1
      <3>1. r \in log
        BY <1>3, <1>4, <2>1
      <3> QED
        BY <1>3, <1>11, <1>12, <2>1, <3>1
    <2>2. CASE k \in 1 .. n
      <3>1. Lost(r.login) \/ \E j \in 1..k : \E o \in Sess(dirs[j]) : o.login = r.login
        BY <1>3, <1>12, <2>2 DEF Places
      <3>2. \A j \in 1..k : dirs'[j] = dirs[j]
        BY <1>3, <2>2
      <3> QED
        BY <1>7, <3>1, <3>2
    <2> QED
      BY <1>3, <2>1, <2>2
  <1> QED
    BY <1>2, <1>3, <1>8, <1>9, <1>10, <1>11, <1>12 DEF Places, Sess

LEMMA EmptyPlaces == ASSUME Places, Empty PROVE Places'
  <1>1. /\ collect = "copied" /\ collect' = "idle" /\ log' = {}
        /\ UNCHANGED <<wrote, dirs, spoiled>>
    BY DEF Empty
  <1>2. Written' = Written /\ \A r : Kept(r)' <=> Kept(r)
    BY <1>1 DEF Written, Kept
  <1>3. \A l : Lost(l)' <=> Lost(l)
    BY <1>1 DEF Lost
  <1> QED
    BY <1>1, <1>2, <1>3 DEF Places, Sess

LEMMA PlacesStay == ASSUME Places, UNCHANGED files PROVE Places'
  <1>1. UNCHANGED <<log, wrote, collect, dirs, spoiled>>
    BY DEF files
  <1>2. Written' = Written /\ \A r : Kept(r)' <=> Kept(r)
    BY <1>1 DEF Written, Kept
  <1>3. \A l : Lost(l)' <=> Lost(l)
    BY <1>1 DEF Lost
  <1> QED
    BY <1>1, <1>2, <1>3 DEF Places, Sess

LEMMA PlacesStep == ASSUME IInv, [Next]_vars PROVE Places'
  <1> USE DEF IInv
  <1>1. CASE \E l \in Login : Acct(l)
    <2>1. PICK l \in Login : Acct(l)
      BY <1>1
    <2> DEFINE row == RowOf(l, "acct_mgmt")
    <2>2. wp_emit(row) /\ \A w \in wrote : w[1].login # l
      BY <2>1 DEF Acct
    <2>3. row.login = l /\ row.phase = "acct_mgmt"
      BY RowFields
    <2> HIDE DEF row
    <2>4. row \notin Written
      BY <2>2, <2>3 DEF Written
    <2> QED
      BY <2>2, <2>3, <2>4, EmitPlaces
  <1>2. CASE \E l \in Login : Emit(l)
    <2>1. PICK l \in Login : Emit(l)
      BY <1>2
    <2> DEFINE row == RowOf(l, phase[l])
    <2>2. wp_emit(row) /\ at[l] = "emit"
      BY <2>1 DEF Emit
    <2>3. row.login = l /\ row.phase = phase[l]
      BY RowFields
    <2> HIDE DEF row
    <2>4. row \notin Written
      BY <2>2, <2>3 DEF Rows, Opening, Process, Types
    <2>5. row.phase = "close_session" => Opened(row.login)
      BY <2>3 DEF Rows, Opening
    <2> QED
      BY <2>2, <2>4, <2>5, EmitPlaces
  <1>3. CASE \/ \E l \in Login : \/ CreateSession(l) \/ ScopeUp(l) \/ Move(l) \/ Reply(l)
                                 \/ ScopeDown(l) \/ ReadProc(l) \/ Stat(l) \/ Poll(l) \/ Logout(l)
             \/ UNCHANGED vars
    <2>1. UNCHANGED files
      BY <1>3 DEF CreateSession, ScopeUp, Move, Reply, ScopeDown, ReadProc, Stat, Poll, Logout, vars
    <2> QED
      BY <2>1, PlacesStay
  <1>4. CASE Copy \/ CopyFails \/ Empty
    BY <1>4, CopyPlaces, EmptyPlaces
  <1> QED
    BY <1>1, <1>2, <1>3, <1>4 DEF Next, Probe

\* The invariant the rest follows from.
THEOREM InvariantHolds == Spec => []IInv
  <1>1. Init => IInv
    BY InitProcess, InitRows, InitPlaces DEF IInv
  <1>2. IInv /\ [Next]_vars => IInv'
    BY ProcessStep, RowsStep, PlacesStep DEF IInv
  <1> QED
    BY <1>1, <1>2, PTL DEF Spec

-----------------------------------------------------------------------------
(* What follows *)

\* A pass of report.py says that every call it counted found the scope of its own
\* session at once, and a number it calls reused was given to two logins.
THEOREM PassRightAlways == Spec => []PassRight
  <1>1. IInv => PassRight
    <2> SUFFICES ASSUME IInv, NEW k \in DOMAIN dirs
                 PROVE  /\ Verdict(dirs[k]) = "pass" =>
                             \A r \in Usable(dirs[k]) : r.scope_cgid = r.login /\ polls[r.login] = 0
                        /\ \A s \in Reused(dirs[k]) :
                             \E l, m \in Login : l # m /\ sid[l] = s /\ sid[m] = s
      BY DEF PassRight
    <2>1. \A r \in Usable(dirs[k]) : r \in Written /\ r.phase = "open_session"
      BY DEF IInv, Places, Usable, Target, Ssh, Sess
    <2>2. Verdict(dirs[k]) = "pass" => \A r \in Usable(dirs[k]) : r.present_t0
      BY DEF Verdict
    <2>3. ASSUME NEW s \in Reused(dirs[k])
          PROVE  \E l, m \in Login : l # m /\ sid[l] = s /\ sid[m] = s
      <3>1. PICK r \in Usable(dirs[k]), q \in Usable(dirs[k]) :
              r.xdg_session_id = s /\ q.xdg_session_id = s /\ r.scope_cgid # q.scope_cgid
        BY DEF Reused
      <3>2. r.login # q.login
        BY <2>1, <3>1 DEF IInv, Rows
      <3> QED
        BY <2>1, <3>1, <3>2 DEF IInv, Rows
    <2> QED
      BY <2>1, <2>2, <2>3 DEF IInv, Rows
  <1> QED
    BY <1>1, InvariantHolds, PTL

\* With a logind that answers when the scope is there, report.py never reports a
\* gap or an unsteady result.
THEOREM NoFalseGapAlways == Spec => []NoFalseGap
  <1>1. IInv => NoFalseGap
    <2> SUFFICES ASSUME IInv, waits, NEW k \in DOMAIN dirs
                 PROVE  Verdict(dirs[k]) \notin {"late", "never", "unstable"}
      BY DEF NoFalseGap
    <2> DEFINE use == Usable(dirs[k])
    <2>1. \A r \in use : r \in Written /\ r.phase = "open_session"
      BY DEF IInv, Places, Usable, Target, Ssh, Sess
    <2>2. \A r \in use : r.xdg_session_id # NoSid => r.present_t0
      BY <2>1 DEF IInv, Rows
    <2>3. {r \in use : r.xdg_session_id # NoSid} = use => {r \in use : r.present_t0} = use
      BY <2>2
    <2> QED
      BY <2>3 DEF Verdict
  <1> QED
    BY <1>1, InvariantHolds, PTL

\* No row is in two directories, one is lost only between cp and the emptying of
\* the log or with a failed copy, and a directory without an opened session comes
\* of a collect in the middle of one.
THEOREM RowsKeptAlways == Spec => []RowsKept
  <1>1. IInv => RowsKept
    <2> SUFFICES ASSUME IInv PROVE RowsKept
      OBVIOUS
    <2>1. \A j, k \in DOMAIN dirs : j # k => dirs[j] \cap dirs[k] = {}
      BY DEF IInv, Places
    <2>2. \A w \in wrote : w[2] \/ spoiled \/ w[1] \in log \cup UNION {dirs[k] : k \in DOMAIN dirs}
      BY DEF IInv, Places, Kept
    <2>3. ASSUME NEW k \in DOMAIN dirs, Verdict(dirs[k]) = "crash",
                 NEW r \in dirs[k], r.phase = "close_session"
          PROVE  \/ \E j \in 1 .. k - 1 : \E o \in Sess(dirs[j]) : o.login = r.login
                 \/ \E w \in wrote : w[1].phase = "open_session" /\ w[1].login = r.login /\ (w[2] \/ spoiled)
      <3>1. Sess(dirs[k]) = {}
        <4>1. Target(dirs[k]) = {}
          BY <2>3 DEF Verdict
        <4> QED
          BY <4>1 DEF Target, Ssh
      <3>2. Lost(r.login) \/ \E j \in 1..k : \E o \in Sess(dirs[j]) : o.login = r.login
        BY <2>3 DEF IInv, Places
      <3>3. k \in Nat
        <4>1. PICK S : dirs \in Seq(S)
          BY DEF IInv, Places
        <4>2. DOMAIN dirs = 1 .. Len(dirs) /\ Len(dirs) \in Nat
          BY <4>1, LenProperties
        <4> QED
          BY <4>2
      <3>4. \A j \in 1..k : j # k => j \in 1 .. k - 1
        BY <3>3
      <3> QED
        BY <3>1, <3>2, <3>4 DEF Lost
    <2> QED
      BY <2>1, <2>2, <2>3 DEF RowsKept
  <1> QED
    BY <1>1, InvariantHolds, PTL
=============================================================================
