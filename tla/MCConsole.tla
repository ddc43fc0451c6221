------------------------------ MODULE MCConsole ------------------------------
(***************************************************************************)
(* The two logs of the repository, those of some other seeds, and a small  *)
(* log as the API could serve it.  In the latter node a has four warrants  *)
(* (valid, in grace, over, past its grace), node b two sessions without    *)
(* one, so that a node leaves either view empty; there are a record at     *)
(* NOW, one after it, one aggregate, and gaps around the first issue, one  *)
(* with a record of its time.  Of six records one each is found by the     *)
(* number 1310 in the note of an exec, that of a connection, the comm, the *)
(* inode and the arguments.                                                *)
(***************************************************************************)
EXTENDS Console

Rec(seq, min, node, verdict, hook, w, cg, subj, what, nt) ==
    [id |-> <<node, seq>>, seq |-> seq, pid |-> seq, ts |-> min * MIN, node |-> node,
     verdict |-> verdict, hook |-> hook, warrant |-> w, cgroup |-> cg, subject |-> subj,
     what |-> what, note |-> nt, root |-> hook = "write"]

TheEvents ==
    <<Rec(1, -150, "b", "ALLOW", "exec", None, 22, None, "sudo", "1310"),
      Rec(2, -45, "a", "WOULD_DENY", "connect", "W1", 11, "s1", "10.0.0.1", "1310"),
      Rec(3, -30, "a", "ALLOW", "agg", "W1", 11, "s1", "", None),
      Rec(6, -20, "a", "ALLOW", "exec", "W2", 12, "s2", "kill", None),
      Rec(4, 0, "a", "DENY", "write", "W2", 12, "s2", "hosts", None),
      Rec(5, 15, "a", "WOULD_DENY", "exec", "W1", 11, "s1", "deploy.sh", None)>>

War(id, issued, expires, on_expiry) ==
    [id |-> id, node |-> "a", cgroup |-> 10, issued |-> issued * MIN, expires |-> expires * MIN,
     on_expiry |-> on_expiry, mode |-> "enforce"]
Ses(cg, count, last) == [cgroup |-> cg, node |-> "b", count |-> count, last |-> last * MIN]
Gap(node, from, to) == [node |-> node, from |-> from * MIN, to |-> to * MIN]

TheServed ==
    <<[events |-> TheEvents,
       warrants |-> <<War("W1", -150, 15, "kill"), War("W2", -210, -30, "grace"),
                      War("W3", -210, 0, "kill"), War("W4", -330, -150, "grace")>>,
       sessions |-> <<Ses(22, 1, -150), Ses(21, 0, -15)>>,
       gaps |-> {Gap("a", -180, -40), Gap("b", -90, -70)},
       nodes |-> {"a", "b"}]>>

TheComm(e) == IF e.hook = "agg" THEN "1310" ELSE "bash"
TheIno(e) == IF e.hook = "write" THEN "1310" ELSE "7"
TheArgv(e) == IF e.what = "kill" THEN "1310" ELSE ""
Separated(n) == IF n = "1310" THEN "1,310" ELSE n

\* Mock as a LET, which the profiler of TLC (-coverage) takes for a value: it would
\* unfold the generator at every use of a log.
TheImported == LET made == Mock IN made

Ids == {<<"b", 1>>, <<"a", 2>>, <<"a", 5>>,
        <<"stage-app-01", 40736>>}
Periods == {60 * MIN, 360 * MIN}
=============================================================================
