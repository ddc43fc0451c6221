------------------------------ MODULE MockData ------------------------------
(***************************************************************************)
(* The data of the prototype: web/src/data.ts, and its twin                *)
(* web/dashboard/data.js.  Both make a log from a stream of random numbers *)
(* with a fixed seed when the page is loaded; a log is made by appending   *)
(* records to it, and every operator below says how many numbers of the    *)
(* stream it takes, for the next number depends on it.                     *)
(*                                                                         *)
(* Times are milliseconds after NOW.  Of a record's payload only a name    *)
(* (the binary, the path or the address) is kept; arguments, inodes, pids  *)
(* of parents and start times are drawn from the stream and forgotten.     *)
(***************************************************************************)
EXTENDS Integers, Sequences, FiniteSets, SequencesExt

CONSTANTS Seeds,       \* seeds of the stream; the programs use 20260906
          None         \* null

ASSUME SeedAssumption == Seeds \subseteq Nat

NOW == 0
MIN == 60000
Every == 5 * MIN       \* an aggregate counts the writes of this time
Grace == 120 * MIN     \* time a warrant may stay in grace

Programs == {"app", "dash"}

----------------------------------------------------------------------------
(* rng: mulberry32 on words of 32 bits, which are pairs of halves          *)

Word(n) == <<n \div 65536, n % 65536>>
Bit(a, b, k) == 2^k * (((a \div 2^k) + (b \div 2^k)) % 2)
XorDigit == [a \in 0 .. 15 |-> [b \in 0 .. 15 |->
                Bit(a, b, 0) + Bit(a, b, 1) + Bit(a, b, 2) + Bit(a, b, 3)]]
XorAt(a, b, k) == 16^k * XorDigit[(a \div 16^k) % 16][(b \div 16^k) % 16]
XorHalf(a, b) == XorAt(a, b, 0) + XorAt(a, b, 1) + XorAt(a, b, 2) + XorAt(a, b, 3)
Xor(x, y) == <<XorHalf(x[1], y[1]), XorHalf(x[2], y[2])>>
Shr(x, k) == <<x[1] \div 2^k, ((x[1] % 2^k) * 2^(16 - k)) + (x[2] \div 2^k)>>
Plus(x, y) == LET low == x[2] + y[2]
              IN <<(x[1] + y[1] + (low \div 65536)) % 65536, low % 65536>>
\* Halves multiplied, a word.
TimesHalf(a, b) ==
    LET high == a * (b \div 256)
        low == a * (b % 256) + 256 * (high % 256)
    IN <<(high \div 256) + (low \div 65536), low % 65536>>
imul(x, y) ==
    LET low == TimesHalf(x[2], y[2])
    IN <<(low[1] + TimesHalf(x[1], y[2])[2] + TimesHalf(x[2], y[1])[2]) % 65536, low[2]>>
Or1(x) == <<x[1], 2 * (x[2] \div 2) + 1>>
Or61(x) == <<x[1], 64 * (x[2] \div 64) + 61 + 2 * ((x[2] \div 2) % 2)>>

\* The i-th number of the stream of a seed, a word.
rng(seed, i) ==
    LET a == Plus(Word(seed), imul(Word(i), <<27947, 31221>>))
        t == imul(Xor(a, Shr(a, 15)), Or1(a))
        u == Xor(t, Plus(t, imul(Xor(t, Shr(t, 7)), Or61(t))))
    IN Xor(u, Shr(u, 14))

\* Math.floor(R() * n), for the number that is next in the stream of a log.
R(l, n) == LET x == rng(l.seed, l.drawn + 1)
           IN (x[1] * n + ((x[2] * n) \div 65536)) \div 65536
Skip(l, k) == [l EXCEPT !.drawn = @ + k]
between(l, lo, hi) == lo + R(l, hi - lo + 1)
pick(l, arr) == arr[1 + R(l, Len(arr))]

----------------------------------------------------------------------------
(* Nodes, warrants, sessions without one, gaps                             *)

nodes == <<"prod-web-01", "prod-web-02", "prod-db-01", "stage-app-01">>

warrants == <<
    [id |-> "W-4821-3F", subject |-> "101", node |-> "prod-web-01", mode |-> "dryrun",
     on_expiry |-> "downgrade", writes |-> TRUE, cgroup |-> 8213, root |-> FALSE,
     issued |-> -130 * MIN, expires |-> 20 * MIN],
    [id |-> "W-4830-A1", subject |-> "102", node |-> "prod-db-01", mode |-> "observe",
     on_expiry |-> "kill", writes |-> FALSE, cgroup |-> 5510, root |-> FALSE,
     issued |-> -300 * MIN, expires |-> -60 * MIN],
    [id |-> "W-4833-C7", subject |-> "103", node |-> "prod-web-02", mode |-> "dryrun",
     on_expiry |-> "grace", writes |-> TRUE, cgroup |-> 9107, root |-> FALSE,
     issued |-> -200 * MIN, expires |-> -20 * MIN],
    [id |-> "W-4836-E2", subject |-> "104", node |-> "stage-app-01", mode |-> "enforce",
     on_expiry |-> "downgrade", writes |-> TRUE, cgroup |-> 3321, root |-> FALSE,
     issued |-> -90 * MIN, expires |-> 30 * MIN]>>

\* A session owns its records like a warrant does, without a name.
Session(node, cgroup, root, first, severity) ==
    [id |-> None, subject |-> None, node |-> node, cgroup |-> cgroup, root |-> root,
     first |-> first, severity |-> severity]
warrantless == <<Session("prod-web-02", 9350, FALSE, -88 * MIN, "critical"),
                 Session("prod-db-01", 5602, FALSE, -52 * MIN, "warning"),
                 Session("prod-web-01", 8290, TRUE, -14 * MIN, "critical")>>

gaps == {
    [node |-> "prod-web-01", from |-> -118 * MIN, to |-> -118 * MIN + 3200,
     seq_from |-> 40487, seq_to |-> 40554],
    [node |-> "prod-web-02", from |-> -71 * MIN, to |-> -69 * MIN,
     seq_from |-> 41120, seq_to |-> 41208],
    [node |-> "prod-db-01", from |-> -33 * MIN, to |-> -33 * MIN + 900,
     seq_from |-> 40922, seq_to |-> 40934]}

\* The binaries whose row says more than their path and inode.
BIN == [setuid |-> {"sudo", "crontab"}, script |-> {"deploy.sh"}]

----------------------------------------------------------------------------
(* Appending to a log                                                      *)

\* The numbers base() takes: start time and parent, and the uid of a session;
\* data.js draws uid and euid of a session apart.
Draws(owner) == IF owner.id = None THEN 3 ELSE 2
DrawsDash(owner) == IF owner.id = None THEN 4 ELSE 2

\* op(v), with v evaluated first: TLC evaluates an argument where it is used.
Then(v, op(_)) == CHOOSE r \in {op(x) : x \in {v}} : TRUE

\* A record of a session or a warrant; what is one of x.names.
base(l, owner, t, x, what) ==
    LET seq == l.seqByNode[owner.node] + 1
        e == [id |-> <<owner.node, seq>>, node |-> owner.node, seq |-> seq, ts |-> t,
              warrant |-> owner.id, subject |-> owner.subject, cgroup |-> owner.cgroup,
              pid |-> l.pid, hook |-> x.hook, verdict |-> x.verdict, what |-> what,
              note |-> x.note, root |-> x.root \/ owner.root]
    IN [l EXCEPT !.seqByNode[owner.node] = seq, !.pid = @ + 1, !.events = Append(@, e),
                 !.drawn = @ + (IF l.prog = "app" THEN Draws(owner) ELSE DrawsDash(owner))]

\* What a call appends, as sequences: at milliseconds after the turn of the
\* script, one of these names, drawn of the stream before base().
Ev(hook, names, verdict, at, drawn) ==
    [hook |-> hook, names |-> names, verdict |-> verdict, at |-> at, drawn |-> drawn,
     root |-> FALSE, note |-> None]
execEv(names, verdict, at) == <<Ev("exec", names, verdict, at, 0)>>
\* Mutant: a write that is allowed is recorded like any other.
writeEvAllowed(path, verdict, at) == <<Ev("write", <<path>>, verdict, at, 2)>>

\* A write that is allowed leaves no record of its own.
writeEv(path, verdict, at) ==
    IF verdict = "ALLOW" THEN <<>> ELSE <<Ev("write", <<path>>, verdict, at, 2)>>
connectEv(addrs, verdict, at) == <<Ev("connect", addrs, verdict, at, 1)>>

asRoot(s) == <<[s[1] EXCEPT !.root = TRUE]>>
noted(s, note) == <<[s[1] EXCEPT !.note = note]>>

\* The calls of one turn; args numbers are taken for their arguments first.
Do(l, owner, t, args, calls) ==
    FoldLeft(LAMBDA m, x : base(Skip(m, x.drawn), owner, t + x.at, x, pick(l, x.names)),
             Skip(l, args), calls)

----------------------------------------------------------------------------
(* The scripts: what a turn does, for a number below the bound and not     *)
(* below that of the turn before                                           *)

Turn(below, args, calls) == [below |-> below, args |-> args, calls |-> calls]

kimTurns == <<
    Turn(35, 2, execEv(<<"ls", "cat", "grep", "tail", "git">>, "ALLOW", 0)),
    Turn(55, 0, execEv(<<"vim">>, "ALLOW", 0)
                  \o writeEv("/app/config.yml", "ALLOW", 20000)),
    Turn(68, 0, execEv(<<"sudo">>, "ALLOW", 0) \o asRoot(execEv(<<"vim">>, "ALLOW", 300))
                  \o asRoot(writeEv("/etc/nginx/nginx.conf", "WOULD_DENY", 25000))),
    Turn(76, 0, execEv(<<"sudo">>, "ALLOW", 0) \o asRoot(execEv(<<"cp">>, "ALLOW", 200))
                  \o asRoot(writeEv("/usr/bin/tool", "WOULD_DENY", 400))),
    Turn(86, 0, execEv(<<"curl">>, "ALLOW", 0)
                  \o connectEv(<<"185.220.101.7">>, "WOULD_DENY", 120)),
    Turn(93, 0, connectEv(<<"10.0.12.40">>, "ALLOW", 0)),
    Turn(100, 0, execEv(<<"systemctl">>, "ALLOW", 0)
                   \o connectEv(<<"/run/systemd/private">>, "WOULD_DENY", 50))>>

leeTurns == <<
    Turn(60, 2, execEv(<<"ls", "cat", "grep", "tail", "pg_dump">>, "ALLOW", 0)),
    Turn(75, 0, writeEv("/tmp/pg_check.out", "WOULD_DENY", 0)),
    Turn(90, 0, connectEv(<<"10.0.12.40">>, "ALLOW", 0)),
    Turn(100, 0, execEv(<<"sudo">>, "ALLOW", 0) \o asRoot(execEv(<<"tail">>, "ALLOW", 100)))>>

\* Mutant: grace is not asked for.
paulConnectAllowed(grace) == connectEv(<<"10.20.4.9">>, "ALLOW", 0)

\* In grace a new connection is refused.
paulConnect(grace) ==
    IF grace THEN noted(connectEv(<<"10.20.4.9">>, "WOULD_DENY", 0), "grace")
             ELSE connectEv(<<"10.20.4.9">>, "ALLOW", 0)
paulTurns == [grace \in BOOLEAN |-> <<
    Turn(40, 1, execEv(<<"python3">>, "ALLOW", 0)),
    Turn(60, 2, writeEv("/srv/pipeline/out", "ALLOW", 0)),
    Turn(75, 0, paulConnect(grace)),
    Turn(85, 0, writeEv("/home/paul/.ssh/authorized_keys", "WOULD_DENY", 0)),
    Turn(93, 0, execEv(<<"docker">>, "ALLOW", 0)),
    Turn(100, 0, connectEv(<<"/var/run/docker.sock">>, "WOULD_DENY", 0))>>]

choiTurns == <<
    Turn(40, 2, execEv(<<"ls", "cat", "grep", "tail">>, "ALLOW", 0)),
    Turn(55, 0, writeEv("/opt/stage/release.txt", "ALLOW", 0)),
    Turn(70, 0, execEv(<<"sudo">>, "ALLOW", 0)
                  \o asRoot(writeEv("/etc/hosts", "DENY", 9000))),
    Turn(80, 0, execEv(<<"curl">>, "ALLOW", 0) \o connectEv(<<"140.82.112.5">>, "DENY", 90)),
    Turn(90, 0, asRoot(noted(execEv(<<"bpftool">>, "DENY", 0), "self-protection"))),
    Turn(100, 0, asRoot(<<Ev("unlink", <<"/etc/systemd/system/app.service">>, "DENY", 0, 0)>>))>>

sessionTurns == <<
    Turn(60, 2, execEv(<<"ls", "cat", "grep", "tail", "git">>, "ALLOW", 0)),
    Turn(85, 2, noted(execEv(<<"vim", "cp", "python3">>, "ALLOW", 0), "no-warrant")),
    Turn(100, 2, connectEv(<<"45.33.32.156", "10.0.12.40">>, "ALLOW", 0))>>

\* The turns of a script, by whether its warrant has expired.
Always(turns) == [late \in BOOLEAN |-> turns]
Late(owner, t) == owner.id # None /\ t > owner.expires
TurnOf(turns, r) == turns[Min({i \in DOMAIN turns : r < turns[i].below})]

\* One round of a script's loop, from s = [log, t, over]: time passes, the loop
\* is left when t is past the end, else the turn is drawn.
Round(s, owner, lo, hi, end, turns) ==
    LET t == s.t + between(s.log, lo, hi) * MIN
        l == Skip(s.log, 1)
        turn == TurnOf(turns[Late(owner, t)], R(l, 100))
    IN IF end # None /\ t > end
       THEN [log |-> l, t |-> t, over |-> TRUE]
       ELSE [log |-> Do(Skip(l, 1), owner, t, turn.args, turn.calls), t |-> t, over |-> FALSE]

\* At most n rounds, from the time of the login.
Login(l, owner, t) == Do(l, owner, t, 0, execEv(<<"bash">>, "ALLOW", 0))
Rounds(l, owner, t, n, lo, hi, end, turns) ==
    FoldLeft(LAMBDA s, i : IF s.over THEN s ELSE Round(s, owner, lo, hi, end, turns),
             [log |-> l, t |-> t, over |-> FALSE], [i \in 1 .. n |-> i])
Script(l, w, t, n, lo, hi, end, turns) ==
    Rounds(Login(l, w, t), w, t, n, lo, hi, end, turns).log

\* warrantd records that a warrant is over.
Expiry(l, w, note) == Do(l, w, w.expires, 0, noted(<<Ev("self", <<"">>, "ALLOW", 0, 0)>>, note))

\* W-4821-3F: the loop has no end of its own; then the attempts to delegate.
kim(l) ==
    LET w == warrants[1]
        s == Script(l, w, w.issued + 2 * MIN, 46, 1, 4, None, Always(kimTurns))
        run == Do(s, w, w.issued + 61 * MIN, 0,
                  execEv(<<"systemd-run">>, "WOULD_DENY", 0)
                    \o connectEv(<<"/run/systemd/private">>, "WOULD_DENY", 80)
                    \o execEv(<<"deploy.sh">>, "ALLOW", 1 * MIN))
    IN Do(run, w, w.issued + 95 * MIN, 0,
          execEv(<<"crontab">>, "ALLOW", 0)
            \o writeEv("/var/spool/cron/crontabs/kim.dev", "WOULD_DENY", 3000))

lee(l) ==
    LET w == warrants[2]
    IN Expiry(Script(l, w, w.issued + 1 * MIN, 28, 2, 8, w.expires, Always(leeTurns)),
              w, "expired")

paul(l) ==
    LET w == warrants[3]
    IN Expiry(Script(l, w, w.issued + 1 * MIN, 40, 2, 6, NOW,
                     paulTurns),
              w, "expired-grace")

choi(l) == LET w == warrants[4]
           IN Script(l, w, w.issued + 1 * MIN, 26, 1, 5, NOW, Always(choiTurns))

\* Allowed writes: a record for each interval while the warrant holds.
aggEv(k) == Ev("agg", <<"">>, "ALLOW", k * Every, 1)
aggEnd(w) == Min({NOW, IF w.on_expiry = "grace" THEN w.expires + Grace ELSE w.expires})
\* Mutant: the interval that ends now is counted too.
aggsThrough(l, w) ==
    IF ~w.writes THEN l
    ELSE Do(l, w, w.issued, 0, [k \in 1 .. (aggEnd(w) - w.issued) \div Every |-> aggEv(k)])
aggs(l, w) ==
    IF ~w.writes THEN l
    ELSE Do(l, w, w.issued, 0,
            [k \in 1 .. (aggEnd(w) - w.issued - 1) \div Every |-> aggEv(k)])

writes(l) == FoldLeft(LAMBDA m, w : Then(m, LAMBDA k : aggs(k, w)), l, warrants)

\* Mutant: count is taken before the rounds.
sessionEarly(m, s) ==
    LET login == Login(m.log, s, s.first)
        end == Rounds(Skip(login, 1), s, s.first, between(login, 6, 16), 1, 6, NOW,
                      Always(sessionTurns))
    IN [log |-> end.log,
        sessions |-> Append(m.sessions, [node |-> s.node, cgroup |-> s.cgroup,
                                         severity |-> s.severity, first |-> s.first,
                                         count |-> 1, last |-> end.t])]

\* A session: its last activity is where the clock of its rounds stopped.
session(m, s) ==
    LET login == Login(m.log, s, s.first)
        end == Rounds(Skip(login, 1), s, s.first, between(login, 6, 16), 1, 6, NOW,
                      Always(sessionTurns))
        mine(e) == e.warrant = None /\ e.cgroup = s.cgroup
        count == Cardinality({i \in DOMAIN end.log.events : mine(end.log.events[i])})
    IN [log |-> end.log,
        sessions |-> Append(m.sessions, [node |-> s.node, cgroup |-> s.cgroup,
                                         severity |-> s.severity, first |-> s.first,
                                         count |-> count, last |-> end.t])]

activity(l) == FoldLeft(LAMBDA m, s : Then(m, LAMBDA k : session(k, s)),
                        [log |-> l, sessions |-> <<>>], warrantless)

\* The numbering of a node starts somewhere.
Empty(prog, seed) ==
    LET l == [prog |-> prog, seed |-> seed, drawn |-> 0]
        place(n) == CHOOSE i \in DOMAIN nodes : nodes[i] = n
    IN [prog |-> prog, seed |-> seed, drawn |-> Len(nodes), pid |-> 4000, events |-> <<>>,
        seqByNode |-> [n \in ToSet(nodes) |-> 40000 + between(Skip(l, place(n) - 1), 0, 900)]]

\* Records in the order of time; the sort keeps that of records of one time,
\* which is the order of their pids.
Before(e, x) == e.ts < x.ts \/ (e.ts = x.ts /\ e.pid < x.pid)
InOrder(s) ==
    Then([i \in DOMAIN s |-> 1 + Cardinality({j \in DOMAIN s : Before(s[j], s[i])})],
         LAMBDA rank : [k \in DOMAIN s |-> s[CHOOSE i \in DOMAIN s : rank[i] = k]])

\* Mutant: the sessions are made before the allowed writes.
dataWritesLast(prog, seed) ==
    LET m == Then(Then(Then(Then(Then(Empty(prog, seed), kim), lee), paul), choi), activity)
        l == Then(m.log, writes)
    IN [events |-> InOrder(l.events),
        warrants |-> warrants, sessions |-> m.sessions, gaps |-> gaps, nodes |-> ToSet(nodes)]

\* What the module exports.
data(prog, seed) ==
    LET m == Then(Then(Then(Then(Then(Then(Empty(prog, seed),
                kim), lee), paul), choi), writes), activity)
    IN [events |-> InOrder(m.log.events),
        warrants |-> warrants, sessions |-> m.sessions, gaps |-> gaps, nodes |-> ToSet(nodes)]

Mock == [p \in Programs |-> [s \in Seeds |-> data(p, s)]]
=============================================================================
