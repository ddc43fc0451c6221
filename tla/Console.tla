------------------------------ MODULE Console ------------------------------
(***************************************************************************)
(* The audit console (web/): the React program of web/src and its plain    *)
(* JavaScript twin web/dashboard/app.js, which show the same four views of *)
(* the same records.  Both are driven by the same presses of one user.     *)
(*                                                                         *)
(*   app    the state of App.tsx and of the views (useState)               *)
(*   dash   the object `state` of app.js                                   *)
(*   box    what the controls of the search view of app.js display, which  *)
(*          the program has to keep in step with dash by hand              *)
(*   timer  a call of setTimeout for the search box is outstanding         *)
(*   fresh  since a record was opened from another view nobody touched a   *)
(*          search filter (history, read by the properties only)           *)
(*                                                                         *)
(* Each program shows its own mock data (MockData); in the product an API  *)
(* takes their place and serves both the same log (data.ts:3).             *)
(***************************************************************************)
EXTENDS MockData

CONSTANTS Imported,    \* Imported[p][s]: the log that program p makes of seed s
          Served,      \* sequence of logs that the API serves
          Searched,    \* those of them on which the search controls are used
          Pressed,     \* ids of the records that are opened
          Chosen,      \* cgroups of the sessions that are chosen
          Recent,      \* records in the table of the overview, 10
          Ranges, VerdictChoices, HookChoices, SubjectChoices, Texts

\* Texts of a record that MockData forgets, and a number as a row shows it (format.ts).
CONSTANTS Comm(_), Ino(_), Argv(_), fmtN(_)

VARIABLES app, dash, box, timer, fresh

vars == <<app, dash, box, timer, fresh>>

Bucket == 5 * MIN      \* time a column of the chart stands for
Sources == DOMAIN Served \cup Seeds

\* What a program has imported: each module of mock data makes a log of its own.
Logs == [p \in Programs |-> [d \in Sources |->
            IF d \in DOMAIN Served THEN Served[d] ELSE Imported[p][d]]]
Log(f) == Logs[f.prog][f.data]
Records == [p \in Programs |-> [d \in Sources |-> ToSet(Logs[p][d].events)]]
EventSet(f) == Records[f.prog][f.data]
WarrantSet(f) == ToSet(Log(f).warrants)
SessionSet(f) == ToSet(Log(f).sessions)

Views == {"overview", "search", "timeline", "warrantless"}

----------------------------------------------------------------------------
(* lib/filters.ts, and the copies of it in app.js                          *)

since(f) == NOW - f.range
blocked(e) == e.verdict \in {"DENY", "WOULD_DENY"}
nodeOk(f, x) == f.node \in {"all", x.node}

inWindow(f, e) == e.ts >= since(f) /\ e.ts <= NOW /\ nodeOk(f, e)
baseEvents(f) == {e \in EventSet(f) : inWindow(f, e)}
gapsIn(f) == {g \in Log(f).gaps : g.to >= since(f) /\ nodeOk(f, g)}
warrantlessIn(f) == {s \in SessionSet(f) : s.last >= since(f) /\ nodeOk(f, s)}

Shown(S, when) == IF when THEN S ELSE {}
OnPath == {"write", "unlink", "rename"}

\* The texts a record is found by; the inode is joined as it is, not by fmtN.
hay(e) == ({e.what, e.warrant, Comm(e), e.node, e.subject, e.note}
             \cup Shown({Argv(e)}, e.hook = "exec")
             \cup Shown({Ino(e)}, e.hook \in {"exec"} \cup OnPath)) \ {None, ""}
searchEvents(f) ==
    {e \in baseEvents(f) :
        /\ f.verdict \in {"all", e.verdict} \/ (f.verdict = "blocked" /\ blocked(e))
        /\ f.hook \in {"all", e.hook}
        /\ \/ f.subject \in {"all", e.subject}
           \/ f.subject = "none" /\ e.warrant = None
        /\ f.agg \/ e.hook # "agg"
        /\ f.q = "" \/ f.q \in hay(e)}

\* The warrants (sessions) of the node the user looks at, and the first of them.
OfNode(f, s) == {x \in ToSet(s) : nodeOk(f, x)}
First(f, s) == LET at == {i \in DOMAIN s : nodeOk(f, s[i])}
               IN IF at = {} THEN None ELSE s[Min(at)]

----------------------------------------------------------------------------
(* What a view displays                                                    *)

\* warrant-timeline.tsx: the chosen warrant if it is of the node, or the first.
ShownWarrant(u) ==
    LET mine == {w \in WarrantSet(u) : nodeOk(u, w) /\ w.id = u.warrant}
    IN IF mine # {} THEN CHOOSE w \in mine : TRUE ELSE First(u, Log(u).warrants)

\* warrantless.tsx: likewise for sessions, which the cgroup names.
ShownSession(u) ==
    LET mine == {s \in SessionSet(u) : nodeOk(u, s) /\ s.cgroup = u.wlSel}
    IN IF mine # {} THEN CHOOSE s \in mine : TRUE ELSE First(u, Log(u).sessions)

WarrantEvents(u, w) == {e \in EventSet(u) : w # None /\ e.warrant = w.id}
\* Mutant: the gaps of every node.
WarrantGapsAnyNode(u, w) == {g \in Log(u).gaps : w # None /\ g.from >= w.issued}
WarrantGaps(u, w) ==
    {g \in Log(u).gaps : w # None /\ g.node = w.node /\ g.from >= w.issued}
SessionEvents(u, s) ==
    {e \in EventSet(u) : s # None /\ e.warrant = None /\ e.cgroup = s.cgroup}

\* overview.tsx: the last blocked records (slice), from a table in order of time.
Blocked == [p \in Programs |-> [d \in Sources |-> SelectSeq(Logs[p][d].events, blocked)]]
RecentDeny(f) ==
    LET ev == Blocked[f.prog][f.data]
        at == {i \in DOMAIN ev : inWindow(f, ev[i])}
        last == {i \in at : Cardinality({j \in at : j > i}) < Recent}
    IN {e \in baseEvents(f) : \E i \in last : ev[i] = e}

\* The rows of the one table of records that each view has.
TableOf(u) ==
    CASE u.view = "overview" -> [events |-> RecentDeny(u), gaps |-> {}]
      [] u.view = "search" -> [events |-> searchEvents(u), gaps |-> gapsIn(u)]
      [] u.view = "timeline" -> [events |-> WarrantEvents(u, ShownWarrant(u)),
                                 gaps |-> WarrantGaps(u, ShownWarrant(u))]
      [] u.view = "warrantless" -> [events |-> SessionEvents(u, ShownSession(u)),
                                    gaps |-> {}]

----------------------------------------------------------------------------
(* A row, and the panel that shows a record in full, by the texts in them  *)

note(e) == {e.note} \ {None}
flags(e) == Shown({"setuid"}, e.what \in BIN.setuid)
              \cup Shown({"interp"}, e.what \in BIN.script)
inode(e) == Shown({fmtN(Ino(e))}, e.hook \in {"exec"} \cup OnPath)

\* Mutant: the note of a connection is left to the panel.
WhatNoNote(e) == Shown({e.what}, e.hook \in {"exec", "connect"} \cup OnPath)
                   \cup Shown({Argv(e)} \cup flags(e), e.hook = "exec") \cup inode(e)
                   \cup Shown(note(e), e.hook \in {"self"} \cup OnPath)

\* event-table.tsx: what was done; the cell of an exec has no note.
What(e) == Shown({e.what}, e.hook \in {"exec", "connect"} \cup OnPath)
             \cup Shown({Argv(e)} \cup flags(e), e.hook = "exec") \cup inode(e)
             \cup Shown(note(e), e.hook \in {"connect", "self"} \cup OnPath)
whoCell(e) == IF e.warrant = None THEN {"no-warrant"} ELSE {e.subject, e.warrant}

\* app.js: the same cell, which falls through to nothing.
whatCell(e) == IF e.hook = "agg" THEN {}
               ELSE IF e.hook = "self" THEN note(e)
               ELSE IF e.hook = "exec"
                    THEN {e.what, fmtN(Ino(e)), Argv(e)} \cup flags(e)
                    ELSE {e.what} \cup inode(e) \cup note(e)

\* The texts of a row, but the name of the node.
Row(u, e) == whoCell(e) \cup (IF u.prog = "app" THEN What(e) ELSE whatCell(e))

\* events.find: the record that is open.
Opened(u) == {e \in EventSet(u) : e.id = u.selected}
ById(u, e) == {w \in WarrantSet(u) : w.id = e.warrant}

\* event-detail.tsx: whose the record is, what it was, and the remarks below.
EventDetail(u, e) ==
    [warrant |-> ById(u, e), subject |-> e.subject, cgroup |-> e.cgroup,
     seq |-> <<e.node, e.seq>>, root |-> e.root, comm |-> Comm(e),
     payload |-> Shown({e.what}, e.hook \in {"exec", "connect"} \cup OnPath)
                   \cup Shown({Argv(e)} \cup flags(e), e.hook = "exec") \cup inode(e)
                   \cup Shown(note(e), e.hook = "self"),
     remarks |-> Shown({"argv"}, e.hook = "exec") \cup Shown({"euid 0"}, e.root)
                   \cup Shown({"agg"}, e.hook = "agg")
                   \cup Shown({"dry-run"}, e.verdict = "WOULD_DENY")]

\* app.js: the panel of the same fields.
renderDrawer(u, e) ==
    [warrant |-> ById(u, e), subject |-> e.subject, cgroup |-> e.cgroup,
     seq |-> <<e.node, e.seq>>, root |-> e.root, comm |-> Comm(e),
     payload |-> IF e.hook = "exec" THEN {e.what, fmtN(Ino(e)), Argv(e)} \cup flags(e)
                 ELSE IF e.hook = "agg" THEN {}
                 ELSE IF e.hook = "self" THEN note(e) ELSE {e.what} \cup inode(e),
     remarks |-> {r \in {"argv", "euid 0", "agg", "dry-run"} :
                    \/ r = "argv" /\ e.hook = "exec"
                    \/ r = "euid 0" /\ e.root
                    \/ r = "agg" /\ e.hook = "agg"
                    \/ r = "dry-run" /\ e.verdict = "WOULD_DENY"}]

Panel(u, e) == IF u.prog = "app" THEN EventDetail(u, e) ELSE renderDrawer(u, e)

----------------------------------------------------------------------------
(* The numbers of the overview and of the navigation bar                   *)

Verdicts == {"ALLOW", "WOULD_DENY", "DENY"}
HookOrder == {"exec", "write", "unlink", "rename", "connect", "self"}
Tally(S) == [v \in Verdicts |-> Cardinality({e \in S : e.verdict = v})]

\* timeline-chart.tsx: the columns, aggregates left out.
columns(f) == f.range \div Bucket
\* Mutant: a record at NOW is past the last column.
SlotPast(f, t) == (t - since(f)) \div Bucket
Slot(f, t) == Min({columns(f) - 1, (t - since(f)) \div Bucket})
ChartRows(f) ==
    [i \in 0 .. columns(f) - 1 |->
        Tally({e \in baseEvents(f) : e.hook # "agg" /\ Slot(f, e.ts) = i})]

\* The columns that are hatched because of a gap (bucketOf).
Band(f, g) == Max({0, Slot(f, g.from)}) .. Max({0, Slot(f, Min({g.to, NOW}))})

\* app.js: the gaps named when the mouse is over a column.
TipGaps(f, i) ==
    {g \in gapsIn(f) : /\ g.from < since(f) + (i + 1) * Bucket
                       /\ g.to > since(f) + i * Bucket}

HookBars(f) == [h \in HookOrder |-> Tally({e \in baseEvents(f) : e.hook = h})]

\* Mutant: a warrant in grace has expired.
ActiveExpired(f) == {w \in WarrantSet(f) : nodeOk(f, w) /\ w.expires > NOW}
Active(f) ==
    {w \in WarrantSet(f) :
        /\ nodeOk(f, w)
        /\ \/ w.expires > NOW
           \/ w.on_expiry = "grace" /\ w.expires + Grace > NOW}

Tiles(f) ==
    [warrantless |-> Cardinality(warrantlessIn(f)),
     deny |-> Tally(baseEvents(f))["DENY"],
     would |-> Tally(baseEvents(f))["WOULD_DENY"],
     gaps |-> Cardinality(gapsIn(f)),
     active |-> Cardinality(Active(f)),
     execs |-> Cardinality({e \in baseEvents(f) : e.hook = "exec"})]

\* App.tsx: the counts beside the names of the views.
Badges(f) == [search |-> Cardinality({e \in baseEvents(f) : blocked(e)}),
              warrantless |-> Cardinality(warrantlessIn(f))]

\* warrant-timeline.tsx: what the button of a warrant says.
Status(w) == CASE w.expires > NOW -> "valid"
               [] w.expires <= NOW /\ w.on_expiry = "grace" -> "grace"
               [] OTHER -> "expired"
PastGrace(w) == w.on_expiry = "grace" /\ w.expires + Grace <= NOW

----------------------------------------------------------------------------
(* What the console relies on                                              *)

ASSUME ConsoleAssumption ==
    /\ Imported = Mock
    /\ DOMAIN Served \cap Seeds = {} /\ Searched \subseteq DOMAIN Served
    /\ Recent \in Nat \ {0}
    /\ Ranges \subseteq Nat \ {0} /\ Ranges # {} /\ \A r \in Ranges : r % Bucket = 0
    /\ \E r \in Ranges : \A x \in Ranges : x <= r

\* A record as data.ts types it (data.ts:26): the fields of a hook are there for
\* no other, and a record has a subject if it has a warrant.
IsRecord(e) ==
    /\ e.id # None /\ e.ts \in Int
    /\ e.verdict \in Verdicts /\ e.hook \in HookOrder \cup {"agg"}
    /\ e.hook \in {"self", "agg"} => e.what = ""
    /\ e.hook = "agg" => e.verdict = "ALLOW" /\ e.note = None
    /\ e.subject \notin {"all", "none"} /\ (e.warrant = None => e.subject = None)

\* What joins the records of a log: ids of records and of warrants, the cgroup
\* of a session, and nodes.
Joined(l) ==
    /\ \A e, x \in ToSet(l.events) : e.id = x.id => e = x
    /\ \A w, x \in ToSet(l.warrants) : w.id = x.id => w = x
    /\ \A s, t \in ToSet(l.sessions) : s.cgroup = t.cgroup => s = t
    /\ \A e \in ToSet(l.events) :
          IF e.warrant = None
          THEN \A s \in ToSet(l.sessions) : s.cgroup = e.cgroup => s.node = e.node
          ELSE \E w \in ToSet(l.warrants) : w.id = e.warrant /\ w.node = e.node
    /\ \A w \in ToSet(l.warrants) : w.node \in l.nodes
    /\ \A s \in ToSet(l.sessions) : s.node \in l.nodes

IsLog(l) ==
    /\ l.events \in Seq(ToSet(l.events)) /\ IsInjective(l.events)
    /\ l.warrants \in Seq(ToSet(l.warrants)) \ {<<>>}
    /\ l.sessions \in Seq(ToSet(l.sessions)) /\ IsFiniteSet(l.gaps)
    /\ \A e \in ToSet(l.events) : IsRecord(e)
    /\ \A w \in ToSet(l.warrants) :
          w # None /\ w.id # None /\ w.expires \in Int
    /\ \A s \in ToSet(l.sessions) : s # None /\ s.cgroup # None
    /\ \A g \in l.gaps : g.from \in Int /\ g.to \in Int /\ g.from <= g.to /\ g.from <= NOW
    /\ Joined(l)

ASSUME LogAssumption == \A p \in Programs, d \in Sources : IsLog(Logs[p][d])

\* Where a program shows data of its own it is the data of the other, but for
\* the records of the sessions: nothing of them was blocked.
ASSUME TwinAssumption ==
    \A d \in Sources :
        LET a == Logs["app"][d]
            b == Logs["dash"][d]
        IN /\ a.nodes = b.nodes /\ a.warrants = b.warrants /\ a.gaps = b.gaps
           /\ Len(a.sessions) = Len(b.sessions)
           /\ \A i \in DOMAIN a.sessions : /\ a.sessions[i].node = b.sessions[i].node
                                           /\ a.sessions[i].cgroup = b.sessions[i].cgroup
           /\ Blocked["app"][d] = Blocked["dash"][d]

----------------------------------------------------------------------------
(* The handlers of App.tsx                                                 *)

DEFAULT_FILTERS(prog, d) ==
    [prog |-> prog, data |-> d,
     range |-> CHOOSE r \in Ranges : \A x \in Ranges : x <= r, node |-> "all",
     verdict |-> "all", hook |-> "all", subject |-> "all", agg |-> TRUE, q |-> "",
     view |-> "overview", selected |-> None, wlSel |-> None,
     warrant |-> Log([prog |-> prog, data |-> d]).warrants[1].id]

\* Another view opens a record: the search filters are reset, all but agg.
openEvent(u, e, subject) ==
    [u EXCEPT !.selected = e.id, !.verdict = "all", !.hook = "all",
              !.subject = subject, !.q = "", !.view = "search"]
openSession(u, cg) == [u EXCEPT !.wlSel = cg, !.view = "warrantless"]

----------------------------------------------------------------------------
(* app.js: rendering a view writes the state it falls back to              *)

\* Mutant: the node of the warrant is kept, not its id.
renderTimelineNode(u) ==
    [u EXCEPT !.warrant = IF ShownWarrant(u) = None THEN None ELSE ShownWarrant(u).node]

renderTimeline(u) ==
    [u EXCEPT !.warrant = IF ShownWarrant(u) = None THEN None ELSE ShownWarrant(u).id]
renderWarrantless(u) ==
    [u EXCEPT !.wlSel = IF ShownSession(u) = None THEN None ELSE ShownSession(u).cgroup]
render(u) ==
    CASE u.view = "timeline" -> renderTimeline(u)
      [] u.view = "warrantless" -> renderWarrantless(u)
      [] OTHER -> u

\* syncFilterControls(): the controls are set from the state.
Controls(u) == [verdict |-> u.verdict, hook |-> u.hook, subject |-> u.subject,
                agg |-> u.agg, q |-> u.q]

\* Mutant: the search box is not set again.
setViewText(u) == /\ dash' = render(u)
                  /\ box' = [Controls(u) EXCEPT !.q = box.q]
                  /\ UNCHANGED timer

\* setView(v) of a state the handler has changed already.
setView(u) == /\ dash' = render(u)
              /\ box' = Controls(u)
              /\ UNCHANGED timer

\* A control that app.js reads once: the state follows it and is rendered.
change(u) == /\ dash' = render(u)
             /\ UNCHANGED <<box, timer>>

\* Mutant: the row of a session is copied from that of the overview.
openRowAll(u, e, subject) ==
    [u EXCEPT !.selected = e.id, !.subject = "all", !.verdict = "all",
              !.hook = "all", !.q = "", !.view = "search"]

\* A row of another view is pressed; the three copies of these lines agree.
openRow(u, e, subject) ==
    [u EXCEPT !.selected = e.id, !.subject = subject, !.verdict = "all",
              !.hook = "all", !.q = "", !.view = "search"]

\* The table on the page: the warrant and the session of the state, for the
\* state was rendered after its last change.
dashTable(u) ==
    LET w == {x \in WarrantSet(u) : x.id = u.warrant}
        s == {x \in OfNode(u, Log(u).sessions) : x.cgroup = u.wlSel}
    IN CASE u.view = "overview" -> [events |-> RecentDeny(u), gaps |-> {}]
         [] u.view = "search" -> [events |-> searchEvents(u), gaps |-> gapsIn(u)]
         [] u.view = "timeline" -> [events |-> UNION {WarrantEvents(u, x) : x \in w},
                                    gaps |-> UNION {WarrantGaps(u, x) : x \in w}]
         [] u.view = "warrantless" -> [events |-> UNION {SessionEvents(u, x) : x \in s},
                                       gaps |-> {}]

----------------------------------------------------------------------------
(* What the user does, to both                                             *)

\* A view of the navigation bar.
Nav(v) ==
    /\ app' = [app EXCEPT !.view = v]
    /\ setView([dash EXCEPT !.view = v])
    /\ UNCHANGED fresh

\* The period and the node, which every view has.
SetRange(r) ==
    /\ app' = [app EXCEPT !.range = r]
    /\ change([dash EXCEPT !.range = r])
    /\ UNCHANGED fresh

SetNode(n) ==
    /\ app' = [app EXCEPT !.node = n]
    /\ change([dash EXCEPT !.node = n])
    /\ UNCHANGED fresh

\* A control of the search view; the aggregates are no filter that is reset.
SetControl(k, v) ==
    /\ app.view = "search" /\ app.data \in Searched
    /\ app' = [app EXCEPT ![k] = v]
    /\ dash' = render([dash EXCEPT ![k] = v])
    /\ box' = [box EXCEPT ![k] = v]
    /\ fresh' = (fresh /\ k = "agg")
    /\ UNCHANGED timer

SetVerdict(v) == SetControl("verdict", v)
SetHook(h) == SetControl("hook", h)
SetSubject(s) == SetControl("subject", s)
SetAgg(b) == SetControl("agg", b)

\* The search box: React takes every key, app.js waits until 120 ms passed.
Type(t) ==
    /\ app.view = "search" /\ app.data \in Searched
    /\ app' = [app EXCEPT !.q = t]
    /\ box' = [box EXCEPT !.q = t]
    /\ timer' = TRUE
    /\ fresh' = FALSE
    /\ UNCHANGED dash

\* The timer reads the box when it fires, in whatever view the user is by then.
Fire ==
    /\ timer
    /\ dash' = render([dash EXCEPT !.q = box.q])
    /\ timer' = FALSE
    /\ UNCHANGED <<app, box, fresh>>

\* A row of the table; the user presses one that both pages have.
Rows == {e \in TableOf(app).events \cap dashTable(dash).events : e.id \in Pressed}
PressRow(e) ==
    IF app.view = "search"
    THEN /\ app' = [app EXCEPT !.selected = e.id]
         /\ change([dash EXCEPT !.selected = e.id])
         /\ UNCHANGED fresh
    ELSE LET subject == IF app.view = "warrantless" THEN "none" ELSE "all"
         IN /\ app' = openEvent(app, e, subject)
            /\ setView(openRow(dash, e, subject))
            /\ fresh' = TRUE

\* A session in the list of the overview, which the cgroup names.
OpenSession(cg) ==
    /\ app.view = "overview"
    /\ \A u \in {app, dash} : \E s \in warrantlessIn(u) : s.cgroup = cg
    /\ app' = openSession(app, cg)
    /\ setView([dash EXCEPT !.wlSel = cg, !.view = "warrantless"])
    /\ UNCHANGED fresh

\* A session in the list of its own view, which no period restricts.
PressSession(cg) ==
    /\ app.view = "warrantless"
    /\ \A u \in {app, dash} : \E s \in OfNode(u, Log(u).sessions) : s.cgroup = cg
    /\ app' = [app EXCEPT !.wlSel = cg]
    /\ change([dash EXCEPT !.wlSel = cg])
    /\ UNCHANGED fresh

PressWarrant(w) ==
    /\ app.view = "timeline"
    /\ w \in OfNode(app, Log(app).warrants)
    /\ app' = [app EXCEPT !.warrant = w.id]
    /\ change([dash EXCEPT !.warrant = w.id])
    /\ UNCHANGED fresh

Init ==
    \E d \in Sources :
        /\ app = DEFAULT_FILTERS("app", d)
        /\ dash = render(DEFAULT_FILTERS("dash", d))
        /\ box = Controls(DEFAULT_FILTERS("dash", d))
        /\ timer = FALSE
        /\ fresh = FALSE

Next ==
    \/ \E v \in Views : Nav(v)
    \/ \E r \in Ranges : SetRange(r)
    \/ \E n \in Log(app).nodes \cup {"all"} : SetNode(n)
    \/ \E v \in VerdictChoices : SetVerdict(v)
    \/ \E h \in HookChoices : SetHook(h)
    \/ \E s \in SubjectChoices : SetSubject(s)
    \/ \E b \in BOOLEAN : SetAgg(b)
    \/ \E t \in Texts : Type(t)
    \/ Fire
    \/ \E e \in Rows : PressRow(e)
    \/ \E cg \in Chosen : OpenSession(cg) \/ PressSession(cg)
    \/ \E w \in WarrantSet(app) : PressWarrant(w)

Spec == Init /\ [][Next]_vars

----------------------------------------------------------------------------
(* Properties                                                              *)

\* app.js has overwritten the item of the view and App.tsx has not:
\* renderTimeline and renderWarrantless do so when it is not of the node, and do
\* not put it back.  What it is then is the first of a node, or nothing.
Overwritten ==
    \/ /\ app.view = "timeline" /\ dash.warrant # app.warrant
       /\ \E n \in Log(dash).nodes :
             LET w == First([node |-> n], Log(dash).warrants)
             IN dash.warrant = IF w = None THEN None ELSE w.id
    \/ /\ app.view = "warrantless" /\ dash.wlSel # app.wlSel
       /\ \E n \in Log(dash).nodes :
             LET s == First([node |-> n], Log(dash).sessions)
             IN dash.wlSel = IF s = None THEN None ELSE s.cgroup

\* The rows of both tables are the same, but for records only one log has.
SameRows ==
    LET a == TableOf(app)
        d == dashTable(dash)
    IN /\ a.events \cap EventSet(dash) = d.events \cap EventSet(app)
       /\ a.gaps = d.gaps
       /\ \A e \in a.events : What(e) = whatCell(e)

\* The two programs are the same screens (web/README.md:43): the same presses
\* lead to the same view with the same record opened and, but for an overwritten
\* item, with the same rows once the search box of app.js has settled; then the
\* box shows the text in force, so a text that was lost can be seen to be.  A
\* record that both have is shown alike, in the row and in the panel beside it.
SameScreen ==
    /\ dash.view = app.view
    /\ dash.selected = app.selected
    /\ (~timer /\ app.view = "search") =>
          /\ box = Controls(dash)
          /\ Controls(dash) = Controls(app) => SameRows
          /\ [box EXCEPT !.q = ""] = [Controls(app) EXCEPT !.q = ""]
    /\ (app.view # "search" /\ ~Overwritten) => SameRows
    /\ app.view = "search" =>
          \A e \in Opened(app) \cap Opened(dash) : EventDetail(app, e) = renderDrawer(dash, e)

\* The records the search view lists for this verdict and no other filter.
Listed(u, v) == searchEvents([u EXCEPT !.verdict = v, !.hook = "all",
                                       !.subject = "all", !.agg = FALSE, !.q = ""])
\* Records per verdict, all bars of a chart taken together.
AllBars(chart) ==
    [v \in Verdicts |-> FoldFunction(+, 0, [k \in DOMAIN chart |-> chart[k][v]])]

\* Chart, hook bars, tiles, the count in the navigation bar and the list of the
\* search view are five computations of the same numbers (filters.ts:20).
NumbersAgree(f) ==
    LET chart == AllBars(ChartRows(f))
    IN /\ chart = AllBars(HookBars(f))
       /\ \A v \in Verdicts : chart[v] = Cardinality(Listed(f, v))
       /\ Tiles(f).deny = chart["DENY"] /\ Tiles(f).would = chart["WOULD_DENY"]
       /\ Badges(f).search = Cardinality(Listed(f, "blocked"))
       /\ Badges(f).search = Tiles(f).deny + Tiles(f).would
       /\ Tiles(f).execs = FoldFunction(+, 0, HookBars(f)["exec"])
       /\ Tiles(f).gaps = Cardinality({g \in gapsIn(f) : Band(f, g) # {}})
       /\ \A i \in DOMAIN ChartRows(f) : \A g \in TipGaps(f, i) : i \in Band(f, g)
       /\ \A e \in baseEvents(f), g \in gapsIn(f) :
             e.ts \in g.from .. g.to => Slot(f, e.ts) \in Band(f, g)
       /\ Tiles(f).active =
             Cardinality({w \in OfNode(f, Log(f).warrants) :
                             Status(w) # "expired" /\ ~PastGrace(w)})

\* The settings of the overview, evaluated once for all the states that have them.
Setting(u) == <<u.prog, u.data, u.range, u.node>>
Pages == UNION {{[DEFAULT_FILTERS(p, d) EXCEPT !.range = r, !.node = n] :
                    r \in Ranges, n \in Log([prog |-> p, data |-> d]).nodes \cup {"all"}} :
                  p \in Programs, d \in Sources}
SoundSettings == {Setting(f) : f \in {g \in Pages : NumbersAgree(g)}}

\* What the user filters is what is shown and counted.  No view shows a record
\* or a gap of a node filtered out, be it by a warrant or a session chosen
\* before the node was.  The numbers of the overview agree.  A loss named over a
\* column of the chart of app.js is hatched in that of React, and so is every
\* column with a record of the time of a gap.  A warrant is counted as active
\* when its button says that it is valid or in grace, until the grace is over:
\* the button (warrant-timeline.tsx:20) goes on saying "in grace" of a warrant
\* that the tile (overview.tsx:33) no longer counts.
FiltersHold ==
    /\ LET t == TableOf(app) IN \A x \in t.events \cup t.gaps : nodeOk(app, x)
    /\ LET t == dashTable(dash) IN \A x \in t.events \cup t.gaps : nodeOk(dash, x)
    /\ app.view = "overview" => {Setting(app), Setting(dash)} \subseteq SoundSettings

\* After a record was opened from another view the filters stay reset until
\* the user changes one: a timer of a text typed before brings nothing back.
\* The record is then in the table beside it, unless the period or the node
\* leaves it out, it is dated after NOW, or aggregates are hidden.
OpenedIsListed ==
    fresh =>
        /\ \A u \in {app, dash} :
              /\ u.verdict = "all" /\ u.hook = "all" /\ u.q = ""
              /\ u.subject \in {"all", "none"}
        /\ app.view = "search" =>
              \A e \in Opened(app) \cap Opened(dash) :
                 (e \in baseEvents(app) /\ (app.agg \/ e.hook # "agg"))
                     => e \in TableOf(app).events \cap dashTable(dash).events

\* Whether the user sees why a record is in the list.  Of what filters.ts:34
\* joins, the text that was found is in the row, but in three cases: the comm is
\* in no row, only in the panel of the record once it is opened; an inode is
\* searched by its digits and shown with separators; the note of an exec is
\* searched and displayed nowhere.
FoundIsShown ==
    app.view = "search" =>
        \A u \in {app, dash} : u.q # "" =>
            \A e \in searchEvents(u) :
                \/ u.q \in Row(u, e) \cup {e.node}
                \/ u.q = Panel(u, e).comm
                \/ u.q = Ino(e) /\ fmtN(u.q) \in Row(u, e)
                \/ e.hook = "exec" /\ u.q = e.note

\* Records are told apart by node and sequence number, which React uses as the
\* key of a row and both programs to find the record that was pressed, though
\* several warrants and sessions number the records of a node; no two have one pid.
Numbered(f) ==
    /\ Cardinality({e.id : e \in EventSet(f)}) = Len(Log(f).events)
    /\ Cardinality({e.pid : e \in EventSet(f)}) = Len(Log(f).events)

\* What is recorded under a warrant: nothing before it is issued or after it
\* is over; once it has expired no new connection is allowed; the verdict is one
\* of its mode (data.ts:74: observe only records), but for the write that the
\* observed W-4830-A1 would have been refused (data.ts:242); no write that is
\* allowed has a record of its own.
Over(w) == IF w.on_expiry = "grace" THEN w.expires + Grace ELSE w.expires
Attributed(f, w) ==
    \A e \in WarrantEvents(f, w) :
        /\ e.node = w.node /\ e.cgroup = w.cgroup /\ e.subject = w.subject
        /\ w.issued <= e.ts
        /\ e.ts <= Over(w)
        /\ (e.ts > w.expires /\ e.hook = "connect") => blocked(e)
        /\ (e.verdict = "DENY" => w.mode = "enforce")
        /\ (e.verdict = "WOULD_DENY" =>
               w.mode = "dryrun" \/ (w.id = "W-4830-A1" /\ e.what = "/tmp/pg_check.out"))
        /\ (e.hook \in OnPath => blocked(e))

\* The allowed writes are counted once for each interval that has passed of a
\* warrant that may write.
Counted(f, w) ==
    LET mine == {e \in WarrantEvents(f, w) : e.hook = "agg"}
        times == {e.ts : e \in mine}
    IN /\ mine = {} <=> ~w.writes
       /\ times = {w.issued + k * Every : k \in 1 .. Cardinality(mine)}
       /\ w.writes => LET end == Min({NOW, Over(w)})
                      IN Max(times) < end /\ end <= Max(times) + Every

SoundLogs == {<<f.prog, f.data>> : f \in {g \in [prog : Programs, data : Seeds] :
                 /\ Numbered(g)
                 /\ \A w \in WarrantSet(g) : Attributed(g, w) /\ Counted(g, w)}}

\* The mock data of both programs is one that the system it stands for can
\* record (data.ts:3), that of the seed of the programs and of each seed taken
\* beside it.
LogSound == app.data \in Seeds => {<<u.prog, u.data>> : u \in {app, dash}} \subseteq SoundLogs

\* data.ts is the TypeScript form of data.js (data.ts:1): the records under a
\* warrant are the same in both to the last sequence number, and so are the
\* sessions and their logins; their streams part only after the first session
\* has logged in, where data.js draws a number more.
Agreed ==
    {d \in Seeds :
        LET ofWarrants(p) == {e \in Records[p][d] : e.warrant # None}
            ofSessions(p) == {[s EXCEPT !.count = 0, !.last = 0] : s \in ToSet(Imported[p][d].sessions)}
            logins(p) == {[node |-> e.node, ts |-> e.ts, cgroup |-> e.cgroup, what |-> e.what] :
                             e \in {x \in Records[p][d] : x.warrant = None /\ x.what = "bash"}}
        IN /\ ofWarrants("app") = ofWarrants("dash")
           /\ ofSessions("app") = ofSessions("dash")
           /\ logins("app") = logins("dash")
           /\ Cardinality(logins("app")) = Len(warrantless)}
TwinsAgree == app.data \in Seeds => app.data \in Agreed

\* Every record without a warrant belongs to one session, whose count and last
\* activity are those of its records.  A last activity after NOW, which the
\* scripts can leave, is past every record.
SessionTold(f, s) ==
    LET mine == SessionEvents(f, s)
    IN /\ s.count = Cardinality(mine)
       /\ \A e \in mine : e.node = s.node /\ e.ts <= s.last
       /\ (s.count > 0 /\ s.last <= NOW) => \E e \in mine : e.ts = s.last
       /\ \A w \in WarrantSet(f) : w.cgroup # s.cgroup
ToldSettings ==
    {Setting(f) : f \in {g \in Pages :
        /\ \A s \in SessionSet(g) : SessionTold(g, s)
        /\ \A e \in baseEvents(g) : e.warrant = None =>
              Cardinality({s \in warrantlessIn(g) : s.cgroup = e.cgroup}) = 1}}

\* A session with a record in the period and on the node the user looks at is in
\* the list of the overview, and what is said there of a session is true of
\* its records: data.ts sets count and last by hand (data.ts:314).
SessionsTold == app.view = "overview" => {Setting(app), Setting(dash)} \subseteq ToldSettings
=============================================================================
