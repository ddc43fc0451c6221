---------------------------- MODULE Console_proofs ----------------------------
(***************************************************************************)
(* What holds of both consoles for every log that is one (LogAssumption),  *)
(* every setting and every sequence of presses, with any number of the     *)
(* last records in the overview; then what holds of the mock data of any   *)
(* seed.                                                                   *)
(***************************************************************************)
EXTENDS Console, TLAPS, FiniteSetTheorems, WellFoundedInduction

-----------------------------------------------------------------------------
(* Logs *)

AnyEvent == UNION {Records[p][d] : p \in Programs, d \in Sources}
AnyWarrant == UNION {ToSet(Logs[p][d].warrants) : p \in Programs, d \in Sources}
AnySession == UNION {ToSet(Logs[p][d].sessions) : p \in Programs, d \in Sources}
AnyNode == UNION {Logs[p][d].nodes : p \in Programs, d \in Sources}

\* The state of a program: its settings, and what it has chosen in each view.
Place == AnyNode \cup {"all"}
VerdictFilter == VerdictChoices \cup {"all"}
HookFilter == HookChoices \cup {"all"}
SubjectFilter == SubjectChoices \cup {"all", "none"}
Text == Texts \cup {""}
EventId == {e.id : e \in AnyEvent} \cup {None}
WarrantId == {w.id : w \in AnyWarrant} \cup {None}
SessionId == {s.cgroup : s \in AnySession} \cup {None}
Filters ==
  [prog : Programs, data : Sources, range : Ranges, node : Place, verdict : VerdictFilter,
   hook : HookFilter, subject : SubjectFilter, agg : BOOLEAN, q : Text, view : Views,
   selected : EventId, wlSel : SessionId, warrant : WarrantId]

\* What one program shows of its log.
LEMMA LogOf ==
  ASSUME NEW u, u.prog \in Programs, u.data \in Sources
  PROVE  /\ IsLog(Log(u))
         /\ EventSet(u) = ToSet(Log(u).events) /\ EventSet(u) \subseteq AnyEvent
         /\ WarrantSet(u) \subseteq AnyWarrant /\ SessionSet(u) \subseteq AnySession
         /\ Log(u).nodes \subseteq AnyNode
  <1>1. /\ IsLog(Logs[u.prog][u.data]) /\ Records[u.prog][u.data] = ToSet(Logs[u.prog][u.data].events)
    <2>1. IsLog(Logs[u.prog][u.data])
      BY LogAssumption
    <2>2. Records[u.prog][u.data] = ToSet(Logs[u.prog][u.data].events)
      BY DEF Records
    <2>3. QED
      BY <2>1, <2>2
  <1>2. EventSet(u) = ToSet(Log(u).events) /\ EventSet(u) \subseteq AnyEvent
    BY <1>1 DEF EventSet, Log, AnyEvent
  <1>3. WarrantSet(u) \subseteq AnyWarrant /\ SessionSet(u) \subseteq AnySession
    BY DEF WarrantSet, SessionSet, Log, AnyWarrant, AnySession
  <1>4. Log(u).nodes \subseteq AnyNode
    BY DEF Log, AnyNode
  <1>5. QED
    BY <1>1, <1>2, <1>3, <1>4 DEF Log

\* The records of a log have their types, and their ids are theirs alone.
LEMMA EventsOf ==
  ASSUME NEW u, u.prog \in Programs, u.data \in Sources, NEW e \in EventSet(u)
  PROVE  /\ IsRecord(e) /\ e.id \in EventId
         /\ \A x \in EventSet(u) : x.id = e.id => x = e
  BY LogOf DEF IsLog, Joined, EventId

\* Warrants and sessions likewise, and a record is of the node of either.
LEMMA WarrantsOf ==
  ASSUME NEW u, u.prog \in Programs, u.data \in Sources, NEW w \in WarrantSet(u)
  PROVE  /\ w # None /\ w.id # None /\ w.node \in Log(u).nodes
         /\ w.id \in WarrantId
         /\ \A x \in WarrantSet(u) : x.id = w.id => x = w
         /\ \A e \in WarrantEvents(u, w) : e.node = w.node
  <1>1. /\ w # None /\ w.id # None /\ w.node \in Log(u).nodes
        /\ w.id \in WarrantId
        /\ \A x \in WarrantSet(u) : x.id = w.id => x = w
    BY LogOf DEF IsLog, Joined, WarrantSet, WarrantId
  <1>2. ASSUME NEW e \in WarrantEvents(u, w) PROVE e.node = w.node
    <2>1. e \in EventSet(u) /\ e.warrant = w.id
      BY DEF WarrantEvents
    <2>2. \E x \in WarrantSet(u) : x.id = e.warrant /\ x.node = e.node
      BY <1>1, <2>1, LogOf DEF IsLog, Joined, WarrantSet
    <2>3. QED
      BY <1>1, <2>1, <2>2
  <1>3. QED
    BY <1>1, <1>2

LEMMA SessionsOf ==
  ASSUME NEW u, u.prog \in Programs, u.data \in Sources, NEW s \in SessionSet(u)
  PROVE  /\ s # None /\ s.cgroup # None /\ s.node \in Log(u).nodes
         /\ s.cgroup \in SessionId
         /\ \A x \in SessionSet(u) : x.cgroup = s.cgroup => x = s
         /\ \A e \in SessionEvents(u, s) : e.node = s.node
  <1>1. /\ s # None /\ s.cgroup # None /\ s.node \in Log(u).nodes
        /\ s.cgroup \in SessionId
        /\ \A x \in SessionSet(u) : x.cgroup = s.cgroup => x = s
    BY LogOf DEF IsLog, Joined, SessionSet, SessionId
  <1>2. ASSUME NEW e \in SessionEvents(u, s) PROVE e.node = s.node
    BY LogOf DEF IsLog, Joined, SessionSet, SessionEvents
  <1>3. QED
    BY <1>1, <1>2

-----------------------------------------------------------------------------
(* The first of a node *)

\* A non-empty set of naturals has a least element.
LEMMA NatLeast ==
  ASSUME NEW T, T \subseteq Nat, T # {}
  PROVE  \E x \in T : \A y \in T : x <= y
  <1> DEFINE Less == OpToRel(<, Nat)
  <1>1. IsWellFoundedOn(Less, Nat)
    BY NatLessThanWellFounded
  <1>2. \A x, y \in Nat : y < x => <<y, x>> \in Less
    BY DEF OpToRel
  <1> HIDE DEF Less
  <1>3. PICK x \in T : \A y \in T : ~(<<y, x>> \in Less)
    BY <1>1, WFMin
  <1>4. ASSUME NEW y \in T PROVE x <= y
    <2>1. x \in Nat /\ y \in Nat /\ ~(y < x)
      BY <1>2, <1>3
    <2>2. QED
      BY <2>1
  <1>5. QED
    BY <1>4

LEMMA LeastIn ==
  ASSUME NEW T, T \subseteq Nat, T # {}
  PROVE  Min(T) \in T /\ \A y \in T : Min(T) <= y
  BY NatLeast DEF Min

\* The first warrant (session) of a node is one of the node, if there is one.
LEMMA FirstIs ==
  ASSUME NEW f, NEW s, s \in Seq(ToSet(s))
  PROVE  IF OfNode(f, s) = {} THEN First(f, s) = None ELSE First(f, s) \in OfNode(f, s)
  <1> DEFINE at == {i \in DOMAIN s : nodeOk(f, s[i])}
  <1>1. DOMAIN s = 1..Len(s) /\ Len(s) \in Nat
    OBVIOUS
  <1>2. at \subseteq Nat
    BY <1>1
  <1>3. OfNode(f, s) = {s[i] : i \in at}
    BY DEF OfNode, ToSet
  <1>4. First(f, s) = IF at = {} THEN None ELSE s[Min(at)]
    BY DEF First
  <1> HIDE DEF at
  <1>5. at # {} => Min(at) \in at
    BY <1>2, LeastIn
  <1>6. QED
    BY <1>3, <1>4, <1>5

\* Of all nodes it is the first of one of them.
LEMMA FirstOfAll ==
  ASSUME NEW f, f.node = "all", NEW s, s \in Seq(ToSet(s)), s # <<>>
  PROVE  First(f, s) = s[1] /\ First([node |-> s[1].node], s) = s[1] /\ s[1] \in ToSet(s)
  <1>1. DOMAIN s = 1..Len(s) /\ Len(s) \in Nat /\ Len(s) # 0 /\ 1 \in DOMAIN s
    OBVIOUS
  <1>2. ASSUME NEW g, nodeOk(g, s[1]) PROVE First(g, s) = s[1]
    <2> DEFINE at == {i \in DOMAIN s : nodeOk(g, s[i])}
    <2>1. at \subseteq Nat /\ 1 \in at /\ \A i \in at : 1 <= i
      BY <1>1, <1>2
    <2>2. First(g, s) = IF at = {} THEN None ELSE s[Min(at)]
      BY DEF First
    <2> HIDE DEF at
    <2>3. Min(at) \in at /\ Min(at) <= 1 /\ Min(at) \in Nat
      BY <2>1, LeastIn
    <2>4. Min(at) = 1
      BY <2>1, <2>3
    <2>5. QED
      BY <2>1, <2>2, <2>4
  <1>3. nodeOk(f, s[1]) /\ nodeOk([node |-> s[1].node], s[1])
    BY DEF nodeOk
  <1>4. QED
    BY <1>1, <1>2, <1>3 DEF ToSet

-----------------------------------------------------------------------------
(* A record and how it is shown *)

\* Both programs display the same texts of a record.
LEMMA SameCell ==
  ASSUME NEW e, IsRecord(e)
  PROVE  What(e) = whatCell(e)
  <1>1. e.hook \in {"exec", "write", "unlink", "rename", "connect", "self", "agg"}
    BY DEF IsRecord, HookOrder
  <1>2. CASE e.hook = "exec"
    BY <1>2 DEF What, whatCell, inode, Shown, OnPath
  <1>3. CASE e.hook \in OnPath \cup {"connect"}
    BY <1>3 DEF What, whatCell, inode, Shown, OnPath
  <1>4. CASE e.hook \in {"self", "agg"}
    BY <1>4 DEF What, whatCell, inode, Shown, OnPath
  <1>5. QED
    BY <1>1, <1>2, <1>3, <1>4 DEF OnPath

\* ... and the same fields of it in the panel.
LEMMA SamePanel ==
  ASSUME NEW e, IsRecord(e), NEW a, NEW d, WarrantSet(a) = WarrantSet(d)
  PROVE  EventDetail(a, e) = renderDrawer(d, e)
  <1>1. e.hook \in {"exec", "write", "unlink", "rename", "connect", "self", "agg"}
    BY DEF IsRecord, HookOrder
  <1>2. ById(a, e) = ById(d, e)
    BY DEF ById
  <1>3. Shown({e.what}, e.hook \in {"exec", "connect"} \cup OnPath)
          \cup Shown({Argv(e)} \cup flags(e), e.hook = "exec") \cup inode(e)
          \cup Shown(note(e), e.hook = "self")
          = IF e.hook = "exec" THEN {e.what, fmtN(Ino(e)), Argv(e)} \cup flags(e)
            ELSE IF e.hook = "agg" THEN {}
            ELSE IF e.hook = "self" THEN note(e) ELSE {e.what} \cup inode(e)
    <2>1. CASE e.hook = "exec"
      BY <2>1 DEF inode, Shown, OnPath
    <2>2. CASE e.hook \in OnPath \cup {"connect"}
      BY <2>2 DEF inode, Shown, OnPath
    <2>3. CASE e.hook \in {"self", "agg"}
      BY <2>3 DEF inode, Shown, OnPath
    <2>4. QED
      BY <1>1, <2>1, <2>2, <2>3 DEF OnPath
  <1>4. Shown({"argv"}, e.hook = "exec") \cup Shown({"euid 0"}, e.root)
          \cup Shown({"agg"}, e.hook = "agg") \cup Shown({"dry-run"}, e.verdict = "WOULD_DENY")
          = {r \in {"argv", "euid 0", "agg", "dry-run"} :
               \/ r = "argv" /\ e.hook = "exec"
               \/ r = "euid 0" /\ e.root
               \/ r = "agg" /\ e.hook = "agg"
               \/ r = "dry-run" /\ e.verdict = "WOULD_DENY"}
    BY Zenon DEF Shown
  <1>5. QED
    BY <1>2, <1>3, <1>4 DEF EventDetail, renderDrawer

\* A text a record is found by is in its row, but for the comm, which the panel
\* has, the digits of an inode and the note of an exec.
LEMMA FoundInRow ==
  ASSUME NEW u, u.prog \in Programs, u.data \in Sources, u.q # "",
         NEW e \in searchEvents(u)
  PROVE  \/ u.q \in Row(u, e) \cup {e.node}
         \/ u.q = Panel(u, e).comm
         \/ u.q = Ino(e) /\ fmtN(u.q) \in Row(u, e)
         \/ e.hook = "exec" /\ u.q = e.note
  <1>1. e \in EventSet(u) /\ u.q \in hay(e)
    BY DEF searchEvents, baseEvents
  <1>2. IsRecord(e) /\ What(e) = whatCell(e)
    BY <1>1, EventsOf, SameCell
  <1>3. Row(u, e) = whoCell(e) \cup What(e)
    BY <1>2 DEF Row
  <1>4. e.hook \in {"exec", "write", "unlink", "rename", "connect", "self", "agg"}
    BY <1>2 DEF IsRecord, HookOrder
  <1>5. CASE u.q = e.what
    BY <1>2, <1>3, <1>4, <1>5 DEF IsRecord, What, Shown, OnPath
  <1>6. CASE u.q = e.warrant /\ e.warrant # None
    BY <1>3, <1>6 DEF whoCell
  <1>7. CASE u.q = e.subject /\ e.subject # None
    BY <1>2, <1>3, <1>7 DEF whoCell, IsRecord
  <1>8. CASE u.q = e.note /\ e.note # None
    BY <1>2, <1>3, <1>4, <1>8 DEF IsRecord, What, Shown, OnPath, note
  <1>9. CASE u.q = e.node
    BY <1>9
  <1>10. CASE u.q = Comm(e)
    BY <1>10 DEF Panel, EventDetail, renderDrawer
  <1>11. CASE u.q = Argv(e) /\ e.hook = "exec"
    BY <1>3, <1>11 DEF What, Shown
  <1>12. CASE u.q = Ino(e) /\ e.hook \in {"exec"} \cup OnPath
    BY <1>3, <1>12 DEF What, inode, Shown
  <1>13. \/ u.q \in {e.what, Comm(e), e.node}
         \/ u.q \in {e.warrant, e.subject, e.note} /\ u.q # None
         \/ u.q = Argv(e) /\ e.hook = "exec"
         \/ u.q = Ino(e) /\ e.hook \in {"exec"} \cup OnPath
    BY <1>1 DEF hay, Shown
  <1>14. QED
    BY <1>5, <1>6, <1>7, <1>8, <1>9, <1>10, <1>11, <1>12, <1>13

-----------------------------------------------------------------------------
(* The item a view shows *)

\* The rendered state of app.js: the item is of the node, or there is none.
WarrantThere(u) ==
  IF OfNode(u, Log(u).warrants) = {} THEN u.warrant = None
  ELSE \E w \in OfNode(u, Log(u).warrants) : w.id = u.warrant
SessionThere(u) ==
  IF OfNode(u, Log(u).sessions) = {} THEN u.wlSel = None
  ELSE \E s \in OfNode(u, Log(u).sessions) : s.cgroup = u.wlSel
Rendered(u) ==
  /\ u.view = "timeline" => WarrantThere(u)
  /\ u.view = "warrantless" => SessionThere(u)

\* What app.js writes over an item: the first of a node.
FirstWarrant(u, id) ==
  \E n \in Log(u).nodes : LET w == First([node |-> n], Log(u).warrants)
                          IN id = IF w = None THEN None ELSE w.id
FirstSession(u, cg) ==
  \E n \in Log(u).nodes : LET s == First([node |-> n], Log(u).sessions)
                          IN cg = IF s = None THEN None ELSE s.cgroup

LEMMA OfNodeIs ==
  ASSUME NEW u
  PROVE  /\ OfNode(u, Log(u).warrants) = {w \in WarrantSet(u) : nodeOk(u, w)}
         /\ OfNode(u, Log(u).sessions) = {s \in SessionSet(u) : nodeOk(u, s)}
  BY DEF OfNode, WarrantSet, SessionSet

\* The warrant that is shown is the chosen one, if it is of the node.
LEMMA ShownWarrantIs ==
  ASSUME NEW u, u.prog \in Programs, u.data \in Sources
  PROVE  /\ IF OfNode(u, Log(u).warrants) = {} THEN ShownWarrant(u) = None
            ELSE ShownWarrant(u) \in OfNode(u, Log(u).warrants)
         /\ \A w \in OfNode(u, Log(u).warrants) : w.id = u.warrant => ShownWarrant(u) = w
         /\ (\A w \in OfNode(u, Log(u).warrants) : w.id # u.warrant)
              => ShownWarrant(u) = First(u, Log(u).warrants)
  <1> DEFINE mine == {w \in WarrantSet(u) : nodeOk(u, w) /\ w.id = u.warrant}
             all == OfNode(u, Log(u).warrants)
             first == First(u, Log(u).warrants)
  <1>1. ShownWarrant(u) = IF mine # {} THEN CHOOSE w \in mine : TRUE ELSE first
    BY DEF ShownWarrant
  <1>2. mine = {w \in all : w.id = u.warrant}
    BY OfNodeIs
  <1>3. IF all = {} THEN first = None ELSE first \in all
    BY LogOf, FirstIs DEF IsLog
  <1>4. \A w \in mine : \A x \in mine : x = w
    BY WarrantsOf
  <1> HIDE DEF mine, all, first
  <1>5. mine # {} => (CHOOSE w \in mine : TRUE) \in mine
    OBVIOUS
  <1>6. IF all = {} THEN ShownWarrant(u) = None ELSE ShownWarrant(u) \in all
    BY <1>1, <1>2, <1>3, <1>5
  <1>7. ASSUME NEW w \in all, w.id = u.warrant PROVE ShownWarrant(u) = w
    BY <1>1, <1>2, <1>4, <1>5, <1>7
  <1>8. ASSUME \A w \in all : w.id # u.warrant PROVE ShownWarrant(u) = first
    BY <1>1, <1>2, <1>8
  <1>9. QED
    BY <1>6, <1>7, <1>8 DEF all, first

LEMMA ShownSessionIs ==
  ASSUME NEW u, u.prog \in Programs, u.data \in Sources
  PROVE  /\ IF OfNode(u, Log(u).sessions) = {} THEN ShownSession(u) = None
            ELSE ShownSession(u) \in OfNode(u, Log(u).sessions)
         /\ \A s \in OfNode(u, Log(u).sessions) : s.cgroup = u.wlSel => ShownSession(u) = s
         /\ (\A s \in OfNode(u, Log(u).sessions) : s.cgroup # u.wlSel)
              => ShownSession(u) = First(u, Log(u).sessions)
  <1> DEFINE mine == {s \in SessionSet(u) : nodeOk(u, s) /\ s.cgroup = u.wlSel}
             all == OfNode(u, Log(u).sessions)
             first == First(u, Log(u).sessions)
  <1>1. ShownSession(u) = IF mine # {} THEN CHOOSE s \in mine : TRUE ELSE first
    BY DEF ShownSession
  <1>2. mine = {s \in all : s.cgroup = u.wlSel}
    BY OfNodeIs
  <1>3. IF all = {} THEN first = None ELSE first \in all
    BY LogOf, FirstIs DEF IsLog
  <1>4. \A s \in mine : \A x \in mine : x = s
    BY SessionsOf
  <1> HIDE DEF mine, all, first
  <1>5. mine # {} => (CHOOSE s \in mine : TRUE) \in mine
    OBVIOUS
  <1>6. IF all = {} THEN ShownSession(u) = None ELSE ShownSession(u) \in all
    BY <1>1, <1>2, <1>3, <1>5
  <1>7. ASSUME NEW s \in all, s.cgroup = u.wlSel PROVE ShownSession(u) = s
    BY <1>1, <1>2, <1>4, <1>5, <1>7
  <1>8. ASSUME \A s \in all : s.cgroup # u.wlSel PROVE ShownSession(u) = first
    BY <1>1, <1>2, <1>8
  <1>9. QED
    BY <1>6, <1>7, <1>8 DEF all, first

\* What app.js falls back to is the first of a node, of whichever it looks at.
LEMMA FallbackIsFirst ==
  ASSUME NEW u, u.prog \in Programs, u.data \in Sources, u.node \in Log(u).nodes \cup {"all"}
  PROVE  /\ FirstWarrant(u, LET w == First(u, Log(u).warrants) IN IF w = None THEN None ELSE w.id)
         /\ FirstSession(u, LET s == First(u, Log(u).sessions) IN IF s = None THEN None ELSE s.cgroup)
  <1>1. ASSUME NEW s PROVE First([node |-> u.node], s) = First(u, s)
    BY DEF First, nodeOk
  <1>2. CASE u.node \in Log(u).nodes
    BY <1>1, <1>2 DEF FirstWarrant, FirstSession
  <1>3. CASE u.node = "all"
    <2> DEFINE ws == Log(u).warrants
               ss == Log(u).sessions
    <2>1. ws \in Seq(ToSet(ws)) /\ ws # <<>> /\ ss \in Seq(ToSet(ss))
      BY LogOf DEF IsLog
    <2>2. /\ First(u, ws) = ws[1] /\ First([node |-> ws[1].node], ws) = ws[1]
          /\ ws[1] \in ToSet(ws)
      <3> HIDE DEF ws
      <3>1. QED
        BY <1>3, <2>1, FirstOfAll
    <2>3. ws[1].node \in Log(u).nodes
      BY <2>2, WarrantsOf DEF WarrantSet
    <2>4. FirstWarrant(u, LET w == First(u, ws) IN IF w = None THEN None ELSE w.id)
      BY <2>2, <2>3 DEF FirstWarrant
    <2>5. FirstSession(u, LET s == First(u, ss) IN IF s = None THEN None ELSE s.cgroup)
      <3>1. CASE ss # <<>>
        <4>1. /\ First(u, ss) = ss[1] /\ First([node |-> ss[1].node], ss) = ss[1]
              /\ ss[1] \in ToSet(ss)
          <5> HIDE DEF ss
          <5>1. QED
            BY <1>3, <2>1, <3>1, FirstOfAll
        <4>2. ss[1].node \in Log(u).nodes
          BY <4>1, SessionsOf DEF SessionSet
        <4>3. QED
          BY <4>1, <4>2 DEF FirstSession
      <3>2. CASE ss = <<>>
        <4>1. ASSUME NEW g PROVE First(g, ss) = None
          <5>1. DOMAIN ss = {}
            BY <3>2
          <5> HIDE DEF ss
          <5>2. {i \in DOMAIN ss : nodeOk(g, ss[i])} = {}
            BY <5>1
          <5>3. QED
            BY <5>2 DEF First
        <4>2. QED
          BY <2>3, <4>1 DEF FirstSession
      <3>3. QED
        BY <3>1, <3>2
    <2>6. QED
      BY <2>4, <2>5
  <1>4. QED
    BY <1>2, <1>3

\* Rendering: the item of the view is there, kept or the first of a node, and
\* nothing else is written.
Kept(u, v) ==
  /\ v.prog = u.prog /\ v.data = u.data /\ v.range = u.range /\ v.node = u.node
  /\ v.verdict = u.verdict /\ v.hook = u.hook /\ v.subject = u.subject /\ v.agg = u.agg
  /\ v.q = u.q /\ v.view = u.view /\ v.selected = u.selected

LEMMA RenderTimelineIs ==
  ASSUME NEW u \in Filters, u.node \in Log(u).nodes \cup {"all"}, u.view = "timeline",
         NEW v, v = renderTimeline(u)
  PROVE  /\ v \in Filters /\ Kept(u, v) /\ Rendered(v) /\ v.wlSel = u.wlSel
         /\ v.warrant = u.warrant \/ FirstWarrant(u, v.warrant)
  <1> DEFINE id == IF ShownWarrant(u) = None THEN None ELSE ShownWarrant(u).id
  <1>1. u.prog \in Programs /\ u.data \in Sources
    BY DEF Filters
  <1>2. v = [u EXCEPT !.warrant = id]
    BY DEF renderTimeline
  <1>3. id \in WarrantId
    BY <1>1, ShownWarrantIs, OfNodeIs, WarrantsOf DEF WarrantId
  <1>4. IF OfNode(u, Log(u).warrants) = {} THEN id = None
        ELSE \E w \in OfNode(u, Log(u).warrants) : w.id = id
    BY <1>1, ShownWarrantIs, OfNodeIs, WarrantsOf
  <1>5. id = u.warrant \/ FirstWarrant(u, id)
    <2>1. CASE \E w \in OfNode(u, Log(u).warrants) : w.id = u.warrant
      BY <1>1, <2>1, ShownWarrantIs, OfNodeIs, WarrantsOf
    <2>2. CASE \A w \in OfNode(u, Log(u).warrants) : w.id # u.warrant
      <3>1. ShownWarrant(u) = First(u, Log(u).warrants)
        BY <1>1, <2>2, ShownWarrantIs
      <3>2. QED
        BY <1>1, <3>1, FallbackIsFirst
    <2>3. QED
      BY <2>1, <2>2
  <1> HIDE DEF id
  <1>6. v \in Filters /\ Kept(u, v) /\ v.wlSel = u.wlSel /\ v.warrant = id
    BY <1>2, <1>3 DEF Filters, Kept
  <1>7. Log(v) = Log(u) /\ OfNode(v, Log(v).warrants) = OfNode(u, Log(u).warrants)
    BY <1>6 DEF Kept, Log, OfNode, nodeOk
  <1>8. Rendered(v)
    BY <1>4, <1>6, <1>7 DEF Rendered, WarrantThere, Kept
  <1>9. QED
    BY <1>5, <1>6, <1>8

LEMMA RenderWarrantlessIs ==
  ASSUME NEW u \in Filters, u.node \in Log(u).nodes \cup {"all"}, u.view = "warrantless",
         NEW v, v = renderWarrantless(u)
  PROVE  /\ v \in Filters /\ Kept(u, v) /\ Rendered(v) /\ v.warrant = u.warrant
         /\ v.wlSel = u.wlSel \/ FirstSession(u, v.wlSel)
  <1> DEFINE cg == IF ShownSession(u) = None THEN None ELSE ShownSession(u).cgroup
  <1>1. u.prog \in Programs /\ u.data \in Sources
    BY DEF Filters
  <1>2. v = [u EXCEPT !.wlSel = cg]
    BY DEF renderWarrantless
  <1>3. cg \in SessionId
    BY <1>1, ShownSessionIs, OfNodeIs, SessionsOf DEF SessionId
  <1>4. IF OfNode(u, Log(u).sessions) = {} THEN cg = None
        ELSE \E s \in OfNode(u, Log(u).sessions) : s.cgroup = cg
    BY <1>1, ShownSessionIs, OfNodeIs, SessionsOf
  <1>5. cg = u.wlSel \/ FirstSession(u, cg)
    <2>1. CASE \E s \in OfNode(u, Log(u).sessions) : s.cgroup = u.wlSel
      BY <1>1, <2>1, ShownSessionIs, OfNodeIs, SessionsOf
    <2>2. CASE \A s \in OfNode(u, Log(u).sessions) : s.cgroup # u.wlSel
      <3>1. ShownSession(u) = First(u, Log(u).sessions)
        BY <1>1, <2>2, ShownSessionIs
      <3>2. QED
        BY <1>1, <3>1, FallbackIsFirst
    <2>3. QED
      BY <2>1, <2>2
  <1> HIDE DEF cg
  <1>6. v \in Filters /\ Kept(u, v) /\ v.warrant = u.warrant /\ v.wlSel = cg
    BY <1>2, <1>3 DEF Filters, Kept
  <1>7. Log(v) = Log(u) /\ OfNode(v, Log(v).sessions) = OfNode(u, Log(u).sessions)
    BY <1>6 DEF Kept, Log, OfNode, nodeOk
  <1>8. Rendered(v)
    BY <1>4, <1>6, <1>7 DEF Rendered, SessionThere, Kept
  <1>9. QED
    BY <1>5, <1>6, <1>8

LEMMA RenderIs ==
  ASSUME NEW u \in Filters, u.node \in Log(u).nodes \cup {"all"}, NEW v, v = render(u)
  PROVE  /\ v \in Filters /\ Kept(u, v) /\ Rendered(v)
         /\ v.warrant = u.warrant \/ FirstWarrant(u, v.warrant)
         /\ v.wlSel = u.wlSel \/ FirstSession(u, v.wlSel)
  <1>1. CASE u.view = "timeline"
    <2>1. v = renderTimeline(u)
      BY <1>1 DEF render
    <2>2. QED
      BY <1>1, <2>1, RenderTimelineIs
  <1>2. CASE u.view = "warrantless"
    <2>1. v = renderWarrantless(u)
      BY <1>2 DEF render
    <2>2. QED
      BY <1>2, <2>1, RenderWarrantlessIs
  <1>3. CASE u.view \notin {"timeline", "warrantless"}
    <2>1. v = u
      BY <1>3 DEF render
    <2>2. QED
      BY <1>3, <2>1 DEF Kept, Rendered
  <1>4. QED
    BY <1>1, <1>2, <1>3

-----------------------------------------------------------------------------
(* The inductive invariant *)

\* What both programs agree in: all but the text, which waits in app.js, and
\* the items, which app.js overwrites with the first of a node.
Alike(a, d) ==
  /\ d.data = a.data /\ d.range = a.range /\ d.node = a.node /\ d.view = a.view
  /\ d.selected = a.selected /\ d.verdict = a.verdict /\ d.hook = a.hook
  /\ d.subject = a.subject /\ d.agg = a.agg
Items(a, d) ==
  /\ d.warrant = a.warrant \/ FirstWarrant(d, d.warrant)
  /\ d.wlSel = a.wlSel \/ FirstSession(d, d.wlSel)
Both(a, d) ==
  /\ a \in Filters /\ d \in Filters /\ a.prog = "app" /\ d.prog = "dash"
  /\ d.node \in Log(d).nodes \cup {"all"}
  /\ Alike(a, d) /\ Items(a, d)

\* The controls of app.js, in step with its state but for a text that waits.
Settings ==
  [verdict : VerdictFilter, hook : HookFilter, subject : SubjectFilter, agg : BOOLEAN,
   q : Text]
Boxed ==
  /\ box \in Settings
  /\ box.verdict = dash.verdict /\ box.hook = dash.hook /\ box.subject = dash.subject
  /\ box.agg = dash.agg /\ (~timer => box.q = dash.q)

\* Nothing is filtered after a record was opened, no text waits, and the subject
\* is one that the record has.
Reset ==
  fresh =>
    /\ app.verdict = "all" /\ app.hook = "all" /\ app.subject \in {"all", "none"}
    /\ app.q = "" /\ dash.q = "" /\ box.q = ""
    /\ app.subject = "none" => \A e \in Opened(app) : e.warrant = None

IInv ==
  /\ Both(app, dash) /\ Rendered(dash)
  /\ timer \in BOOLEAN /\ fresh \in BOOLEAN
  /\ Boxed /\ Reset

\* Of two programs that agree the logs are alike.
LEMMA TwinLogs ==
  ASSUME NEW a, NEW d, Both(a, d)
  PROVE  /\ a.prog \in Programs /\ d.prog \in Programs /\ a.data \in Sources /\ d.data \in Sources
         /\ Log(a).nodes = Log(d).nodes /\ Log(a).warrants = Log(d).warrants
         /\ Log(a).gaps = Log(d).gaps /\ WarrantSet(a) = WarrantSet(d)
         /\ {<<s.node, s.cgroup>> : s \in SessionSet(a)} = {<<s.node, s.cgroup>> : s \in SessionSet(d)}
         /\ Blocked[a.prog][a.data] = Blocked[d.prog][d.data]
  <1>1. a.prog = "app" /\ d.prog = "dash" /\ d.data = a.data /\ a.data \in Sources
    BY DEF Both, Alike, Filters
  <1> DEFINE A == Logs["app"][a.data]
             D == Logs["dash"][a.data]
  <1>2. Log(a) = A /\ Log(d) = D
    BY <1>1 DEF Log
  <1>3. /\ A.nodes = D.nodes /\ A.warrants = D.warrants /\ A.gaps = D.gaps
        /\ Len(A.sessions) = Len(D.sessions)
        /\ \A i \in DOMAIN A.sessions : /\ A.sessions[i].node = D.sessions[i].node
                                        /\ A.sessions[i].cgroup = D.sessions[i].cgroup
        /\ Blocked["app"][a.data] = Blocked["dash"][a.data]
    BY <1>1, TwinAssumption
  <1>4. "app" \in Programs /\ "dash" \in Programs
    BY DEF Programs
  <1>5. DOMAIN A.sessions = DOMAIN D.sessions
    <2>1. IsLog(A) /\ IsLog(D)
      BY <1>1, <1>4, LogAssumption
    <2> HIDE DEF A, D
    <2>2. DOMAIN A.sessions = 1..Len(A.sessions) /\ DOMAIN D.sessions = 1..Len(D.sessions)
      BY <2>1 DEF IsLog
    <2>3. QED
      BY <1>3, <2>2
  <1> HIDE DEF A, D
  <1>6. {<<s.node, s.cgroup>> : s \in SessionSet(a)} = {<<s.node, s.cgroup>> : s \in SessionSet(d)}
    <2>1. SessionSet(a) = {A.sessions[i] : i \in DOMAIN A.sessions}
      BY <1>2 DEF SessionSet, ToSet
    <2>2. SessionSet(d) = {D.sessions[i] : i \in DOMAIN A.sessions}
      BY <1>2, <1>5 DEF SessionSet, ToSet
    <2>3. QED
      BY <1>3, <2>1, <2>2
  <1>7. QED
    BY <1>1, <1>2, <1>3, <1>4, <1>6 DEF WarrantSet

\* A step whose new states agree before app.js renders agrees afterwards.
LEMMA RenderBoth ==
  ASSUME NEW a, NEW u, Both(a, u), NEW v, v = render(u)
  PROVE  Both(a, v) /\ Rendered(v) /\ Kept(u, v)
  <1>1. /\ v \in Filters /\ Kept(u, v) /\ Rendered(v)
        /\ v.warrant = u.warrant \/ FirstWarrant(u, v.warrant)
        /\ v.wlSel = u.wlSel \/ FirstSession(u, v.wlSel)
    BY RenderIs DEF Both
  <1>2. Log(v) = Log(u)
    BY <1>1 DEF Kept, Log
  <1>3. Items(a, v)
    BY <1>1, <1>2 DEF Both, Items, FirstWarrant, FirstSession
  <1>4. Alike(a, v) /\ v.prog = "dash" /\ v.node \in Log(v).nodes \cup {"all"}
    BY <1>1, <1>2 DEF Both, Alike, Kept
  <1>5. QED
    BY <1>1, <1>3, <1>4 DEF Both

\* Setting the same fields in both keeps them in agreement.
LEMMA SetBoth ==
  ASSUME NEW a, NEW d, Both(a, d), NEW b, NEW u, b \in Filters, u \in Filters,
         b.prog = "app", u.prog = "dash", u.data = d.data, Alike(b, u),
         u.node \in Log(d).nodes \cup {"all"},
         u.warrant = b.warrant \/ (u.warrant = d.warrant /\ b.warrant = a.warrant),
         u.wlSel = b.wlSel \/ (u.wlSel = d.wlSel /\ b.wlSel = a.wlSel)
  PROVE  Both(b, u)
  <1>1. Log(u) = Log(d)
    BY DEF Both, Log
  <1>2. Items(b, u)
    BY <1>1 DEF Both, Items, FirstWarrant, FirstSession
  <1>3. QED
    BY <1>1, <1>2 DEF Both

-----------------------------------------------------------------------------
(* The steps *)

\* What the controls are set to is the state.
LEMMA ControlsBoxed ==
  ASSUME NEW u \in Filters, NEW v \in Filters, Kept(u, v), NEW c, c = Controls(u)
  PROVE  /\ c \in Settings
         /\ c.verdict = v.verdict /\ c.hook = v.hook /\ c.subject = v.subject
         /\ c.agg = v.agg /\ c.q = v.q
  BY DEF Filters, Kept, Controls, Settings

\* The record that is open depends on nothing but the log and the id.
LEMMA OpenedSame ==
  ASSUME NEW a, NEW b, b.prog = a.prog, b.data = a.data, b.selected = a.selected
  PROVE  Opened(b) = Opened(a)
  BY DEF Opened, EventSet

LEMMA StepNav ==
  ASSUME IInv, NEW v \in Views, Nav(v)
  PROVE  IInv'
  <1> DEFINE b == [app EXCEPT !.view = v]
             u == [dash EXCEPT !.view = v]
  <1>1. app' = b /\ dash' = render(u) /\ box' = Controls(u) /\ timer' = timer /\ fresh' = fresh
    BY DEF Nav, setView
  <1>2. app \in Filters /\ dash \in Filters /\ Both(app, dash)
    BY DEF IInv, Both
  <1>3. b \in Filters /\ u \in Filters
    <2>1. b \in Filters
      BY <1>2 DEF Filters
    <2>2. u \in Filters
      BY <1>2 DEF Filters
    <2>3. QED
      BY <2>1, <2>2
  <1>4. /\ b.prog = "app" /\ u.prog = "dash" /\ u.data = dash.data /\ Alike(b, u)
        /\ u.node = dash.node /\ u.warrant = dash.warrant /\ b.warrant = app.warrant
        /\ u.wlSel = dash.wlSel /\ b.wlSel = app.wlSel
        /\ b.data = app.data /\ b.selected = app.selected
        /\ b.verdict = app.verdict /\ b.hook = app.hook /\ b.subject = app.subject
        /\ b.q = app.q /\ u.q = dash.q
    BY <1>2 DEF Both, Alike, Filters
  <1> HIDE DEF b, u
  <1>5. Both(b, u)
    BY <1>2, <1>3, <1>4, SetBoth DEF Both
  <1>6. Both(app', dash') /\ Rendered(dash)' /\ Kept(u, dash')
    BY <1>1, <1>5, RenderBoth DEF Rendered, WarrantThere, SessionThere, Log
  <1>7. Boxed'
    <2>1. dash' \in Filters
      BY <1>6 DEF Both
    <2>2. /\ box' \in Settings
          /\ box'.verdict = dash'.verdict /\ box'.hook = dash'.hook
          /\ box'.subject = dash'.subject /\ box'.agg = dash'.agg /\ box'.q = dash'.q
      BY <1>1, <1>3, <1>6, <2>1, ControlsBoxed
    <2>3. QED
      BY <2>2 DEF Boxed
  <1>8. Reset'
    <2>1. Opened(app)' = Opened(app)
      BY <1>1, <1>2, <1>4, OpenedSame DEF Both
    <2>2. QED
      BY <1>1, <1>4, <1>6, <2>1 DEF IInv, Reset, Kept, Controls, Boxed
  <1>9. QED
    BY <1>1, <1>6, <1>7, <1>8 DEF IInv

\* What every step shows of the pages: both states agree, app.js has rendered its own.
LEMMA Rerendered ==
  ASSUME IInv, NEW b \in Filters, NEW u \in Filters, app' = b, dash' = render(u),
         b.prog = "app", u.prog = "dash", u.data = dash.data, Alike(b, u),
         u.node \in Log(dash).nodes \cup {"all"},
         u.warrant = b.warrant \/ (u.warrant = dash.warrant /\ b.warrant = app.warrant),
         u.wlSel = b.wlSel \/ (u.wlSel = dash.wlSel /\ b.wlSel = app.wlSel)
  PROVE  Both(app, dash)' /\ Rendered(dash)' /\ Kept(u, dash') /\ dash' \in Filters
  <1>1. Both(b, u)
    BY SetBoth DEF IInv
  <1>2. Both(b, dash') /\ Rendered(dash') /\ Kept(u, dash')
    BY <1>1, RenderBoth
  <1>3. QED
    BY <1>2 DEF Rendered, WarrantThere, SessionThere, Log, Both

\* The open record and the filters of it, when the step leaves them alone.
LEMMA ResetStays ==
  ASSUME IInv, app'.prog = app.prog, app'.data = app.data, app'.selected = app.selected,
         app'.verdict = app.verdict, app'.hook = app.hook, app'.subject = app.subject,
         app'.q = app.q, dash'.q \in {dash.q, box.q}, box'.q \in {dash.q, box.q}, fresh' => fresh
  PROVE  Reset'
  <1>1. Opened(app)' = Opened(app)
    BY OpenedSame
  <1>2. QED
    BY <1>1 DEF IInv, Reset

\* The controls of app.js, when none of them is touched.
LEMMA BoxStays ==
  ASSUME IInv, box' = box, timer' = timer, dash'.verdict = dash.verdict,
         dash'.hook = dash.hook, dash'.subject = dash.subject, dash'.agg = dash.agg,
         dash'.q = dash.q
  PROVE  Boxed'
  BY DEF IInv, Boxed

LEMMA StepSetRange ==
  ASSUME IInv, NEW r \in Ranges, SetRange(r)
  PROVE  IInv'
  <1> DEFINE b == [app EXCEPT !.range = r]
             u == [dash EXCEPT !.range = r]
  <1>1. app' = b /\ dash' = render(u) /\ box' = box /\ timer' = timer /\ fresh' = fresh
    BY DEF SetRange, change
  <1>2. app \in Filters /\ dash \in Filters /\ Both(app, dash)
    BY DEF IInv, Both
  <1>3. r \in Ranges
    OBVIOUS
  <1>4. b \in Filters
    BY <1>2, <1>3 DEF Filters
  <1>5. u \in Filters
    BY <1>2, <1>3 DEF Filters
  <1>6. /\ b.prog = "app" /\ u.prog = "dash" /\ u.data = dash.data /\ Alike(b, u)
        /\ u.node \in Log(dash).nodes \cup {"all"}
        /\ u.warrant = dash.warrant /\ b.warrant = app.warrant
        /\ u.wlSel = dash.wlSel /\ b.wlSel = app.wlSel
        /\ b.data = app.data /\ b.selected = app.selected /\ app.prog = "app"
        /\ b.verdict = app.verdict /\ b.hook = app.hook /\ b.subject = app.subject
        /\ b.q = app.q /\ u.q = dash.q /\ u.verdict = dash.verdict /\ u.hook = dash.hook
        /\ u.subject = dash.subject /\ u.agg = dash.agg
    BY <1>2, <1>3 DEF Both, Alike, Filters
  <1> HIDE DEF b, u
  <1>7. Both(app, dash)' /\ Rendered(dash)' /\ Kept(u, dash')
    BY <1>1, <1>4, <1>5, <1>6, Rerendered
  <1>8. Boxed'
    BY <1>1, <1>6, <1>7, BoxStays DEF Kept
  <1>9. Reset'
    BY <1>1, <1>6, <1>7, ResetStays DEF Kept
  <1>10. QED
    BY <1>1, <1>7, <1>8, <1>9 DEF IInv

LEMMA StepSetNode ==
  ASSUME IInv, NEW n \in Log(app).nodes \cup {"all"}, SetNode(n)
  PROVE  IInv'
  <1> DEFINE b == [app EXCEPT !.node = n]
             u == [dash EXCEPT !.node = n]
  <1>1. app' = b /\ dash' = render(u) /\ box' = box /\ timer' = timer /\ fresh' = fresh
    BY DEF SetNode, change
  <1>2. app \in Filters /\ dash \in Filters /\ Both(app, dash)
    BY DEF IInv, Both
  <1>3. n \in Place /\ n \in Log(dash).nodes \cup {"all"}
    BY <1>2, TwinLogs, LogOf DEF Place
  <1>4. b \in Filters
    BY <1>2, <1>3 DEF Filters
  <1>5. u \in Filters
    BY <1>2, <1>3 DEF Filters
  <1>6. /\ b.prog = "app" /\ u.prog = "dash" /\ u.data = dash.data /\ Alike(b, u)
        /\ u.node \in Log(dash).nodes \cup {"all"}
        /\ u.warrant = dash.warrant /\ b.warrant = app.warrant
        /\ u.wlSel = dash.wlSel /\ b.wlSel = app.wlSel
        /\ b.data = app.data /\ b.selected = app.selected /\ app.prog = "app"
        /\ b.verdict = app.verdict /\ b.hook = app.hook /\ b.subject = app.subject
        /\ b.q = app.q /\ u.q = dash.q /\ u.verdict = dash.verdict /\ u.hook = dash.hook
        /\ u.subject = dash.subject /\ u.agg = dash.agg
    BY <1>2, <1>3 DEF Both, Alike, Filters
  <1> HIDE DEF b, u
  <1>7. Both(app, dash)' /\ Rendered(dash)' /\ Kept(u, dash')
    BY <1>1, <1>4, <1>5, <1>6, Rerendered
  <1>8. Boxed'
    BY <1>1, <1>6, <1>7, BoxStays DEF Kept
  <1>9. Reset'
    BY <1>1, <1>6, <1>7, ResetStays DEF Kept
  <1>10. QED
    BY <1>1, <1>7, <1>8, <1>9 DEF IInv

LEMMA StepSetVerdict ==
  ASSUME IInv, NEW v \in VerdictChoices, SetVerdict(v)
  PROVE  IInv'
  <1> DEFINE b == [app EXCEPT !.verdict = v]
             u == [dash EXCEPT !.verdict = v]
             c == [box EXCEPT !.verdict = v]
  <1>1. /\ app' = b /\ dash' = render(u) /\ box' = c /\ timer' = timer
        /\ fresh' = FALSE
    BY DEF SetVerdict, SetControl, IInv
  <1>2. app \in Filters /\ dash \in Filters /\ Both(app, dash) /\ Boxed
    BY DEF IInv, Both
  <1>3. v \in VerdictFilter
    BY DEF VerdictFilter
  <1>4. b \in Filters
    BY <1>2, <1>3 DEF Filters
  <1>5. u \in Filters
    BY <1>2, <1>3 DEF Filters
  <1>6. /\ b.prog = "app" /\ u.prog = "dash" /\ u.data = dash.data /\ Alike(b, u)
        /\ u.node \in Log(dash).nodes \cup {"all"}
        /\ u.warrant = dash.warrant /\ b.warrant = app.warrant
        /\ u.wlSel = dash.wlSel /\ b.wlSel = app.wlSel
    BY <1>2 DEF Both, Alike, Filters
  <1>7. /\ c \in Settings /\ c.verdict = u.verdict /\ c.hook = u.hook /\ c.subject = u.subject
        /\ c.agg = u.agg /\ c.q = box.q /\ u.q = dash.q
    BY <1>2, <1>3 DEF Boxed, Settings, Filters
  <1>8. /\ b.data = app.data /\ b.selected = app.selected /\ b.q = app.q
        /\ app.prog = "app"
    BY <1>2 DEF Filters, Both
  <1> HIDE DEF b, u, c
  <1>9. Both(app, dash)' /\ Rendered(dash)' /\ Kept(u, dash')
    BY <1>1, <1>4, <1>5, <1>6, Rerendered
  <1>10. Boxed'
    BY <1>1, <1>2, <1>7, <1>9 DEF Boxed, Kept
  <1>11. Reset'
    BY <1>1 DEF Reset
  <1>12. fresh' \in BOOLEAN /\ timer' \in BOOLEAN
    BY <1>1 DEF IInv
  <1>13. QED
    BY <1>9, <1>10, <1>11, <1>12 DEF IInv

LEMMA StepSetHook ==
  ASSUME IInv, NEW v \in HookChoices, SetHook(v)
  PROVE  IInv'
  <1> DEFINE b == [app EXCEPT !.hook = v]
             u == [dash EXCEPT !.hook = v]
             c == [box EXCEPT !.hook = v]
  <1>1. /\ app' = b /\ dash' = render(u) /\ box' = c /\ timer' = timer
        /\ fresh' = FALSE
    BY DEF SetHook, SetControl, IInv
  <1>2. app \in Filters /\ dash \in Filters /\ Both(app, dash) /\ Boxed
    BY DEF IInv, Both
  <1>3. v \in HookFilter
    BY DEF HookFilter
  <1>4. b \in Filters
    BY <1>2, <1>3 DEF Filters
  <1>5. u \in Filters
    BY <1>2, <1>3 DEF Filters
  <1>6. /\ b.prog = "app" /\ u.prog = "dash" /\ u.data = dash.data /\ Alike(b, u)
        /\ u.node \in Log(dash).nodes \cup {"all"}
        /\ u.warrant = dash.warrant /\ b.warrant = app.warrant
        /\ u.wlSel = dash.wlSel /\ b.wlSel = app.wlSel
    BY <1>2 DEF Both, Alike, Filters
  <1>7. /\ c \in Settings /\ c.verdict = u.verdict /\ c.hook = u.hook /\ c.subject = u.subject
        /\ c.agg = u.agg /\ c.q = box.q /\ u.q = dash.q
    BY <1>2, <1>3 DEF Boxed, Settings, Filters
  <1>8. /\ b.data = app.data /\ b.selected = app.selected /\ b.q = app.q
        /\ app.prog = "app"
    BY <1>2 DEF Filters, Both
  <1> HIDE DEF b, u, c
  <1>9. Both(app, dash)' /\ Rendered(dash)' /\ Kept(u, dash')
    BY <1>1, <1>4, <1>5, <1>6, Rerendered
  <1>10. Boxed'
    BY <1>1, <1>2, <1>7, <1>9 DEF Boxed, Kept
  <1>11. Reset'
    BY <1>1 DEF Reset
  <1>12. fresh' \in BOOLEAN /\ timer' \in BOOLEAN
    BY <1>1 DEF IInv
  <1>13. QED
    BY <1>9, <1>10, <1>11, <1>12 DEF IInv

LEMMA StepSetSubject ==
  ASSUME IInv, NEW v \in SubjectChoices, SetSubject(v)
  PROVE  IInv'
  <1> DEFINE b == [app EXCEPT !.subject = v]
             u == [dash EXCEPT !.subject = v]
             c == [box EXCEPT !.subject = v]
  <1>1. /\ app' = b /\ dash' = render(u) /\ box' = c /\ timer' = timer
        /\ fresh' = FALSE
    BY DEF SetSubject, SetControl, IInv
  <1>2. app \in Filters /\ dash \in Filters /\ Both(app, dash) /\ Boxed
    BY DEF IInv, Both
  <1>3. v \in SubjectFilter
    BY DEF SubjectFilter
  <1>4. b \in Filters
    BY <1>2, <1>3 DEF Filters
  <1>5. u \in Filters
    BY <1>2, <1>3 DEF Filters
  <1>6. /\ b.prog = "app" /\ u.prog = "dash" /\ u.data = dash.data /\ Alike(b, u)
        /\ u.node \in Log(dash).nodes \cup {"all"}
        /\ u.warrant = dash.warrant /\ b.warrant = app.warrant
        /\ u.wlSel = dash.wlSel /\ b.wlSel = app.wlSel
    BY <1>2 DEF Both, Alike, Filters
  <1>7. /\ c \in Settings /\ c.verdict = u.verdict /\ c.hook = u.hook /\ c.subject = u.subject
        /\ c.agg = u.agg /\ c.q = box.q /\ u.q = dash.q
    BY <1>2, <1>3 DEF Boxed, Settings, Filters
  <1>8. /\ b.data = app.data /\ b.selected = app.selected /\ b.q = app.q
        /\ app.prog = "app"
    BY <1>2 DEF Filters, Both
  <1> HIDE DEF b, u, c
  <1>9. Both(app, dash)' /\ Rendered(dash)' /\ Kept(u, dash')
    BY <1>1, <1>4, <1>5, <1>6, Rerendered
  <1>10. Boxed'
    BY <1>1, <1>2, <1>7, <1>9 DEF Boxed, Kept
  <1>11. Reset'
    BY <1>1 DEF Reset
  <1>12. fresh' \in BOOLEAN /\ timer' \in BOOLEAN
    BY <1>1 DEF IInv
  <1>13. QED
    BY <1>9, <1>10, <1>11, <1>12 DEF IInv

LEMMA StepSetAgg ==
  ASSUME IInv, NEW v \in BOOLEAN, SetAgg(v)
  PROVE  IInv'
  <1> DEFINE b == [app EXCEPT !.agg = v]
             u == [dash EXCEPT !.agg = v]
             c == [box EXCEPT !.agg = v]
  <1>1. /\ app' = b /\ dash' = render(u) /\ box' = c /\ timer' = timer
        /\ fresh' = fresh
    BY DEF SetAgg, SetControl, IInv
  <1>2. app \in Filters /\ dash \in Filters /\ Both(app, dash) /\ Boxed
    BY DEF IInv, Both
  <1>3. v \in BOOLEAN
    OBVIOUS
  <1>4. b \in Filters
    BY <1>2, <1>3 DEF Filters
  <1>5. u \in Filters
    BY <1>2, <1>3 DEF Filters
  <1>6. /\ b.prog = "app" /\ u.prog = "dash" /\ u.data = dash.data /\ Alike(b, u)
        /\ u.node \in Log(dash).nodes \cup {"all"}
        /\ u.warrant = dash.warrant /\ b.warrant = app.warrant
        /\ u.wlSel = dash.wlSel /\ b.wlSel = app.wlSel
    BY <1>2 DEF Both, Alike, Filters
  <1>7. /\ c \in Settings /\ c.verdict = u.verdict /\ c.hook = u.hook /\ c.subject = u.subject
        /\ c.agg = u.agg /\ c.q = box.q /\ u.q = dash.q
    BY <1>2, <1>3 DEF Boxed, Settings, Filters
  <1>8. /\ b.data = app.data /\ b.selected = app.selected /\ b.q = app.q
        /\ app.prog = "app"
        /\ b.verdict = app.verdict /\ b.hook = app.hook /\ b.subject = app.subject
    BY <1>2 DEF Filters, Both
  <1> HIDE DEF b, u, c
  <1>9. Both(app, dash)' /\ Rendered(dash)' /\ Kept(u, dash')
    BY <1>1, <1>4, <1>5, <1>6, Rerendered
  <1>10. Boxed'
    BY <1>1, <1>2, <1>7, <1>9 DEF Boxed, Kept
  <1>11. Reset'
    BY <1>1, <1>6, <1>7, <1>8, <1>9, ResetStays DEF Kept
  <1>12. fresh' \in BOOLEAN /\ timer' \in BOOLEAN
    BY <1>1 DEF IInv
  <1>13. QED
    BY <1>9, <1>10, <1>11, <1>12 DEF IInv

LEMMA StepType ==
  ASSUME IInv, NEW t \in Texts, Type(t)
  PROVE  IInv'
  <1> DEFINE b == [app EXCEPT !.q = t]
             c == [box EXCEPT !.q = t]
  <1>1. app' = b /\ dash' = dash /\ box' = c /\ timer' = TRUE /\ fresh' = FALSE
    BY DEF Type
  <1>2. app \in Filters /\ dash \in Filters /\ Both(app, dash) /\ Boxed /\ Rendered(dash)
    BY DEF IInv, Both
  <1>3. t \in Text
    BY DEF Text
  <1>4. b \in Filters
    BY <1>2, <1>3 DEF Filters
  <1>5. /\ b.prog = "app" /\ dash.prog = "dash" /\ Alike(b, dash)
        /\ dash.node \in Log(dash).nodes \cup {"all"}
        /\ b.warrant = app.warrant /\ b.wlSel = app.wlSel
    BY <1>2 DEF Both, Alike, Filters
  <1>6. /\ c \in Settings /\ c.verdict = dash.verdict /\ c.hook = dash.hook
        /\ c.subject = dash.subject /\ c.agg = dash.agg
    BY <1>2, <1>3 DEF Boxed, Settings
  <1> HIDE DEF b, c
  <1>7. Both(b, dash)
    BY <1>2, <1>4, <1>5, SetBoth
  <1>8. Both(app, dash)' /\ Rendered(dash)'
    BY <1>1, <1>2, <1>7
  <1>9. Boxed' /\ Reset'
    BY <1>1, <1>6 DEF Boxed, Reset
  <1>10. fresh' \in BOOLEAN /\ timer' \in BOOLEAN
    BY <1>1
  <1>11. QED
    BY <1>8, <1>9, <1>10 DEF IInv

LEMMA StepFire ==
  ASSUME IInv, Fire
  PROVE  IInv'
  <1> DEFINE u == [dash EXCEPT !.q = box.q]
  <1>1. app' = app /\ dash' = render(u) /\ box' = box /\ timer' = FALSE /\ fresh' = fresh
    BY DEF Fire
  <1>2. app \in Filters /\ dash \in Filters /\ Both(app, dash) /\ Boxed
    BY DEF IInv, Both
  <1>3. box.q \in Text
    BY <1>2 DEF Boxed, Settings
  <1>4. u \in Filters
    BY <1>2, <1>3 DEF Filters
  <1>5. /\ app.prog = "app" /\ u.prog = "dash" /\ u.data = dash.data /\ Alike(app, u)
        /\ u.node \in Log(dash).nodes \cup {"all"}
        /\ u.warrant = dash.warrant /\ u.wlSel = dash.wlSel
        /\ u.q = box.q /\ u.verdict = dash.verdict /\ u.hook = dash.hook
        /\ u.subject = dash.subject /\ u.agg = dash.agg
    BY <1>2 DEF Both, Alike, Filters
  <1> HIDE DEF u
  <1>6. Both(app, dash)' /\ Rendered(dash)' /\ Kept(u, dash')
    BY <1>1, <1>2, <1>4, <1>5, Rerendered
  <1>7. Boxed'
    BY <1>1, <1>2, <1>5, <1>6 DEF Boxed, Kept
  <1>8. Reset'
    BY <1>1, <1>5, <1>6, ResetStays DEF Kept
  <1>9. fresh' \in BOOLEAN /\ timer' \in BOOLEAN
    BY <1>1 DEF IInv
  <1>10. QED
    BY <1>6, <1>7, <1>8, <1>9 DEF IInv

\* The rows of a table are records of the log; those of the search view have the
\* subject that is asked for, those of a session have no warrant.
LEMMA RowsAre ==
  ASSUME NEW u, u.prog \in Programs, u.data \in Sources, u.view \in Views,
         NEW e \in TableOf(u).events
  PROVE  /\ e \in EventSet(u)
         /\ u.view = "search" /\ u.subject = "none" => e.warrant = None
         /\ u.view = "warrantless" => e.warrant = None
  <1>1. CASE u.view = "overview"
    <2>1. e \in RecentDeny(u)
      BY <1>1 DEF TableOf
    <2>2. e \in baseEvents(u)
      BY <2>1 DEF RecentDeny
    <2>3. QED
      BY <1>1, <2>2 DEF baseEvents
  <1>2. CASE u.view = "search"
    <2>1. e \in searchEvents(u)
      BY <1>2 DEF TableOf
    <2>2. e \in EventSet(u) /\ (u.subject \in {"all", e.subject} \/ e.warrant = None)
      BY <2>1 DEF searchEvents, baseEvents
    <2>3. e.subject # "none"
      BY <2>2, EventsOf DEF IsRecord
    <2>4. QED
      BY <1>2, <2>2, <2>3
  <1>3. CASE u.view = "timeline"
    <2>1. e \in WarrantEvents(u, ShownWarrant(u))
      BY <1>3 DEF TableOf
    <2>2. QED
      BY <1>3, <2>1 DEF WarrantEvents
  <1>4. CASE u.view = "warrantless"
    <2>1. e \in SessionEvents(u, ShownSession(u))
      BY <1>4 DEF TableOf
    <2>2. QED
      BY <1>4, <2>1 DEF SessionEvents
  <1>5. QED
    BY <1>1, <1>2, <1>3, <1>4 DEF Views

\* A row pressed in the search view: the record is open beside the table.
LEMMA StepPressHere ==
  ASSUME IInv, NEW e \in Rows, PressRow(e), app.view = "search"
  PROVE  IInv'
  <1> DEFINE b == [app EXCEPT !.selected = e.id]
             u == [dash EXCEPT !.selected = e.id]
  <1>1. app' = b /\ dash' = render(u) /\ box' = box /\ timer' = timer /\ fresh' = fresh
    BY DEF PressRow, change
  <1>2. app \in Filters /\ dash \in Filters /\ Both(app, dash)
    BY DEF IInv, Both
  <1>3. /\ app.prog \in Programs /\ app.data \in Sources /\ app.view \in Views
        /\ e \in TableOf(app).events
    BY <1>2 DEF Filters, Rows
  <1>4. /\ e \in EventSet(app) /\ e.id \in EventId /\ (app.subject = "none" => e.warrant = None)
        /\ \A x \in EventSet(app) : x.id = e.id => x = e
    BY <1>3, RowsAre, EventsOf
  <1>5. b \in Filters
    BY <1>2, <1>4 DEF Filters
  <1>6. u \in Filters
    BY <1>2, <1>4 DEF Filters
  <1>7. /\ b.prog = "app" /\ u.prog = "dash" /\ u.data = dash.data /\ Alike(b, u)
        /\ u.node \in Log(dash).nodes \cup {"all"}
        /\ u.warrant = dash.warrant /\ b.warrant = app.warrant
        /\ u.wlSel = dash.wlSel /\ b.wlSel = app.wlSel
        /\ b.data = app.data /\ b.selected = e.id /\ app.prog = "app"
        /\ b.verdict = app.verdict /\ b.hook = app.hook /\ b.subject = app.subject
        /\ b.q = app.q /\ u.q = dash.q /\ u.verdict = dash.verdict /\ u.hook = dash.hook
        /\ u.subject = dash.subject /\ u.agg = dash.agg
    BY <1>2 DEF Both, Alike, Filters
  <1> HIDE DEF b, u
  <1>8. Both(app, dash)' /\ Rendered(dash)' /\ Kept(u, dash')
    BY <1>1, <1>5, <1>6, <1>7, Rerendered
  <1>9. Boxed'
    BY <1>1, <1>7, <1>8, BoxStays DEF Kept
  <1>10. Reset'
    <2>1. Opened(app)' = {e}
      BY <1>1, <1>4, <1>7 DEF Opened, EventSet
    <2>2. dash'.q = dash.q
      BY <1>7, <1>8 DEF Kept
    <2>3. QED
      BY <1>1, <1>4, <1>7, <2>1, <2>2 DEF IInv, Reset
  <1>11. QED
    BY <1>1, <1>8, <1>9, <1>10 DEF IInv

\* A row pressed in another view: the search view opens with its filters reset.
LEMMA StepPressOther ==
  ASSUME IInv, NEW e \in Rows, PressRow(e), app.view # "search"
  PROVE  IInv'
  <1> DEFINE s == IF app.view = "warrantless" THEN "none" ELSE "all"
             b == openEvent(app, e, s)
             u == openRow(dash, e, s)
  <1>1. /\ app' = b /\ dash' = render(u) /\ box' = Controls(u) /\ timer' = timer
        /\ fresh' = TRUE
    BY DEF PressRow, setView
  <1>2. app \in Filters /\ dash \in Filters /\ Both(app, dash)
    BY DEF IInv, Both
  <1>3. /\ app.prog \in Programs /\ app.data \in Sources /\ app.view \in Views
        /\ e \in TableOf(app).events
    BY <1>2 DEF Filters, Rows
  <1>4. /\ e \in EventSet(app) /\ e.id \in EventId /\ (s = "none" => e.warrant = None)
        /\ \A x \in EventSet(app) : x.id = e.id => x = e
    BY <1>3, RowsAre, EventsOf
  <1>5. /\ s \in {"all", "none"} /\ s \in SubjectFilter /\ "all" \in VerdictFilter
        /\ "all" \in HookFilter /\ "" \in Text /\ "search" \in Views
    BY DEF SubjectFilter, VerdictFilter, HookFilter, Text, Views
  <1> HIDE DEF s
  <1>6. b \in Filters
    BY <1>2, <1>4, <1>5 DEF Filters, openEvent
  <1>7. u \in Filters
    BY <1>2, <1>4, <1>5 DEF Filters, openRow
  <1>8. /\ b.prog = "app" /\ b.warrant = app.warrant /\ b.wlSel = app.wlSel
        /\ b.data = app.data /\ b.range = app.range /\ b.node = app.node
        /\ b.view = "search" /\ b.selected = e.id /\ b.verdict = "all" /\ b.hook = "all"
        /\ b.subject = s /\ b.agg = app.agg /\ b.q = ""
    BY <1>2 DEF Filters, openEvent, Both
  <1>9. /\ u.prog = "dash" /\ u.warrant = dash.warrant /\ u.wlSel = dash.wlSel
        /\ u.data = dash.data /\ u.range = dash.range /\ u.node = dash.node
        /\ u.view = "search" /\ u.selected = e.id /\ u.verdict = "all" /\ u.hook = "all"
        /\ u.subject = s /\ u.agg = dash.agg /\ u.q = ""
    BY <1>2 DEF Filters, openRow, Both
  <1> HIDE DEF b, u
  <1>10. Alike(b, u) /\ u.node \in Log(dash).nodes \cup {"all"}
    BY <1>2, <1>8, <1>9 DEF Both, Alike
  <1>11. Both(app, dash)' /\ Rendered(dash)' /\ Kept(u, dash') /\ dash' \in Filters
    BY <1>1, <1>6, <1>7, <1>8, <1>9, <1>10, Rerendered
  <1>12. Boxed'
    <2>1. /\ box' \in Settings
          /\ box'.verdict = dash'.verdict /\ box'.hook = dash'.hook
          /\ box'.subject = dash'.subject /\ box'.agg = dash'.agg /\ box'.q = dash'.q
      BY <1>1, <1>7, <1>11, ControlsBoxed
    <2>2. QED
      BY <2>1 DEF Boxed
  <1>13. Reset'
    <2>1. Opened(app)' = {e}
      BY <1>1, <1>2, <1>4, <1>8 DEF Opened, EventSet, Both
    <2>2. dash'.q = "" /\ box'.q = ""
      BY <1>1, <1>9, <1>11 DEF Kept, Controls
    <2>3. QED
      BY <1>1, <1>4, <1>5, <1>8, <2>1, <2>2 DEF Reset
  <1>14. fresh' \in BOOLEAN /\ timer' \in BOOLEAN
    BY <1>1 DEF IInv
  <1>15. QED
    BY <1>11, <1>12, <1>13, <1>14 DEF IInv

LEMMA StepOpenSession ==
  ASSUME IInv, NEW cg, OpenSession(cg)
  PROVE  IInv'
  <1> DEFINE b == openSession(app, cg)
             u == [dash EXCEPT !.wlSel = cg, !.view = "warrantless"]
  <1>1. app' = b /\ dash' = render(u) /\ box' = Controls(u) /\ timer' = timer /\ fresh' = fresh
    BY DEF OpenSession, setView
  <1>2. app \in Filters /\ dash \in Filters /\ Both(app, dash)
    BY DEF IInv, Both
  <1>3. cg \in SessionId
    <2>1. \E s \in SessionSet(app) : s.cgroup = cg
      BY DEF OpenSession, warrantlessIn
    <2>2. QED
      BY <1>2, <2>1, SessionsOf DEF Filters
  <1>4. b \in Filters
    BY <1>2, <1>3 DEF Filters, openSession, Views
  <1>5. u \in Filters
    BY <1>2, <1>3 DEF Filters, Views
  <1>6. /\ b.prog = "app" /\ u.prog = "dash" /\ u.data = dash.data /\ Alike(b, u)
        /\ u.node \in Log(dash).nodes \cup {"all"}
        /\ u.wlSel = b.wlSel /\ u.warrant = dash.warrant /\ b.warrant = app.warrant
        /\ b.data = app.data /\ b.selected = app.selected /\ app.prog = "app"
        /\ b.verdict = app.verdict /\ b.hook = app.hook /\ b.subject = app.subject
        /\ b.q = app.q /\ u.q = dash.q /\ u.verdict = dash.verdict /\ u.hook = dash.hook
        /\ u.subject = dash.subject /\ u.agg = dash.agg
    BY <1>2 DEF Both, Alike, Filters, openSession
  <1> HIDE DEF b, u
  <1>7. Both(app, dash)' /\ Rendered(dash)' /\ Kept(u, dash') /\ dash' \in Filters
    BY <1>1, <1>4, <1>5, <1>6, Rerendered
  <1>8. Boxed'
    <2>1. /\ box' \in Settings
          /\ box'.verdict = dash'.verdict /\ box'.hook = dash'.hook
          /\ box'.subject = dash'.subject /\ box'.agg = dash'.agg /\ box'.q = dash'.q
      BY <1>1, <1>5, <1>7, ControlsBoxed
    <2>2. QED
      BY <2>1 DEF Boxed
  <1>9. Reset'
    BY <1>1, <1>6, <1>7, ResetStays DEF Kept, Controls
  <1>10. QED
    BY <1>1, <1>7, <1>8, <1>9 DEF IInv

LEMMA StepPressSession ==
  ASSUME IInv, NEW cg, PressSession(cg)
  PROVE  IInv'
  <1> DEFINE b == [app EXCEPT !.wlSel = cg]
             u == [dash EXCEPT !.wlSel = cg]
  <1>1. app' = b /\ dash' = render(u) /\ box' = box /\ timer' = timer /\ fresh' = fresh
    BY DEF PressSession, change
  <1>2. app \in Filters /\ dash \in Filters /\ Both(app, dash)
    BY DEF IInv, Both
  <1>3. cg \in SessionId
    <2>1. \E s \in SessionSet(app) : s.cgroup = cg
      BY OfNodeIs DEF PressSession
    <2>2. QED
      BY <1>2, <2>1, SessionsOf DEF Filters
  <1>4. b \in Filters
    BY <1>2, <1>3 DEF Filters
  <1>5. u \in Filters
    BY <1>2, <1>3 DEF Filters
  <1>6. /\ b.prog = "app" /\ u.prog = "dash" /\ u.data = dash.data /\ Alike(b, u)
        /\ u.node \in Log(dash).nodes \cup {"all"}
        /\ u.wlSel = b.wlSel /\ u.warrant = dash.warrant /\ b.warrant = app.warrant
        /\ b.data = app.data /\ b.selected = app.selected /\ app.prog = "app"
        /\ b.verdict = app.verdict /\ b.hook = app.hook /\ b.subject = app.subject
        /\ b.q = app.q /\ u.q = dash.q /\ u.verdict = dash.verdict /\ u.hook = dash.hook
        /\ u.subject = dash.subject /\ u.agg = dash.agg
    BY <1>2 DEF Both, Alike, Filters
  <1> HIDE DEF b, u
  <1>7. Both(app, dash)' /\ Rendered(dash)' /\ Kept(u, dash') /\ dash' \in Filters
    BY <1>1, <1>4, <1>5, <1>6, Rerendered
  <1>8. Boxed'
    BY <1>1, <1>6, <1>7, BoxStays DEF Kept
  <1>9. Reset'
    BY <1>1, <1>6, <1>7, ResetStays DEF Kept
  <1>10. QED
    BY <1>1, <1>7, <1>8, <1>9 DEF IInv

LEMMA StepPressWarrant ==
  ASSUME IInv, NEW w \in WarrantSet(app), PressWarrant(w)
  PROVE  IInv'
  <1> DEFINE b == [app EXCEPT !.warrant = w.id]
             u == [dash EXCEPT !.warrant = w.id]
  <1>1. app' = b /\ dash' = render(u) /\ box' = box /\ timer' = timer /\ fresh' = fresh
    BY DEF PressWarrant, change
  <1>2. app \in Filters /\ dash \in Filters /\ Both(app, dash)
    BY DEF IInv, Both
  <1>3. w.id \in WarrantId
    BY <1>2, WarrantsOf DEF Filters
  <1>4. b \in Filters
    BY <1>2, <1>3 DEF Filters
  <1>5. u \in Filters
    BY <1>2, <1>3 DEF Filters
  <1>6. /\ b.prog = "app" /\ u.prog = "dash" /\ u.data = dash.data /\ Alike(b, u)
        /\ u.node \in Log(dash).nodes \cup {"all"}
        /\ u.warrant = b.warrant /\ u.wlSel = dash.wlSel /\ b.wlSel = app.wlSel
        /\ b.data = app.data /\ b.selected = app.selected /\ app.prog = "app"
        /\ b.verdict = app.verdict /\ b.hook = app.hook /\ b.subject = app.subject
        /\ b.q = app.q /\ u.q = dash.q /\ u.verdict = dash.verdict /\ u.hook = dash.hook
        /\ u.subject = dash.subject /\ u.agg = dash.agg
    BY <1>2 DEF Both, Alike, Filters
  <1> HIDE DEF b, u
  <1>7. Both(app, dash)' /\ Rendered(dash)' /\ Kept(u, dash') /\ dash' \in Filters
    BY <1>1, <1>4, <1>5, <1>6, Rerendered
  <1>8. Boxed'
    BY <1>1, <1>6, <1>7, BoxStays DEF Kept
  <1>9. Reset'
    BY <1>1, <1>6, <1>7, ResetStays DEF Kept
  <1>10. QED
    BY <1>1, <1>7, <1>8, <1>9 DEF IInv

\* What a page is loaded with.
LEMMA DefaultsAre ==
  ASSUME NEW p \in Programs, NEW d \in Sources
  PROVE  /\ DEFAULT_FILTERS(p, d) \in Filters
         /\ DEFAULT_FILTERS(p, d).prog = p /\ DEFAULT_FILTERS(p, d).data = d
  <1> DEFINE u == DEFAULT_FILTERS(p, d)
             range == CHOOSE r \in Ranges : \A x \in Ranges : x <= r
             f == [prog |-> p, data |-> d]
             id == Log(f).warrants[1].id
  <1>1. range \in Ranges
    BY ConsoleAssumption
  <1>2. /\ "all" \in Place /\ "all" \in VerdictFilter /\ "all" \in HookFilter
        /\ "all" \in SubjectFilter /\ "" \in Text /\ "overview" \in Views
        /\ None \in EventId /\ None \in SessionId
    BY DEF Place, VerdictFilter, HookFilter, SubjectFilter, Text, Views, EventId, SessionId
  <1>3. id \in WarrantId
    <2>1. f.prog \in Programs /\ f.data \in Sources
      OBVIOUS
    <2> HIDE DEF f
    <2>2. Log(f).warrants \in Seq(ToSet(Log(f).warrants)) \ {<<>>}
      BY <2>1, LogOf DEF IsLog
    <2>3. Log(f).warrants[1] \in WarrantSet(f)
      BY <2>2 DEF WarrantSet
    <2>4. QED
      BY <2>1, <2>3, WarrantsOf
  <1>4. u = [prog |-> p, data |-> d, range |-> range, node |-> "all", verdict |-> "all",
             hook |-> "all", subject |-> "all", agg |-> TRUE, q |-> "", view |-> "overview",
             selected |-> None, wlSel |-> None, warrant |-> id]
    BY DEF DEFAULT_FILTERS
  <1> HIDE DEF u, range, id
  <1>5. u \in Filters
    BY <1>1, <1>2, <1>3, <1>4 DEF Filters
  <1>6. u.prog = p /\ u.data = d
    BY <1>4
  <1>7. QED
    BY <1>5, <1>6 DEF u

LEMMA InitIInv == Init => IInv
  <1> SUFFICES ASSUME NEW d \in Sources,
                      app = DEFAULT_FILTERS("app", d), dash = render(DEFAULT_FILTERS("dash", d)),
                      box = Controls(DEFAULT_FILTERS("dash", d)), timer = FALSE, fresh = FALSE
               PROVE  IInv
    BY DEF Init
  <1> DEFINE a == DEFAULT_FILTERS("app", d)
             u == DEFAULT_FILTERS("dash", d)
             range == CHOOSE r \in Ranges : \A x \in Ranges : x <= r
             id(prog) == Log([prog |-> prog, data |-> d]).warrants[1].id
  <1>1. "app" \in Programs /\ "dash" \in Programs
    BY DEF Programs
  <1>2. a \in Filters /\ u \in Filters
    BY <1>1, DefaultsAre
  <1>3. id("app") = id("dash")
    BY TwinAssumption DEF Log
  <1>4. /\ a = [prog |-> "app", data |-> d, range |-> range, node |-> "all", verdict |-> "all",
                hook |-> "all", subject |-> "all", agg |-> TRUE, q |-> "", view |-> "overview",
                selected |-> None, wlSel |-> None, warrant |-> id("app")]
        /\ u = [prog |-> "dash", data |-> d, range |-> range, node |-> "all", verdict |-> "all",
                hook |-> "all", subject |-> "all", agg |-> TRUE, q |-> "", view |-> "overview",
                selected |-> None, wlSel |-> None, warrant |-> id("dash")]
    BY DEF DEFAULT_FILTERS
  <1>5. app = a /\ dash = render(u) /\ box = Controls(u)
    OBVIOUS
  <1> HIDE DEF a, u, range, id
  <1>6. Both(a, u)
    BY <1>2, <1>3, <1>4 DEF Both, Alike, Items
  <1>7. Both(app, dash) /\ Rendered(dash) /\ Kept(u, dash)
    BY <1>5, <1>6, RenderBoth
  <1>8. Boxed
    BY <1>2, <1>5, <1>7, ControlsBoxed DEF Boxed, Both
  <1>9. QED
    BY <1>7, <1>8 DEF IInv, Reset

LEMMA NextIInv == IInv /\ [Next]_vars => IInv'
  <1> SUFFICES ASSUME IInv, [Next]_vars PROVE IInv'
    OBVIOUS
  <1>1. ASSUME NEW v \in Views, Nav(v) PROVE IInv'
    BY <1>1, StepNav
  <1>2. ASSUME NEW r \in Ranges, SetRange(r) PROVE IInv'
    BY <1>2, StepSetRange
  <1>3. ASSUME NEW n \in Log(app).nodes \cup {"all"}, SetNode(n) PROVE IInv'
    BY <1>3, StepSetNode
  <1>4. ASSUME NEW v \in VerdictChoices, SetVerdict(v) PROVE IInv'
    BY <1>4, StepSetVerdict
  <1>5. ASSUME NEW h \in HookChoices, SetHook(h) PROVE IInv'
    BY <1>5, StepSetHook
  <1>6. ASSUME NEW s \in SubjectChoices, SetSubject(s) PROVE IInv'
    BY <1>6, StepSetSubject
  <1>7. ASSUME NEW b \in BOOLEAN, SetAgg(b) PROVE IInv'
    BY <1>7, StepSetAgg
  <1>8. ASSUME NEW t \in Texts, Type(t) PROVE IInv'
    BY <1>8, StepType
  <1>9. CASE Fire
    BY <1>9, StepFire
  <1>10. ASSUME NEW e \in Rows, PressRow(e) PROVE IInv'
    BY <1>10, StepPressHere, StepPressOther
  <1>11. ASSUME NEW cg \in Chosen, OpenSession(cg) \/ PressSession(cg) PROVE IInv'
    BY <1>11, StepOpenSession, StepPressSession
  <1>12. ASSUME NEW w \in WarrantSet(app), PressWarrant(w) PROVE IInv'
    BY <1>12, StepPressWarrant
  <1>13. CASE UNCHANGED vars
    BY <1>13 DEF vars, IInv, Both, Rendered, WarrantThere, SessionThere, Boxed, Reset,
                 Opened, EventSet, Log, OfNode
  <1>14. QED
    BY <1>1, <1>2, <1>3, <1>4, <1>5, <1>6, <1>7, <1>8, <1>9, <1>10, <1>11, <1>12, <1>13 DEF Next

\* In every state the two programs agree in what the user sees, but for a text
\* that waits and an item app.js overwrote.
THEOREM Inductive == Spec => []IInv
  BY InitIInv, NextIInv, PTL DEF Spec

-----------------------------------------------------------------------------
(* What the user sees *)

\* A record found by a text has that text in its row, unless it is the comm, the
\* digits of an inode or the note of an exec: for every log and whatever the
\* texts of its records are, in both programs.
THEOREM FoundIsShownAlways == Spec => []FoundIsShown
  <1>1. IInv => FoundIsShown
    <2> SUFFICES ASSUME IInv, NEW u \in {app, dash}, u.q # "", NEW e \in searchEvents(u)
                 PROVE  \/ u.q \in Row(u, e) \cup {e.node}
                        \/ u.q = Panel(u, e).comm
                        \/ u.q = Ino(e) /\ fmtN(u.q) \in Row(u, e)
                        \/ e.hook = "exec" /\ u.q = e.note
      BY DEF FoundIsShown
    <2>1. u.prog \in Programs /\ u.data \in Sources
      BY DEF IInv, Both, Filters
    <2>2. QED
      BY <2>1, FoundInRow
  <1>2. QED
    BY <1>1, Inductive, PTL

\* Nothing but the log tells the windows of two programs that agree apart.
LEMMA SameWindow ==
  ASSUME NEW a, NEW d, Alike(a, d)
  PROVE  /\ \A e : inWindow(a, e) <=> inWindow(d, e)
         /\ \A x : nodeOk(a, x) <=> nodeOk(d, x)
         /\ since(a) = since(d)
  BY DEF Alike, inWindow, nodeOk, since

\* A record opened from another view stays listed in both programs: no text
\* typed before comes back with the timer of app.js.
THEOREM OpenedIsListedAlways == Spec => []OpenedIsListed
  <1>1. ASSUME IInv PROVE OpenedIsListed
    <2> SUFFICES ASSUME fresh
                 PROVE  /\ \A u \in {app, dash} :
                             /\ u.verdict = "all" /\ u.hook = "all" /\ u.q = ""
                             /\ u.subject \in {"all", "none"}
                        /\ app.view = "search" =>
                             \A e \in Opened(app) \cap Opened(dash) :
                               (e \in baseEvents(app) /\ (app.agg \/ e.hook # "agg"))
                                 => e \in TableOf(app).events \cap dashTable(dash).events
      BY DEF OpenedIsListed
    <2>1. /\ Alike(app, dash) /\ app.verdict = "all" /\ app.hook = "all" /\ app.q = ""
          /\ app.subject \in {"all", "none"} /\ dash.q = ""
          /\ (app.subject = "none" => \A e \in Opened(app) : e.warrant = None)
      BY <1>1 DEF IInv, Both, Reset
    <2>2. \A u \in {app, dash} : /\ u.verdict = "all" /\ u.hook = "all" /\ u.q = ""
                                 /\ u.subject \in {"all", "none"}
      BY <2>1 DEF Alike
    <2>3. ASSUME app.view = "search", NEW e \in Opened(app) \cap Opened(dash),
                 e \in baseEvents(app), app.agg \/ e.hook # "agg"
          PROVE  e \in TableOf(app).events \cap dashTable(dash).events
      <3>1. e \in baseEvents(dash)
        <4>1. e \in EventSet(dash) /\ inWindow(app, e)
          BY <2>3 DEF Opened, baseEvents
        <4>2. QED
          BY <2>1, <4>1, SameWindow DEF baseEvents
      <3>2. /\ dash.agg = app.agg /\ dash.subject = app.subject /\ dash.view = "search"
            /\ (app.subject = "none" => e.warrant = None)
        BY <2>1, <2>3 DEF Alike
      <3>3. e \in searchEvents(app)
        BY <2>1, <2>3, <3>2 DEF searchEvents
      <3>4. e \in searchEvents(dash)
        BY <2>1, <2>2, <2>3, <3>1, <3>2 DEF searchEvents
      <3>5. TableOf(app).events = searchEvents(app)
        BY <2>3 DEF TableOf
      <3>6. dashTable(dash).events = searchEvents(dash)
        BY <3>2 DEF dashTable
      <3>7. QED
        BY <3>3, <3>4, <3>5, <3>6
    <2>4. QED
      BY <2>2, <2>3
  <1>2. QED
    BY <1>1, Inductive, PTL

\* The tables of two programs that agree, view by view.
LEMMA SameOverview ==
  ASSUME Both(app, dash), app.view = "overview"
  PROVE  SameRows
  <1>1. dash.view = "overview" /\ Alike(app, dash)
    BY DEF Both, Alike
  <1>2. TableOf(app) = [events |-> RecentDeny(app), gaps |-> {}]
    BY DEF TableOf
  <1>3. dashTable(dash) = [events |-> RecentDeny(dash), gaps |-> {}]
    BY <1>1 DEF dashTable
  <1> DEFINE ev == Blocked[app.prog][app.data]
             at == {i \in DOMAIN ev : inWindow(app, ev[i])}
             last == {i \in at : Cardinality({j \in at : j > i}) < Recent}
  <1>4. RecentDeny(app) = {e \in baseEvents(app) : \E i \in last : ev[i] = e}
    BY DEF RecentDeny
  <1>5. RecentDeny(dash) = {e \in baseEvents(dash) : \E i \in last : ev[i] = e}
    <2>1. Blocked[dash.prog][dash.data] = ev
      BY TwinLogs
    <2>2. {i \in DOMAIN ev : inWindow(dash, ev[i])} = at
      BY <1>1, SameWindow
    <2> HIDE DEF ev, at
    <2>3. QED
      BY <2>1, <2>2 DEF RecentDeny
  <1> HIDE DEF ev, at, last
  <1>6. RecentDeny(app) \cap EventSet(dash) = RecentDeny(dash) \cap EventSet(app)
    BY <1>1, <1>4, <1>5, SameWindow DEF baseEvents
  <1>7. \A e \in RecentDeny(app) : What(e) = whatCell(e)
    <2>1. RecentDeny(app) \subseteq EventSet(app)
      BY <1>4 DEF baseEvents
    <2>2. QED
      BY <2>1, TwinLogs, EventsOf, SameCell
  <1>8. QED
    BY <1>2, <1>3, <1>6, <1>7 DEF SameRows

LEMMA SameSearch ==
  ASSUME Both(app, dash), app.view = "search", Controls(dash) = Controls(app)
  PROVE  SameRows
  <1>1. dash.view = "search" /\ Alike(app, dash)
    BY DEF Both, Alike
  <1>2. TableOf(app) = [events |-> searchEvents(app), gaps |-> gapsIn(app)]
    BY DEF TableOf
  <1>3. dashTable(dash) = [events |-> searchEvents(dash), gaps |-> gapsIn(dash)]
    BY <1>1 DEF dashTable
  <1>4. dash.q = app.q
    BY DEF Controls
  <1>5. searchEvents(app) \cap EventSet(dash) = searchEvents(dash) \cap EventSet(app)
    <2>1. ASSUME NEW e \in EventSet(app) \cap EventSet(dash)
          PROVE  e \in searchEvents(app) <=> e \in searchEvents(dash)
      <3>1. e \in baseEvents(app) <=> e \in baseEvents(dash)
        BY <1>1, SameWindow DEF baseEvents
      <3>2. /\ dash.verdict = app.verdict /\ dash.hook = app.hook
            /\ dash.subject = app.subject /\ dash.agg = app.agg
        BY <1>1 DEF Alike
      <3>3. QED
        BY <1>4, <3>1, <3>2 DEF searchEvents
    <2>2. searchEvents(app) \subseteq EventSet(app) /\ searchEvents(dash) \subseteq EventSet(dash)
      BY DEF searchEvents, baseEvents
    <2>3. QED
      BY <2>1, <2>2
  <1>6. gapsIn(app) = gapsIn(dash)
    BY <1>1, TwinLogs, SameWindow DEF gapsIn
  <1>7. \A e \in searchEvents(app) : What(e) = whatCell(e)
    <2>1. searchEvents(app) \subseteq EventSet(app)
      BY DEF searchEvents, baseEvents
    <2>2. QED
      BY <2>1, TwinLogs, EventsOf, SameCell
  <1>8. QED
    BY <1>2, <1>3, <1>5, <1>6, <1>7 DEF SameRows

LEMMA SameTimeline ==
  ASSUME Both(app, dash), Rendered(dash), app.view = "timeline", dash.warrant = app.warrant
  PROVE  SameRows
  <1>1. dash.view = "timeline" /\ Alike(app, dash)
    BY DEF Both, Alike
  <1> DEFINE sw == ShownWarrant(app)
             mine == {x \in WarrantSet(dash) : x.id = dash.warrant}
             ours == OfNode(app, Log(app).warrants)
  <1>2. TableOf(app) = [events |-> WarrantEvents(app, sw), gaps |-> WarrantGaps(app, sw)]
    BY DEF TableOf
  <1>3. dashTable(dash) = [events |-> UNION {WarrantEvents(dash, x) : x \in mine},
                           gaps |-> UNION {WarrantGaps(dash, x) : x \in mine}]
    BY <1>1 DEF dashTable
  <1>4. /\ WarrantSet(app) = WarrantSet(dash) /\ Log(app).gaps = Log(dash).gaps
        /\ OfNode(dash, Log(dash).warrants) = ours
        /\ ours = {w \in WarrantSet(app) : nodeOk(app, w)}
    BY <1>1, TwinLogs, OfNodeIs, SameWindow
  <1>5. WarrantThere(dash)
    BY <1>1 DEF Rendered
  <1> HIDE DEF ours, mine, sw
  <1>6. CASE ours = {}
    <2>1. dash.warrant = None
      BY <1>4, <1>5, <1>6 DEF WarrantThere
    <2>2. mine = {}
      BY <1>4, <2>1, TwinLogs, WarrantsOf DEF mine
    <2>3. sw = None
      BY <1>6, TwinLogs, ShownWarrantIs DEF sw, ours
    <2>4. WarrantEvents(app, sw) = {} /\ WarrantGaps(app, sw) = {}
      BY <2>3 DEF WarrantEvents, WarrantGaps
    <2>5. QED
      BY <1>2, <1>3, <2>2, <2>4 DEF SameRows
  <1>7. CASE ours # {}
    <2>1. PICK w \in ours : w.id = dash.warrant
      BY <1>4, <1>5, <1>7 DEF WarrantThere
    <2>2. w # None /\ w \in WarrantSet(dash) /\ \A x \in WarrantSet(dash) : x.id = w.id => x = w
      BY <1>4, <2>1, TwinLogs, WarrantsOf
    <2>3. sw = w
      BY <2>1, TwinLogs, ShownWarrantIs DEF sw, ours
    <2>4. mine = {w}
      BY <2>1, <2>2 DEF mine
    <2>5. UNION {WarrantEvents(dash, x) : x \in mine} = WarrantEvents(dash, w)
      BY <2>4
    <2>6. UNION {WarrantGaps(dash, x) : x \in mine} = WarrantGaps(dash, w)
      BY <2>4
    <2>7. WarrantEvents(app, w) \cap EventSet(dash) = WarrantEvents(dash, w) \cap EventSet(app)
      BY DEF WarrantEvents
    <2>8. WarrantGaps(app, w) = WarrantGaps(dash, w)
      BY <1>4 DEF WarrantGaps
    <2>9. \A e \in WarrantEvents(app, w) : What(e) = whatCell(e)
      BY TwinLogs, EventsOf, SameCell DEF WarrantEvents
    <2>10. QED
      BY <1>2, <1>3, <2>3, <2>5, <2>6, <2>7, <2>8, <2>9 DEF SameRows
  <1>8. QED
    BY <1>6, <1>7

LEMMA SameWarrantless ==
  ASSUME Both(app, dash), Rendered(dash), app.view = "warrantless", dash.wlSel = app.wlSel
  PROVE  SameRows
  <1>1. dash.view = "warrantless" /\ Alike(app, dash)
    BY DEF Both, Alike
  <1> DEFINE ss == ShownSession(app)
             ours == OfNode(app, Log(app).sessions)
             theirs == OfNode(dash, Log(dash).sessions)
             mine == {x \in theirs : x.cgroup = dash.wlSel}
  <1>2. TableOf(app) = [events |-> SessionEvents(app, ss), gaps |-> {}]
    BY DEF TableOf
  <1>3. dashTable(dash) = [events |-> UNION {SessionEvents(dash, x) : x \in mine}, gaps |-> {}]
    BY <1>1 DEF dashTable
  <1>4. /\ \A s \in ours : \E t \in theirs : t.cgroup = s.cgroup
        /\ \A t \in theirs : \E s \in ours : t.cgroup = s.cgroup
    <2>1. /\ ours = {s \in SessionSet(app) : nodeOk(app, s)}
          /\ theirs = {t \in SessionSet(dash) : nodeOk(dash, t)}
      BY OfNodeIs
    <2>2. /\ \A s \in SessionSet(app) : \E t \in SessionSet(dash) :
                t.cgroup = s.cgroup /\ t.node = s.node
          /\ \A t \in SessionSet(dash) : \E s \in SessionSet(app) :
                t.cgroup = s.cgroup /\ t.node = s.node
      <3>1. {<<s.node, s.cgroup>> : s \in SessionSet(app)}
              = {<<s.node, s.cgroup>> : s \in SessionSet(dash)}
        BY TwinLogs
      <3>2. ASSUME NEW s \in SessionSet(app)
            PROVE  \E t \in SessionSet(dash) : t.cgroup = s.cgroup /\ t.node = s.node
        <4>1. <<s.node, s.cgroup>> \in {<<t.node, t.cgroup>> : t \in SessionSet(dash)}
          BY <3>1
        <4>2. QED
          BY <4>1
      <3>3. ASSUME NEW t \in SessionSet(dash)
            PROVE  \E s \in SessionSet(app) : t.cgroup = s.cgroup /\ t.node = s.node
        <4>1. <<t.node, t.cgroup>> \in {<<s.node, s.cgroup>> : s \in SessionSet(app)}
          BY <3>1
        <4>2. QED
          BY <4>1
      <3>4. QED
        BY <3>2, <3>3
    <2>3. dash.node = app.node
      BY <1>1 DEF Alike
    <2> HIDE DEF ours, theirs
    <2>4. QED
      BY <2>1, <2>2, <2>3 DEF nodeOk
  <1>5. SessionThere(dash)
    BY <1>1 DEF Rendered
  <1> HIDE DEF ours, theirs, mine, ss
  <1>6. CASE ours = {}
    <2>1. theirs = {} /\ mine = {}
      BY <1>4, <1>6 DEF mine
    <2>2. ss = None
      BY <1>6, TwinLogs, ShownSessionIs DEF ss, ours
    <2>3. SessionEvents(app, ss) = {}
      BY <2>2 DEF SessionEvents
    <2>4. QED
      BY <1>2, <1>3, <2>1, <2>3 DEF SameRows
  <1>7. CASE ours # {}
    <2>1. theirs # {}
      BY <1>4, <1>7
    <2>2. PICK t \in theirs : t.cgroup = dash.wlSel
      BY <1>5, <2>1 DEF SessionThere, theirs
    <2>3. t # None /\ \A x \in theirs : x.cgroup = t.cgroup => x = t
      BY <2>2, TwinLogs, SessionsOf, OfNodeIs DEF theirs
    <2>4. PICK s \in ours : s.cgroup = app.wlSel
      BY <1>4, <2>2
    <2>5. ss = s /\ s # None
      BY <2>4, TwinLogs, ShownSessionIs, SessionsOf, OfNodeIs DEF ss, ours
    <2>6. mine = {t}
      BY <2>2, <2>3 DEF mine
    <2>7. UNION {SessionEvents(dash, x) : x \in mine} = SessionEvents(dash, t)
      BY <2>6
    <2>8. SessionEvents(app, s) \cap EventSet(dash) = SessionEvents(dash, t) \cap EventSet(app)
      BY <2>2, <2>3, <2>4, <2>5 DEF SessionEvents
    <2>9. \A e \in SessionEvents(app, s) : What(e) = whatCell(e)
      BY TwinLogs, EventsOf, SameCell DEF SessionEvents
    <2>10. QED
      BY <1>2, <1>3, <2>5, <2>7, <2>8, <2>9 DEF SameRows
  <1>8. QED
    BY <1>6, <1>7

\* Unless app.js has overwritten it the item of the view is that of App.tsx.
LEMMA ItemKept ==
  ASSUME Both(app, dash), ~Overwritten
  PROVE  /\ app.view = "timeline" => dash.warrant = app.warrant
         /\ app.view = "warrantless" => dash.wlSel = app.wlSel
  <1>1. ASSUME app.view = "timeline" PROVE dash.warrant = app.warrant
    BY <1>1 DEF Both, Items, FirstWarrant, Overwritten
  <1>2. ASSUME app.view = "warrantless" PROVE dash.wlSel = app.wlSel
    BY <1>2 DEF Both, Items, FirstSession, Overwritten
  <1>3. QED
    BY <1>1, <1>2

\* A record of controls that is given another text.
LEMMA ButText ==
  ASSUME NEW u, NEW t
  PROVE  [Controls(u) EXCEPT !.q = t]
           = [verdict |-> u.verdict, hook |-> u.hook, subject |-> u.subject, agg |-> u.agg,
              q |-> t]
  BY DEF Controls

\* The controls that are displayed are those of the state, once no text waits.
LEMMA BoxShows ==
  ASSUME Both(app, dash), Boxed, ~timer
  PROVE  box = Controls(dash) /\ [box EXCEPT !.q = ""] = [Controls(app) EXCEPT !.q = ""]
  <1>1. /\ box \in Settings /\ box.verdict = dash.verdict /\ box.hook = dash.hook
        /\ box.subject = dash.subject /\ box.agg = dash.agg /\ box.q = dash.q
    BY DEF Boxed
  <1>2. /\ Controls(dash) = [verdict |-> dash.verdict, hook |-> dash.hook,
                             subject |-> dash.subject, agg |-> dash.agg, q |-> dash.q]
        /\ Controls(app) = [verdict |-> app.verdict, hook |-> app.hook,
                            subject |-> app.subject, agg |-> app.agg, q |-> app.q]
    BY DEF Controls
  <1>3. /\ dash.verdict = app.verdict /\ dash.hook = app.hook
        /\ dash.subject = app.subject /\ dash.agg = app.agg
    BY DEF Both, Alike
  <1>4. box = Controls(dash)
    BY <1>1, <1>2 DEF Settings
  <1> DEFINE shown == [verdict |-> app.verdict, hook |-> app.hook,
                       subject |-> app.subject, agg |-> app.agg, q |-> ""]
  <1>5. [Controls(dash) EXCEPT !.q = ""]
          = [verdict |-> dash.verdict, hook |-> dash.hook,
             subject |-> dash.subject, agg |-> dash.agg, q |-> ""]
    BY ButText
  <1>6. [Controls(app) EXCEPT !.q = ""] = shown
    BY ButText
  <1>7. [Controls(dash) EXCEPT !.q = ""] = shown
    BY <1>3, <1>5
  <1>8. QED
    BY <1>4, <1>6, <1>7

\* The same presses show the same screens, whatever both programs show, but for
\* an item app.js has overwritten and a text that waits for its timer.
THEOREM SameScreenAlways == Spec => []SameScreen
  <1>1. ASSUME IInv PROVE SameScreen
    <2>1. Both(app, dash) /\ Rendered(dash) /\ Boxed
      BY <1>1 DEF IInv
    <2>2. dash.view = app.view /\ dash.selected = app.selected
      BY <2>1 DEF Both, Alike
    <2>3. ASSUME ~timer, app.view = "search"
          PROVE  /\ box = Controls(dash)
                 /\ Controls(dash) = Controls(app) => SameRows
                 /\ [box EXCEPT !.q = ""] = [Controls(app) EXCEPT !.q = ""]
      BY <2>1, <2>3, BoxShows, SameSearch
    <2>4. ASSUME app.view # "search", ~Overwritten PROVE SameRows
      <3>1. app.view \in Views
        BY <2>1 DEF Both, Filters
      <3>2. QED
        BY <2>1, <2>4, <3>1, ItemKept, SameOverview, SameTimeline, SameWarrantless DEF Views
    <2>5. ASSUME NEW e \in Opened(app) \cap Opened(dash)
          PROVE  EventDetail(app, e) = renderDrawer(dash, e)
      <3>1. e \in EventSet(app)
        BY DEF Opened
      <3>2. QED
        BY <2>1, <3>1, TwinLogs, EventsOf, SamePanel
    <2>6. QED
      BY <2>2, <2>3, <2>4, <2>5 DEF SameScreen
  <1>2. QED
    BY <1>1, Inductive, PTL

-----------------------------------------------------------------------------
(* Records counted by parts *)

Some(s) == CHOOSE x \in s : TRUE
Sum(g) == FoldFunction(+, 0, g)

\* What holds of the empty set, and of a set when it holds of the set without
\* one element, holds of every subset of a finite set.
LEMMA SetInduction ==
  ASSUME NEW K, IsFiniteSet(K), NEW P, {} \in P,
         \A s \in SUBSET K : s # {} /\ s \ {Some(s)} \in P => s \in P
  PROVE  SUBSET K \subseteq P
  <1> SUFFICES ASSUME NEW r \in SUBSET K, r \notin P PROVE FALSE
    OBVIOUS
  <1> DEFINE T == {Cardinality(s) : s \in (SUBSET K) \ P}
  <1>1. \A s \in SUBSET K : IsFiniteSet(s) /\ Cardinality(s) \in Nat
    BY FS_Subset, FS_CardinalityType
  <1>2. T \subseteq Nat /\ T # {}
    <2>1. Cardinality(r) \in T
      OBVIOUS
    <2>2. QED
      BY <1>1, <2>1
  <1>3. PICK n \in T : \A m \in T : n <= m
    <2> HIDE DEF T
    <2>1. QED
      BY <1>2, NatLeast
  <1>4. PICK s \in (SUBSET K) \ P : Cardinality(s) = n
    BY <1>3
  <1>5. s # {} /\ s \ {Some(s)} \notin P
    <2> HIDE DEF T
    <2>1. QED
      BY <1>4
  <1>6. Some(s) \in s
    BY <1>5 DEF Some
  <1>7. Cardinality(s \ {Some(s)}) = n - 1
    BY <1>1, <1>4, <1>6, FS_RemoveElement
  <1>8. n - 1 \in T /\ n \in Int
    <2>1. s \ {Some(s)} \in (SUBSET K) \ P
      BY <1>4, <1>5
    <2>2. QED
      BY <1>2, <1>7, <2>1
  <1>9. QED
    BY <1>3, <1>8

\* Counted by parts, a set has the elements it has: the bars of a chart taken
\* together are the records that are counted in them.
LEMMA SumOfParts ==
  ASSUME NEW S, IsFiniteSet(S), NEW K, IsFiniteSet(K), NEW part \in [S -> K], NEW g,
         DOMAIN g = K, \A k \in K : g[k] = Cardinality({e \in S : part[e] = k})
  PROVE  Sum(g) = Cardinality(S)
  <1> DEFINE In(s) == {e \in S : part[e] \in s}
             Rec(it) == it = [s \in SUBSET K |->
                                IF s = {} THEN 0 ELSE g[Some(s)] + it[s \ {Some(s)}]]
             W == [s \in SUBSET K |-> Cardinality(In(s))]
  <1>1. Sum(g) = (CHOOSE it : Rec(it))[K]
    BY DEF Sum, FoldFunction, FoldFunctionOnSet, MapThenFoldSet, Some
  <1>2. Cardinality(In({})) = 0
    <2>1. In({}) = {}
      OBVIOUS
    <2>2. QED
      BY <2>1, FS_EmptySet
  <1>3. ASSUME NEW s \in SUBSET K, s # {}
        PROVE  /\ s \ {Some(s)} \in SUBSET K
               /\ Cardinality(In(s)) = g[Some(s)] + Cardinality(In(s \ {Some(s)}))
    <2> DEFINE x == Some(s)
               A == {e \in S : part[e] = x}
               B == In(s \ {x})
    <2>1. x \in s
      BY <1>3 DEF Some
    <2> HIDE DEF x
    <2>2. In(s) = A \cup B /\ A \cap B = {} /\ A \subseteq S /\ B \subseteq S
      BY <2>1
    <2>3. g[x] = Cardinality(A)
      BY <2>1
    <2> HIDE DEF A, B, In
    <2>4. IsFiniteSet(A) /\ IsFiniteSet(B)
      BY <2>2, FS_Subset
    <2>5. Cardinality(A \cup B) = Cardinality(A) + Cardinality(B) - Cardinality(A \cap B)
      BY <2>4, FS_Union
    <2>6. Cardinality(A \cap B) = 0 /\ Cardinality(A) \in Nat /\ Cardinality(B) \in Nat
      BY <2>2, <2>4, FS_EmptySet, FS_CardinalityType
    <2>7. Cardinality(In(s)) = g[x] + Cardinality(B)
      BY <2>2, <2>3, <2>5, <2>6
    <2>8. QED
      BY <2>7 DEF x, B
  <1> HIDE DEF In
  <1>4. Rec(W)
    BY <1>2, <1>3
  <1>5. ASSUME NEW it, Rec(it) PROVE it[K] = Cardinality(S)
    <2> DEFINE P == {s \in SUBSET K : it[s] = Cardinality(In(s))}
    <2>1. {} \in P
      BY <1>2, <1>5
    <2>2. ASSUME NEW s \in SUBSET K, s # {}, s \ {Some(s)} \in P PROVE s \in P
      <3>1. it[s] = g[Some(s)] + it[s \ {Some(s)}]
        BY <1>5, <2>2
      <3>2. QED
        BY <1>3, <2>2, <3>1
    <2> HIDE DEF P
    <2>3. SUBSET K \subseteq P
      BY <2>1, <2>2, SetInduction
    <2>4. it[K] = Cardinality(In(K))
      BY <2>3 DEF P
    <2>5. In(K) = S
      BY DEF In
    <2>6. QED
      BY <2>4, <2>5
  <1> HIDE DEF Rec
  <1>6. Rec(CHOOSE it : Rec(it))
    BY <1>4
  <1>7. QED
    BY <1>1, <1>5, <1>6

-----------------------------------------------------------------------------
(* The columns of the chart *)

LEMMA MinMaxOf ==
  ASSUME NEW a \in Int, NEW b \in Int
  PROVE  /\ Min({a, b}) = IF a <= b THEN a ELSE b
         /\ Max({a, b}) = IF a >= b THEN a ELSE b
  BY DEF Min, Max

\* A period is whole columns, and it ends at NOW.
LEMMA ColumnsAre ==
  ASSUME NEW u \in Filters
  PROVE  /\ columns(u) \in Nat \ {0} /\ u.range \in Nat /\ since(u) \in Int
         /\ Bucket \in Nat \ {0} /\ u.range = columns(u) * Bucket /\ NOW \in Int
         /\ NOW - since(u) = u.range
  <1>1. u.range \in Nat \ {0} /\ u.range % Bucket = 0
    BY ConsoleAssumption DEF Filters
  <1>2. Bucket = 300000 /\ NOW = 0
    BY DEF Bucket, MIN, NOW
  <1>3. columns(u) = u.range \div 300000
    BY <1>2 DEF columns
  <1>4. since(u) = 0 - u.range
    BY <1>2 DEF since
  <1>5. columns(u) \in Nat \ {0} /\ u.range = columns(u) * 300000
    BY <1>1, <1>2, <1>3
  <1>6. QED
    BY <1>1, <1>2, <1>4, <1>5

\* The column of a time is the last one that begins by then, if it is of the
\* period; and a later time is in no earlier column.
LEMMA SlotIs ==
  ASSUME NEW u \in Filters, NEW t \in Int
  PROVE  /\ Slot(u, t) \in Int /\ Slot(u, t) <= columns(u) - 1
         /\ t >= since(u) => Slot(u, t) \in 0 .. columns(u) - 1
         /\ \A i \in 0 .. columns(u) - 1 :
              /\ t < since(u) + (i + 1) * Bucket => Slot(u, t) <= i
              /\ t >= since(u) + i * Bucket => i <= Slot(u, t)
         /\ \A x \in Int : x >= t => Slot(u, t) <= Slot(u, x)
  <1> DEFINE n == columns(u)
             s == since(u)
             at(x) == (x - s) \div 300000
  <1>1. n \in Nat \ {0} /\ s \in Int /\ Bucket = 300000
    BY ColumnsAre DEF Bucket, MIN
  <1>2. \A x \in Int : at(x) \in Int /\ at(x) * 300000 <= x - s /\ x - s < (at(x) + 1) * 300000
    BY <1>1
  <1>3. \A x \in Int : Slot(u, x) = Min({n - 1, at(x)})
    BY <1>1 DEF Slot
  <1> HIDE DEF n, s, at
  <1>4. ASSUME NEW x \in Int
        PROVE  Slot(u, x) = IF n - 1 <= at(x) THEN n - 1 ELSE at(x)
    <2> DEFINE a == n - 1
               b == at(x)
    <2>1. a \in Int /\ b \in Int /\ Slot(u, x) = Min({a, b})
      BY <1>1, <1>2, <1>3
    <2> HIDE DEF a, b
    <2>2. Slot(u, x) = IF a <= b THEN a ELSE b
      BY <2>1, MinMaxOf
    <2>3. QED
      BY <2>2 DEF a, b
  <1>5. Slot(u, t) \in Int /\ Slot(u, t) <= n - 1
    BY <1>1, <1>2, <1>4
  <1>6. ASSUME t >= s PROVE Slot(u, t) \in 0 .. n - 1
    BY <1>1, <1>2, <1>4, <1>6
  <1>7. ASSUME NEW i \in 0 .. n - 1, t < s + (i + 1) * 300000 PROVE Slot(u, t) <= i
    BY <1>1, <1>2, <1>4, <1>7
  <1>8. ASSUME NEW i \in 0 .. n - 1, t >= s + i * 300000 PROVE i <= Slot(u, t)
    BY <1>1, <1>2, <1>4, <1>8
  <1>9. ASSUME NEW x \in Int, x >= t PROVE Slot(u, t) <= Slot(u, x)
    <2>1. at(t) <= at(x)
      BY <1>1, <1>2, <1>9
    <2>2. QED
      BY <1>1, <1>2, <1>4, <2>1
  <1>10. QED
    BY <1>1, <1>5, <1>6, <1>7, <1>8, <1>9 DEF n, s

\* The columns of a gap: from that of its first moment, which may be before the
\* period, to that of its last or of NOW.
LEMMA BandIs ==
  ASSUME NEW u \in Filters, NEW g \in gapsIn(u)
  PROVE  \E from, to \in Int :
           /\ from <= to /\ from = g.from /\ to <= NOW /\ to <= g.to /\ to \in {g.to, NOW}
           /\ Band(u, g) = Max({0, Slot(u, from)}) .. Max({0, Slot(u, to)})
           /\ \A i \in 0 .. columns(u) - 1 :
                i \in Band(u, g) <=> Slot(u, from) <= i /\ i <= Slot(u, to)
           /\ Band(u, g) # {}
  <1>1. u.prog \in Programs /\ u.data \in Sources
    BY DEF Filters
  <1>2. /\ g.from \in Int /\ g.to \in Int /\ g.from <= g.to /\ g.from <= NOW
        /\ g.to >= since(u)
    BY <1>1, LogOf DEF IsLog, gapsIn
  <1> DEFINE to == Min({g.to, NOW})
  <1>3. to \in Int /\ g.from <= to /\ to <= NOW /\ to <= g.to /\ to \in {g.to, NOW} /\ NOW \in Int
    BY <1>2, ColumnsAre, MinMaxOf
  <1> DEFINE a == Slot(u, g.from)
             b == Slot(u, to)
             n == columns(u)
  <1>4. a \in Int /\ b \in Int /\ a <= b
    BY <1>2, <1>3, SlotIs
  <1>5. Band(u, g) = Max({0, a}) .. Max({0, b})
    BY DEF Band
  <1>6. n \in Nat \ {0} /\ to >= since(u)
    BY <1>2, <1>3, ColumnsAre
  <1>7. b >= 0
    BY <1>3, <1>6, SlotIs
  <1> HIDE DEF a, b, n
  <1>8. Max({0, a}) = (IF 0 >= a THEN 0 ELSE a) /\ Max({0, b}) = b
    BY <1>4, <1>7, MinMaxOf
  <1>9. \A i \in 0 .. n - 1 : i \in Band(u, g) <=> a <= i /\ i <= b
    BY <1>4, <1>5, <1>6, <1>8
  <1>10. Band(u, g) # {}
    <2>1. b \in Band(u, g)
      BY <1>4, <1>5, <1>7, <1>8
    <2>2. QED
      BY <2>1
  <1> HIDE DEF to
  <1>11. QED
    BY <1>2, <1>3, <1>5, <1>9, <1>10 DEF a, b, n

-----------------------------------------------------------------------------
(* The numbers of the overview *)

LEMMA FiniteEvents ==
  ASSUME NEW u \in Filters
  PROVE  IsFiniteSet(EventSet(u)) /\ IsFiniteSet(baseEvents(u)) /\ baseEvents(u) \subseteq EventSet(u)
  <1>1. u.prog \in Programs /\ u.data \in Sources
    BY DEF Filters
  <1> DEFINE ev == Log(u).events
             T == ToSet(ev)
  <1>2. EventSet(u) = T /\ ev \in Seq(T)
    BY <1>1, LogOf DEF IsLog
  <1>3. T = {ev[i] : i \in DOMAIN ev}
    BY DEF ToSet
  <1> HIDE DEF ev, T
  <1>4. Len(ev) \in Nat /\ DOMAIN ev = 1..Len(ev) /\ ev \in [1..Len(ev) -> T]
    BY <1>2
  <1>5. ev \in Surjection(1..Len(ev), T)
    BY <1>3, <1>4 DEF Surjection
  <1>6. IsFiniteSet(1..Len(ev))
    BY <1>4, FS_Interval
  <1>7. IsFiniteSet(T)
    BY <1>5, <1>6, FS_Surjection
  <1>8. baseEvents(u) \subseteq EventSet(u)
    BY DEF baseEvents
  <1>9. QED
    BY <1>2, <1>7, <1>8, FS_Subset

\* The list of the search view, of one verdict and no other filter.
LEMMA ListedIs ==
  ASSUME NEW u \in Filters, NEW v
  PROVE  Listed(u, v) =
           {e \in baseEvents(u) : /\ v \in {"all", e.verdict} \/ (v = "blocked" /\ blocked(e))
                                  /\ e.hook # "agg"}
  <1> DEFINE w == [u EXCEPT !.verdict = v, !.hook = "all", !.subject = "all", !.agg = FALSE,
                            !.q = ""]
  <1>1. /\ w.prog = u.prog /\ w.data = u.data /\ w.range = u.range /\ w.node = u.node
        /\ w.verdict = v /\ w.hook = "all" /\ w.subject = "all" /\ w.agg = FALSE /\ w.q = ""
    BY DEF Filters
  <1> HIDE DEF w
  <1>2. baseEvents(w) = baseEvents(u)
    BY <1>1 DEF baseEvents, inWindow, since, nodeOk, EventSet
  <1>3. Listed(u, v) = searchEvents(w)
    BY DEF Listed, w
  <1>4. QED
    BY <1>1, <1>2, <1>3 DEF searchEvents

\* The records of a verdict, aggregates left out.
Told(u, v) == {e \in baseEvents(u) : e.hook # "agg" /\ e.verdict = v}

LEMMA ToldAre ==
  ASSUME NEW u \in Filters, NEW v \in Verdicts
  PROVE  /\ IsFiniteSet(Told(u, v)) /\ Listed(u, v) = Told(u, v)
         /\ \A e \in baseEvents(u) : IsRecord(e)
  <1>1. u.prog \in Programs /\ u.data \in Sources
    BY DEF Filters
  <1>2. IsFiniteSet(Told(u, v))
    BY FiniteEvents, FS_Subset DEF Told
  <1>3. v \notin {"all", "blocked"}
    BY DEF Verdicts
  <1>4. Listed(u, v) = Told(u, v)
    BY <1>3, ListedIs DEF Told
  <1>5. QED
    BY <1>1, <1>2, <1>4, FiniteEvents, EventsOf

\* All columns of the chart together are the records of a verdict.
LEMMA ChartCounts ==
  ASSUME NEW u \in Filters, NEW v \in Verdicts
  PROVE  AllBars(ChartRows(u))[v] = Cardinality(Told(u, v))
  <1> DEFINE n == columns(u)
             K == 0 .. n - 1
             S == Told(u, v)
             part == [e \in S |-> Slot(u, e.ts)]
             g == [k \in DOMAIN ChartRows(u) |-> ChartRows(u)[k][v]]
  <1>1. AllBars(ChartRows(u))[v] = Sum(g)
    BY DEF AllBars, Sum
  <1>2. n \in Nat
    BY ColumnsAre
  <1>3. part \in [S -> K]
    <2>1. ASSUME NEW e \in S PROVE Slot(u, e.ts) \in K
      <3>1. e \in baseEvents(u) /\ IsRecord(e)
        BY ToldAre DEF Told
      <3>2. e.ts \in Int /\ e.ts >= since(u)
        BY <3>1 DEF baseEvents, inWindow, IsRecord
      <3>3. QED
        BY <3>2, SlotIs
    <2>2. QED
      BY <2>1
  <1>4. DOMAIN g = K
    BY DEF ChartRows
  <1>5. ASSUME NEW k \in K PROVE g[k] = Cardinality({e \in S : part[e] = k})
    <2> DEFINE C == {e \in baseEvents(u) : e.hook # "agg" /\ Slot(u, e.ts) = k}
    <2>1. g[k] = Cardinality({e \in C : e.verdict = v})
      BY DEF ChartRows, Tally
    <2>2. {e \in C : e.verdict = v} = {e \in S : part[e] = k}
      BY DEF Told
    <2>3. QED
      BY <2>1, <2>2
  <1>6. IsFiniteSet(K) /\ IsFiniteSet(S)
    BY <1>2, FS_Interval, ToldAre
  <1> HIDE DEF g, part, K, S
  <1>7. Sum(g) = Cardinality(S)
    BY <1>3, <1>4, <1>5, <1>6, SumOfParts
  <1>8. QED
    BY <1>1, <1>7 DEF S

\* So are all the bars of the hooks.
LEMMA HooksCount ==
  ASSUME NEW u \in Filters, NEW v \in Verdicts
  PROVE  AllBars(HookBars(u))[v] = Cardinality(Told(u, v))
  <1> DEFINE S == Told(u, v)
             part == [e \in S |-> e.hook]
             g == [k \in DOMAIN HookBars(u) |-> HookBars(u)[k][v]]
  <1>1. AllBars(HookBars(u))[v] = Sum(g)
    BY DEF AllBars, Sum
  <1>2. part \in [S -> HookOrder]
    <2>1. \A e \in S : e.hook \in HookOrder
      BY ToldAre DEF Told, IsRecord
    <2>2. QED
      BY <2>1
  <1>3. DOMAIN g = HookOrder
    BY DEF HookBars
  <1>4. ASSUME NEW k \in HookOrder PROVE g[k] = Cardinality({e \in S : part[e] = k})
    <2> DEFINE C == {e \in baseEvents(u) : e.hook = k}
    <2>1. g[k] = Cardinality({e \in C : e.verdict = v})
      BY DEF HookBars, Tally
    <2>2. k # "agg"
      BY DEF HookOrder
    <2>3. {e \in C : e.verdict = v} = {e \in S : part[e] = k}
      BY <2>2 DEF Told
    <2>4. QED
      BY <2>1, <2>3
  <1>5. IsFiniteSet(HookOrder) /\ IsFiniteSet(S)
    <2>1. HookOrder = {"exec", "write", "unlink", "rename", "connect"} \cup {"self"}
      BY DEF HookOrder
    <2>2. HookOrder = ((((({} \cup {"exec"}) \cup {"write"}) \cup {"unlink"}) \cup {"rename"})
                         \cup {"connect"}) \cup {"self"}
      BY <2>1
    <2>3. IsFiniteSet(HookOrder)
      BY <2>2, FS_EmptySet, FS_AddElement
    <2>4. QED
      BY <2>3, ToldAre
  <1> HIDE DEF g, part, S
  <1>6. Sum(g) = Cardinality(S)
    BY <1>2, <1>3, <1>4, <1>5, SumOfParts
  <1>7. QED
    BY <1>1, <1>6 DEF S

\* The execs of all verdicts together are the execs.
LEMMA ExecsCount ==
  ASSUME NEW u \in Filters
  PROVE  FoldFunction(+, 0, HookBars(u)["exec"]) = Cardinality({e \in baseEvents(u) : e.hook = "exec"})
  <1> DEFINE S == {e \in baseEvents(u) : e.hook = "exec"}
             part == [e \in S |-> e.verdict]
             g == HookBars(u)["exec"]
  <1>1. g = [v \in Verdicts |-> Cardinality({e \in S : e.verdict = v})]
    BY DEF HookBars, HookOrder, Tally
  <1>2. part \in [S -> Verdicts]
    <2>1. "ALLOW" \in Verdicts
      BY DEF Verdicts
    <2>2. \A e \in S : e.verdict \in Verdicts
      BY <2>1, ToldAre DEF IsRecord
    <2>3. QED
      BY <2>2
  <1>3. ASSUME NEW k \in Verdicts PROVE g[k] = Cardinality({e \in S : part[e] = k})
    <2>1. {e \in S : e.verdict = k} = {e \in S : part[e] = k}
      OBVIOUS
    <2>2. QED
      BY <1>1, <2>1
  <1>4. IsFiniteSet(Verdicts)
    <2>1. Verdicts = (({} \cup {"ALLOW"}) \cup {"WOULD_DENY"}) \cup {"DENY"}
      BY DEF Verdicts
    <2>2. QED
      BY <2>1, FS_EmptySet, FS_AddElement
  <1>5. IsFiniteSet(S)
    BY FiniteEvents, FS_Subset
  <1>6. DOMAIN g = Verdicts
    BY <1>1
  <1> HIDE DEF g, part, S
  <1>7. Sum(g) = Cardinality(S)
    BY <1>2, <1>3, <1>4, <1>5, <1>6, SumOfParts
  <1>8. QED
    BY <1>7 DEF S, g, Sum

\* Two parts of a finite set that share nothing.
LEMMA TwoParts ==
  ASSUME NEW S, IsFiniteSet(S), NEW A, NEW B, A \cup B = S, A \cap B = {}
  PROVE  Cardinality(S) = Cardinality(A) + Cardinality(B)
  <1>1. IsFiniteSet(A) /\ IsFiniteSet(B)
    BY FS_Subset
  <1>2. Cardinality(A \cup B) = Cardinality(A) + Cardinality(B) - Cardinality(A \cap B)
    BY <1>1, FS_Union
  <1>3. Cardinality(A \cap B) = 0 /\ Cardinality(A) \in Nat /\ Cardinality(B) \in Nat
    BY <1>1, FS_EmptySet, FS_CardinalityType
  <1>4. QED
    BY <1>2, <1>3

\* No aggregate is blocked, so the blocked records are those the search lists,
\* and those of the two tiles.
LEMMA BlockedCount ==
  ASSUME NEW u \in Filters
  PROVE  /\ Tiles(u).deny = Cardinality(Told(u, "DENY"))
         /\ Tiles(u).would = Cardinality(Told(u, "WOULD_DENY"))
         /\ Badges(u).search = Cardinality(Listed(u, "blocked"))
         /\ Badges(u).search = Tiles(u).deny + Tiles(u).would
  <1> DEFINE B == {e \in baseEvents(u) : blocked(e)}
  <1>1. "DENY" \in Verdicts /\ "WOULD_DENY" \in Verdicts
    BY DEF Verdicts
  <1>2. \A e \in baseEvents(u) : e.hook = "agg" => ~blocked(e)
    BY <1>1, ToldAre DEF IsRecord, blocked
  <1>3. /\ Told(u, "DENY") = {e \in baseEvents(u) : e.verdict = "DENY"}
        /\ Told(u, "WOULD_DENY") = {e \in baseEvents(u) : e.verdict = "WOULD_DENY"}
    BY <1>2 DEF Told, blocked
  <1>4. /\ Tiles(u).deny = Cardinality(Told(u, "DENY"))
        /\ Tiles(u).would = Cardinality(Told(u, "WOULD_DENY"))
    BY <1>1, <1>3 DEF Tiles, Tally
  <1>5. Badges(u).search = Cardinality(B)
    BY DEF Badges
  <1>6. Listed(u, "blocked") = B
    <2>1. \A e \in baseEvents(u) : e.verdict # "blocked"
      BY <1>1, ToldAre DEF IsRecord, Verdicts
    <2>2. QED
      BY <1>2, <2>1, ListedIs
  <1>7. IsFiniteSet(B)
    BY FiniteEvents, FS_Subset
  <1>8. B = Told(u, "DENY") \cup Told(u, "WOULD_DENY")
    BY <1>3 DEF blocked
  <1>9. Told(u, "DENY") \cap Told(u, "WOULD_DENY") = {}
    BY DEF Told
  <1> HIDE DEF B
  <1>10. Cardinality(B) = Cardinality(Told(u, "DENY")) + Cardinality(Told(u, "WOULD_DENY"))
    BY <1>7, <1>8, <1>9, TwoParts
  <1>11. QED
    BY <1>4, <1>5, <1>6, <1>10

\* What is counted as active is what a button calls valid or in grace and is not
\* past its grace.
LEMMA ActiveCount ==
  ASSUME NEW u \in Filters
  PROVE  Active(u) = {w \in OfNode(u, Log(u).warrants) : Status(w) # "expired" /\ ~PastGrace(w)}
  <1>1. u.prog \in Programs /\ u.data \in Sources
    BY DEF Filters
  <1>2. \A w \in WarrantSet(u) : w.expires \in Int
    BY <1>1, LogOf DEF IsLog, WarrantSet
  <1>3. ASSUME NEW w \in WarrantSet(u)
        PROVE  (w.expires > NOW \/ (w.on_expiry = "grace" /\ w.expires + Grace > NOW))
                 <=> Status(w) # "expired" /\ ~PastGrace(w)
    <2>1. /\ w.expires > NOW <=> ~(w.expires <= NOW)
          /\ w.expires + Grace > NOW <=> ~(w.expires + Grace <= NOW)
          /\ w.expires > NOW => w.expires + Grace > NOW
      BY <1>2 DEF NOW, Grace, MIN
    <2>2. CASE w.expires > NOW
      BY <2>1, <2>2 DEF Status, PastGrace
    <2>3. CASE w.expires <= NOW /\ w.on_expiry = "grace"
      BY <2>1, <2>3 DEF Status, PastGrace
    <2>4. CASE w.expires <= NOW /\ w.on_expiry # "grace"
      BY <2>1, <2>4 DEF Status, PastGrace
    <2>5. QED
      BY <2>1, <2>2, <2>3, <2>4
  <1>4. QED
    BY <1>3, OfNodeIs DEF Active

\* The numbers of the overview agree, whatever the period, the node and the log.
LEMMA NumbersDo ==
  ASSUME NEW u \in Filters
  PROVE  NumbersAgree(u)
  <1> DEFINE chart == AllBars(ChartRows(u))
  <1>1. \A v \in Verdicts : chart[v] = Cardinality(Told(u, v))
    BY ChartCounts
  <1>2. chart = AllBars(HookBars(u))
    <2>1. /\ chart = [v \in Verdicts |-> chart[v]]
          /\ AllBars(HookBars(u)) = [v \in Verdicts |-> AllBars(HookBars(u))[v]]
      BY DEF AllBars
    <2>2. \A v \in Verdicts : chart[v] = AllBars(HookBars(u))[v]
      BY <1>1, HooksCount
    <2> HIDE DEF chart
    <2>3. QED
      BY <2>1, <2>2
  <1> HIDE DEF chart
  <1>3. \A v \in Verdicts : chart[v] = Cardinality(Listed(u, v))
    BY <1>1, ToldAre
  <1>4. "DENY" \in Verdicts /\ "WOULD_DENY" \in Verdicts
    BY DEF Verdicts
  <1>5. /\ Tiles(u).deny = chart["DENY"] /\ Tiles(u).would = chart["WOULD_DENY"]
        /\ Badges(u).search = Cardinality(Listed(u, "blocked"))
        /\ Badges(u).search = Tiles(u).deny + Tiles(u).would
    BY <1>1, <1>4, BlockedCount
  <1>6. Tiles(u).execs = FoldFunction(+, 0, HookBars(u)["exec"])
    BY ExecsCount DEF Tiles
  <1>7. Tiles(u).gaps = Cardinality({g \in gapsIn(u) : Band(u, g) # {}})
    <2>1. {g \in gapsIn(u) : Band(u, g) # {}} = gapsIn(u)
      BY BandIs
    <2>2. QED
      BY <2>1 DEF Tiles
  <1>8. ASSUME NEW i \in DOMAIN ChartRows(u), NEW g \in TipGaps(u, i) PROVE i \in Band(u, g)
    <2>1. i \in 0 .. columns(u) - 1 /\ i \in Int
      BY ColumnsAre DEF ChartRows
    <2>2. /\ g \in gapsIn(u) /\ g.from < since(u) + (i + 1) * Bucket
          /\ g.to > since(u) + i * Bucket
      BY DEF TipGaps
    <2>3. PICK from, to \in Int :
            /\ from = g.from /\ to \in {g.to, NOW}
            /\ \A k \in 0 .. columns(u) - 1 :
                 k \in Band(u, g) <=> Slot(u, from) <= k /\ k <= Slot(u, to)
      BY <2>2, BandIs
    <2>4. to >= since(u) + i * Bucket
      <3>1. i * 300000 <= columns(u) * 300000 /\ Bucket = 300000
        BY <2>1, ColumnsAre DEF Bucket, MIN
      <3>2. CASE to = NOW
        BY <2>1, <3>1, <3>2, ColumnsAre
      <3>3. CASE to = g.to
        BY <2>1, <2>2, <3>1, <3>3, ColumnsAre
      <3>4. QED
        BY <2>3, <3>2, <3>3
    <2>5. Slot(u, from) <= i /\ i <= Slot(u, to)
      BY <2>1, <2>2, <2>3, <2>4, SlotIs
    <2>6. QED
      BY <2>1, <2>3, <2>5
  <1>9. ASSUME NEW e \in baseEvents(u), NEW g \in gapsIn(u), e.ts \in g.from .. g.to
        PROVE  Slot(u, e.ts) \in Band(u, g)
    <2>1. PICK from, to \in Int :
            /\ from = g.from /\ to \in {g.to, NOW}
            /\ \A k \in 0 .. columns(u) - 1 :
                 k \in Band(u, g) <=> Slot(u, from) <= k /\ k <= Slot(u, to)
      BY BandIs
    <2>2. "DENY" \in Verdicts
      BY DEF Verdicts
    <2>3. e.ts \in Int /\ e.ts >= since(u) /\ e.ts <= NOW
      BY <2>2, ToldAre DEF IsRecord, baseEvents, inWindow
    <2>4. from <= e.ts /\ e.ts <= to
      BY <1>9, <2>1, <2>3
    <2>5. /\ Slot(u, from) <= Slot(u, e.ts) /\ Slot(u, e.ts) <= Slot(u, to)
          /\ Slot(u, e.ts) \in 0 .. columns(u) - 1
      BY <2>3, <2>4, SlotIs
    <2>6. QED
      BY <2>1, <2>5
  <1>10. Tiles(u).active =
           Cardinality({w \in OfNode(u, Log(u).warrants) : Status(w) # "expired" /\ ~PastGrace(w)})
    BY ActiveCount DEF Tiles
  <1>11. QED
    BY <1>2, <1>3, <1>5, <1>6, <1>7, <1>8, <1>9, <1>10 DEF NumbersAgree, chart

\* The page that has the settings of a state.
LEMMA PageOf ==
  ASSUME NEW u \in Filters, u.node \in Log(u).nodes \cup {"all"}
  PROVE  \E f \in Pages : f \in Filters /\ Setting(f) = Setting(u)
  <1> DEFINE p == u.prog
             d == u.data
             r == u.range
             n == u.node
             loaded == DEFAULT_FILTERS(p, d)
             page(q, c, x, y) == [DEFAULT_FILTERS(q, c) EXCEPT !.range = x, !.node = y]
             places(q, c) == Log([prog |-> q, data |-> c]).nodes \cup {"all"}
             pages(q, c) == {page(q, c, x, y) : x \in Ranges, y \in places(q, c)}
             f == page(p, d, r, n)
  <1>1. p \in Programs /\ d \in Sources /\ r \in Ranges /\ n \in Place
    BY DEF Filters
  <1>2. Log([prog |-> p, data |-> d]) = Log(u)
    BY DEF Log
  <1>3. loaded \in Filters /\ loaded.prog = p /\ loaded.data = d
    BY <1>1, DefaultsAre
  <1>4. f \in Pages
    <2>1. n \in places(p, d)
      BY <1>2
    <2>2. Pages = UNION {pages(q, c) : q \in Programs, c \in Sources}
      BY DEF Pages
    <2> HIDE DEF page, places, p, d, r, n
    <2>3. f \in pages(p, d)
      BY <1>1, <2>1
    <2> HIDE DEF pages, f
    <2>4. QED
      BY <1>1, <2>2, <2>3
  <1>5. f = [loaded EXCEPT !.range = r, !.node = n]
    OBVIOUS
  <1> HIDE DEF loaded, f, page, pages
  <1>6. f \in Filters /\ f.prog = p /\ f.data = d /\ f.range = r /\ f.node = n
    BY <1>1, <1>3, <1>5 DEF Filters
  <1>7. Setting(f) = Setting(u)
    BY <1>6 DEF Setting
  <1>8. QED
    BY <1>4, <1>6, <1>7

\* The numbers of the overview agree there.
LEMMA PageIsSound ==
  ASSUME NEW u \in Filters, u.node \in Log(u).nodes \cup {"all"}
  PROVE  Setting(u) \in SoundSettings
  <1>1. PICK f \in Pages : f \in Filters /\ Setting(f) = Setting(u)
    BY PageOf
  <1>2. NumbersAgree(f)
    BY <1>1, NumbersDo
  <1>3. QED
    BY <1>1, <1>2 DEF SoundSettings

-----------------------------------------------------------------------------
(* The rows of a node *)

\* What a warrant or a session of a node brings with it is of that node.
LEMMA WarrantRows ==
  ASSUME NEW u, u.prog \in Programs, u.data \in Sources,
         NEW w \in OfNode(u, Log(u).warrants)
  PROVE  \A x \in WarrantEvents(u, w) \cup WarrantGaps(u, w) : nodeOk(u, x)
  <1>1. w \in WarrantSet(u) /\ nodeOk(u, w)
    BY OfNodeIs
  <1>2. \A x \in WarrantEvents(u, w) \cup WarrantGaps(u, w) : x.node = w.node
    BY <1>1, WarrantsOf DEF WarrantGaps
  <1>3. QED
    BY <1>1, <1>2 DEF nodeOk

LEMMA SessionRows ==
  ASSUME NEW u, u.prog \in Programs, u.data \in Sources,
         NEW s \in OfNode(u, Log(u).sessions)
  PROVE  \A x \in SessionEvents(u, s) : nodeOk(u, x)
  <1>1. s \in SessionSet(u) /\ nodeOk(u, s)
    BY OfNodeIs
  <1>2. QED
    BY <1>1, SessionsOf DEF nodeOk

\* No table of App.tsx has a row of another node.
LEMMA AppRows ==
  ASSUME NEW u, u \in Filters
  PROVE  LET t == TableOf(u) IN \A x \in t.events \cup t.gaps : nodeOk(u, x)
  <1>1. u.prog \in Programs /\ u.data \in Sources /\ u.view \in Views
    BY DEF Filters
  <1>2. CASE u.view = "overview"
    <2>1. TableOf(u) = [events |-> RecentDeny(u), gaps |-> {}]
      BY <1>2 DEF TableOf
    <2>2. RecentDeny(u) \subseteq baseEvents(u)
      BY DEF RecentDeny
    <2>3. QED
      BY <2>1, <2>2 DEF baseEvents, inWindow
  <1>3. CASE u.view = "search"
    <2>1. TableOf(u) = [events |-> searchEvents(u), gaps |-> gapsIn(u)]
      BY <1>3 DEF TableOf
    <2>2. \A e \in searchEvents(u) : nodeOk(u, e)
      BY DEF searchEvents, baseEvents, inWindow
    <2>3. \A g \in gapsIn(u) : nodeOk(u, g)
      BY DEF gapsIn
    <2>4. QED
      BY <2>1, <2>2, <2>3
  <1>4. CASE u.view = "timeline"
    <2> DEFINE w == ShownWarrant(u)
    <2>1. TableOf(u) = [events |-> WarrantEvents(u, w), gaps |-> WarrantGaps(u, w)]
      BY <1>4 DEF TableOf
    <2>2. w = None \/ w \in OfNode(u, Log(u).warrants)
      BY <1>1, ShownWarrantIs
    <2> HIDE DEF w
    <2>3. w = None => WarrantEvents(u, w) = {} /\ WarrantGaps(u, w) = {}
      BY DEF WarrantEvents, WarrantGaps
    <2>4. \A x \in WarrantEvents(u, w) \cup WarrantGaps(u, w) : nodeOk(u, x)
      BY <1>1, <2>2, <2>3, WarrantRows
    <2>5. QED
      BY <2>1, <2>4
  <1>5. CASE u.view = "warrantless"
    <2> DEFINE s == ShownSession(u)
    <2>1. TableOf(u) = [events |-> SessionEvents(u, s), gaps |-> {}]
      BY <1>5 DEF TableOf
    <2>2. s = None \/ s \in OfNode(u, Log(u).sessions)
      BY <1>1, ShownSessionIs
    <2> HIDE DEF s
    <2>3. s = None => SessionEvents(u, s) = {}
      BY DEF SessionEvents
    <2>4. \A x \in SessionEvents(u, s) : nodeOk(u, x)
      BY <1>1, <2>2, <2>3, SessionRows
    <2>5. QED
      BY <2>1, <2>4
  <1>6. QED
    BY <1>1, <1>2, <1>3, <1>4, <1>5 DEF Views

\* Nor has one of app.js: what was chosen before the node was rendered anew.
LEMMA DashRows ==
  ASSUME NEW u, u \in Filters, Rendered(u)
  PROVE  LET t == dashTable(u) IN \A x \in t.events \cup t.gaps : nodeOk(u, x)
  <1>1. u.prog \in Programs /\ u.data \in Sources /\ u.view \in Views
    BY DEF Filters
  <1> DEFINE ws == {x \in WarrantSet(u) : x.id = u.warrant}
             ss == {x \in OfNode(u, Log(u).sessions) : x.cgroup = u.wlSel}
  <1>2. CASE u.view = "overview"
    <2>1. dashTable(u) = [events |-> RecentDeny(u), gaps |-> {}]
      BY <1>2 DEF dashTable
    <2>2. RecentDeny(u) \subseteq baseEvents(u)
      BY DEF RecentDeny
    <2>3. QED
      BY <2>1, <2>2 DEF baseEvents, inWindow
  <1>3. CASE u.view = "search"
    <2>1. dashTable(u) = [events |-> searchEvents(u), gaps |-> gapsIn(u)]
      BY <1>3 DEF dashTable
    <2>2. \A e \in searchEvents(u) : nodeOk(u, e)
      BY DEF searchEvents, baseEvents, inWindow
    <2>3. \A g \in gapsIn(u) : nodeOk(u, g)
      BY DEF gapsIn
    <2>4. QED
      BY <2>1, <2>2, <2>3
  <1>4. CASE u.view = "timeline"
    <2>1. dashTable(u) = [events |-> UNION {WarrantEvents(u, x) : x \in ws},
                          gaps |-> UNION {WarrantGaps(u, x) : x \in ws}]
      BY <1>4 DEF dashTable
    <2>2. WarrantThere(u)
      BY <1>4 DEF Rendered
    <2>3. \A x \in ws : x \in OfNode(u, Log(u).warrants)
      <3>1. \A x \in WarrantSet(u) : x.id # None
        BY <1>1, WarrantsOf
      <3>2. ASSUME NEW w \in OfNode(u, Log(u).warrants), w.id = u.warrant, NEW x \in ws
            PROVE  x = w
        BY <1>1, <3>2, WarrantsOf, OfNodeIs
      <3>3. QED
        BY <2>2, <3>1, <3>2 DEF WarrantThere
    <2>4. \A w \in ws : \A x \in WarrantEvents(u, w) \cup WarrantGaps(u, w) : nodeOk(u, x)
      BY <1>1, <2>3, WarrantRows
    <2> HIDE DEF ws
    <2>5. QED
      BY <2>1, <2>4
  <1>5. CASE u.view = "warrantless"
    <2>1. dashTable(u) = [events |-> UNION {SessionEvents(u, x) : x \in ss}, gaps |-> {}]
      BY <1>5 DEF dashTable
    <2>2. \A s \in ss : \A x \in SessionEvents(u, s) : nodeOk(u, x)
      BY <1>1, SessionRows
    <2> HIDE DEF ss
    <2>3. QED
      BY <2>1, <2>2
  <1>6. QED
    BY <1>1, <1>2, <1>3, <1>4, <1>5 DEF Views

\* The node the user looks at holds of every table, and the numbers of the
\* overview are those of the search view, in both programs, after any presses;
\* also for a log with warrants that are past their grace.
THEOREM FiltersHoldAlways == Spec => []FiltersHold
  <1>1. ASSUME IInv PROVE FiltersHold
    <2>1. Both(app, dash) /\ Rendered(dash)
      BY <1>1 DEF IInv
    <2>2. app \in Filters /\ dash \in Filters
      BY <2>1 DEF Both
    <2>3. dash.node \in Log(dash).nodes \cup {"all"} /\ app.node \in Log(app).nodes \cup {"all"}
      <3>1. app.node = dash.node /\ dash.node \in Log(dash).nodes \cup {"all"}
        BY <2>1 DEF Both, Alike
      <3>2. Log(app).nodes = Log(dash).nodes
        BY <2>1, TwinLogs
      <3>3. QED
        BY <3>1, <3>2
    <2>4. Setting(app) \in SoundSettings /\ Setting(dash) \in SoundSettings
      BY <2>2, <2>3, PageIsSound
    <2>5. LET t == TableOf(app) IN \A x \in t.events \cup t.gaps : nodeOk(app, x)
      BY <2>2, AppRows
    <2>6. LET t == dashTable(dash) IN \A x \in t.events \cup t.gaps : nodeOk(dash, x)
      BY <2>1, <2>2, DashRows
    <2>7. QED
      BY <2>4, <2>5, <2>6 DEF FiltersHold
  <1>2. QED
    BY <1>1, Inductive, PTL

-----------------------------------------------------------------------------
(* The stream of numbers *)

Half == {n \in Nat : n < 65536}

LEMMA Sixteens ==
  /\ 2^0 = 1 /\ 2^1 = 2 /\ 2^2 = 4 /\ 2^3 = 8
  /\ 2^7 = 128 /\ 2^9 = 512 /\ 2^14 = 16384 /\ 2^2 = 4 /\ 2^15 = 32768
  /\ 16^0 = 1 /\ 16^1 = 16 /\ 16^2 = 256 /\ 16^3 = 4096
  OBVIOUS

\* Exclusive or, of numbers of any size, yields a half of a word.
LEMMA DigitIs ==
  ASSUME NEW a \in 0 .. 15, NEW b \in 0 .. 15
  PROVE  XorDigit[a][b] \in 0 .. 15
  <1>1. XorDigit[a][b] = Bit(a, b, 0) + Bit(a, b, 1) + Bit(a, b, 2) + Bit(a, b, 3)
    BY DEF XorDigit
  <1>2. Bit(a, b, 0) \in 0 .. 1 /\ Bit(a, b, 1) \in 0 .. 2
        /\ Bit(a, b, 2) \in 0 .. 4 /\ Bit(a, b, 3) \in 0 .. 8
    <2>1. \A c, d \in Int : (c + d) % 2 \in 0 .. 1
      OBVIOUS
    <2>2. \A m \in {1, 2, 4, 8} : m * (((a \div m) + (b \div m)) % 2) \in 0 .. m
      <3>1. ASSUME NEW m \in {1, 2, 4, 8} PROVE ((a \div m) + (b \div m)) % 2 \in 0 .. 1
        <4>1. a \div m \in Int /\ b \div m \in Int
          OBVIOUS
        <4>2. QED
          BY <2>1, <4>1
      <3>2. \A m \in {1, 2, 4, 8} : \A c \in 0 .. 1 : m * c \in 0 .. m
        OBVIOUS
      <3>3. QED
        BY <3>1, <3>2
    <2>3. QED
      BY <2>2, Sixteens DEF Bit
  <1>3. QED
    BY <1>1, <1>2

LEMMA XorHalfIs ==
  ASSUME NEW a \in Int, NEW b \in Int
  PROVE  XorHalf(a, b) \in Half
  <1>1. ASSUME NEW m \in Nat \ {0} PROVE (a \div m) % 16 \in 0 .. 15 /\ (b \div m) % 16 \in 0 .. 15
    OBVIOUS
  <1>2. \A m \in Nat \ {0} : XorDigit[(a \div m) % 16][(b \div m) % 16] \in 0 .. 15
    BY <1>1, DigitIs
  <1>3. \A m \in Nat \ {0} : \E c \in Nat :
           c <= 15 /\ XorDigit[(a \div m) % 16][(b \div m) % 16] = c
    BY <1>2
  <1>5. /\ \E c \in Nat : c <= 15 /\ XorAt(a, b, 0) = c
        /\ \E c \in Nat : c <= 15 /\ XorAt(a, b, 1) = 16 * c
        /\ \E c \in Nat : c <= 15 /\ XorAt(a, b, 2) = 256 * c
        /\ \E c \in Nat : c <= 15 /\ XorAt(a, b, 3) = 4096 * c
    <2> DEFINE digit(m) == XorDigit[(a \div m) % 16][(b \div m) % 16]
    <2>1. /\ XorAt(a, b, 0) = 1 * digit(1) /\ XorAt(a, b, 1) = 16 * digit(16)
          /\ XorAt(a, b, 2) = 256 * digit(256) /\ XorAt(a, b, 3) = 4096 * digit(4096)
      BY Sixteens DEF XorAt
    <2>2. \A m \in {1, 16, 256, 4096} : \E c \in Nat : c <= 15 /\ digit(m) = c
      BY <1>3
    <2> HIDE DEF digit
    <2>3. QED
      BY <2>1, <2>2
  <1>4. QED
    BY <1>5 DEF XorHalf, Half

LEMMA XorIs ==
  ASSUME NEW x \in Int \X Int, NEW y \in Int \X Int
  PROVE  Xor(x, y) \in Half \X Half /\ Xor(x, y) \in Int \X Int
  <1>1. XorHalf(x[1], y[1]) \in Half /\ XorHalf(x[2], y[2]) \in Half
    BY XorHalfIs
  <1>2. QED
    BY <1>1 DEF Xor, Half

LEMMA WordsAre ==
  ASSUME NEW x \in Int \X Int, NEW y \in Int \X Int
  PROVE  /\ Plus(x, y) \in Int \X Int /\ imul(x, y) \in Int \X Int
         /\ Or1(x) \in Int \X Int /\ Or61(x) \in Int \X Int
         /\ Shr(x, 7) \in Int \X Int /\ Shr(x, 14) \in Int \X Int /\ Shr(x, 15) \in Int \X Int
  <1>1. x[1] \in Int /\ x[2] \in Int /\ y[1] \in Int /\ y[2] \in Int
    OBVIOUS
  <1>2. ASSUME NEW a \in Int, NEW b \in Int
        PROVE  TimesHalf(a, b) \in Int \X Int
    <2> DEFINE high == a * (b \div 256)
               low == a * (b % 256) + 256 * (high % 256)
    <2>1. high \in Int
      OBVIOUS
    <2>2. low \in Int
      BY <2>1
    <2>3. TimesHalf(a, b) = <<(high \div 256) + (low \div 65536), low % 65536>>
      BY DEF TimesHalf
    <2> HIDE DEF high, low
    <2>4. QED
      BY <2>1, <2>2, <2>3
  <1>3. imul(x, y) \in Int \X Int
    <2>1. /\ TimesHalf(x[2], y[2]) \in Int \X Int /\ TimesHalf(x[1], y[2]) \in Int \X Int
          /\ TimesHalf(x[2], y[1]) \in Int \X Int
      BY <1>1, <1>2
    <2>2. QED
      BY <2>1 DEF imul
  <1>4. Plus(x, y) \in Int \X Int
    BY <1>1 DEF Plus
  <1>5. Or1(x) \in Int \X Int /\ Or61(x) \in Int \X Int
    BY <1>1 DEF Or1, Or61
  <1>6. Shr(x, 7) \in Int \X Int /\ Shr(x, 14) \in Int \X Int /\ Shr(x, 15) \in Int \X Int
    <2>1. 16 - 7 = 9 /\ 16 - 14 = 2 /\ 16 - 15 = 1
      OBVIOUS
    <2>2. QED
      BY <1>1, <2>1, Sixteens DEF Shr
  <1>7. QED
    BY <1>3, <1>4, <1>5, <1>6

LEMMA NumbersAre ==
  ASSUME NEW seed \in Int, NEW i \in Int
  PROVE  rng(seed, i) \in Half \X Half
  <1> DEFINE a == Plus(Word(seed), imul(Word(i), <<27947, 31221>>))
             t == imul(Xor(a, Shr(a, 15)), Or1(a))
             u == Xor(t, Plus(t, imul(Xor(t, Shr(t, 7)), Or61(t))))
  <1>1. rng(seed, i) = Xor(u, Shr(u, 14))
    BY DEF rng
  <1>2. Word(seed) \in Int \X Int /\ Word(i) \in Int \X Int /\ <<27947, 31221>> \in Int \X Int
    BY DEF Word
  <1>3. a \in Int \X Int
    BY <1>2, WordsAre
  <1> HIDE DEF a
  <1>4. t \in Int \X Int
    BY <1>3, WordsAre, XorIs
  <1> HIDE DEF t
  <1>5. u \in Int \X Int
    BY <1>4, WordsAre, XorIs
  <1> HIDE DEF u
  <1>6. QED
    BY <1>1, <1>5, WordsAre, XorIs

\* Math.floor(R() * n) is a number below n.
LEMMA RIs ==
  ASSUME NEW l, l.seed \in Int, l.drawn \in Int, NEW n \in Nat \ {0}
  PROVE  R(l, n) \in 0 .. n - 1
  <1> DEFINE x == rng(l.seed, l.drawn + 1)
             u == x[1] * n
             v == x[2] * n
  <1>1. x \in Half \X Half
    BY NumbersAre
  <1>2. R(l, n) = (u + (v \div 65536)) \div 65536
    BY DEF R
  <1>3. x[1] \in Nat /\ x[1] < 65536 /\ x[2] \in Nat /\ x[2] < 65536
    BY <1>1 DEF Half
  <1> HIDE DEF x
  <1>4. u \in Nat /\ v \in Nat /\ u <= 65535 * n /\ v <= 65535 * n
    <2>1. ASSUME NEW c \in Nat, c < 65536 PROVE c * n \in Nat /\ c * n <= 65535 * n
      <3>1. 65535 - c \in Nat
        BY <2>1
      <3>2. c * n \in Nat /\ (65535 - c) * n \in Nat
        BY <3>1
      <3>3. (65535 - c) * n = 65535 * n - c * n
        OBVIOUS
      <3>4. QED
        BY <3>2, <3>3
    <2>2. QED
      BY <1>3, <2>1
  <1> HIDE DEF u, v
  <1>5. v \div 65536 \in 0 .. n - 1
    BY <1>4
  <1>6. u + (v \div 65536) \in 0 .. 65536 * n - 1
    BY <1>4, <1>5
  <1>7. QED
    BY <1>2, <1>6

-----------------------------------------------------------------------------
(* Folds over a sequence *)

\* Induction up to a bound, over the set of the numbers for which something holds.
LEMMA Upward ==
  ASSUME NEW n \in Nat, NEW P, 0 \in P, \A k \in 1 .. n : k - 1 \in P => k \in P
  PROVE  \A k \in 0 .. n : k \in P
  <1> SUFFICES ASSUME NEW j \in 0 .. n, j \notin P PROVE FALSE
    OBVIOUS
  <1> DEFINE T == {k \in 0 .. n : k \notin P}
  <1>1. T \subseteq Nat /\ T # {}
    OBVIOUS
  <1>2. PICK k \in T : \A m \in T : k <= m
    <2> HIDE DEF T
    <2>1. QED
      BY <1>1, NatLeast
  <1>3. k \in 1 .. n
    OBVIOUS
  <1>4. k - 1 \in P
    <2>1. k - 1 \in 0 .. n /\ ~(k <= k - 1)
      BY <1>3
    <2>2. QED
      BY <1>2, <2>1
  <1>5. QED
    BY <1>3, <1>4

LEMMA Along ==
  ASSUME NEW n \in Nat, NEW P, 0 \in P, \A k \in 1 .. n : k - 1 \in P => k \in P
  PROVE  n \in P
  <1>1. n \in 0 .. n
    OBVIOUS
  <1>2. QED
    BY <1>1, Upward

LEMMA Segments ==
  ASSUME NEW n \in Nat, NEW k \in 1 .. n
  PROVE  /\ 1 .. k \in SUBSET (1 .. n) /\ 1 .. (k - 1) \in SUBSET (1 .. n) /\ 1 .. k # {}
         /\ Max(1 .. k) = k /\ (1 .. k) \ {k} = 1 .. (k - 1)
  <1>1. k \in 1 .. k /\ \A y \in 1 .. k : k >= y
    OBVIOUS
  <1>2. \A x \in 1 .. k : (\A y \in 1 .. k : x >= y) => x = k
    BY <1>1
  <1>3. Max(1 .. k) = k
    BY <1>1, <1>2 DEF Max
  <1>4. QED
    BY <1>3

\* The recursion by which FoldLeft is defined has a solution, when every step
\* stays in a set.
Folds(n, b, step, h) ==
  \A t \in SUBSET (1 .. n) : h[t] = IF t = {} THEN b ELSE step[<<Max(t), h[t \ {Max(t)}]>>]

LEMMA FoldExists ==
  ASSUME NEW S, NEW b \in S, NEW n \in Nat, NEW step \in [(1 .. n) \X S -> S]
  PROVE  \E h \in [SUBSET (1 .. n) -> S] : Folds(n, b, step, h)
  <1> DEFINE Solves(h, k) == Folds(k, b, step, h)
             P == {k \in 0 .. n : \E h \in [SUBSET (1 .. k) -> S] : Solves(h, k)}
  <1>1. 0 \in P
    <2>1. SUBSET (1 .. 0) = {{}}
      <3>1. 1 .. 0 = {}
        OBVIOUS
      <3>2. QED
        BY <3>1
    <2>2. [t \in SUBSET (1 .. 0) |-> b] \in [SUBSET (1 .. 0) -> S]
          /\ Solves([t \in SUBSET (1 .. 0) |-> b], 0)
      BY <2>1 DEF Folds
    <2>3. 0 \in 0 .. n
      OBVIOUS
    <2>4. QED
      BY <2>2, <2>3
  <1>2. ASSUME NEW k \in 1 .. n, k - 1 \in P PROVE k \in P
    <2>1. PICK h \in [SUBSET (1 .. (k - 1)) -> S] : Solves(h, k - 1)
      BY <1>2
    <2> DEFINE g == [t \in SUBSET (1 .. k) |-> IF k \in t THEN step[<<k, h[t \ {k}]>>] ELSE h[t]]
    <2>2. ASSUME NEW t \in SUBSET (1 .. k)
          PROVE  /\ t \ {k} \in SUBSET (1 .. (k - 1)) /\ (k \notin t => t \in SUBSET (1 .. (k - 1)))
                 /\ (k \in t => Max(t) = k)
      <3>1. \A x \in t : x \in 1 .. k
        OBVIOUS
      <3>2. t \ {k} \in SUBSET (1 .. (k - 1)) /\ (k \notin t => t \in SUBSET (1 .. (k - 1)))
        BY <3>1
      <3>3. ASSUME k \in t PROVE Max(t) = k
        <4>1. \A y \in t : k >= y
          BY <3>1
        <4>2. \A x \in t : (\A y \in t : x >= y) => x = k
          BY <3>1, <3>3
        <4>3. QED
          BY <3>3, <4>1, <4>2 DEF Max
      <3>4. QED
        BY <3>2, <3>3
    <2>3. g \in [SUBSET (1 .. k) -> S]
      <3>1. ASSUME NEW t \in SUBSET (1 .. k)
            PROVE  (IF k \in t THEN step[<<k, h[t \ {k}]>>] ELSE h[t]) \in S
        BY <2>2
      <3>2. QED
        BY <3>1
    <2>4. Solves(g, k)
      <3> SUFFICES ASSUME NEW t \in SUBSET (1 .. k)
                   PROVE  g[t] = IF t = {} THEN b ELSE step[<<Max(t), g[t \ {Max(t)}]>>]
        BY DEF Folds
      <3>1. \A m : t \ {m} \in SUBSET (1 .. k)
        OBVIOUS
      <3>2. CASE k \in t
        <4>1. Max(t) = k /\ t # {} /\ k \notin t \ {k}
          BY <2>2, <3>2
        <4>2. g[t] = step[<<k, h[t \ {k}]>>] /\ g[t \ {k}] = h[t \ {k}]
          BY <3>1, <3>2, <4>1
        <4>3. QED
          BY <4>1, <4>2
      <3>3. CASE k \notin t
        <4>1. t \in SUBSET (1 .. (k - 1)) /\ k \notin t \ {Max(t)}
          BY <2>2, <3>3
        <4>2. g[t] = h[t] /\ g[t \ {Max(t)}] = h[t \ {Max(t)}]
          BY <3>1, <3>3, <4>1
        <4>3. h[t] = IF t = {} THEN b ELSE step[<<Max(t), h[t \ {Max(t)}]>>]
          BY <2>1, <4>1 DEF Folds
        <4>4. QED
          BY <4>2, <4>3
      <3>4. QED
        BY <3>2, <3>3
    <2> HIDE DEF g, Solves
    <2>5. k \in 0 .. n
      OBVIOUS
    <2>6. QED
      BY <2>3, <2>4, <2>5
  <1>3. n \in P
    <2> HIDE DEF P
    <2>1. \A k \in 1 .. n : k - 1 \in P => k \in P
      BY <1>2
    <2>2. n \in 0 .. n
      OBVIOUS
    <2>3. \A k \in 0 .. n : k \in P
      BY <1>1, <2>1, Upward
    <2>4. QED
      BY <2>2, <2>3
  <1>4. QED
    BY <1>3

\* ... and goes along the sequence one step at a time.
FoldsIn(S, n, b, step, it) ==
  /\ it[{}] = b
  /\ \A t \in SUBSET (1 .. n) :
       t # {} /\ it[t \ {Max(t)}] \in S => it[t] = step[<<Max(t), it[t \ {Max(t)}]>>]
Runs(n, b, step, g) == g[0] = b /\ \A k \in 1 .. n : g[k] = step[<<k, g[k - 1]>>]
RunsTo(S, n, b, step, v) == \E g \in [0 .. n -> S] : Runs(n, b, step, g) /\ g[n] = v

LEMMA FoldSteps ==
  ASSUME NEW S, NEW b \in S, NEW n \in Nat, NEW step \in [(1 .. n) \X S -> S], NEW it,
         FoldsIn(S, n, b, step, it)
  PROVE  RunsTo(S, n, b, step, it[1 .. n])
  <1> DEFINE P == {k \in 0 .. n : it[1 .. k] \in S}
             g == [k \in 0 .. n |-> it[1 .. k]]
  <1>1. it[1 .. 0] = b /\ 0 \in P
    <2>1. 1 .. 0 = {}
      OBVIOUS
    <2>2. QED
      BY <2>1 DEF FoldsIn
  <1>2. ASSUME NEW k \in 1 .. n, k - 1 \in P
        PROVE  k \in P /\ it[1 .. k] = step[<<k, it[1 .. (k - 1)]>>]
    <2>1. it[1 .. k] = step[<<k, it[1 .. (k - 1)]>>]
      BY <1>2, Segments DEF FoldsIn
    <2>2. QED
      BY <1>2, <2>1
  <1>3. \A k \in 0 .. n : k \in P
    <2> HIDE DEF P
    <2>1. \A k \in 1 .. n : k - 1 \in P => k \in P
      BY <1>2
    <2>2. QED
      BY <1>1, <2>1, Upward
  <1>4. \A k \in 1 .. n : k - 1 \in 0 .. n /\ k \in 0 .. n
    OBVIOUS
  <1>5. g \in [0 .. n -> S]
    BY <1>3
  <1>6. \A k \in 1 .. n : g[k] = step[<<k, g[k - 1]>>]
    BY <1>2, <1>3, <1>4
  <1>7. g[0] = b /\ g[n] = it[1 .. n]
    BY <1>1
  <1>8. QED
    BY <1>5, <1>6, <1>7 DEF Runs, RunsTo

LEMMA LargestIn ==
  ASSUME NEW n \in Nat, NEW s \in SUBSET (1 .. n), s # {}
  PROVE  Max(s) \in 1 .. n
  <1> DEFINE T == {n - x : x \in s}
  <1>1. T \subseteq Nat /\ T # {}
    <2>1. \A x \in s : n - x \in Nat
      OBVIOUS
    <2>2. QED
      BY <2>1
  <1>2. PICK y \in T : \A z \in T : y <= z
    <2> HIDE DEF T
    <2>1. QED
      BY <1>1, NatLeast
  <1>3. PICK x \in s : y = n - x
    BY <1>2
  <1>4. ASSUME NEW z \in s PROVE x >= z
    <2>1. n - z \in T /\ x \in Int /\ z \in Int
      OBVIOUS
    <2>2. n - x <= n - z
      BY <1>2, <1>3, <2>1
    <2>3. QED
      BY <2>1, <2>2
  <1>5. Max(s) \in s
    BY <1>4 DEF Max
  <1>6. QED
    BY <1>5

-----------------------------------------------------------------------------
(* A log that is being made *)

Hosts == ToSet(nodes)
Owned == {"W-4821-3F", "W-4830-A1", "W-4833-C7", "W-4836-E2", None}
Subjects == {"101", "102", "103", "104", None}
Texts0 == {"grace", "self-protection", "no-warrant", "expired", "expired-grace"}
Names0 == {"", "bash", "ls", "cat", "grep", "tail", "git", "vim", "/app/config.yml", "sudo",
           "/etc/nginx/nginx.conf", "cp", "/usr/bin/tool", "curl", "185.220.101.7", "10.0.12.40",
           "systemctl", "/run/systemd/private", "pg_dump", "/tmp/pg_check.out", "10.20.4.9",
           "python3", "/srv/pipeline/out", "/home/paul/.ssh/authorized_keys", "docker",
           "/var/run/docker.sock", "/opt/stage/release.txt", "/etc/hosts", "140.82.112.5",
           "bpftool", "/etc/systemd/system/app.service", "45.33.32.156", "systemd-run",
           "deploy.sh", "crontab", "/var/spool/cron/crontabs/kim.dev"}
Hooks == HookOrder \cup {"agg"}

\* The fields of a hook are there for no other.
Fits(x) == /\ x.hook \in {"self", "agg"} => x.what = ""
           /\ x.hook = "agg" => x.verdict = "ALLOW" /\ x.note = None

Entry == [id : Hosts \X Int, node : Hosts, seq : Int, ts : Int, warrant : Owned,
          subject : Subjects, cgroup : Int, pid : Int, hook : Hooks, verdict : Verdicts,
          what : Names0, note : Texts0 \cup {None}, root : BOOLEAN]

\* What is recorded for an owner, with these names in it.
IsOwner(w) == /\ w.id \in Owned /\ w.subject \in Subjects /\ w.node \in Hosts
              /\ w.cgroup \in Int /\ w.root \in BOOLEAN
Made(w, W) == {e \in Entry : /\ Fits(e) /\ e.what \in W
                             /\ e.warrant = w.id /\ e.subject = w.subject
                             /\ e.node = w.node /\ e.cgroup = w.cgroup}

\* A call that a script makes.
Call(W) == {x \in [hook : Hooks, names : Seq(W) \ {<<>>}, verdict : Verdicts, at : Int,
                   drawn : Nat, root : BOOLEAN, note : Texts0 \cup {None}] :
              \A i \in DOMAIN x.names :
                 Fits([hook |-> x.hook, what |-> x.names[i], verdict |-> x.verdict,
                       note |-> x.note])}

\* A record is known by its node and number, and these rise as the pids do.
Rising(s, last) ==
  /\ \A i \in DOMAIN s : /\ s[i].pid = 3999 + i /\ s[i].id = <<s[i].node, s[i].seq>>
                         /\ s[i].seq <= last[s[i].node]
  /\ \A i, j \in DOMAIN s : i < j /\ s[i].node = s[j].node => s[i].seq < s[j].seq
Made0 == [prog : Programs, seed : Int, drawn : Int, pid : Int, events : Seq(Entry),
          seqByNode : [Hosts -> Int]]
Draft == {l \in Made0 : l.pid = 4000 + Len(l.events) /\ Rising(l.events, l.seqByNode)}

\* m is made of l by adding records of E.
Adds(l, m, E) == /\ ToSet(l.events) \subseteq ToSet(m.events)
                 /\ ToSet(m.events) \subseteq ToSet(l.events) \cup E
                 /\ m.prog = l.prog /\ m.seed = l.seed
Twin(a, b) == a.prog = "app" /\ b = [a EXCEPT !.prog = "dash"]

LEMMA AppendRises ==
  ASSUME NEW s \in Seq(Entry), NEW last \in [Hosts -> Int], Rising(s, last),
         NEW e \in Entry, e.pid = 4000 + Len(s), e.id = <<e.node, e.seq>>,
         e.seq = last[e.node] + 1, NEW now, now = [last EXCEPT ![e.node] = e.seq]
  PROVE  /\ Append(s, e) \in Seq(Entry) /\ Len(Append(s, e)) = Len(s) + 1
         /\ Rising(Append(s, e), now)
         /\ ToSet(Append(s, e)) = ToSet(s) \cup {e}
  <1> DEFINE r == Append(s, e)
             n == Len(s)
  <1>1. /\ r \in Seq(Entry) /\ Len(r) = n + 1 /\ n \in Nat /\ DOMAIN r = 1 .. n + 1
        /\ DOMAIN s = 1 .. n /\ r[n + 1] = e /\ \A i \in 1 .. n : r[i] = s[i]
    OBVIOUS
  <1>2. \A i \in 1 .. n : /\ s[i].node \in Hosts /\ s[i].seq \in Int
                          /\ s[i].seq <= last[s[i].node] /\ last[s[i].node] \in Int
    <2> SUFFICES ASSUME NEW i \in 1 .. n
                 PROVE  /\ s[i].node \in Hosts /\ s[i].seq \in Int
                        /\ s[i].seq <= last[s[i].node] /\ last[s[i].node] \in Int
      OBVIOUS
    <2>1. s[i] \in Entry /\ i \in DOMAIN s
      BY <1>1
    <2>2. s[i].node \in Hosts /\ s[i].seq \in Int
      BY <2>1 DEF Entry
    <2>3. s[i].seq <= last[s[i].node]
      BY <2>1 DEF Rising
    <2>4. QED
      BY <2>2, <2>3
  <1>3. e.node \in Hosts /\ e.seq \in Int
    BY DEF Entry
  <1>4. \A h \in Hosts : now[h] = IF h = e.node THEN last[h] + 1 ELSE last[h]
    BY <1>3
  <1> HIDE DEF r, n
  <1>5. \A i \in DOMAIN r : /\ r[i].pid = 3999 + i /\ r[i].id = <<r[i].node, r[i].seq>>
                            /\ r[i].seq <= now[r[i].node]
    <2> SUFFICES ASSUME NEW i \in DOMAIN r
                 PROVE  /\ r[i].pid = 3999 + i /\ r[i].id = <<r[i].node, r[i].seq>>
                        /\ r[i].seq <= now[r[i].node]
      OBVIOUS
    <2>1. CASE i = n + 1
      <3>1. r[i] = e /\ 3999 + i = 4000 + n
        BY <1>1, <2>1
      <3>2. QED
        BY <1>3, <1>4, <3>1 DEF n
    <2>2. CASE i \in 1 .. n
      <3>1. r[i] = s[i] /\ i \in DOMAIN s
        BY <1>1, <2>2
      <3>2. s[i].pid = 3999 + i /\ s[i].id = <<s[i].node, s[i].seq>>
        BY <3>1 DEF Rising
      <3>3. s[i].seq <= now[s[i].node]
        BY <1>2, <1>4, <2>2
      <3>4. QED
        BY <3>1, <3>2, <3>3
    <2>3. QED
      BY <1>1, <2>1, <2>2
  <1>6. \A i, j \in DOMAIN r : i < j /\ r[i].node = r[j].node => r[i].seq < r[j].seq
    <2> SUFFICES ASSUME NEW i \in DOMAIN r, NEW j \in DOMAIN r, i < j, r[i].node = r[j].node
                 PROVE  r[i].seq < r[j].seq
      OBVIOUS
    <2>1. i \in 1 .. n /\ r[i] = s[i]
      BY <1>1
    <2>2. CASE j = n + 1
      <3>1. r[j] = e
        BY <1>1, <2>2
      <3>2. QED
        BY <1>2, <1>3, <2>1, <3>1
    <2>3. CASE j \in 1 .. n
      <3>1. r[j] = s[j] /\ i \in DOMAIN s /\ j \in DOMAIN s
        BY <1>1, <2>1, <2>3
      <3>2. QED
        BY <2>1, <3>1 DEF Rising
    <2>4. QED
      BY <1>1, <2>2, <2>3
  <1>7. ToSet(r) = ToSet(s) \cup {e}
    <2>1. \A x : (\E i \in 1 .. n + 1 : r[i] = x) <=> (\E i \in 1 .. n : s[i] = x) \/ x = e
      BY <1>1
    <2>2. QED
      BY <1>1, <2>1 DEF ToSet
  <1>8. Rising(r, now)
    BY <1>5, <1>6 DEF Rising
  <1>9. QED
    BY <1>1, <1>7, <1>8 DEF r, n

\* The record that base() makes, and the log with it.
LEMMA BaseIs ==
  ASSUME NEW l \in Draft, NEW w, IsOwner(w), NEW t \in Int, NEW W \in SUBSET Names0,
         NEW x \in Call(W), NEW i \in DOMAIN x.names
  PROVE  /\ base(l, w, t, x, x.names[i]) \in Draft
         /\ Adds(l, base(l, w, t, x, x.names[i]), Made(w, W))
  <1> DEFINE seq == l.seqByNode[w.node] + 1
             what == x.names[i]
             e == [id |-> <<w.node, seq>>, node |-> w.node, seq |-> seq, ts |-> t,
                   warrant |-> w.id, subject |-> w.subject, cgroup |-> w.cgroup,
                   pid |-> l.pid, hook |-> x.hook, verdict |-> x.verdict, what |-> what,
                   note |-> x.note, root |-> x.root \/ w.root]
             drawn == l.drawn + (IF l.prog = "app" THEN Draws(w) ELSE DrawsDash(w))
             m == base(l, w, t, x, what)
  <1>1. /\ l.prog \in Programs /\ l.seed \in Int /\ l.drawn \in Int /\ l.pid \in Int
        /\ l.events \in Seq(Entry) /\ l.seqByNode \in [Hosts -> Int]
        /\ l.pid = 4000 + Len(l.events) /\ Rising(l.events, l.seqByNode)
    BY DEF Draft, Made0
  <1>2. m = [l EXCEPT !.seqByNode[w.node] = seq, !.pid = @ + 1, !.events = Append(@, e),
                      !.drawn = drawn]
    BY DEF base
  <1>3. m = [prog |-> l.prog, seed |-> l.seed, drawn |-> drawn, pid |-> l.pid + 1,
             events |-> Append(l.events, e),
             seqByNode |-> [l.seqByNode EXCEPT ![w.node] = seq]]
    <2> HIDE DEF m, e, seq, drawn
    <2>1. l \in Made0
      BY DEF Draft
    <2>2. l = [prog |-> l.prog, seed |-> l.seed, drawn |-> l.drawn, pid |-> l.pid,
               events |-> l.events, seqByNode |-> l.seqByNode]
      BY <2>1 DEF Made0
    <2>3. QED
      BY <1>2, <2>2
  <1>4. /\ w.id \in Owned /\ w.subject \in Subjects /\ w.node \in Hosts
        /\ w.cgroup \in Int /\ w.root \in BOOLEAN
    BY DEF IsOwner
  <1>5. /\ x.hook \in Hooks /\ x.verdict \in Verdicts /\ x.note \in Texts0 \cup {None} /\ x.root \in BOOLEAN
        /\ what \in W /\ what \in Names0
        /\ Fits([hook |-> x.hook, what |-> what, verdict |-> x.verdict, note |-> x.note])
    <2>1. /\ x \in [hook : Hooks, names : Seq(W) \ {<<>>}, verdict : Verdicts, at : Int,
                     drawn : Nat, root : BOOLEAN, note : Texts0 \cup {None}]
          /\ Fits([hook |-> x.hook, what |-> what, verdict |-> x.verdict, note |-> x.note])
      BY DEF Call
    <2>2. x.names \in Seq(W)
      BY <2>1
    <2>3. what \in W
      BY <2>2
    <2>4. QED
      BY <2>1, <2>3
  <1>6. seq \in Int /\ drawn \in Int
    BY <1>1, <1>4 DEF Draws, DrawsDash
  <1>7. e \in Entry /\ e \in Made(w, W)
    <2>1. e \in Entry
      <3> HIDE DEF what, seq
      <3>1. QED
        BY <1>1, <1>4, <1>5, <1>6 DEF Entry
    <2>2. Fits(e)
      BY <1>5 DEF Fits
    <2>3. QED
      BY <1>5, <2>1, <2>2 DEF Made
  <1>8. e.pid = l.pid /\ e.id = <<e.node, e.seq>> /\ e.seq = l.seqByNode[e.node] + 1
        /\ e.node = w.node /\ e.seq = seq
    OBVIOUS
  <1> HIDE DEF e, m, seq, drawn
  <1>9. /\ Append(l.events, e) \in Seq(Entry) /\ Len(Append(l.events, e)) = Len(l.events) + 1
        /\ Rising(Append(l.events, e), [l.seqByNode EXCEPT ![w.node] = seq])
        /\ ToSet(Append(l.events, e)) = ToSet(l.events) \cup {e}
    <2>1. e.pid = 4000 + Len(l.events)
      BY <1>1, <1>8
    <2>2. /\ Append(l.events, e) \in Seq(Entry) /\ Len(Append(l.events, e)) = Len(l.events) + 1
          /\ Rising(Append(l.events, e), [l.seqByNode EXCEPT ![e.node] = e.seq])
          /\ ToSet(Append(l.events, e)) = ToSet(l.events) \cup {e}
      <3>1. e \in Entry /\ e.id = <<e.node, e.seq>> /\ e.seq = l.seqByNode[e.node] + 1
        BY <1>7, <1>8
      <3>2. l.events \in Seq(Entry) /\ l.seqByNode \in [Hosts -> Int]
            /\ Rising(l.events, l.seqByNode)
        BY <1>1
      <3> DEFINE now == [l.seqByNode EXCEPT ![e.node] = e.seq]
      <3>3. now = [l.seqByNode EXCEPT ![e.node] = e.seq]
        OBVIOUS
      <3> HIDE DEF now
      <3>4. /\ Append(l.events, e) \in Seq(Entry)
            /\ Len(Append(l.events, e)) = Len(l.events) + 1
            /\ Rising(Append(l.events, e), now)
            /\ ToSet(Append(l.events, e)) = ToSet(l.events) \cup {e}
        BY <2>1, <3>1, <3>2, <3>3, AppendRises
      <3>5. QED
        BY <3>3, <3>4
    <2>3. QED
      BY <1>8, <2>2
  <1>10. [l.seqByNode EXCEPT ![w.node] = seq] \in [Hosts -> Int]
    BY <1>1, <1>4, <1>6
  <1>11. m \in Draft
    <2>1. m \in Made0
      BY <1>1, <1>3, <1>6, <1>9, <1>10 DEF Made0
    <2>2. m.pid = 4000 + Len(m.events)
      <3>1. Len(l.events) \in Nat
        BY <1>1
      <3>2. QED
        BY <1>1, <1>3, <1>9, <3>1
    <2>3. Rising(m.events, m.seqByNode)
      BY <1>3, <1>9
    <2>4. QED
      BY <2>1, <2>2, <2>3 DEF Draft
  <1>12. Adds(l, m, Made(w, W))
    BY <1>3, <1>7, <1>9 DEF Adds
  <1>13. QED
    BY <1>11, <1>12 DEF m

-----------------------------------------------------------------------------
(* The calls of one turn *)

LEMMA SkipIs ==
  ASSUME NEW l \in Draft, NEW k \in Nat
  PROVE  /\ Skip(l, k) \in Draft /\ Skip(l, k).events = l.events
         /\ Skip(l, k).prog = l.prog /\ Skip(l, k).seed = l.seed
         /\ Skip(l, k).drawn = l.drawn + k
         /\ \A b : Twin(l, b) => Twin(Skip(l, k), Skip(b, k))
  <1>1. l \in Made0 /\ l.drawn + k \in Int
    BY DEF Draft, Made0
  <1>2. Skip(l, k) = [l EXCEPT !.drawn = l.drawn + k]
    BY DEF Skip
  <1>3. l = [prog |-> l.prog, seed |-> l.seed, drawn |-> l.drawn, pid |-> l.pid,
             events |-> l.events, seqByNode |-> l.seqByNode]
    BY <1>1 DEF Made0
  <1>4. Skip(l, k) = [prog |-> l.prog, seed |-> l.seed, drawn |-> l.drawn + k, pid |-> l.pid,
                      events |-> l.events, seqByNode |-> l.seqByNode]
    BY <1>2, <1>3
  <1>5. Skip(l, k) \in Made0
    BY <1>1, <1>4 DEF Made0
  <1>6. Skip(l, k) \in Draft
    BY <1>4, <1>5 DEF Draft
  <1>7. ASSUME NEW b, Twin(l, b) PROVE Twin(Skip(l, k), Skip(b, k))
    <2>1. l.prog = "app" /\ b = [l EXCEPT !.prog = "dash"]
      BY <1>7 DEF Twin
    <2>2. b = [prog |-> "dash", seed |-> l.seed, drawn |-> l.drawn, pid |-> l.pid,
               events |-> l.events, seqByNode |-> l.seqByNode]
      BY <1>3, <2>1
    <2>3. Skip(b, k) = [b EXCEPT !.drawn = b.drawn + k]
      BY DEF Skip
    <2>4. Skip(b, k) = [prog |-> "dash", seed |-> l.seed, drawn |-> l.drawn + k, pid |-> l.pid,
                        events |-> l.events, seqByNode |-> l.seqByNode]
      BY <2>2, <2>3
    <2>5. QED
      BY <1>4, <2>1, <2>4 DEF Twin
  <1>8. QED
    BY <1>4, <1>6, <1>7

\* A number of the stream; that of a twin is the same.
LEMMA DrawIs ==
  ASSUME NEW l \in Draft, NEW n \in Nat \ {0}
  PROVE  R(l, n) \in 0 .. n - 1 /\ \A b : Twin(l, b) => R(b, n) = R(l, n)
  <1>1. l.seed \in Int /\ l.drawn \in Int
    BY DEF Draft, Made0
  <1>2. R(l, n) \in 0 .. n - 1
    BY <1>1, RIs
  <1>3. ASSUME NEW b, Twin(l, b) PROVE R(b, n) = R(l, n)
    <2>1. l \in Made0
      BY DEF Draft
    <2>2. b.seed = l.seed /\ b.drawn = l.drawn
      BY <1>3, <2>1 DEF Twin, Made0
    <2>3. QED
      BY <2>2 DEF R
  <1>4. QED
    BY <1>2, <1>3

LEMMA PickIs ==
  ASSUME NEW l \in Draft, NEW W, NEW arr \in Seq(W) \ {<<>>}
  PROVE  /\ \E i \in DOMAIN arr : pick(l, arr) = arr[i]
         /\ \A b : Twin(l, b) => pick(b, arr) = pick(l, arr)
  <1>1. Len(arr) \in Nat \ {0} /\ DOMAIN arr = 1 .. Len(arr)
    OBVIOUS
  <1>2. R(l, Len(arr)) \in 0 .. Len(arr) - 1 /\ \A b : Twin(l, b) => R(b, Len(arr)) = R(l, Len(arr))
    BY <1>1, DrawIs
  <1>3. 1 + R(l, Len(arr)) \in DOMAIN arr
    BY <1>1, <1>2
  <1>4. QED
    BY <1>2, <1>3 DEF pick

\* What base() does to a twin: only that of a session differs.
LEMMA BaseTwin ==
  ASSUME NEW l \in Draft, NEW b, Twin(l, b), NEW w, IsOwner(w), w.id # None, NEW t, NEW x, NEW what
  PROVE  Twin(base(l, w, t, x, what), base(b, w, t, x, what))
  <1> DEFINE seq == l.seqByNode[w.node] + 1
             e == [id |-> <<w.node, seq>>, node |-> w.node, seq |-> seq, ts |-> t,
                   warrant |-> w.id, subject |-> w.subject, cgroup |-> w.cgroup,
                   pid |-> l.pid, hook |-> x.hook, verdict |-> x.verdict, what |-> what,
                   note |-> x.note, root |-> x.root \/ w.root]
             more == Append(l.events, e)
             last == [l.seqByNode EXCEPT ![w.node] = seq]
             Then0(p) == [prog |-> p, seed |-> l.seed, drawn |-> l.drawn + 2, pid |-> l.pid + 1,
                          events |-> more, seqByNode |-> last]
  <1>1. l \in Made0
    BY DEF Draft
  <1>2. l.prog = "app" /\ b = [l EXCEPT !.prog = "dash"]
    BY DEF Twin
  <1>3. l = [prog |-> "app", seed |-> l.seed, drawn |-> l.drawn, pid |-> l.pid,
             events |-> l.events, seqByNode |-> l.seqByNode]
    BY <1>1, <1>2 DEF Made0
  <1>4. b = [prog |-> "dash", seed |-> l.seed, drawn |-> l.drawn, pid |-> l.pid,
             events |-> l.events, seqByNode |-> l.seqByNode]
    BY <1>2, <1>3
  <1>5. Draws(w) = 2 /\ DrawsDash(w) = 2
    BY DEF Draws, DrawsDash
  <1>6. base(l, w, t, x, what) =
          [l EXCEPT !.seqByNode[w.node] = seq, !.pid = @ + 1, !.events = Append(@, e),
                    !.drawn = @ + (IF l.prog = "app" THEN Draws(w) ELSE DrawsDash(w))]
    BY DEF base
  <1>7. base(b, w, t, x, what) =
          [b EXCEPT !.seqByNode[w.node] = seq, !.pid = @ + 1, !.events = Append(@, e),
                    !.drawn = @ + (IF b.prog = "app" THEN Draws(w) ELSE DrawsDash(w))]
    <2>1. b.seqByNode = l.seqByNode /\ b.pid = l.pid
      BY <1>4
    <2>2. QED
      BY <2>1 DEF base
  <1> HIDE DEF e, seq
  <1>8. base(l, w, t, x, what) = Then0("app")
    BY <1>2, <1>3, <1>5, <1>6
  <1>9. base(b, w, t, x, what) = Then0("dash")
    <2>1. b.prog # "app"
      BY <1>4
    <2>2. QED
      BY <1>4, <1>5, <1>7, <2>1
  <1> HIDE DEF more, last
  <1>10. Then0("app").prog = "app" /\ Then0("dash") = [Then0("app") EXCEPT !.prog = "dash"]
    OBVIOUS
  <1> HIDE DEF Then0
  <1>11. QED
    BY <1>8, <1>9, <1>10 DEF Twin

\* One call, its name drawn of the stream at l.
Called(m, l, w, t, x) == base(Skip(m, x.drawn), w, t + x.at, x, pick(l, x.names))

LEMMA CalledIs ==
  ASSUME NEW m \in Draft, NEW l \in Draft, NEW w, IsOwner(w), NEW t \in Int,
         NEW W \in SUBSET Names0, NEW x \in Call(W)
  PROVE  /\ Called(m, l, w, t, x) \in Draft
         /\ Adds(m, Called(m, l, w, t, x), Made(w, W))
         /\ \A n, b : /\ w.id # None /\ Twin(m, n) /\ Twin(l, b)
                      => Twin(Called(m, l, w, t, x), Called(n, b, w, t, x))
  <1>1. x.names \in Seq(W) \ {<<>>} /\ x.drawn \in Nat /\ x.at \in Int
    BY DEF Call
  <1>2. PICK i \in DOMAIN x.names : pick(l, x.names) = x.names[i]
    BY <1>1, PickIs
  <1>3. Skip(m, x.drawn) \in Draft
    BY <1>1, SkipIs
  <1>4. Called(m, l, w, t, x) = base(Skip(m, x.drawn), w, t + x.at, x, x.names[i])
    BY <1>2 DEF Called
  <1>5. t + x.at \in Int
    BY <1>1
  <1>6. /\ Called(m, l, w, t, x) \in Draft
        /\ Adds(Skip(m, x.drawn), Called(m, l, w, t, x), Made(w, W))
    BY <1>3, <1>4, <1>5, BaseIs
  <1>7. Adds(m, Called(m, l, w, t, x), Made(w, W))
    BY <1>1, <1>6, SkipIs DEF Adds
  <1>8. ASSUME NEW n, NEW b, w.id # None, Twin(m, n), Twin(l, b)
        PROVE  Twin(Called(m, l, w, t, x), Called(n, b, w, t, x))
    <2>1. pick(b, x.names) = pick(l, x.names)
      BY <1>1, <1>8, PickIs
    <2>2. Twin(Skip(m, x.drawn), Skip(n, x.drawn))
      BY <1>1, <1>8, SkipIs
    <2>3. QED
      BY <1>3, <1>8, <2>1, <2>2, BaseTwin DEF Called
  <1>9. QED
    BY <1>6, <1>7, <1>8

\* Adding is transitive.
LEMMA AddsMore ==
  ASSUME NEW l, NEW m, NEW n, NEW E, Adds(l, m, E), Adds(m, n, E)
  PROVE  Adds(l, n, E)
  BY DEF Adds

\* The calls of a turn, one after the other.
RunsOf(l, w, t, args, calls) ==
  {g \in [0 .. Len(calls) -> Draft] :
     /\ g[0] = Skip(l, args) /\ Do(l, w, t, args, calls) = g[Len(calls)]
     /\ \A k \in 1 .. Len(calls) : g[k] = Called(g[k - 1], l, w, t, calls[k])}

LEMMA DoRuns ==
  ASSUME NEW l \in Draft, NEW w, IsOwner(w), NEW t \in Int, NEW args \in Nat,
         NEW W \in SUBSET Names0, NEW calls \in Seq(Call(W))
  PROVE  RunsOf(l, w, t, args, calls) # {}
  <1> DEFINE n == Len(calls)
             b == Skip(l, args)
             step == [p \in (1 .. n) \X Draft |-> Called(p[2], l, w, t, calls[p[1]])]
             Rec(h) == h = [s \in SUBSET DOMAIN calls |->
                              IF s = {} THEN b
                              ELSE Called(h[s \ {Max(s)}], l, w, t, calls[Max(s)])]
             it == CHOOSE h : Rec(h)
  <1>1. Do(l, w, t, args, calls) = it[DOMAIN calls]
    BY DEF Do, FoldLeft, MapThenFoldSet, Called
  <1>2. n \in Nat /\ DOMAIN calls = 1 .. n /\ \A k \in 1 .. n : calls[k] \in Call(W)
    OBVIOUS
  <1>3. b \in Draft
    BY SkipIs
  <1>4. step \in [(1 .. n) \X Draft -> Draft]
    BY <1>2, CalledIs
  <1>5. \A k \in 1 .. n, m \in Draft : step[<<k, m>>] = Called(m, l, w, t, calls[k])
    OBVIOUS
  <1>6. \A s \in SUBSET (1 .. n) : s # {} => Max(s) \in 1 .. n /\ s \ {Max(s)} \in SUBSET (1 .. n)
    BY <1>2, LargestIn
  <1> HIDE DEF step, b, n
  <1>7. \E h : Rec(h)
    <2>1. PICK h \in [SUBSET (1 .. n) -> Draft] : Folds(n, b, step, h)
      BY <1>2, <1>3, <1>4, FoldExists
    <2>2. ASSUME NEW s \in SUBSET (1 .. n)
          PROVE  h[s] = IF s = {} THEN b ELSE Called(h[s \ {Max(s)}], l, w, t, calls[Max(s)])
      BY <1>5, <1>6, <2>1 DEF Folds
    <2>3. h = [s \in SUBSET (1 .. n) |-> h[s]]
      BY <2>1
    <2>4. QED
      BY <1>2, <2>2, <2>3
  <1>8. Rec(it)
    BY <1>7
  <1> HIDE DEF it
  <1>9. FoldsIn(Draft, n, b, step, it)
    BY <1>2, <1>5, <1>6, <1>8 DEF FoldsIn
  <1>10. PICK g \in [0 .. n -> Draft] : Runs(n, b, step, g) /\ g[n] = it[1 .. n]
    <2>1. RunsTo(Draft, n, b, step, it[1 .. n])
      BY <1>2, <1>3, <1>4, <1>9, FoldSteps
    <2>2. QED
      BY <2>1 DEF RunsTo
  <1>11. \A k \in 1 .. n : k - 1 \in 0 .. n /\ g[k - 1] \in Draft
    BY <1>2
  <1>12. QED
    <2>1. g[0] = b /\ \A k \in 1 .. n : g[k] = Called(g[k - 1], l, w, t, calls[k])
      BY <1>5, <1>10, <1>11 DEF Runs
    <2>2. Do(l, w, t, args, calls) = g[n]
      BY <1>1, <1>2, <1>10
    <2>3. g \in RunsOf(l, w, t, args, calls)
      BY <2>1, <2>2 DEF n, b, RunsOf
    <2>4. QED
      BY <2>3

LEMMA TwinIs ==
  ASSUME NEW l \in Draft, NEW b, Twin(l, b)
  PROVE  b \in Draft /\ b.events = l.events /\ b.prog = "dash"
  <1>1. l \in Made0 /\ b = [l EXCEPT !.prog = "dash"]
    BY DEF Draft, Twin
  <1>2. b = [prog |-> "dash", seed |-> l.seed, drawn |-> l.drawn, pid |-> l.pid,
             events |-> l.events, seqByNode |-> l.seqByNode]
    BY <1>1 DEF Made0
  <1>3. b \in Made0
    BY <1>1, <1>2 DEF Made0, Programs
  <1>4. QED
    BY <1>2, <1>3 DEF Draft

LEMMA DoIs ==
  ASSUME NEW l \in Draft, NEW w, IsOwner(w), NEW t \in Int, NEW args \in Nat,
         NEW W \in SUBSET Names0, NEW calls \in Seq(Call(W))
  PROVE  /\ Do(l, w, t, args, calls) \in Draft
         /\ Adds(l, Do(l, w, t, args, calls), Made(w, W))
         /\ \A b : w.id # None /\ Twin(l, b)
                   => Twin(Do(l, w, t, args, calls), Do(b, w, t, args, calls))
  <1> DEFINE n == Len(calls)
  <1>1. n \in Nat /\ \A k \in 1 .. n : calls[k] \in Call(W) /\ k - 1 \in 0 .. n /\ k \in 0 .. n
    OBVIOUS
  <1>2. PICK g \in [0 .. n -> Draft] :
           /\ g[0] = Skip(l, args) /\ Do(l, w, t, args, calls) = g[n]
           /\ \A k \in 1 .. n : g[k] = Called(g[k - 1], l, w, t, calls[k])
    <2>1. RunsOf(l, w, t, args, calls) # {}
      BY DoRuns
    <2>2. QED
      BY <2>1 DEF RunsOf
  <1> HIDE DEF n
  <1>3. Adds(l, g[n], Made(w, W))
    <2> DEFINE P == {k \in 0 .. n : Adds(l, g[k], Made(w, W))}
    <2>1. 0 \in P
      <3>1. Adds(l, Skip(l, args), Made(w, W))
        BY SkipIs DEF Adds
      <3>2. QED
        BY <1>1, <1>2, <3>1
    <2>2. \A k \in 1 .. n : k - 1 \in P => k \in P
      <3> SUFFICES ASSUME NEW k \in 1 .. n, k - 1 \in P PROVE Adds(l, g[k], Made(w, W))
        BY <1>1
      <3>1. g[k - 1] \in Draft /\ Adds(l, g[k - 1], Made(w, W))
        BY <1>1, <1>2
      <3>2. Adds(g[k - 1], g[k], Made(w, W))
        BY <1>1, <1>2, <3>1, CalledIs
      <3>3. QED
        BY <3>1, <3>2, AddsMore
    <2> HIDE DEF P
    <2>3. n \in P
      BY <1>1, <2>1, <2>2, Along
    <2>4. QED
      BY <2>3 DEF P
  <1>4. ASSUME NEW b, w.id # None, Twin(l, b)
        PROVE  Twin(Do(l, w, t, args, calls), Do(b, w, t, args, calls))
    <2>1. b \in Draft
      BY <1>4, TwinIs
    <2>2. PICK h \in [0 .. n -> Draft] :
             /\ h[0] = Skip(b, args) /\ Do(b, w, t, args, calls) = h[n]
             /\ \A k \in 1 .. n : h[k] = Called(h[k - 1], b, w, t, calls[k])
      <3>1. RunsOf(b, w, t, args, calls) # {}
        BY <2>1, DoRuns
      <3>2. QED
        BY <3>1 DEF n, RunsOf
    <2> DEFINE P == {k \in 0 .. n : Twin(g[k], h[k])}
    <2>3. 0 \in P
      BY <1>1, <1>2, <1>4, <2>2, SkipIs
    <2>4. \A k \in 1 .. n : k - 1 \in P => k \in P
      <3> SUFFICES ASSUME NEW k \in 1 .. n, k - 1 \in P PROVE Twin(g[k], h[k])
        BY <1>1
      <3>1. g[k - 1] \in Draft /\ Twin(g[k - 1], h[k - 1])
        BY <1>1, <1>2
      <3>2. Twin(Called(g[k - 1], l, w, t, calls[k]), Called(h[k - 1], b, w, t, calls[k]))
        BY <1>1, <1>4, <3>1, CalledIs
      <3>3. QED
        BY <1>2, <2>2, <3>2
    <2> HIDE DEF P
    <2>5. n \in P
      BY <1>1, <2>3, <2>4, Along
    <2>6. QED
      BY <1>2, <2>2, <2>5 DEF P
  <1>5. g[n] \in Draft
    BY <1>1, <1>2
  <1>6. QED
    BY <1>2, <1>3, <1>4, <1>5

-----------------------------------------------------------------------------
(* The rounds of a script *)

Turns(W) == [below : Nat, args : Nat, calls : Seq(Call(W))]
IsTable(T, W) == T \in Seq(Turns(W)) /\ T # <<>> /\ T[Len(T)].below = 100
IsScript(w, lo, hi, turns, W) ==
  /\ IsOwner(w) /\ lo \in Nat /\ hi \in Nat /\ lo <= hi /\ W \in SUBSET Names0
  /\ \A late \in BOOLEAN : IsTable(turns[late], W)

\* There is a turn for each number below 100.
LEMMA TurnIs ==
  ASSUME NEW T, NEW W, IsTable(T, W), NEW r \in 0 .. 99
  PROVE  TurnOf(T, r) \in Turns(W) /\ \E i \in DOMAIN T : TurnOf(T, r) = T[i]
  <1> DEFINE at == {i \in DOMAIN T : r < T[i].below}
  <1>1. T \in Seq(Turns(W)) /\ Len(T) \in DOMAIN T /\ DOMAIN T \subseteq Nat
    BY DEF IsTable
  <1>2. at \subseteq Nat /\ Len(T) \in at
    BY <1>1 DEF IsTable
  <1>3. TurnOf(T, r) = T[Min(at)]
    BY DEF TurnOf
  <1>4. Min(at) \in at
    <2> HIDE DEF at
    <2>1. QED
      BY <1>2, LeastIn
  <1>5. Min(at) \in DOMAIN T
    BY <1>4
  <1> HIDE DEF at
  <1>6. QED
    BY <1>1, <1>3, <1>5

Clock == [log : Draft, t : Int, over : BOOLEAN]
SameClock(a, b) == Twin(a.log, b.log) /\ a.t = b.t /\ a.over = b.over

LEMMA RoundIs ==
  ASSUME NEW s \in Clock, NEW w, NEW lo, NEW hi, NEW end, NEW turns, NEW W,
         IsScript(w, lo, hi, turns, W)
  PROVE  /\ Round(s, w, lo, hi, end, turns) \in Clock
         /\ Adds(s.log, Round(s, w, lo, hi, end, turns).log, Made(w, W))
         /\ \A b \in Clock : w.id # None /\ SameClock(s, b)
              => SameClock(Round(s, w, lo, hi, end, turns), Round(b, w, lo, hi, end, turns))
  <1> DEFINE time(c) == c.t + between(c.log, lo, hi) * MIN
             left(c) == Skip(c.log, 1)
             turn(c) == TurnOf(turns[Late(w, time(c))], R(left(c), 100))
             done(c) == Do(Skip(left(c), 1), w, time(c), turn(c).args, turn(c).calls)
             stop(c) == end # None /\ time(c) > end
  <1>0. ASSUME NEW c PROVE
          Round(c, w, lo, hi, end, turns) =
            IF stop(c) THEN [log |-> left(c), t |-> time(c), over |-> TRUE]
            ELSE [log |-> done(c), t |-> time(c), over |-> FALSE]
    BY DEF Round
  <1>1. IsOwner(w) /\ lo \in Int /\ hi - lo + 1 \in Nat \ {0} /\ W \in SUBSET Names0
        /\ \A late \in BOOLEAN : IsTable(turns[late], W)
    <2>1. lo \in Nat /\ hi \in Nat /\ lo <= hi
      BY DEF IsScript
    <2>2. lo \in Int /\ hi - lo + 1 \in Nat \ {0}
      BY <2>1
    <2>3. IsOwner(w) /\ W \in SUBSET Names0 /\ \A late \in BOOLEAN : IsTable(turns[late], W)
      BY DEF IsScript
    <2>4. QED
      BY <2>1, <2>2, <2>3
  <1>2. ASSUME NEW c \in Clock
        PROVE  /\ time(c) \in Int /\ left(c) \in Draft /\ Skip(left(c), 1) \in Draft
               /\ turn(c) \in Turns(W) /\ done(c) \in Draft
               /\ Adds(c.log, left(c), Made(w, W)) /\ Adds(c.log, done(c), Made(w, W))
    <2>1. c.log \in Draft /\ c.t \in Int
      BY DEF Clock
    <2>2. R(c.log, hi - lo + 1) \in Int
      BY <1>1, <2>1, DrawIs
    <2>3. time(c) \in Int
      BY <1>1, <2>1, <2>2 DEF between, MIN
    <2>4. left(c) \in Draft /\ Skip(left(c), 1) \in Draft
      BY <2>1, SkipIs
    <2>5. R(left(c), 100) \in 0 .. 99
      <3>1. 100 \in Nat \ {0}
        OBVIOUS
      <3>2. R(left(c), 100) \in 0 .. 100 - 1
        BY <2>4, <3>1, DrawIs
      <3>3. QED
        BY <3>2
    <2>6. Late(w, time(c)) \in BOOLEAN
      BY DEF Late
    <2> HIDE DEF time, left
    <2>7. turn(c) \in Turns(W)
      BY <1>1, <2>5, <2>6, TurnIs
    <2> HIDE DEF turn
    <2>8. turn(c).args \in Nat /\ turn(c).calls \in Seq(Call(W))
      BY <2>7 DEF Turns
    <2>9. done(c) \in Draft /\ Adds(Skip(left(c), 1), done(c), Made(w, W))
      BY <1>1, <2>3, <2>4, <2>8, DoIs
    <2>10. Adds(c.log, left(c), Made(w, W)) /\ Adds(left(c), Skip(left(c), 1), Made(w, W))
      BY <2>1, <2>4, SkipIs DEF Adds, left
    <2>11. Adds(c.log, done(c), Made(w, W))
      BY <2>9, <2>10 DEF Adds
    <2>12. QED
      BY <2>3, <2>4, <2>7, <2>9, <2>10, <2>11
  <1>3. ASSUME NEW b \in Clock, w.id # None, SameClock(s, b)
        PROVE  /\ time(b) = time(s) /\ turn(b) = turn(s)
               /\ Twin(left(s), left(b)) /\ Twin(done(s), done(b))
    <2>1. s.log \in Draft /\ Twin(s.log, b.log) /\ b.t = s.t
      BY <1>3 DEF Clock, SameClock
    <2>2. time(b) = time(s)
      BY <1>1, <2>1, DrawIs DEF between
    <2>3. Twin(left(s), left(b))
      BY <2>1, SkipIs
    <2>4. R(left(b), 100) = R(left(s), 100)
      <3>1. 100 \in Nat \ {0}
        OBVIOUS
      <3>2. QED
        BY <1>2, <2>3, <3>1, DrawIs
    <2>5. turn(b) = turn(s)
      <3> HIDE DEF time, left
      <3>1. QED
        BY <2>2, <2>4
    <2> HIDE DEF time, left, turn
    <2>6. turn(s).args \in Nat /\ turn(s).calls \in Seq(Call(W)) /\ time(s) \in Int
      BY <1>2 DEF Turns
    <2>7. Skip(left(s), 1) \in Draft /\ Twin(Skip(left(s), 1), Skip(left(b), 1))
      BY <1>2, <2>3, SkipIs
    <2>8. Twin(done(s), done(b))
      BY <1>1, <1>3, <2>2, <2>5, <2>6, <2>7, DoIs
    <2>9. QED
      BY <2>2, <2>3, <2>5, <2>8
  <1> HIDE DEF time, left, turn, done, stop
  <1>4. Round(s, w, lo, hi, end, turns) \in Clock
    <2>1. CASE stop(s)
      <3>1. Round(s, w, lo, hi, end, turns) = [log |-> left(s), t |-> time(s), over |-> TRUE]
        BY <1>0, <2>1
      <3>2. QED
        BY <1>2, <3>1 DEF Clock
    <2>2. CASE ~stop(s)
      <3>1. Round(s, w, lo, hi, end, turns) = [log |-> done(s), t |-> time(s), over |-> FALSE]
        BY <1>0, <2>2
      <3>2. QED
        BY <1>2, <3>1 DEF Clock
    <2>3. QED
      BY <2>1, <2>2
  <1>5. Adds(s.log, Round(s, w, lo, hi, end, turns).log, Made(w, W))
    BY <1>0, <1>2
  <1>6. ASSUME NEW b \in Clock, w.id # None, SameClock(s, b)
        PROVE  SameClock(Round(s, w, lo, hi, end, turns), Round(b, w, lo, hi, end, turns))
    <2>1. stop(b) = stop(s)
      BY <1>3, <1>6 DEF stop
    <2>2. CASE stop(s)
      <3>1. /\ Round(s, w, lo, hi, end, turns) = [log |-> left(s), t |-> time(s), over |-> TRUE]
            /\ Round(b, w, lo, hi, end, turns) = [log |-> left(b), t |-> time(b), over |-> TRUE]
        BY <1>0, <2>1, <2>2
      <3>2. QED
        BY <1>3, <1>6, <3>1 DEF SameClock
    <2>3. CASE ~stop(s)
      <3>1. /\ Round(s, w, lo, hi, end, turns) = [log |-> done(s), t |-> time(s), over |-> FALSE]
            /\ Round(b, w, lo, hi, end, turns) = [log |-> done(b), t |-> time(b), over |-> FALSE]
        BY <1>0, <2>1, <2>3
      <3>2. QED
        BY <1>3, <1>6, <3>1 DEF SameClock
    <2>4. QED
      BY <2>2, <2>3
  <1>7. QED
    BY <1>4, <1>5, <1>6

\* A round that comes after the loop was left does nothing.
Next0(s, w, lo, hi, end, turns) == IF s.over THEN s ELSE Round(s, w, lo, hi, end, turns)

LEMMA NextRoundIs ==
  ASSUME NEW s \in Clock, NEW w, NEW lo, NEW hi, NEW end, NEW turns, NEW W,
         IsScript(w, lo, hi, turns, W)
  PROVE  /\ Next0(s, w, lo, hi, end, turns) \in Clock
         /\ Adds(s.log, Next0(s, w, lo, hi, end, turns).log, Made(w, W))
         /\ \A b \in Clock : w.id # None /\ SameClock(s, b)
              => SameClock(Next0(s, w, lo, hi, end, turns), Next0(b, w, lo, hi, end, turns))
  <1>1. CASE s.over
    <2>1. Next0(s, w, lo, hi, end, turns) = s
      BY <1>1 DEF Next0
    <2>2. \A b \in Clock : SameClock(s, b) => Next0(b, w, lo, hi, end, turns) = b
      BY <1>1 DEF Next0, SameClock
    <2>3. Adds(s.log, s.log, Made(w, W))
      BY DEF Adds
    <2>4. QED
      BY <2>1, <2>2, <2>3
  <1>2. CASE ~s.over
    <2>1. Next0(s, w, lo, hi, end, turns) = Round(s, w, lo, hi, end, turns)
      BY <1>2 DEF Next0
    <2>2. \A b \in Clock : SameClock(s, b)
             => Next0(b, w, lo, hi, end, turns) = Round(b, w, lo, hi, end, turns)
      BY <1>2 DEF Next0, SameClock
    <2>3. QED
      BY <2>1, <2>2, RoundIs
  <1>3. QED
    BY <1>1, <1>2

Start(l, t) == [log |-> l, t |-> t, over |-> FALSE]
RoundsOf(l, w, t, n, lo, hi, end, turns) ==
  {g \in [0 .. n -> Clock] :
     /\ g[0] = Start(l, t) /\ Rounds(l, w, t, n, lo, hi, end, turns) = g[n]
     /\ \A k \in 1 .. n : g[k] = Next0(g[k - 1], w, lo, hi, end, turns)}

LEMMA RoundsRun ==
  ASSUME NEW l \in Draft, NEW w, NEW t \in Int, NEW n \in Nat, NEW lo, NEW hi, NEW end,
         NEW turns, NEW W, IsScript(w, lo, hi, turns, W)
  PROVE  RoundsOf(l, w, t, n, lo, hi, end, turns) # {}
  <1> DEFINE b == Start(l, t)
             step == [p \in (1 .. n) \X Clock |-> Next0(p[2], w, lo, hi, end, turns)]
             Rec(h) == h = [s \in SUBSET DOMAIN [i \in 1 .. n |-> i] |->
                              IF s = {} THEN b
                              ELSE Next0(h[s \ {Max(s)}], w, lo, hi, end, turns)]
             it == CHOOSE h : Rec(h)
  <1>1. Rounds(l, w, t, n, lo, hi, end, turns) = it[DOMAIN [i \in 1 .. n |-> i]]
    BY DEF Rounds, FoldLeft, MapThenFoldSet, Next0, Start
  <1>2. DOMAIN [i \in 1 .. n |-> i] = 1 .. n
    OBVIOUS
  <1>3. b \in Clock
    BY DEF Clock, Start
  <1>4. step \in [(1 .. n) \X Clock -> Clock]
    BY NextRoundIs
  <1>5. \A k \in 1 .. n, m \in Clock : step[<<k, m>>] = Next0(m, w, lo, hi, end, turns)
    OBVIOUS
  <1>6. \A s \in SUBSET (1 .. n) : s # {} => Max(s) \in 1 .. n /\ s \ {Max(s)} \in SUBSET (1 .. n)
    BY LargestIn
  <1> HIDE DEF step, b
  <1>7. \E h : Rec(h)
    <2>1. PICK h \in [SUBSET (1 .. n) -> Clock] : Folds(n, b, step, h)
      BY <1>3, <1>4, FoldExists
    <2>2. ASSUME NEW s \in SUBSET (1 .. n)
          PROVE  h[s] = IF s = {} THEN b ELSE Next0(h[s \ {Max(s)}], w, lo, hi, end, turns)
      BY <1>5, <1>6, <2>1 DEF Folds
    <2>3. h = [s \in SUBSET (1 .. n) |-> h[s]]
      BY <2>1
    <2>4. QED
      BY <1>2, <2>2, <2>3
  <1>8. Rec(it)
    BY <1>7
  <1> HIDE DEF it
  <1>9. FoldsIn(Clock, n, b, step, it)
    BY <1>2, <1>5, <1>6, <1>8 DEF FoldsIn
  <1>10. PICK g \in [0 .. n -> Clock] : Runs(n, b, step, g) /\ g[n] = it[1 .. n]
    <2>1. RunsTo(Clock, n, b, step, it[1 .. n])
      BY <1>3, <1>4, <1>9, FoldSteps
    <2>2. QED
      BY <2>1 DEF RunsTo
  <1>11. \A k \in 1 .. n : k - 1 \in 0 .. n /\ g[k - 1] \in Clock
    OBVIOUS
  <1>12. QED
    <2>1. g[0] = Start(l, t) /\ \A k \in 1 .. n : g[k] = Next0(g[k - 1], w, lo, hi, end, turns)
      BY <1>5, <1>10, <1>11 DEF b, Runs
    <2>2. Rounds(l, w, t, n, lo, hi, end, turns) = g[n]
      BY <1>1, <1>2, <1>10
    <2>3. g \in RoundsOf(l, w, t, n, lo, hi, end, turns)
      BY <2>1, <2>2 DEF RoundsOf
    <2>4. QED
      BY <2>3

LEMMA RoundsAre ==
  ASSUME NEW l \in Draft, NEW w, NEW t \in Int, NEW n \in Nat, NEW lo, NEW hi, NEW end,
         NEW turns, NEW W, IsScript(w, lo, hi, turns, W)
  PROVE  /\ Rounds(l, w, t, n, lo, hi, end, turns) \in Clock
         /\ Adds(l, Rounds(l, w, t, n, lo, hi, end, turns).log, Made(w, W))
         /\ \A b : w.id # None /\ Twin(l, b)
              => SameClock(Rounds(l, w, t, n, lo, hi, end, turns),
                           Rounds(b, w, t, n, lo, hi, end, turns))
  <1> DEFINE E == Made(w, W)
  <1>1. \A k \in 1 .. n : k - 1 \in 0 .. n /\ k \in 0 .. n
    OBVIOUS
  <1>2. PICK g \in [0 .. n -> Clock] :
           /\ g[0] = Start(l, t) /\ Rounds(l, w, t, n, lo, hi, end, turns) = g[n]
           /\ \A k \in 1 .. n : g[k] = Next0(g[k - 1], w, lo, hi, end, turns)
    <2>1. RoundsOf(l, w, t, n, lo, hi, end, turns) # {}
      BY RoundsRun
    <2>2. QED
      BY <2>1 DEF RoundsOf
  <1>3. Adds(l, g[n].log, E)
    <2> DEFINE P == {k \in 0 .. n : Adds(l, g[k].log, E)}
    <2>1. 0 \in P
      BY <1>2 DEF Adds, Start
    <2>2. \A k \in 1 .. n : k - 1 \in P => k \in P
      <3> SUFFICES ASSUME NEW k \in 1 .. n, k - 1 \in P PROVE Adds(l, g[k].log, E)
        BY <1>1
      <3>1. g[k - 1] \in Clock /\ Adds(l, g[k - 1].log, E)
        BY <1>1
      <3>2. Adds(g[k - 1].log, g[k].log, E)
        BY <1>2, <3>1, NextRoundIs
      <3>3. QED
        BY <3>1, <3>2, AddsMore
    <2> HIDE DEF P
    <2>3. n \in P
      BY <2>1, <2>2, Along
    <2>4. QED
      BY <2>3 DEF P
  <1>4. ASSUME NEW b, w.id # None, Twin(l, b)
        PROVE  SameClock(g[n], Rounds(b, w, t, n, lo, hi, end, turns))
    <2>1. b \in Draft
      BY <1>4, TwinIs
    <2>2. PICK h \in [0 .. n -> Clock] :
             /\ h[0] = Start(b, t) /\ Rounds(b, w, t, n, lo, hi, end, turns) = h[n]
             /\ \A k \in 1 .. n : h[k] = Next0(h[k - 1], w, lo, hi, end, turns)
      <3>1. RoundsOf(b, w, t, n, lo, hi, end, turns) # {}
        BY <2>1, RoundsRun
      <3>2. QED
        BY <3>1 DEF RoundsOf
    <2> DEFINE P == {k \in 0 .. n : SameClock(g[k], h[k])}
    <2>3. 0 \in P
      <3>1. SameClock(Start(l, t), Start(b, t))
        BY <1>4 DEF SameClock, Start
      <3>2. QED
        BY <1>2, <2>2, <3>1
    <2>4. \A k \in 1 .. n : k - 1 \in P => k \in P
      <3> SUFFICES ASSUME NEW k \in 1 .. n, k - 1 \in P PROVE SameClock(g[k], h[k])
        BY <1>1
      <3>1. g[k - 1] \in Clock /\ h[k - 1] \in Clock /\ SameClock(g[k - 1], h[k - 1])
        BY <1>1
      <3>2. SameClock(Next0(g[k - 1], w, lo, hi, end, turns), Next0(h[k - 1], w, lo, hi, end, turns))
        BY <1>4, <3>1, NextRoundIs
      <3>3. QED
        BY <1>2, <2>2, <3>2
    <2> HIDE DEF P
    <2>5. n \in P
      BY <2>3, <2>4, Along
    <2>6. QED
      BY <2>2, <2>5 DEF P
  <1>5. n \in 0 .. n
    OBVIOUS
  <1>6. QED
    BY <1>2, <1>3, <1>4, <1>5

-----------------------------------------------------------------------------
(* What the scripts call *)

One(W) == {<<x>> : x \in Call(W)}

LEMMA OneIs ==
  ASSUME NEW W, NEW s \in One(W)
  PROVE  /\ s \in Seq(Call(W)) /\ asRoot(s) \in One(W)
         /\ \A text \in Texts0 : s[1].hook # "agg" => noted(s, text) \in One(W)
  <1>1. PICK x \in Call(W) : s = <<x>>
    BY DEF One
  <1>2. s \in Seq(Call(W)) /\ s[1] = x
    BY <1>1
  <1>3. x \in [hook : Hooks, names : Seq(W) \ {<<>>}, verdict : Verdicts, at : Int,
               drawn : Nat, root : BOOLEAN, note : Texts0 \cup {None}]
    BY DEF Call
  <1>4. \A i \in DOMAIN x.names :
           Fits([hook |-> x.hook, what |-> x.names[i], verdict |-> x.verdict, note |-> x.note])
    BY DEF Call
  <1>5. asRoot(s) = <<[x EXCEPT !.root = TRUE]>>
    BY <1>2 DEF asRoot
  <1>6. [x EXCEPT !.root = TRUE] \in Call(W)
    <2> DEFINE y == [x EXCEPT !.root = TRUE]
    <2>1. y \in [hook : Hooks, names : Seq(W) \ {<<>>}, verdict : Verdicts, at : Int,
                 drawn : Nat, root : BOOLEAN, note : Texts0 \cup {None}]
      BY <1>3
    <2>2. y.hook = x.hook /\ y.names = x.names /\ y.verdict = x.verdict /\ y.note = x.note
      BY <1>3
    <2> HIDE DEF y
    <2>3. y \in Call(W)
      BY <1>4, <2>1, <2>2 DEF Call
    <2>4. QED
      BY <2>3 DEF y
  <1>7. ASSUME NEW text \in Texts0, s[1].hook # "agg" PROVE noted(s, text) \in One(W)
    <2> DEFINE y == [x EXCEPT !.note = text]
    <2>1. y \in [hook : Hooks, names : Seq(W) \ {<<>>}, verdict : Verdicts, at : Int,
                 drawn : Nat, root : BOOLEAN, note : Texts0 \cup {None}]
      BY <1>3
    <2>2. y.hook = x.hook /\ y.names = x.names /\ y.verdict = x.verdict /\ x.hook # "agg"
      BY <1>2, <1>3, <1>7
    <2> HIDE DEF y
    <2>3. \A i \in DOMAIN y.names :
           Fits([hook |-> y.hook, what |-> y.names[i], verdict |-> y.verdict, note |-> y.note])
      BY <1>4, <2>2 DEF Fits
    <2>4. y \in Call(W)
      BY <2>1, <2>3 DEF Call
    <2>5. noted(s, text) = <<y>>
      BY <1>2 DEF noted, y
    <2>6. QED
      BY <2>4, <2>5 DEF One
  <1>8. QED
    BY <1>2, <1>5, <1>6, <1>7 DEF One

Plain(hook, names, verdict) ==
  /\ hook \in {"self", "agg"} => names = <<"">>
  /\ hook = "agg" => verdict = "ALLOW"

\* A call as the helpers make it.
LEMMA EvIs ==
  ASSUME NEW W, NEW hook \in Hooks, NEW names \in Seq(W) \ {<<>>}, NEW verdict \in Verdicts,
         NEW at \in Int, NEW drawn \in Nat,
         Plain(hook, names, verdict)
  PROVE  /\ Ev(hook, names, verdict, at, drawn) \in Call(W)
         /\ Ev(hook, names, verdict, at, drawn).hook = hook
  <1> DEFINE x == Ev(hook, names, verdict, at, drawn)
  <1>1. x = [hook |-> hook, names |-> names, verdict |-> verdict, at |-> at, drawn |-> drawn,
             root |-> FALSE, note |-> None]
    BY DEF Ev
  <1> HIDE DEF x
  <1>2. x \in [hook : Hooks, names : Seq(W) \ {<<>>}, verdict : Verdicts, at : Int,
               drawn : Nat, root : BOOLEAN, note : Texts0 \cup {None}]
    BY <1>1
  <1>3. \A i \in DOMAIN x.names :
           Fits([hook |-> x.hook, what |-> x.names[i], verdict |-> x.verdict, note |-> x.note])
    <2>1. x.names = names /\ x.hook = hook /\ x.verdict = verdict /\ x.note = None
      BY <1>1
    <2>2. ASSUME NEW i \in DOMAIN names, hook \in {"self", "agg"} PROVE names[i] = ""
      <3>1. names = <<"">>
        BY <2>2 DEF Plain
      <3>2. \A y : \A j \in DOMAIN <<y>> : <<y>>[j] = y
        OBVIOUS
      <3>3. QED
        BY <3>1, <3>2
    <2>3. QED
      BY <2>1, <2>2 DEF Fits, Plain
  <1>4. x \in Call(W) /\ x.hook = hook
    BY <1>1, <1>2, <1>3 DEF Call
  <1>5. QED
    BY <1>4 DEF x

LEMMA HelpersAre ==
  ASSUME NEW W, NEW names \in Seq(W) \ {<<>>}, NEW path \in W, NEW verdict \in Verdicts, NEW at \in Int
  PROVE  /\ execEv(names, verdict, at) \in One(W) /\ execEv(names, verdict, at)[1].hook # "agg"
         /\ connectEv(names, verdict, at) \in One(W) /\ connectEv(names, verdict, at)[1].hook # "agg"
         /\ writeEv(path, verdict, at) \in Seq(Call(W))
         /\ verdict # "ALLOW" => writeEv(path, verdict, at) \in One(W)
  <1>1. /\ 0 \in Nat /\ 1 \in Nat /\ 2 \in Nat
        /\ \A h \in {"exec", "connect", "write"} :
             h \in Hooks /\ \A n, v : Plain(h, n, v)
    BY DEF Hooks, HookOrder, Plain
  <1>2. Ev("exec", names, verdict, at, 0) \in Call(W) /\ Ev("exec", names, verdict, at, 0).hook = "exec"
    <2>1. "exec" \in Hooks /\ Plain("exec", names, verdict)
      BY <1>1
    <2>2. QED
      BY <1>1, <2>1, EvIs
  <1>3. Ev("connect", names, verdict, at, 1) \in Call(W)
        /\ Ev("connect", names, verdict, at, 1).hook = "connect"
    <2>1. "connect" \in Hooks /\ Plain("connect", names, verdict)
      BY <1>1
    <2>2. QED
      BY <1>1, <2>1, EvIs
  <1>4. Ev("write", <<path>>, verdict, at, 2) \in Call(W)
    <2>1. <<path>> \in Seq(W) \ {<<>>} /\ "write" \in Hooks /\ Plain("write", <<path>>, verdict)
      BY <1>1
    <2>2. QED
      BY <1>1, <2>1, EvIs
  <1>5. execEv(names, verdict, at) \in One(W) /\ execEv(names, verdict, at)[1].hook # "agg"
    BY <1>2 DEF execEv, One
  <1>6. connectEv(names, verdict, at) \in One(W) /\ connectEv(names, verdict, at)[1].hook # "agg"
    BY <1>3 DEF connectEv, One
  <1>7. writeEv(path, verdict, at) = IF verdict = "ALLOW" THEN <<>>
                                     ELSE <<Ev("write", <<path>>, verdict, at, 2)>>
    BY DEF writeEv
  <1>8. QED
    BY <1>4, <1>5, <1>6, <1>7 DEF One

\* The helpers with the names of a script.
LEMMA ExecIs ==
  ASSUME NEW W, NEW names \in Seq(W) \ {<<>>}, NEW verdict \in Verdicts, NEW at \in Int
  PROVE  /\ execEv(names, verdict, at) \in Seq(Call(W))
         /\ asRoot(execEv(names, verdict, at)) \in Seq(Call(W))
         /\ connectEv(names, verdict, at) \in Seq(Call(W))
  <1>1. PICK path \in W : TRUE
    OBVIOUS
  <1>2. execEv(names, verdict, at) \in One(W) /\ connectEv(names, verdict, at) \in One(W)
    BY <1>1, HelpersAre
  <1>3. QED
    BY <1>2, OneIs

LEMMA NotedIs ==
  ASSUME NEW W, NEW names \in Seq(W) \ {<<>>}, NEW verdict \in Verdicts, NEW text \in Texts0
  PROVE  /\ noted(execEv(names, verdict, 0), text) \in Seq(Call(W))
         /\ asRoot(noted(execEv(names, verdict, 0), text)) \in Seq(Call(W))
         /\ noted(connectEv(names, verdict, 0), text) \in Seq(Call(W))
  <1>1. PICK path \in W : TRUE
    OBVIOUS
  <1>2. /\ execEv(names, verdict, 0) \in One(W) /\ execEv(names, verdict, 0)[1].hook # "agg"
        /\ connectEv(names, verdict, 0) \in One(W) /\ connectEv(names, verdict, 0)[1].hook # "agg"
    <2>1. 0 \in Int
      OBVIOUS
    <2>2. QED
      BY <1>1, <2>1, HelpersAre
  <1>3. /\ noted(execEv(names, verdict, 0), text) \in One(W)
        /\ noted(connectEv(names, verdict, 0), text) \in One(W)
    BY <1>2, OneIs
  <1>4. QED
    BY <1>3, OneIs

LEMMA WriteIs ==
  ASSUME NEW W, NEW path \in W, NEW verdict \in Verdicts, NEW at \in Int
  PROVE  /\ writeEv(path, verdict, at) \in Seq(Call(W))
         /\ verdict # "ALLOW" => asRoot(writeEv(path, verdict, at)) \in Seq(Call(W))
  <1>1. <<path>> \in Seq(W) \ {<<>>}
    OBVIOUS
  <1>2. /\ writeEv(path, verdict, at) \in Seq(Call(W))
        /\ verdict # "ALLOW" => writeEv(path, verdict, at) \in One(W)
    BY <1>1, HelpersAre
  <1>3. QED
    BY <1>2, OneIs

LEMMA TurnMade ==
  ASSUME NEW W, NEW below \in Nat, NEW args \in Nat, NEW calls \in Seq(Call(W))
  PROVE  Turn(below, args, calls) \in Turns(W) /\ Turn(below, args, calls).below = below
  BY DEF Turn, Turns

LEMMA KimTurns == IsTable(kimTurns, Names0)
  <1> DEFINE S == Seq(Call(Names0))
  <1>1. \A v \in {"ALLOW", "WOULD_DENY", "DENY"} : v \in Verdicts
    BY DEF Verdicts
  <1>2. execEv(<<"ls", "cat", "grep", "tail", "git">>, "ALLOW", 0) \in S
    <2>1. /\ <<"ls", "cat", "grep", "tail", "git">> \in Seq(Names0) \ {<<>>}
          /\ "ALLOW" \in Verdicts /\ 0 \in Int
      BY DEF Names0, Verdicts
    <2>2. QED
      BY <2>1, ExecIs
  <1>3. execEv(<<"vim">>, "ALLOW", 0) \in S
    <2>1. /\ <<"vim">> \in Seq(Names0) \ {<<>>}
          /\ "ALLOW" \in Verdicts /\ 0 \in Int
      BY DEF Names0, Verdicts
    <2>2. QED
      BY <2>1, ExecIs
  <1>4. writeEv("/app/config.yml", "ALLOW", 20000) \in S
    <2>1. "/app/config.yml" \in Names0
      BY DEF Names0
    <2>2. QED
      BY <1>1, <2>1, WriteIs
  <1>5. execEv(<<"sudo">>, "ALLOW", 0) \in S
    <2>1. /\ <<"sudo">> \in Seq(Names0) \ {<<>>}
          /\ "ALLOW" \in Verdicts /\ 0 \in Int
      BY DEF Names0, Verdicts
    <2>2. QED
      BY <2>1, ExecIs
  <1>6. asRoot(execEv(<<"vim">>, "ALLOW", 300)) \in S
    <2>1. /\ <<"vim">> \in Seq(Names0) \ {<<>>}
          /\ "ALLOW" \in Verdicts /\ 300 \in Int
      BY DEF Names0, Verdicts
    <2>2. QED
      BY <2>1, ExecIs
  <1>7. asRoot(writeEv("/etc/nginx/nginx.conf", "WOULD_DENY", 25000)) \in S
    <2>1. "/etc/nginx/nginx.conf" \in Names0
      BY DEF Names0
    <2>2. QED
      BY <1>1, <2>1, WriteIs
  <1>8. execEv(<<"sudo">>, "ALLOW", 0) \in S
    <2>1. /\ <<"sudo">> \in Seq(Names0) \ {<<>>}
          /\ "ALLOW" \in Verdicts /\ 0 \in Int
      BY DEF Names0, Verdicts
    <2>2. QED
      BY <2>1, ExecIs
  <1>9. asRoot(execEv(<<"cp">>, "ALLOW", 200)) \in S
    <2>1. /\ <<"cp">> \in Seq(Names0) \ {<<>>}
          /\ "ALLOW" \in Verdicts /\ 200 \in Int
      BY DEF Names0, Verdicts
    <2>2. QED
      BY <2>1, ExecIs
  <1>10. asRoot(writeEv("/usr/bin/tool", "WOULD_DENY", 400)) \in S
    <2>1. "/usr/bin/tool" \in Names0
      BY DEF Names0
    <2>2. QED
      BY <1>1, <2>1, WriteIs
  <1>11. execEv(<<"curl">>, "ALLOW", 0) \in S
    <2>1. /\ <<"curl">> \in Seq(Names0) \ {<<>>}
          /\ "ALLOW" \in Verdicts /\ 0 \in Int
      BY DEF Names0, Verdicts
    <2>2. QED
      BY <2>1, ExecIs
  <1>12. connectEv(<<"185.220.101.7">>, "WOULD_DENY", 120) \in S
    <2>1. /\ <<"185.220.101.7">> \in Seq(Names0) \ {<<>>}
          /\ "WOULD_DENY" \in Verdicts /\ 120 \in Int
      BY DEF Names0, Verdicts
    <2>2. QED
      BY <2>1, ExecIs
  <1>13. connectEv(<<"10.0.12.40">>, "ALLOW", 0) \in S
    <2>1. /\ <<"10.0.12.40">> \in Seq(Names0) \ {<<>>}
          /\ "ALLOW" \in Verdicts /\ 0 \in Int
      BY DEF Names0, Verdicts
    <2>2. QED
      BY <2>1, ExecIs
  <1>14. execEv(<<"systemctl">>, "ALLOW", 0) \in S
    <2>1. /\ <<"systemctl">> \in Seq(Names0) \ {<<>>}
          /\ "ALLOW" \in Verdicts /\ 0 \in Int
      BY DEF Names0, Verdicts
    <2>2. QED
      BY <2>1, ExecIs
  <1>15. connectEv(<<"/run/systemd/private">>, "WOULD_DENY", 50) \in S
    <2>1. /\ <<"/run/systemd/private">> \in Seq(Names0) \ {<<>>}
          /\ "WOULD_DENY" \in Verdicts /\ 50 \in Int
      BY DEF Names0, Verdicts
    <2>2. QED
      BY <2>1, ExecIs
  <1> DEFINE T1 == Turn(35, 2, execEv(<<"ls", "cat", "grep", "tail", "git">>, "ALLOW", 0))
  <1>16. T1 \in Turns(Names0) /\ T1.below = 35
    BY <1>2, TurnMade
  <1> DEFINE C2 == execEv(<<"vim">>, "ALLOW", 0) \o writeEv("/app/config.yml", "ALLOW", 20000)
  <1>17. C2 \in S
    <2>1. \A a, b \in S : a \o b \in S
      OBVIOUS
    <2>2. QED
      BY <2>1, <1>3, <1>4
  <1> HIDE DEF C2
  <1> DEFINE T2 == Turn(55, 0, C2)
  <1>18. T2 \in Turns(Names0) /\ T2.below = 55
    BY <1>17, TurnMade
  <1> DEFINE C3 == execEv(<<"sudo">>, "ALLOW", 0) \o asRoot(execEv(<<"vim">>, "ALLOW", 300)) \o asRoot(writeEv("/etc/nginx/nginx.conf", "WOULD_DENY", 25000))
  <1>19. C3 \in S
    <2>1. \A a, b \in S : a \o b \in S
      OBVIOUS
    <2>2. execEv(<<"sudo">>, "ALLOW", 0) \o asRoot(execEv(<<"vim">>, "ALLOW", 300)) \in S
      BY <2>1, <1>5, <1>6
    <2>3. QED
      BY <2>1, <2>2, <1>7
  <1> HIDE DEF C3
  <1> DEFINE T3 == Turn(68, 0, C3)
  <1>20. T3 \in Turns(Names0) /\ T3.below = 68
    BY <1>19, TurnMade
  <1> DEFINE C4 == execEv(<<"sudo">>, "ALLOW", 0) \o asRoot(execEv(<<"cp">>, "ALLOW", 200)) \o asRoot(writeEv("/usr/bin/tool", "WOULD_DENY", 400))
  <1>21. C4 \in S
    <2>1. \A a, b \in S : a \o b \in S
      OBVIOUS
    <2>2. execEv(<<"sudo">>, "ALLOW", 0) \o asRoot(execEv(<<"cp">>, "ALLOW", 200)) \in S
      BY <2>1, <1>8, <1>9
    <2>3. QED
      BY <2>1, <2>2, <1>10
  <1> HIDE DEF C4
  <1> DEFINE T4 == Turn(76, 0, C4)
  <1>22. T4 \in Turns(Names0) /\ T4.below = 76
    BY <1>21, TurnMade
  <1> DEFINE C5 == execEv(<<"curl">>, "ALLOW", 0) \o connectEv(<<"185.220.101.7">>, "WOULD_DENY", 120)
  <1>23. C5 \in S
    <2>1. \A a, b \in S : a \o b \in S
      OBVIOUS
    <2>2. QED
      BY <2>1, <1>11, <1>12
  <1> HIDE DEF C5
  <1> DEFINE T5 == Turn(86, 0, C5)
  <1>24. T5 \in Turns(Names0) /\ T5.below = 86
    BY <1>23, TurnMade
  <1> DEFINE T6 == Turn(93, 0, connectEv(<<"10.0.12.40">>, "ALLOW", 0))
  <1>25. T6 \in Turns(Names0) /\ T6.below = 93
    BY <1>13, TurnMade
  <1> DEFINE C7 == execEv(<<"systemctl">>, "ALLOW", 0) \o connectEv(<<"/run/systemd/private">>, "WOULD_DENY", 50)
  <1>26. C7 \in S
    <2>1. \A a, b \in S : a \o b \in S
      OBVIOUS
    <2>2. QED
      BY <2>1, <1>14, <1>15
  <1> HIDE DEF C7
  <1> DEFINE T7 == Turn(100, 0, C7)
  <1>27. T7 \in Turns(Names0) /\ T7.below = 100
    BY <1>26, TurnMade
  <1>28. kimTurns = <<T1, T2, T3, T4, T5, T6, T7>>
    BY DEF kimTurns, C2, C3, C4, C5, C7
  <1> HIDE DEF T1, T2, T3, T4, T5, T6, T7
  <1>29. QED
    BY <1>16, <1>18, <1>20, <1>22, <1>24, <1>25, <1>27, <1>28 DEF IsTable

LEMMA LeeTurns == IsTable(leeTurns, Names0)
  <1> DEFINE S == Seq(Call(Names0))
  <1>1. \A v \in {"ALLOW", "WOULD_DENY", "DENY"} : v \in Verdicts
    BY DEF Verdicts
  <1>2. execEv(<<"ls", "cat", "grep", "tail", "pg_dump">>, "ALLOW", 0) \in S
    <2>1. /\ <<"ls", "cat", "grep", "tail", "pg_dump">> \in Seq(Names0) \ {<<>>}
          /\ "ALLOW" \in Verdicts /\ 0 \in Int
      BY DEF Names0, Verdicts
    <2>2. QED
      BY <2>1, ExecIs
  <1>3. writeEv("/tmp/pg_check.out", "WOULD_DENY", 0) \in S
    <2>1. "/tmp/pg_check.out" \in Names0
      BY DEF Names0
    <2>2. QED
      BY <1>1, <2>1, WriteIs
  <1>4. connectEv(<<"10.0.12.40">>, "ALLOW", 0) \in S
    <2>1. /\ <<"10.0.12.40">> \in Seq(Names0) \ {<<>>}
          /\ "ALLOW" \in Verdicts /\ 0 \in Int
      BY DEF Names0, Verdicts
    <2>2. QED
      BY <2>1, ExecIs
  <1>5. execEv(<<"sudo">>, "ALLOW", 0) \in S
    <2>1. /\ <<"sudo">> \in Seq(Names0) \ {<<>>}
          /\ "ALLOW" \in Verdicts /\ 0 \in Int
      BY DEF Names0, Verdicts
    <2>2. QED
      BY <2>1, ExecIs
  <1>6. asRoot(execEv(<<"tail">>, "ALLOW", 100)) \in S
    <2>1. /\ <<"tail">> \in Seq(Names0) \ {<<>>}
          /\ "ALLOW" \in Verdicts /\ 100 \in Int
      BY DEF Names0, Verdicts
    <2>2. QED
      BY <2>1, ExecIs
  <1> DEFINE T1 == Turn(60, 2, execEv(<<"ls", "cat", "grep", "tail", "pg_dump">>, "ALLOW", 0))
  <1>7. T1 \in Turns(Names0) /\ T1.below = 60
    BY <1>2, TurnMade
  <1> DEFINE T2 == Turn(75, 0, writeEv("/tmp/pg_check.out", "WOULD_DENY", 0))
  <1>8. T2 \in Turns(Names0) /\ T2.below = 75
    BY <1>3, TurnMade
  <1> DEFINE T3 == Turn(90, 0, connectEv(<<"10.0.12.40">>, "ALLOW", 0))
  <1>9. T3 \in Turns(Names0) /\ T3.below = 90
    BY <1>4, TurnMade
  <1> DEFINE C4 == execEv(<<"sudo">>, "ALLOW", 0) \o asRoot(execEv(<<"tail">>, "ALLOW", 100))
  <1>10. C4 \in S
    <2>1. \A a, b \in S : a \o b \in S
      OBVIOUS
    <2>2. QED
      BY <2>1, <1>5, <1>6
  <1> HIDE DEF C4
  <1> DEFINE T4 == Turn(100, 0, C4)
  <1>11. T4 \in Turns(Names0) /\ T4.below = 100
    BY <1>10, TurnMade
  <1>12. leeTurns = <<T1, T2, T3, T4>>
    BY DEF leeTurns, C4
  <1> HIDE DEF T1, T2, T3, T4
  <1>13. QED
    BY <1>7, <1>8, <1>9, <1>11, <1>12 DEF IsTable

LEMMA PaulTurns == \A grace \in BOOLEAN : IsTable(paulTurns[grace], Names0)
  <1> DEFINE S == Seq(Call(Names0))
  <1> SUFFICES ASSUME NEW grace \in BOOLEAN PROVE IsTable(paulTurns[grace], Names0)
    OBVIOUS
  <1>1. \A v \in {"ALLOW", "WOULD_DENY", "DENY"} : v \in Verdicts
    BY DEF Verdicts
  <1>2. execEv(<<"python3">>, "ALLOW", 0) \in S
    <2>1. /\ <<"python3">> \in Seq(Names0) \ {<<>>}
          /\ "ALLOW" \in Verdicts /\ 0 \in Int
      BY DEF Names0, Verdicts
    <2>2. QED
      BY <2>1, ExecIs
  <1>3. writeEv("/srv/pipeline/out", "ALLOW", 0) \in S
    <2>1. "/srv/pipeline/out" \in Names0
      BY DEF Names0
    <2>2. QED
      BY <1>1, <2>1, WriteIs
  <1>4. paulConnect(grace) \in S
    <2>1. <<"10.20.4.9">> \in Seq(Names0) \ {<<>>} /\ "grace" \in Texts0
      BY DEF Names0, Texts0
    <2>2. /\ connectEv(<<"10.20.4.9">>, "ALLOW", 0) \in S
          /\ noted(connectEv(<<"10.20.4.9">>, "WOULD_DENY", 0), "grace") \in S
      <3>1. "ALLOW" \in Verdicts /\ "WOULD_DENY" \in Verdicts /\ 0 \in Int
        BY <1>1
      <3>2. QED
        BY <2>1, <3>1, ExecIs, NotedIs
    <2>3. QED
      BY <2>2 DEF paulConnect
  <1>5. writeEv("/home/paul/.ssh/authorized_keys", "WOULD_DENY", 0) \in S
    <2>1. "/home/paul/.ssh/authorized_keys" \in Names0
      BY DEF Names0
    <2>2. QED
      BY <1>1, <2>1, WriteIs
  <1>6. execEv(<<"docker">>, "ALLOW", 0) \in S
    <2>1. /\ <<"docker">> \in Seq(Names0) \ {<<>>}
          /\ "ALLOW" \in Verdicts /\ 0 \in Int
      BY DEF Names0, Verdicts
    <2>2. QED
      BY <2>1, ExecIs
  <1>7. connectEv(<<"/var/run/docker.sock">>, "WOULD_DENY", 0) \in S
    <2>1. /\ <<"/var/run/docker.sock">> \in Seq(Names0) \ {<<>>}
          /\ "WOULD_DENY" \in Verdicts /\ 0 \in Int
      BY DEF Names0, Verdicts
    <2>2. QED
      BY <2>1, ExecIs
  <1> DEFINE T1 == Turn(40, 1, execEv(<<"python3">>, "ALLOW", 0))
  <1>8. T1 \in Turns(Names0) /\ T1.below = 40
    BY <1>2, TurnMade
  <1> DEFINE T2 == Turn(60, 2, writeEv("/srv/pipeline/out", "ALLOW", 0))
  <1>9. T2 \in Turns(Names0) /\ T2.below = 60
    BY <1>3, TurnMade
  <1> DEFINE T3 == Turn(75, 0, paulConnect(grace))
  <1>10. T3 \in Turns(Names0) /\ T3.below = 75
    BY <1>4, TurnMade
  <1> DEFINE T4 == Turn(85, 0, writeEv("/home/paul/.ssh/authorized_keys", "WOULD_DENY", 0))
  <1>11. T4 \in Turns(Names0) /\ T4.below = 85
    BY <1>5, TurnMade
  <1> DEFINE T5 == Turn(93, 0, execEv(<<"docker">>, "ALLOW", 0))
  <1>12. T5 \in Turns(Names0) /\ T5.below = 93
    BY <1>6, TurnMade
  <1> DEFINE T6 == Turn(100, 0, connectEv(<<"/var/run/docker.sock">>, "WOULD_DENY", 0))
  <1>13. T6 \in Turns(Names0) /\ T6.below = 100
    BY <1>7, TurnMade
  <1>14. paulTurns[grace] = <<T1, T2, T3, T4, T5, T6>>
    BY DEF paulTurns
  <1> HIDE DEF T1, T2, T3, T4, T5, T6
  <1>15. QED
    BY <1>8, <1>9, <1>10, <1>11, <1>12, <1>13, <1>14 DEF IsTable

LEMMA ChoiTurns == IsTable(choiTurns, Names0)
  <1> DEFINE S == Seq(Call(Names0))
  <1>1. \A v \in {"ALLOW", "WOULD_DENY", "DENY"} : v \in Verdicts
    BY DEF Verdicts
  <1>2. execEv(<<"ls", "cat", "grep", "tail">>, "ALLOW", 0) \in S
    <2>1. /\ <<"ls", "cat", "grep", "tail">> \in Seq(Names0) \ {<<>>}
          /\ "ALLOW" \in Verdicts /\ 0 \in Int
      BY DEF Names0, Verdicts
    <2>2. QED
      BY <2>1, ExecIs
  <1>3. writeEv("/opt/stage/release.txt", "ALLOW", 0) \in S
    <2>1. "/opt/stage/release.txt" \in Names0
      BY DEF Names0
    <2>2. QED
      BY <1>1, <2>1, WriteIs
  <1>4. execEv(<<"sudo">>, "ALLOW", 0) \in S
    <2>1. /\ <<"sudo">> \in Seq(Names0) \ {<<>>}
          /\ "ALLOW" \in Verdicts /\ 0 \in Int
      BY DEF Names0, Verdicts
    <2>2. QED
      BY <2>1, ExecIs
  <1>5. asRoot(writeEv("/etc/hosts", "DENY", 9000)) \in S
    <2>1. "/etc/hosts" \in Names0
      BY DEF Names0
    <2>2. QED
      BY <1>1, <2>1, WriteIs
  <1>6. execEv(<<"curl">>, "ALLOW", 0) \in S
    <2>1. /\ <<"curl">> \in Seq(Names0) \ {<<>>}
          /\ "ALLOW" \in Verdicts /\ 0 \in Int
      BY DEF Names0, Verdicts
    <2>2. QED
      BY <2>1, ExecIs
  <1>7. connectEv(<<"140.82.112.5">>, "DENY", 90) \in S
    <2>1. /\ <<"140.82.112.5">> \in Seq(Names0) \ {<<>>}
          /\ "DENY" \in Verdicts /\ 90 \in Int
      BY DEF Names0, Verdicts
    <2>2. QED
      BY <2>1, ExecIs
  <1>8. asRoot(noted(execEv(<<"bpftool">>, "DENY", 0), "self-protection")) \in S
    <2>1. /\ <<"bpftool">> \in Seq(Names0) \ {<<>>}
          /\ "DENY" \in Verdicts /\ "self-protection" \in Texts0
      BY DEF Names0, Verdicts, Texts0
    <2>2. QED
      BY <2>1, NotedIs
  <1>9. asRoot(<<Ev("unlink", <<"/etc/systemd/system/app.service">>, "DENY", 0, 0)>>) \in S
    <2>1. /\ <<"/etc/systemd/system/app.service">> \in Seq(Names0) \ {<<>>}
          /\ "unlink" \in Hooks /\ Plain("unlink", <<"/etc/systemd/system/app.service">>, "DENY") /\ 0 \in Nat /\ 0 \in Int /\ "DENY" \in Verdicts
      BY DEF Hooks, HookOrder, Plain, Names0, Verdicts
    <2>2. Ev("unlink", <<"/etc/systemd/system/app.service">>, "DENY", 0, 0) \in Call(Names0)
      BY <2>1, EvIs
    <2>3. QED
      BY <2>2, OneIs DEF One
  <1> DEFINE T1 == Turn(40, 2, execEv(<<"ls", "cat", "grep", "tail">>, "ALLOW", 0))
  <1>10. T1 \in Turns(Names0) /\ T1.below = 40
    BY <1>2, TurnMade
  <1> DEFINE T2 == Turn(55, 0, writeEv("/opt/stage/release.txt", "ALLOW", 0))
  <1>11. T2 \in Turns(Names0) /\ T2.below = 55
    BY <1>3, TurnMade
  <1> DEFINE C3 == execEv(<<"sudo">>, "ALLOW", 0) \o asRoot(writeEv("/etc/hosts", "DENY", 9000))
  <1>12. C3 \in S
    <2>1. \A a, b \in S : a \o b \in S
      OBVIOUS
    <2>2. QED
      BY <2>1, <1>4, <1>5
  <1> HIDE DEF C3
  <1> DEFINE T3 == Turn(70, 0, C3)
  <1>13. T3 \in Turns(Names0) /\ T3.below = 70
    BY <1>12, TurnMade
  <1> DEFINE C4 == execEv(<<"curl">>, "ALLOW", 0) \o connectEv(<<"140.82.112.5">>, "DENY", 90)
  <1>14. C4 \in S
    <2>1. \A a, b \in S : a \o b \in S
      OBVIOUS
    <2>2. QED
      BY <2>1, <1>6, <1>7
  <1> HIDE DEF C4
  <1> DEFINE T4 == Turn(80, 0, C4)
  <1>15. T4 \in Turns(Names0) /\ T4.below = 80
    BY <1>14, TurnMade
  <1> DEFINE T5 == Turn(90, 0, asRoot(noted(execEv(<<"bpftool">>, "DENY", 0), "self-protection")))
  <1>16. T5 \in Turns(Names0) /\ T5.below = 90
    BY <1>8, TurnMade
  <1> DEFINE T6 == Turn(100, 0, asRoot(<<Ev("unlink", <<"/etc/systemd/system/app.service">>, "DENY", 0, 0)>>))
  <1>17. T6 \in Turns(Names0) /\ T6.below = 100
    BY <1>9, TurnMade
  <1>18. choiTurns = <<T1, T2, T3, T4, T5, T6>>
    BY DEF choiTurns, C3, C4
  <1> HIDE DEF T1, T2, T3, T4, T5, T6
  <1>19. QED
    BY <1>10, <1>11, <1>13, <1>15, <1>16, <1>17, <1>18 DEF IsTable

\* Of what a session does later nothing is a login.
Later == Names0 \ {"bash"}

LEMMA SessionTurns == IsTable(sessionTurns, Later)
  <1> DEFINE S == Seq(Call(Later))
  <1>1. \A v \in {"ALLOW", "WOULD_DENY", "DENY"} : v \in Verdicts
    BY DEF Verdicts
  <1>2. execEv(<<"ls", "cat", "grep", "tail", "git">>, "ALLOW", 0) \in S
    <2>1. /\ <<"ls", "cat", "grep", "tail", "git">> \in Seq(Later) \ {<<>>}
          /\ "ALLOW" \in Verdicts /\ 0 \in Int
      BY DEF Later, Names0, Verdicts
    <2>2. QED
      BY <2>1, ExecIs
  <1>3. noted(execEv(<<"vim", "cp", "python3">>, "ALLOW", 0), "no-warrant") \in S
    <2>1. /\ <<"vim", "cp", "python3">> \in Seq(Later) \ {<<>>}
          /\ "ALLOW" \in Verdicts /\ "no-warrant" \in Texts0
      BY DEF Later, Names0, Verdicts, Texts0
    <2>2. QED
      BY <2>1, NotedIs
  <1>4. connectEv(<<"45.33.32.156", "10.0.12.40">>, "ALLOW", 0) \in S
    <2>1. /\ <<"45.33.32.156", "10.0.12.40">> \in Seq(Later) \ {<<>>}
          /\ "ALLOW" \in Verdicts /\ 0 \in Int
      BY DEF Later, Names0, Verdicts
    <2>2. QED
      BY <2>1, ExecIs
  <1> DEFINE T1 == Turn(60, 2, execEv(<<"ls", "cat", "grep", "tail", "git">>, "ALLOW", 0))
  <1>5. T1 \in Turns(Later) /\ T1.below = 60
    BY <1>2, TurnMade
  <1> DEFINE T2 == Turn(85, 2, noted(execEv(<<"vim", "cp", "python3">>, "ALLOW", 0), "no-warrant"))
  <1>6. T2 \in Turns(Later) /\ T2.below = 85
    BY <1>3, TurnMade
  <1> DEFINE T3 == Turn(100, 2, connectEv(<<"45.33.32.156", "10.0.12.40">>, "ALLOW", 0))
  <1>7. T3 \in Turns(Later) /\ T3.below = 100
    BY <1>4, TurnMade
  <1>8. sessionTurns = <<T1, T2, T3>>
    BY DEF sessionTurns
  <1> HIDE DEF T1, T2, T3
  <1>9. QED
    BY <1>5, <1>6, <1>7, <1>8 DEF IsTable

-----------------------------------------------------------------------------
(* The records under warrants *)

Warranted == UNION {Made(w, Names0) : w \in ToSet(warrants)}
Owning == \A w \in ToSet(warrants) : w.id # None
Grows(l, m, E) == m \in Draft /\ Adds(l, m, E)

LEMMA GrowsMore ==
  ASSUME NEW l, NEW m, NEW n, NEW E, NEW F, Grows(l, m, E), Grows(m, n, E), E \subseteq F
  PROVE  Grows(l, n, F)
  BY DEF Grows, Adds

LEMMA WarrantsAre ==
  /\ DOMAIN warrants = 1 .. 4 /\ ToSet(warrants) = {warrants[1], warrants[2], warrants[3], warrants[4]}
  /\ \A i \in 1 .. 4 : /\ IsOwner(warrants[i]) /\ warrants[i].issued \in Int
                       /\ warrants[i].expires \in Int
  <1>1. DOMAIN warrants = 1 .. 4
    BY DEF warrants
  <1>2. ToSet(warrants) = {warrants[1], warrants[2], warrants[3], warrants[4]}
    <2>1. \A i : i \in 1 .. 4 <=> i \in {1, 2, 3, 4}
      OBVIOUS
    <2>2. QED
      BY <1>1, <2>1 DEF ToSet
  <1>3. Hosts = {"prod-web-01", "prod-web-02", "prod-db-01", "stage-app-01"}
    <2>1. DOMAIN nodes = {1, 2, 3, 4}
      BY DEF nodes
    <2>2. QED
      BY <2>1 DEF nodes, Hosts, ToSet
  <1>4. IsOwner(warrants[1]) /\ warrants[1].issued \in Int /\ warrants[1].expires \in Int
    <2>1. /\ warrants[1].id = "W-4821-3F" /\ warrants[1].subject = "101"
          /\ warrants[1].node = "prod-web-01"
      BY DEF warrants
    <2>2. warrants[1].cgroup \in Int /\ warrants[1].root \in BOOLEAN
      <3>1. warrants[1].cgroup = 8213
        BY DEF warrants
      <3>2. warrants[1].root = FALSE
        BY DEF warrants
      <3>3. warrants[1].root \in BOOLEAN
        BY <3>2, Zenon
      <3>4. QED
        BY <3>1, <3>3
    <2>3. warrants[1].issued = -130 * MIN /\ warrants[1].expires = 20 * MIN
      BY DEF warrants
    <2>4. -130 * MIN \in Int /\ 20 * MIN \in Int
      BY DEF MIN
    <2>5. QED
      <3>1. warrants[1].node \in Hosts
        BY <1>3, <2>1
      <3>2. warrants[1].id \in Owned /\ warrants[1].subject \in Subjects
        BY <2>1 DEF Owned, Subjects
      <3>3. warrants[1].cgroup \in Int /\ warrants[1].root \in BOOLEAN
        BY <2>2
      <3>4. warrants[1].issued \in Int /\ warrants[1].expires \in Int
        BY <2>3, <2>4
      <3>5. QED
        BY <3>1, <3>2, <3>3, <3>4 DEF IsOwner
  <1>5. IsOwner(warrants[2]) /\ warrants[2].issued \in Int /\ warrants[2].expires \in Int
    <2>1. /\ warrants[2].id = "W-4830-A1" /\ warrants[2].subject = "102"
          /\ warrants[2].node = "prod-db-01"
      BY DEF warrants
    <2>2. warrants[2].cgroup \in Int /\ warrants[2].root \in BOOLEAN
      <3>1. warrants[2].cgroup = 5510
        BY DEF warrants
      <3>2. warrants[2].root = FALSE
        BY DEF warrants
      <3>3. warrants[2].root \in BOOLEAN
        BY <3>2, Zenon
      <3>4. QED
        BY <3>1, <3>3
    <2>3. warrants[2].issued = -300 * MIN /\ warrants[2].expires = -60 * MIN
      BY DEF warrants
    <2>4. -300 * MIN \in Int /\ -60 * MIN \in Int
      BY DEF MIN
    <2>5. QED
      <3>1. warrants[2].node \in Hosts
        BY <1>3, <2>1
      <3>2. warrants[2].id \in Owned /\ warrants[2].subject \in Subjects
        BY <2>1 DEF Owned, Subjects
      <3>3. warrants[2].cgroup \in Int /\ warrants[2].root \in BOOLEAN
        BY <2>2
      <3>4. warrants[2].issued \in Int /\ warrants[2].expires \in Int
        BY <2>3, <2>4
      <3>5. QED
        BY <3>1, <3>2, <3>3, <3>4 DEF IsOwner
  <1>6. IsOwner(warrants[3]) /\ warrants[3].issued \in Int /\ warrants[3].expires \in Int
    <2>1. /\ warrants[3].id = "W-4833-C7" /\ warrants[3].subject = "103"
          /\ warrants[3].node = "prod-web-02"
      BY DEF warrants
    <2>2. warrants[3].cgroup \in Int /\ warrants[3].root \in BOOLEAN
      <3>1. warrants[3].cgroup = 9107
        BY DEF warrants
      <3>2. warrants[3].root = FALSE
        BY DEF warrants
      <3>3. warrants[3].root \in BOOLEAN
        BY <3>2, Zenon
      <3>4. QED
        BY <3>1, <3>3
    <2>3. warrants[3].issued = -200 * MIN /\ warrants[3].expires = -20 * MIN
      BY DEF warrants
    <2>4. -200 * MIN \in Int /\ -20 * MIN \in Int
      BY DEF MIN
    <2>5. QED
      <3>1. warrants[3].node \in Hosts
        BY <1>3, <2>1
      <3>2. warrants[3].id \in Owned /\ warrants[3].subject \in Subjects
        BY <2>1 DEF Owned, Subjects
      <3>3. warrants[3].cgroup \in Int /\ warrants[3].root \in BOOLEAN
        BY <2>2
      <3>4. warrants[3].issued \in Int /\ warrants[3].expires \in Int
        BY <2>3, <2>4
      <3>5. QED
        BY <3>1, <3>2, <3>3, <3>4 DEF IsOwner
  <1>7. IsOwner(warrants[4]) /\ warrants[4].issued \in Int /\ warrants[4].expires \in Int
    <2>1. /\ warrants[4].id = "W-4836-E2" /\ warrants[4].subject = "104"
          /\ warrants[4].node = "stage-app-01"
      BY DEF warrants
    <2>2. warrants[4].cgroup \in Int /\ warrants[4].root \in BOOLEAN
      <3>1. warrants[4].cgroup = 3321
        BY DEF warrants
      <3>2. warrants[4].root = FALSE
        BY DEF warrants
      <3>3. warrants[4].root \in BOOLEAN
        BY <3>2, Zenon
      <3>4. QED
        BY <3>1, <3>3
    <2>3. warrants[4].issued = -90 * MIN /\ warrants[4].expires = 30 * MIN
      BY DEF warrants
    <2>4. -90 * MIN \in Int /\ 30 * MIN \in Int
      BY DEF MIN
    <2>5. QED
      <3>1. warrants[4].node \in Hosts
        BY <1>3, <2>1
      <3>2. warrants[4].id \in Owned /\ warrants[4].subject \in Subjects
        BY <2>1 DEF Owned, Subjects
      <3>3. warrants[4].cgroup \in Int /\ warrants[4].root \in BOOLEAN
        BY <2>2
      <3>4. warrants[4].issued \in Int /\ warrants[4].expires \in Int
        BY <2>3, <2>4
      <3>5. QED
        BY <3>1, <3>2, <3>3, <3>4 DEF IsOwner
  <1>8. \A i \in 1 .. 4 : i \in {1, 2, 3, 4}
    OBVIOUS
  <1>9. QED
    BY <1>1, <1>2, <1>4, <1>5, <1>6, <1>7, <1>8

LEMMA LoginIs ==
  ASSUME NEW l \in Draft, NEW w, IsOwner(w), NEW t \in Int
  PROVE  /\ Grows(l, Login(l, w, t), Made(w, {"bash"}))
         /\ \A b : w.id # None /\ Twin(l, b) => Twin(Login(l, w, t), Login(b, w, t))
  <1> DEFINE calls == execEv(<<"bash">>, "ALLOW", 0)
  <1>1. calls \in Seq(Call({"bash"}))
    <2>1. <<"bash">> \in Seq({"bash"}) \ {<<>>} /\ "ALLOW" \in Verdicts /\ 0 \in Int
      BY DEF Verdicts
    <2>2. QED
      BY <2>1, ExecIs
  <1>2. \A m : Login(m, w, t) = Do(m, w, t, 0, calls)
    BY DEF Login
  <1> HIDE DEF calls
  <1>3. {"bash"} \in SUBSET Names0 /\ 0 \in Nat
    BY DEF Names0
  <1>4. QED
    BY <1>1, <1>2, <1>3, DoIs DEF Grows

LEMMA ScriptIs ==
  ASSUME NEW l \in Draft, NEW w, NEW t \in Int, NEW n \in Nat, NEW lo, NEW hi, NEW end,
         NEW turns, IsScript(w, lo, hi, turns, Names0)
  PROVE  /\ Grows(l, Script(l, w, t, n, lo, hi, end, turns), Made(w, Names0))
         /\ \A b : w.id # None /\ Twin(l, b)
              => Twin(Script(l, w, t, n, lo, hi, end, turns), Script(b, w, t, n, lo, hi, end, turns))
  <1>1. IsOwner(w)
    BY DEF IsScript
  <1>2. Grows(l, Login(l, w, t), Made(w, {"bash"})) /\ Login(l, w, t) \in Draft
    BY <1>1, LoginIs DEF Grows
  <1>3. Made(w, {"bash"}) \subseteq Made(w, Names0)
    BY DEF Made, Names0
  <1>4. Adds(l, Login(l, w, t), Made(w, Names0))
    BY <1>2, <1>3 DEF Grows, Adds
  <1>5. /\ Rounds(Login(l, w, t), w, t, n, lo, hi, end, turns) \in Clock
        /\ Adds(Login(l, w, t), Rounds(Login(l, w, t), w, t, n, lo, hi, end, turns).log, Made(w, Names0))
    BY <1>2, RoundsAre
  <1>6. Grows(l, Script(l, w, t, n, lo, hi, end, turns), Made(w, Names0))
    BY <1>4, <1>5, AddsMore DEF Script, Clock, Grows
  <1>7. ASSUME NEW b, w.id # None, Twin(l, b)
        PROVE  Twin(Script(l, w, t, n, lo, hi, end, turns), Script(b, w, t, n, lo, hi, end, turns))
    <2>1. Twin(Login(l, w, t), Login(b, w, t))
      BY <1>1, <1>7, LoginIs
    <2>2. SameClock(Rounds(Login(l, w, t), w, t, n, lo, hi, end, turns),
                    Rounds(Login(b, w, t), w, t, n, lo, hi, end, turns))
      BY <1>2, <1>7, <2>1, RoundsAre
    <2>3. QED
      BY <2>2 DEF SameClock, Script
  <1>8. QED
    BY <1>6, <1>7

LEMMA ScriptsAre ==
  /\ IsScript(warrants[1], 1, 4, Always(kimTurns), Names0)
  /\ IsScript(warrants[2], 2, 8, Always(leeTurns), Names0)
  /\ IsScript(warrants[3], 2, 6, paulTurns, Names0)
  /\ IsScript(warrants[4], 1, 5, Always(choiTurns), Names0)
  <1>1. \A i \in {1, 2, 3, 4} : IsOwner(warrants[i])
    BY WarrantsAre
  <1>2. \A late \in BOOLEAN : /\ IsTable(Always(kimTurns)[late], Names0)
                              /\ IsTable(Always(leeTurns)[late], Names0)
                              /\ IsTable(paulTurns[late], Names0)
                              /\ IsTable(Always(choiTurns)[late], Names0)
    BY KimTurns, LeeTurns, PaulTurns, ChoiTurns DEF Always
  <1>3. QED
    BY <1>1, <1>2 DEF IsScript

\* What the scripts call after their rounds.
LEMMA KimCalls ==
  /\ execEv(<<"systemd-run">>, "WOULD_DENY", 0)
       \o connectEv(<<"/run/systemd/private">>, "WOULD_DENY", 80)
       \o execEv(<<"deploy.sh">>, "ALLOW", 1 * MIN) \in Seq(Call(Names0))
  /\ execEv(<<"crontab">>, "ALLOW", 0)
       \o writeEv("/var/spool/cron/crontabs/kim.dev", "WOULD_DENY", 3000) \in Seq(Call(Names0))
  <1>1. \A a, b \in Seq(Call(Names0)) : a \o b \in Seq(Call(Names0))
    OBVIOUS
  <1>2. execEv(<<"systemd-run">>, "WOULD_DENY", 0) \in Seq(Call(Names0))
    <2>1. <<"systemd-run">> \in Seq(Names0) \ {<<>>} /\ "WOULD_DENY" \in Verdicts /\ 0 \in Int
      BY DEF Names0, Verdicts
    <2>2. QED
      BY <2>1, ExecIs
  <1>3. connectEv(<<"/run/systemd/private">>, "WOULD_DENY", 80) \in Seq(Call(Names0))
    <2>1. <<"/run/systemd/private">> \in Seq(Names0) \ {<<>>} /\ "WOULD_DENY" \in Verdicts /\ 80 \in Int
      BY DEF Names0, Verdicts
    <2>2. QED
      BY <2>1, ExecIs
  <1>4. execEv(<<"deploy.sh">>, "ALLOW", 1 * MIN) \in Seq(Call(Names0))
    <2>1. <<"deploy.sh">> \in Seq(Names0) \ {<<>>} /\ "ALLOW" \in Verdicts /\ 1 * MIN \in Int
      BY DEF Names0, Verdicts, MIN
    <2>2. QED
      BY <2>1, ExecIs
  <1>5. execEv(<<"crontab">>, "ALLOW", 0) \in Seq(Call(Names0))
    <2>1. <<"crontab">> \in Seq(Names0) \ {<<>>} /\ "ALLOW" \in Verdicts /\ 0 \in Int
      BY DEF Names0, Verdicts
    <2>2. QED
      BY <2>1, ExecIs
  <1>6. writeEv("/var/spool/cron/crontabs/kim.dev", "WOULD_DENY", 3000) \in Seq(Call(Names0))
    <2>1. /\ "/var/spool/cron/crontabs/kim.dev" \in Names0
          /\ "WOULD_DENY" \in Verdicts /\ 3000 \in Int
      BY DEF Names0, Verdicts
    <2>2. QED
      BY <2>1, WriteIs
  <1>7. execEv(<<"systemd-run">>, "WOULD_DENY", 0)
          \o connectEv(<<"/run/systemd/private">>, "WOULD_DENY", 80) \in Seq(Call(Names0))
    BY <1>1, <1>2, <1>3
  <1>8. QED
    BY <1>1, <1>4, <1>5, <1>6, <1>7

LEMMA ExpiryIs ==
  ASSUME NEW l \in Draft, NEW i \in {1, 2, 3, 4}, Owning, NEW text \in Texts0
  PROVE  /\ Grows(l, Expiry(l, warrants[i], text), Made(warrants[i], Names0))
         /\ \A b : Twin(l, b) => Twin(Expiry(l, warrants[i], text), Expiry(b, warrants[i], text))
  <1> DEFINE call == <<Ev("self", <<"">>, "ALLOW", 0, 0)>>
             w == warrants[i]
  <1>1. noted(call, text) \in Seq(Call(Names0))
    <2>1. /\ <<"">> \in Seq(Names0) \ {<<>>} /\ "self" \in Hooks /\ Plain("self", <<"">>, "ALLOW")
          /\ 0 \in Nat /\ 0 \in Int /\ "ALLOW" \in Verdicts
      BY DEF Names0, Hooks, HookOrder, Plain, Verdicts
    <2>2. /\ Ev("self", <<"">>, "ALLOW", 0, 0) \in Call(Names0)
          /\ Ev("self", <<"">>, "ALLOW", 0, 0).hook = "self"
      <3> DEFINE none == <<"">>
      <3>1. /\ none \in Seq(Names0) \ {<<>>} /\ "self" \in Hooks /\ Plain("self", none, "ALLOW")
            /\ 0 \in Nat /\ 0 \in Int /\ "ALLOW" \in Verdicts
        BY <2>1
      <3> HIDE DEF none
      <3>2. /\ Ev("self", none, "ALLOW", 0, 0) \in Call(Names0)
            /\ Ev("self", none, "ALLOW", 0, 0).hook = "self"
        BY <3>1, EvIs
      <3>3. QED
        BY <3>2 DEF none
    <2>3. call \in One(Names0) /\ call[1].hook # "agg"
      BY <2>2 DEF One
    <2>4. noted(call, text) \in One(Names0)
      BY <2>3, OneIs
    <2>5. QED
      BY <2>4, OneIs
  <1>2. \A m : Expiry(m, w, text) = Do(m, w, w.expires, 0, noted(call, text))
    BY DEF Expiry
  <1>3. IsOwner(w) /\ w.expires \in Int /\ w.id # None
    BY WarrantsAre DEF Owning
  <1> HIDE DEF call, w
  <1>4. Names0 \in SUBSET Names0 /\ 0 \in Nat
    OBVIOUS
  <1>5. QED
    <2>1. /\ Grows(l, Expiry(l, w, text), Made(w, Names0))
          /\ \A b : Twin(l, b) => Twin(Expiry(l, w, text), Expiry(b, w, text))
      BY <1>1, <1>2, <1>3, <1>4, DoIs DEF Grows
    <2>2. QED
      BY <2>1 DEF w

LEMMA WarrantScript ==
  ASSUME NEW l \in Draft, NEW i \in {1, 2, 3, 4}, Owning, NEW t \in Int, NEW n \in Nat, NEW lo,
         NEW hi, NEW end, NEW turns, IsScript(warrants[i], lo, hi, turns, Names0)
  PROVE  /\ Grows(l, Script(l, warrants[i], t, n, lo, hi, end, turns), Made(warrants[i], Names0))
         /\ \A b : Twin(l, b) => Twin(Script(l, warrants[i], t, n, lo, hi, end, turns),
                                      Script(b, warrants[i], t, n, lo, hi, end, turns))
  <1>1. warrants[i].id # None
    BY WarrantsAre DEF Owning
  <1>2. QED
    BY <1>1, ScriptIs

LEMMA WarrantDo ==
  ASSUME NEW l \in Draft, NEW i \in {1, 2, 3, 4}, Owning, NEW t \in Int,
         NEW calls \in Seq(Call(Names0))
  PROVE  /\ Grows(l, Do(l, warrants[i], t, 0, calls), Made(warrants[i], Names0))
         /\ \A b : Twin(l, b) => Twin(Do(l, warrants[i], t, 0, calls), Do(b, warrants[i], t, 0, calls))
  <1>1. warrants[i].id # None /\ IsOwner(warrants[i])
    BY WarrantsAre DEF Owning
  <1>2. 0 \in Nat /\ Names0 \in SUBSET Names0
    OBVIOUS
  <1>3. QED
    BY <1>1, <1>2, DoIs DEF Grows

LEMMA MadeIs ==
  ASSUME NEW i \in {1, 2, 3, 4}
  PROVE  /\ Made(warrants[i], Names0) \subseteq Warranted
         /\ warrants[i].issued \in Int /\ warrants[i].expires \in Int
         /\ \A k \in Int : warrants[i].issued + k * MIN \in Int
  <1>1. warrants[i].issued \in Int /\ warrants[i].expires \in Int
    BY WarrantsAre
  <1>2. MIN \in Int
    BY DEF MIN
  <1>3. Made(warrants[i], Names0) \subseteq Warranted
    BY WarrantsAre DEF Warranted
  <1>4. QED
    BY <1>1, <1>2, <1>3

LEMMA KimIs ==
  ASSUME NEW l \in Draft, Owning
  PROVE  Grows(l, kim(l), Warranted) /\ \A b : Twin(l, b) => Twin(kim(l), kim(b))
  <1> DEFINE w == warrants[1]
             E == Made(w, Names0)
             first == execEv(<<"systemd-run">>, "WOULD_DENY", 0)
                        \o connectEv(<<"/run/systemd/private">>, "WOULD_DENY", 80)
                        \o execEv(<<"deploy.sh">>, "ALLOW", 1 * MIN)
             second == execEv(<<"crontab">>, "ALLOW", 0)
                         \o writeEv("/var/spool/cron/crontabs/kim.dev", "WOULD_DENY", 3000)
             s(m) == Script(m, w, w.issued + 2 * MIN, 46, 1, 4, None, Always(kimTurns))
             run(m) == Do(s(m), w, w.issued + 61 * MIN, 0, first)
             last(m) == Do(run(m), w, w.issued + 95 * MIN, 0, second)
  <1>1. \A m : kim(m) = last(m)
    BY DEF kim
  <1>2. first \in Seq(Call(Names0)) /\ second \in Seq(Call(Names0))
    BY KimCalls
  <1>3. /\ w.issued + 2 * MIN \in Int /\ w.issued + 61 * MIN \in Int /\ w.issued + 95 * MIN \in Int
        /\ E \subseteq Warranted /\ 46 \in Nat /\ 1 \in {1, 2, 3, 4}
    <2>1. 2 \in Int /\ 61 \in Int /\ 95 \in Int /\ 46 \in Nat /\ 1 \in {1, 2, 3, 4}
      OBVIOUS
    <2>2. QED
      BY <2>1, MadeIs
  <1> HIDE DEF first, second
  <1>4. /\ Grows(l, s(l), E)
        /\ \A b : Twin(l, b) => Twin(s(l), s(b))
    BY <1>3, ScriptsAre, WarrantScript
  <1> HIDE DEF s
  <1>5. /\ Grows(s(l), run(l), E)
        /\ \A b : Twin(l, b) => Twin(run(l), run(b))
    <2>1. s(l) \in Draft
      BY <1>4 DEF Grows
    <2>2. QED
      BY <1>2, <1>3, <1>4, <2>1, WarrantDo
  <1> HIDE DEF run
  <1>6. /\ Grows(run(l), last(l), E)
        /\ \A b : Twin(l, b) => Twin(last(l), last(b))
    <2>1. run(l) \in Draft
      BY <1>5 DEF Grows
    <2>2. QED
      BY <1>2, <1>3, <1>5, <2>1, WarrantDo
  <1> HIDE DEF last, E
  <1>7. Grows(l, run(l), E)
    BY <1>4, <1>5, GrowsMore
  <1>8. Grows(l, last(l), Warranted)
    BY <1>3, <1>6, <1>7, GrowsMore
  <1>9. QED
    BY <1>1, <1>6, <1>8

LEMMA LeeIs ==
  ASSUME NEW l \in Draft, Owning
  PROVE  Grows(l, lee(l), Warranted) /\ \A b : Twin(l, b) => Twin(lee(l), lee(b))
  <1> DEFINE w == warrants[2]
             s(m) == Script(m, w, w.issued + 1 * MIN, 28, 2, 8, w.expires, Always(leeTurns))
             last(m) == Expiry(s(m), w, "expired")
  <1>1. \A m : lee(m) = last(m)
    BY DEF lee
  <1>2. /\ w.issued + 1 * MIN \in Int /\ Made(w, Names0) \subseteq Warranted
        /\ 28 \in Nat /\ 2 \in {1, 2, 3, 4} /\ "expired" \in Texts0
    <2>1. 1 \in Int /\ 28 \in Nat /\ 2 \in {1, 2, 3, 4}
      OBVIOUS
    <2>2. QED
      BY <2>1, MadeIs DEF Texts0
  <1>3. /\ Grows(l, s(l), Made(w, Names0))
        /\ \A b : Twin(l, b) => Twin(s(l), s(b))
    BY <1>2, ScriptsAre, WarrantScript
  <1> HIDE DEF s
  <1>4. /\ Grows(s(l), last(l), Made(w, Names0))
        /\ \A b : Twin(l, b) => Twin(last(l), last(b))
    <2>1. s(l) \in Draft
      BY <1>3 DEF Grows
    <2>2. QED
      BY <1>2, <1>3, <2>1, ExpiryIs
  <1> HIDE DEF last
  <1>5. QED
    BY <1>1, <1>2, <1>3, <1>4, GrowsMore

LEMMA PaulIs ==
  ASSUME NEW l \in Draft, Owning
  PROVE  Grows(l, paul(l), Warranted) /\ \A b : Twin(l, b) => Twin(paul(l), paul(b))
  <1> DEFINE w == warrants[3]
             s(m) == Script(m, w, w.issued + 1 * MIN, 40, 2, 6, NOW, paulTurns)
             last(m) == Expiry(s(m), w, "expired-grace")
  <1>1. \A m : paul(m) = last(m)
    BY DEF paul
  <1>2. /\ w.issued + 1 * MIN \in Int /\ Made(w, Names0) \subseteq Warranted
        /\ 40 \in Nat /\ 3 \in {1, 2, 3, 4} /\ "expired-grace" \in Texts0
    <2>1. 1 \in Int /\ 40 \in Nat /\ 3 \in {1, 2, 3, 4}
      OBVIOUS
    <2>2. QED
      BY <2>1, MadeIs DEF Texts0
  <1>3. /\ Grows(l, s(l), Made(w, Names0))
        /\ \A b : Twin(l, b) => Twin(s(l), s(b))
    BY <1>2, ScriptsAre, WarrantScript
  <1> HIDE DEF s
  <1>4. /\ Grows(s(l), last(l), Made(w, Names0))
        /\ \A b : Twin(l, b) => Twin(last(l), last(b))
    <2>1. s(l) \in Draft
      BY <1>3 DEF Grows
    <2>2. QED
      BY <1>2, <1>3, <2>1, ExpiryIs
  <1> HIDE DEF last
  <1>5. QED
    BY <1>1, <1>2, <1>3, <1>4, GrowsMore

LEMMA ChoiIs ==
  ASSUME NEW l \in Draft, Owning
  PROVE  Grows(l, choi(l), Warranted) /\ \A b : Twin(l, b) => Twin(choi(l), choi(b))
  <1> DEFINE w == warrants[4]
             s(m) == Script(m, w, w.issued + 1 * MIN, 26, 1, 5, NOW, Always(choiTurns))
  <1>1. \A m : choi(m) = s(m)
    BY DEF choi
  <1>2. /\ w.issued + 1 * MIN \in Int /\ Made(w, Names0) \subseteq Warranted
        /\ 26 \in Nat /\ 4 \in {1, 2, 3, 4}
    <2>1. 1 \in Int /\ 26 \in Nat /\ 4 \in {1, 2, 3, 4}
      OBVIOUS
    <2>2. QED
      BY <2>1, MadeIs
  <1>3. /\ Grows(l, s(l), Made(w, Names0))
        /\ \A b : Twin(l, b) => Twin(s(l), s(b))
    BY <1>2, ScriptsAre, WarrantScript
  <1> HIDE DEF s
  <1>4. Grows(l, s(l), Warranted)
    BY <1>2, <1>3 DEF Grows, Adds
  <1>5. QED
    BY <1>1, <1>3, <1>4

\* The allowed writes of one warrant: the number of intervals may not be positive.
LEMMA AggsIs ==
  ASSUME NEW l \in Draft, Owning, NEW i \in {1, 2, 3, 4}
  PROVE  /\ Grows(l, aggs(l, warrants[i]), Warranted)
         /\ \A b : Twin(l, b) => Twin(aggs(l, warrants[i]), aggs(b, warrants[i]))
  <1> DEFINE w == warrants[i]
             n == (aggEnd(w) - w.issued - 1) \div Every
             calls == [k \in 1 .. n |-> aggEv(k)]
  <1>1. \A m : aggs(m, w) = IF ~w.writes THEN m ELSE Do(m, w, w.issued, 0, calls)
    BY DEF aggs
  <1>2. w.issued \in Int /\ w.expires \in Int /\ Made(w, Names0) \subseteq Warranted
    BY MadeIs
  <1>3. aggEnd(w) \in Int
    <2> DEFINE over == IF w.on_expiry = "grace" THEN w.expires + Grace ELSE w.expires
    <2>1. over \in Int
      BY <1>2 DEF Grace, MIN
    <2>2. aggEnd(w) = Min({NOW, over})
      BY DEF aggEnd
    <2> HIDE DEF over
    <2>3. \E x \in {NOW, over} : \A y \in {NOW, over} : x <= y
      BY <2>1 DEF NOW
    <2>4. Min({NOW, over}) \in {NOW, over}
      BY <2>3 DEF Min
    <2>5. QED
      BY <2>1, <2>2, <2>4 DEF NOW
  <1>4. n \in Int
    BY <1>2, <1>3 DEF Every, MIN
  <1> HIDE DEF n
  <1>5. \A k \in Int : aggEv(k) \in Call(Names0)
    <2> SUFFICES ASSUME NEW k \in Int PROVE aggEv(k) \in Call(Names0)
      OBVIOUS
    <2> DEFINE none == <<"">>
    <2>1. /\ none \in Seq(Names0) \ {<<>>} /\ "agg" \in Hooks /\ Plain("agg", none, "ALLOW")
          /\ 1 \in Nat /\ k * Every \in Int /\ "ALLOW" \in Verdicts
      BY DEF Names0, Hooks, Plain, Verdicts, Every, MIN
    <2>2. aggEv(k) = Ev("agg", none, "ALLOW", k * Every, 1)
      BY DEF aggEv
    <2> HIDE DEF none
    <2>3. QED
      BY <2>1, <2>2, EvIs
  <1>6. calls \in Seq(Call(Names0))
    <2>1. PICK p \in Nat : 1 .. n = 1 .. p
      <3>1. CASE n \in Nat
        BY <3>1
      <3>2. CASE n \notin Nat
        <4>1. 1 .. n = 1 .. 0
          BY <1>4, <3>2
        <4>2. QED
          BY <4>1
      <3>3. QED
        BY <3>1, <3>2
    <2>2. calls = [k \in 1 .. p |-> aggEv(k)]
      BY <2>1
    <2>3. \A k \in 1 .. p : k \in Int
      OBVIOUS
    <2>4. [k \in 1 .. p |-> aggEv(k)] \in Seq(Call(Names0))
      BY <1>5, <2>3
    <2>5. QED
      BY <2>2, <2>4
  <1> HIDE DEF calls
  <1>7. /\ Grows(l, Do(l, w, w.issued, 0, calls), Made(w, Names0))
        /\ \A b : Twin(l, b) => Twin(Do(l, w, w.issued, 0, calls), Do(b, w, w.issued, 0, calls))
    BY <1>2, <1>6, WarrantDo
  <1>8. Grows(l, Do(l, w, w.issued, 0, calls), Warranted) /\ Grows(l, l, Warranted)
    BY <1>2, <1>7 DEF Grows, Adds
  <1>9. CASE ~w.writes
    <2>1. \A m : aggs(m, w) = m
      BY <1>1, <1>9
    <2>2. QED
      BY <1>8, <2>1
  <1>10. CASE w.writes
    <2>1. \A m : aggs(m, w) = Do(m, w, w.issued, 0, calls)
      BY <1>1, <1>10
    <2>2. QED
      BY <1>7, <1>8, <2>1
  <1>11. QED
    BY <1>9, <1>10

WriteOf(m, w) == Then(m, LAMBDA k : aggs(k, w))
LEMMA WriteOfIs ==
  ASSUME NEW m, NEW w PROVE WriteOf(m, w) = aggs(m, w)
  <1>1. WriteOf(m, w) = CHOOSE r \in {aggs(x, w) : x \in {m}} : TRUE
    BY DEF WriteOf, Then
  <1>2. \A v : {aggs(x, w) : x \in {m}} = {aggs(m, w)}
    OBVIOUS
  <1>3. \A v : (CHOOSE r \in {v} : TRUE) = v
    OBVIOUS
  <1>4. QED
    BY <1>1, <1>2, <1>3

WritesRun(l) ==
  {g \in [0 .. 4 -> Draft] :
     /\ g[0] = l /\ writes(l) = g[4]
     /\ \A k \in 1 .. 4 : g[k] = aggs(g[k - 1], warrants[k])}

LEMMA WritesRuns ==
  ASSUME NEW l \in Draft, Owning
  PROVE  WritesRun(l) # {}
  <1> DEFINE step == [p \in (1 .. 4) \X Draft |-> WriteOf(p[2], warrants[p[1]])]
             Rec(h) == h = [s \in SUBSET DOMAIN warrants |->
                              IF s = {} THEN l
                              ELSE WriteOf(h[s \ {Max(s)}], warrants[Max(s)])]
             it == CHOOSE h : Rec(h)
  <1>1. writes(l) = it[DOMAIN warrants]
    BY DEF writes, FoldLeft, MapThenFoldSet, WriteOf
  <1>2. DOMAIN warrants = 1 .. 4 /\ 4 \in Nat /\ \A k \in 1 .. 4 : k \in {1, 2, 3, 4}
    BY WarrantsAre
  <1>4. step \in [(1 .. 4) \X Draft -> Draft]
    <2>1. \A k \in 1 .. 4, m \in Draft : WriteOf(m, warrants[k]) \in Draft
      BY <1>2, WriteOfIs, AggsIs DEF Grows
    <2>2. QED
      BY <2>1
  <1>5. \A k \in 1 .. 4, m \in Draft : step[<<k, m>>] = WriteOf(m, warrants[k])
    OBVIOUS
  <1>6. \A s \in SUBSET (1 .. 4) : s # {} => Max(s) \in 1 .. 4 /\ s \ {Max(s)} \in SUBSET (1 .. 4)
    BY <1>2, LargestIn
  <1> HIDE DEF step
  <1>7. \E h : Rec(h)
    <2>1. PICK h \in [SUBSET (1 .. 4) -> Draft] : Folds(4, l, step, h)
      BY <1>2, <1>4, FoldExists
    <2>2. ASSUME NEW s \in SUBSET (1 .. 4)
          PROVE  h[s] = IF s = {} THEN l ELSE WriteOf(h[s \ {Max(s)}], warrants[Max(s)])
      BY <1>5, <1>6, <2>1 DEF Folds
    <2>3. h = [s \in SUBSET (1 .. 4) |-> h[s]]
      BY <2>1
    <2>4. QED
      BY <1>2, <2>2, <2>3
  <1>8. Rec(it)
    BY <1>7
  <1> HIDE DEF it
  <1>9. FoldsIn(Draft, 4, l, step, it)
    <2>1. {} \in SUBSET DOMAIN warrants
      OBVIOUS
    <2>2. it[{}] = l
      BY <1>8, <2>1
    <2>3. ASSUME NEW s \in SUBSET (1 .. 4), s # {}, it[s \ {Max(s)}] \in Draft
          PROVE  it[s] = step[<<Max(s), it[s \ {Max(s)}]>>]
      <3>1. s \in SUBSET DOMAIN warrants
        BY <1>2
      <3>2. it[s] = WriteOf(it[s \ {Max(s)}], warrants[Max(s)])
        BY <1>8, <2>3, <3>1
      <3>3. Max(s) \in 1 .. 4
        BY <1>6, <2>3
      <3>4. QED
        BY <1>5, <2>3, <3>2, <3>3
    <2>4. QED
      BY <2>2, <2>3 DEF FoldsIn
  <1>10. PICK g \in [0 .. 4 -> Draft] : Runs(4, l, step, g) /\ g[4] = it[1 .. 4]
    <2>1. RunsTo(Draft, 4, l, step, it[1 .. 4])
      BY <1>2, <1>4, <1>9, FoldSteps
    <2>2. QED
      BY <2>1 DEF RunsTo
  <1>11. \A k \in 1 .. 4 : k - 1 \in 0 .. 4 /\ g[k - 1] \in Draft
    OBVIOUS
  <1>12. QED
    <2>1. g[0] = l /\ \A k \in 1 .. 4 : g[k] = aggs(g[k - 1], warrants[k])
      BY <1>5, <1>10, <1>11, WriteOfIs DEF Runs
    <2>2. writes(l) = g[4]
      BY <1>1, <1>2, <1>10
    <2>3. g \in WritesRun(l)
      BY <2>1, <2>2 DEF WritesRun
    <2>4. QED
      BY <2>3

LEMMA WritesAre ==
  ASSUME NEW l \in Draft, Owning
  PROVE  Grows(l, writes(l), Warranted) /\ \A b : Twin(l, b) => Twin(writes(l), writes(b))
  <1>1. 4 \in Nat /\ \A k \in 1 .. 4 : k \in {1, 2, 3, 4} /\ k - 1 \in 0 .. 4 /\ k \in 0 .. 4
    OBVIOUS
  <1>2. PICK g \in [0 .. 4 -> Draft] :
           /\ g[0] = l /\ writes(l) = g[4]
           /\ \A k \in 1 .. 4 : g[k] = aggs(g[k - 1], warrants[k])
    BY WritesRuns DEF WritesRun
  <1>3. Grows(l, g[4], Warranted)
    <2> DEFINE P == {k \in 0 .. 4 : Grows(l, g[k], Warranted)}
    <2>1. 0 \in P
      BY <1>2 DEF Grows, Adds
    <2>2. \A k \in 1 .. 4 : k - 1 \in P => k \in P
      <3> SUFFICES ASSUME NEW k \in 1 .. 4, k - 1 \in P PROVE Grows(l, g[k], Warranted)
        BY <1>1
      <3>1. g[k - 1] \in Draft /\ Grows(l, g[k - 1], Warranted)
        BY <1>1
      <3>2. Grows(g[k - 1], g[k], Warranted)
        BY <1>1, <1>2, <3>1, AggsIs
      <3>3. QED
        BY <3>1, <3>2, GrowsMore
    <2> HIDE DEF P
    <2>3. 4 \in P
      BY <1>1, <2>1, <2>2, Along
    <2>4. QED
      BY <2>3 DEF P
  <1>4. ASSUME NEW b, Twin(l, b) PROVE Twin(g[4], writes(b))
    <2>1. b \in Draft
      BY <1>4, TwinIs
    <2>2. PICK h \in [0 .. 4 -> Draft] :
             /\ h[0] = b /\ writes(b) = h[4]
             /\ \A k \in 1 .. 4 : h[k] = aggs(h[k - 1], warrants[k])
      BY <2>1, WritesRuns DEF WritesRun
    <2> DEFINE P == {k \in 0 .. 4 : Twin(g[k], h[k])}
    <2>3. 0 \in P
      BY <1>2, <1>4, <2>2
    <2>4. \A k \in 1 .. 4 : k - 1 \in P => k \in P
      <3> SUFFICES ASSUME NEW k \in 1 .. 4, k - 1 \in P PROVE Twin(g[k], h[k])
        BY <1>1
      <3>1. g[k - 1] \in Draft /\ Twin(g[k - 1], h[k - 1])
        BY <1>1
      <3>2. Twin(aggs(g[k - 1], warrants[k]), aggs(h[k - 1], warrants[k]))
        BY <1>1, <3>1, AggsIs
      <3>3. QED
        BY <1>2, <2>2, <3>2
    <2> HIDE DEF P
    <2>5. 4 \in P
      BY <1>1, <2>3, <2>4, Along
    <2>6. QED
      BY <2>2, <2>5 DEF P
  <1>5. QED
    BY <1>2, <1>3, <1>4

-----------------------------------------------------------------------------
(* The sessions *)

\* The one record that m has more than l.
OneMore(l, m, w, t, W) ==
  {e \in Made(w, W) : e.ts = t /\ ToSet(m.events) = ToSet(l.events) \cup {e}}

LEMMA BaseAdds ==
  ASSUME NEW l \in Draft, NEW w, NEW t, NEW x, NEW what
  PROVE  /\ Len(base(l, w, t, x, what).events) = Len(l.events) + 1
         /\ ToSet(base(l, w, t, x, what).events)
              = ToSet(l.events) \cup {base(l, w, t, x, what).events[Len(l.events) + 1]}
         /\ base(l, w, t, x, what).events[Len(l.events) + 1].ts = t
  <1> DEFINE seq == l.seqByNode[w.node] + 1
             e == [id |-> <<w.node, seq>>, node |-> w.node, seq |-> seq, ts |-> t,
                   warrant |-> w.id, subject |-> w.subject, cgroup |-> w.cgroup,
                   pid |-> l.pid, hook |-> x.hook, verdict |-> x.verdict, what |-> what,
                   note |-> x.note, root |-> x.root \/ w.root]
             drawn == l.drawn + (IF l.prog = "app" THEN Draws(w) ELSE DrawsDash(w))
             m == base(l, w, t, x, what)
             n == Len(l.events)
  <1>1. l \in Made0
    BY DEF Draft
  <1>2. m = [l EXCEPT !.seqByNode[w.node] = seq, !.pid = @ + 1, !.events = Append(@, e),
                      !.drawn = drawn]
    BY DEF base
  <1>3. e.ts = t
    OBVIOUS
  <1> HIDE DEF m, e, seq, drawn
  <1>4. l = [prog |-> l.prog, seed |-> l.seed, drawn |-> l.drawn, pid |-> l.pid,
             events |-> l.events, seqByNode |-> l.seqByNode]
    BY <1>1 DEF Made0
  <1>5. m.events = Append(l.events, e)
    BY <1>2, <1>4
  <1>6. l.events \in Seq(Entry)
    BY <1>1 DEF Made0
  <1>7. /\ n \in Nat /\ DOMAIN l.events = 1 .. n
        /\ Len(Append(l.events, e)) = n + 1 /\ DOMAIN Append(l.events, e) = 1 .. n + 1
        /\ Append(l.events, e)[n + 1] = e
        /\ \A i \in 1 .. n : Append(l.events, e)[i] = l.events[i]
    BY <1>6
  <1>8. ToSet(Append(l.events, e)) = ToSet(l.events) \cup {e}
    <2> HIDE DEF n
    <2>1. \A y : (\E i \in 1 .. n + 1 : Append(l.events, e)[i] = y)
                    <=> (\E i \in 1 .. n : l.events[i] = y) \/ y = e
      BY <1>7
    <2>2. QED
      BY <1>7, <2>1 DEF ToSet
  <1>9. QED
    BY <1>3, <1>5, <1>7, <1>8 DEF m

\* A turn of one call adds one record.
LEMMA DoOne ==
  ASSUME NEW l \in Draft, NEW w, IsOwner(w), NEW t \in Int, NEW args \in Nat,
         NEW W \in SUBSET Names0, NEW calls \in Seq(Call(W)), Len(calls) = 1, calls[1].at = 0
  PROVE  OneMore(l, Do(l, w, t, args, calls), w, t, W) # {}
  <1> DEFINE x == calls[1]
             m == Do(l, w, t, args, calls)
             s == Skip(Skip(l, args), x.drawn)
             e == m.events[Len(l.events) + 1]
  <1>1. x \in Call(W) /\ x.drawn \in Nat /\ t + x.at = t
    <2>1. x \in Call(W)
      OBVIOUS
    <2>2. QED
      BY <2>1 DEF Call
  <1>2. PICK g \in [0 .. Len(calls) -> Draft] :
           /\ g[0] = Skip(l, args) /\ Do(l, w, t, args, calls) = g[Len(calls)]
           /\ \A k \in 1 .. Len(calls) : g[k] = Called(g[k - 1], l, w, t, calls[k])
    <2>1. RunsOf(l, w, t, args, calls) # {}
      BY DoRuns
    <2>2. QED
      BY <2>1 DEF RunsOf
  <1>3. m = Called(Skip(l, args), l, w, t, x)
    <2>1. 1 \in 1 .. 1 /\ 1 - 1 = 0
      OBVIOUS
    <2>2. QED
      BY <1>2, <2>1
  <1> HIDE DEF x
  <1>4. m = base(s, w, t, x, pick(l, x.names))
    BY <1>1, <1>3 DEF Called
  <1>5. s \in Draft /\ s.events = l.events
    BY <1>1, SkipIs
  <1>6. m \in Draft /\ Adds(l, m, Made(w, W))
    BY DoIs
  <1> HIDE DEF m, s
  <1>7. /\ Len(m.events) = Len(l.events) + 1 /\ ToSet(m.events) = ToSet(l.events) \cup {e}
        /\ e.ts = t
    <2> DEFINE what == pick(l, x.names)
    <2>1. m = base(s, w, t, x, what)
      BY <1>4
    <2> HIDE DEF what
    <2>2. s \in Draft
      BY <1>5
    <2>3. /\ Len(base(s, w, t, x, what).events) = Len(s.events) + 1
          /\ ToSet(base(s, w, t, x, what).events)
               = ToSet(s.events) \cup {base(s, w, t, x, what).events[Len(s.events) + 1]}
          /\ base(s, w, t, x, what).events[Len(s.events) + 1].ts = t
      BY <2>2, BaseAdds
    <2>4. QED
      BY <1>5, <2>1, <2>3
  <1>8. e \in Made(w, W)
    <2>1. ToSet(m.events) \subseteq ToSet(l.events) \cup Made(w, W)
      BY <1>6 DEF Adds
    <2>2. e \notin ToSet(l.events)
      <3>1. l \in Made0 /\ m \in Made0 /\ Rising(m.events, m.seqByNode) /\ Rising(l.events, l.seqByNode)
        BY <1>6 DEF Draft
      <3>2. /\ Len(l.events) \in Nat /\ DOMAIN l.events = 1 .. Len(l.events)
            /\ DOMAIN m.events = 1 .. Len(m.events)
        BY <3>1 DEF Made0
      <3>3. e.pid = 4000 + Len(l.events)
        <4>1. Len(l.events) + 1 \in DOMAIN m.events
          BY <1>7, <3>2
        <4>2. e.pid = 3999 + (Len(l.events) + 1)
          BY <3>1, <4>1 DEF Rising
        <4>3. QED
          BY <3>2, <4>2
      <3>4. \A i \in 1 .. Len(l.events) : l.events[i].pid = 3999 + i
        BY <3>1, <3>2 DEF Rising
      <3>5. \A i \in 1 .. Len(l.events) : 3999 + i # 4000 + Len(l.events)
        BY <3>2
      <3>6. QED
        BY <3>2, <3>3, <3>4, <3>5 DEF ToSet
    <2>3. QED
      BY <1>7, <2>1, <2>2
  <1>9. e \in OneMore(l, m, w, t, W)
    BY <1>7, <1>8 DEF OneMore
  <1>10. QED
    BY <1>9 DEF m

LEMMA LoginAdds ==
  ASSUME NEW l \in Draft, NEW w, IsOwner(w), NEW t \in Int
  PROVE  OneMore(l, Login(l, w, t), w, t, {"bash"}) # {}
  <1> DEFINE names == <<"bash">>
             calls == execEv(<<"bash">>, "ALLOW", 0)
             x == Ev("exec", names, "ALLOW", 0, 0)
  <1>1. /\ names \in Seq({"bash"}) \ {<<>>} /\ "exec" \in Hooks /\ Plain("exec", names, "ALLOW")
        /\ 0 \in Nat /\ 0 \in Int /\ "ALLOW" \in Verdicts /\ {"bash"} \in SUBSET Names0
    BY DEF Hooks, HookOrder, Plain, Verdicts, Names0
  <1>2. calls = <<x>> /\ x.at = 0 /\ Login(l, w, t) = Do(l, w, t, 0, calls)
    BY DEF execEv, Ev, Login
  <1> HIDE DEF names, calls
  <1>3. x \in Call({"bash"})
    BY <1>1, EvIs
  <1> HIDE DEF x
  <1>4. calls \in Seq(Call({"bash"})) /\ Len(calls) = 1 /\ calls[1].at = 0
    BY <1>2, <1>3
  <1>5. QED
    BY <1>1, <1>2, <1>4, DoOne

RowOf(s, c, t) == [node |-> s.node, cgroup |-> s.cgroup, severity |-> s.severity,
                 first |-> s.first, count |-> c, last |-> t]
Books == [log : Draft, sessions : Seq({RowOf(s, c, t) : s \in ToSet(warrantless), c \in Nat, t \in Int})]

\* What the two programs have alike of records and of sessions.
OfWarrants(E) == {e \in E : e.warrant # None}
Bare(s) == [s EXCEPT !.count = 0, !.last = 0]
OfSessions(S) == {Bare(s) : s \in ToSet(S)}
Logins(E) == {[node |-> e.node, ts |-> e.ts, cgroup |-> e.cgroup, what |-> e.what] :
                 e \in {x \in E : x.warrant = None /\ x.what = "bash"}}
LoginOf(s) == [node |-> s.node, ts |-> s.first, cgroup |-> s.cgroup, what |-> "bash"]

LEMMA SessionsAre ==
  /\ DOMAIN warrantless = 1 .. 3
  /\ ToSet(warrantless) = {warrantless[1], warrantless[2], warrantless[3]}
  /\ \A s \in ToSet(warrantless) : IsOwner(s) /\ s.first \in Int /\ s.id = None
  <1>1. DOMAIN warrantless = 1 .. 3
    BY DEF warrantless
  <1>2. ToSet(warrantless) = {warrantless[1], warrantless[2], warrantless[3]}
    <2>1. \A i : i \in 1 .. 3 <=> i \in {1, 2, 3}
      OBVIOUS
    <2>2. QED
      BY <1>1, <2>1 DEF ToSet
  <1>3. /\ "prod-web-01" \in Hosts /\ "prod-web-02" \in Hosts /\ "prod-db-01" \in Hosts
    <2>1. DOMAIN nodes = {1, 2, 3, 4}
      BY DEF nodes
    <2>2. QED
      BY <2>1 DEF nodes, Hosts, ToSet
  <1>4. /\ IsOwner(warrantless[1]) /\ warrantless[1].first \in Int /\ warrantless[1].id = None
    <2>1. /\ warrantless[1].id = None /\ warrantless[1].subject = None
          /\ warrantless[1].node = "prod-web-02"
      BY DEF warrantless, Session
    <2>2. warrantless[1].cgroup = 9350
      BY DEF warrantless, Session
    <2>3. warrantless[1].root = FALSE
      BY DEF warrantless, Session
    <2>4. warrantless[1].root \in BOOLEAN
      BY <2>3, Zenon
    <2>5. warrantless[1].first = -88 * MIN
      BY DEF warrantless, Session
    <2>6. -88 * MIN \in Int
      BY DEF MIN
    <2>7. warrantless[1].first \in Int /\ warrantless[1].cgroup \in Int
      BY <2>2, <2>5, <2>6
    <2>8. warrantless[1].id \in Owned /\ warrantless[1].subject \in Subjects
      BY <2>1 DEF Owned, Subjects
    <2>9. QED
      BY <1>3, <2>1, <2>4, <2>7, <2>8 DEF IsOwner
  <1>5. /\ IsOwner(warrantless[2]) /\ warrantless[2].first \in Int /\ warrantless[2].id = None
    <2>1. /\ warrantless[2].id = None /\ warrantless[2].subject = None
          /\ warrantless[2].node = "prod-db-01"
      BY DEF warrantless, Session
    <2>2. warrantless[2].cgroup = 5602
      BY DEF warrantless, Session
    <2>3. warrantless[2].root = FALSE
      BY DEF warrantless, Session
    <2>4. warrantless[2].root \in BOOLEAN
      BY <2>3, Zenon
    <2>5. warrantless[2].first = -52 * MIN
      BY DEF warrantless, Session
    <2>6. -52 * MIN \in Int
      BY DEF MIN
    <2>7. warrantless[2].first \in Int /\ warrantless[2].cgroup \in Int
      BY <2>2, <2>5, <2>6
    <2>8. warrantless[2].id \in Owned /\ warrantless[2].subject \in Subjects
      BY <2>1 DEF Owned, Subjects
    <2>9. QED
      BY <1>3, <2>1, <2>4, <2>7, <2>8 DEF IsOwner
  <1>6. /\ IsOwner(warrantless[3]) /\ warrantless[3].first \in Int /\ warrantless[3].id = None
    <2>1. /\ warrantless[3].id = None /\ warrantless[3].subject = None
          /\ warrantless[3].node = "prod-web-01"
      BY DEF warrantless, Session
    <2>2. warrantless[3].cgroup = 8290
      BY DEF warrantless, Session
    <2>3. warrantless[3].root = TRUE
      BY DEF warrantless, Session
    <2>4. warrantless[3].root \in BOOLEAN
      BY <2>3, Zenon
    <2>5. warrantless[3].first = -14 * MIN
      BY DEF warrantless, Session
    <2>6. -14 * MIN \in Int
      BY DEF MIN
    <2>7. warrantless[3].first \in Int /\ warrantless[3].cgroup \in Int
      BY <2>2, <2>5, <2>6
    <2>8. warrantless[3].id \in Owned /\ warrantless[3].subject \in Subjects
      BY <2>1 DEF Owned, Subjects
    <2>9. QED
      BY <1>3, <2>1, <2>4, <2>7, <2>8 DEF IsOwner
  <1>7. \A i \in {1, 2, 3} : /\ IsOwner(warrantless[i]) /\ warrantless[i].first \in Int
                             /\ warrantless[i].id = None
    BY <1>4, <1>5, <1>6
  <1>8. QED
    BY <1>1, <1>2, <1>7

LEMMA SessionScript ==
  ASSUME NEW s \in ToSet(warrantless)
  PROVE  IsScript(s, 1, 6, Always(sessionTurns), Later)
  <1>1. IsOwner(s)
    BY SessionsAre
  <1>2. \A late \in BOOLEAN : IsTable(Always(sessionTurns)[late], Later)
    BY SessionTurns DEF Always
  <1>3. QED
    BY <1>1, <1>2 DEF IsScript, Later

LEMMA BareIs ==
  ASSUME NEW s, NEW c, NEW t
  PROVE  Bare(RowOf(s, c, t)) = RowOf(s, 0, 0)
  <1>1. ASSUME NEW b, b = Bare(RowOf(s, c, t)) PROVE b = RowOf(s, 0, 0)
    BY <1>1 DEF Bare, RowOf
  <1>2. QED
    BY <1>1

LEMMA SessionIs ==
  ASSUME NEW m \in Books, NEW s \in ToSet(warrantless)
  PROVE  /\ session(m, s) \in Books
         /\ OfWarrants(ToSet(session(m, s).log.events)) = OfWarrants(ToSet(m.log.events))
         /\ Logins(ToSet(session(m, s).log.events))
              = Logins(ToSet(m.log.events)) \cup {LoginOf(s)}
         /\ OfSessions(session(m, s).sessions) = OfSessions(m.sessions) \cup {RowOf(s, 0, 0)}
  <1> DEFINE login == Login(m.log, s, s.first)
             n == between(login, 6, 16)
             end == Rounds(Skip(login, 1), s, s.first, n, 1, 6, NOW, Always(sessionTurns))
             mine(e) == e.warrant = None /\ e.cgroup = s.cgroup
             count == Cardinality({i \in DOMAIN end.log.events : mine(end.log.events[i])})
             E == ToSet(m.log.events)
             F == ToSet(end.log.events)
  <1>1. session(m, s) = [log |-> end.log, sessions |-> Append(m.sessions, RowOf(s, count, end.t))]
    BY DEF session, RowOf
  <1>2. IsOwner(s) /\ s.first \in Int /\ s.id = None
    BY SessionsAre
  <1>3. m.log \in Draft
    BY DEF Books
  <1>4. PICK e \in OneMore(m.log, login, s, s.first, {"bash"}) : TRUE
    BY <1>2, <1>3, LoginAdds
  <1>5. e \in Made(s, {"bash"}) /\ e.ts = s.first /\ ToSet(login.events) = E \cup {e}
    BY <1>4 DEF OneMore
  <1>6. login \in Draft
    BY <1>2, <1>3, LoginIs DEF Grows
  <1> HIDE DEF login
  <1>7. n \in Nat
    <2>1. 16 - 6 + 1 = 11 /\ 11 \in Nat \ {0}
      OBVIOUS
    <2>2. R(login, 11) \in 0 .. 10
      BY <1>6, <2>1, DrawIs
    <2>3. n = 6 + R(login, 11)
      BY <2>1 DEF between
    <2>4. QED
      BY <2>2, <2>3
  <1> HIDE DEF n
  <1>8. Skip(login, 1) \in Draft /\ Skip(login, 1).events = login.events
    <2>1. 1 \in Nat
      OBVIOUS
    <2>2. QED
      BY <1>6, <2>1, SkipIs
  <1>9. end \in Clock /\ Adds(Skip(login, 1), end.log, Made(s, Later))
    BY <1>2, <1>7, <1>8, SessionScript, RoundsAre
  <1> HIDE DEF end
  <1>10. end.log \in Draft /\ end.t \in Int
    BY <1>9 DEF Clock
  <1>11. count \in Nat
    <2>1. end.log.events \in Seq(Entry)
      BY <1>10 DEF Draft, Made0
    <2>2. DOMAIN end.log.events = 1 .. Len(end.log.events) /\ Len(end.log.events) \in Nat
      BY <2>1
    <2>3. IsFiniteSet(DOMAIN end.log.events)
      BY <2>2, FS_Interval
    <2>4. {i \in DOMAIN end.log.events : mine(end.log.events[i])} \in SUBSET DOMAIN end.log.events
      OBVIOUS
    <2>5. QED
      BY <2>3, <2>4, FS_Subset, FS_CardinalityType
  <1> HIDE DEF count
  <1>12. E \cup {e} \subseteq F /\ F \subseteq E \cup {e} \cup Made(s, Later)
    BY <1>5, <1>8, <1>9 DEF Adds
  <1>13. e.warrant = None /\ e.what = "bash" /\ e.node = s.node /\ e.cgroup = s.cgroup
    BY <1>2, <1>5 DEF Made
  <1>14. \A x \in Made(s, Later) : x.warrant = None /\ x.what # "bash"
    BY <1>2 DEF Made, Later
  <1> HIDE DEF E, F
  <1>15. OfWarrants(F) = OfWarrants(E)
    BY <1>12, <1>13, <1>14 DEF OfWarrants
  <1>16. Logins(F) = Logins(E) \cup {LoginOf(s)}
    <2>1. {x \in F : x.warrant = None /\ x.what = "bash"}
            = {x \in E : x.warrant = None /\ x.what = "bash"} \cup {e}
      BY <1>12, <1>13, <1>14
    <2>2. [node |-> e.node, ts |-> e.ts, cgroup |-> e.cgroup, what |-> e.what] = LoginOf(s)
      BY <1>5, <1>13 DEF LoginOf
    <2>3. QED
      BY <2>1, <2>2 DEF Logins
  <1> DEFINE row == RowOf(s, count, end.t)
             rows == {RowOf(r, c, t) : r \in ToSet(warrantless), c \in Nat, t \in Int}
  <1>17. row \in rows
    BY <1>10, <1>11
  <1>18. Bare(row) = RowOf(s, 0, 0)
    BY BareIs
  <1>19. m.sessions \in Seq(rows)
    BY DEF Books
  <1> HIDE DEF row, rows
  <1>20. ToSet(Append(m.sessions, row)) = ToSet(m.sessions) \cup {row}
         /\ Append(m.sessions, row) \in Seq(rows)
    <2> DEFINE k == Len(m.sessions)
    <2>1. /\ k \in Nat /\ DOMAIN m.sessions = 1 .. k /\ DOMAIN Append(m.sessions, row) = 1 .. k + 1
          /\ Append(m.sessions, row)[k + 1] = row
          /\ \A i \in 1 .. k : Append(m.sessions, row)[i] = m.sessions[i]
          /\ Append(m.sessions, row) \in Seq(rows)
      BY <1>17, <1>19
    <2> HIDE DEF k
    <2>2. \A y : (\E i \in 1 .. k + 1 : Append(m.sessions, row)[i] = y)
                    <=> (\E i \in 1 .. k : m.sessions[i] = y) \/ y = row
      BY <2>1
    <2>3. QED
      BY <2>1, <2>2 DEF ToSet
  <1>21. OfSessions(Append(m.sessions, row)) = OfSessions(m.sessions) \cup {RowOf(s, 0, 0)}
    BY <1>18, <1>20 DEF OfSessions
  <1>22. session(m, s) = [log |-> end.log, sessions |-> Append(m.sessions, row)]
    BY <1>1 DEF row
  <1>23. session(m, s) \in Books
    <2>1. [log |-> end.log, sessions |-> Append(m.sessions, row)] \in [log : Draft, sessions : Seq(rows)]
      BY <1>10, <1>20
    <2>2. QED
      BY <1>22, <2>1 DEF Books, rows
  <1>24. session(m, s).log = end.log /\ session(m, s).sessions = Append(m.sessions, row)
    BY <1>22
  <1>25. QED
    BY <1>15, <1>16, <1>21, <1>23, <1>24 DEF E, F

ActOf(m, s) == Then(m, LAMBDA k : session(k, s))
LEMMA ActOfIs ==
  ASSUME NEW m, NEW s PROVE ActOf(m, s) = session(m, s)
  <1>1. ActOf(m, s) = CHOOSE r \in {session(x, s) : x \in {m}} : TRUE
    BY DEF ActOf, Then
  <1>2. {session(x, s) : x \in {m}} = {session(m, s)}
    OBVIOUS
  <1>3. \A v : (CHOOSE r \in {v} : TRUE) = v
    OBVIOUS
  <1>4. QED
    BY <1>1, <1>2, <1>3

NoSession(l) == [log |-> l, sessions |-> <<>>]
ActivityRun(l) ==
  {g \in [0 .. 3 -> Books] :
     /\ g[0] = NoSession(l) /\ activity(l) = g[3]
     /\ \A k \in 1 .. 3 : g[k] = session(g[k - 1], warrantless[k])}

LEMMA ActivityRuns ==
  ASSUME NEW l \in Draft
  PROVE  ActivityRun(l) # {}
  <1> DEFINE b == NoSession(l)
             step == [p \in (1 .. 3) \X Books |-> ActOf(p[2], warrantless[p[1]])]
             Rec(h) == h = [s \in SUBSET DOMAIN warrantless |->
                              IF s = {} THEN b
                              ELSE ActOf(h[s \ {Max(s)}], warrantless[Max(s)])]
             it == CHOOSE h : Rec(h)
  <1>1. activity(l) = it[DOMAIN warrantless]
    BY DEF activity, FoldLeft, MapThenFoldSet, ActOf, NoSession
  <1>2. /\ DOMAIN warrantless = 1 .. 3 /\ 3 \in Nat
        /\ \A k \in 1 .. 3 : warrantless[k] \in ToSet(warrantless)
    BY SessionsAre DEF ToSet
  <1>3. b \in Books
    BY DEF Books, NoSession
  <1>4. step \in [(1 .. 3) \X Books -> Books]
    <2>1. \A k \in 1 .. 3, m \in Books : ActOf(m, warrantless[k]) \in Books
      BY <1>2, ActOfIs, SessionIs
    <2>2. QED
      BY <2>1
  <1>5. \A k \in 1 .. 3, m \in Books : step[<<k, m>>] = ActOf(m, warrantless[k])
    OBVIOUS
  <1>6. \A s \in SUBSET (1 .. 3) : s # {} => Max(s) \in 1 .. 3 /\ s \ {Max(s)} \in SUBSET (1 .. 3)
    BY <1>2, LargestIn
  <1> HIDE DEF step, b
  <1>7. \E h : Rec(h)
    <2>1. PICK h \in [SUBSET (1 .. 3) -> Books] : Folds(3, b, step, h)
      BY <1>2, <1>3, <1>4, FoldExists
    <2>2. ASSUME NEW s \in SUBSET (1 .. 3)
          PROVE  h[s] = IF s = {} THEN b ELSE ActOf(h[s \ {Max(s)}], warrantless[Max(s)])
      BY <1>5, <1>6, <2>1 DEF Folds
    <2>3. h = [s \in SUBSET (1 .. 3) |-> h[s]]
      BY <2>1
    <2>4. QED
      BY <1>2, <2>2, <2>3
  <1>8. Rec(it)
    BY <1>7
  <1> HIDE DEF it
  <1>9. FoldsIn(Books, 3, b, step, it)
    <2>1. {} \in SUBSET DOMAIN warrantless
      OBVIOUS
    <2>2. it[{}] = b
      BY <1>8, <2>1
    <2>3. ASSUME NEW s \in SUBSET (1 .. 3), s # {}, it[s \ {Max(s)}] \in Books
          PROVE  it[s] = step[<<Max(s), it[s \ {Max(s)}]>>]
      <3>1. s \in SUBSET DOMAIN warrantless
        BY <1>2
      <3>2. it[s] = ActOf(it[s \ {Max(s)}], warrantless[Max(s)])
        BY <1>8, <2>3, <3>1
      <3>3. Max(s) \in 1 .. 3
        BY <1>6, <2>3
      <3>4. QED
        BY <1>5, <2>3, <3>2, <3>3
    <2>4. QED
      BY <2>2, <2>3 DEF FoldsIn
  <1>10. PICK g \in [0 .. 3 -> Books] : Runs(3, b, step, g) /\ g[3] = it[1 .. 3]
    <2>1. RunsTo(Books, 3, b, step, it[1 .. 3])
      BY <1>2, <1>3, <1>4, <1>9, FoldSteps
    <2>2. QED
      BY <2>1 DEF RunsTo
  <1>11. \A k \in 1 .. 3 : k - 1 \in 0 .. 3 /\ g[k - 1] \in Books
    OBVIOUS
  <1>12. QED
    <2>1. g[0] = b /\ \A k \in 1 .. 3 : g[k] = session(g[k - 1], warrantless[k])
      BY <1>5, <1>10, <1>11, ActOfIs DEF Runs
    <2>2. activity(l) = g[3]
      BY <1>1, <1>2, <1>10
    <2>3. g \in ActivityRun(l)
      BY <2>1, <2>2 DEF ActivityRun, b
    <2>4. QED
      BY <2>3

AllLogins == {LoginOf(s) : s \in ToSet(warrantless)}
AllRows == {RowOf(s, 0, 0) : s \in ToSet(warrantless)}

LEMMA ActivityIs ==
  ASSUME NEW l \in Draft
  PROVE  /\ activity(l) \in Books
         /\ OfWarrants(ToSet(activity(l).log.events)) = OfWarrants(ToSet(l.events))
         /\ Logins(ToSet(activity(l).log.events)) = Logins(ToSet(l.events)) \cup AllLogins
         /\ OfSessions(activity(l).sessions) = AllRows
  <1> DEFINE F(m) == OfWarrants(ToSet(m.log.events))
             G(m) == Logins(ToSet(m.log.events))
             H(m) == OfSessions(m.sessions)
             s(k) == warrantless[k]
  <1>1. PICK g \in [0 .. 3 -> Books] :
           /\ g[0] = NoSession(l) /\ activity(l) = g[3]
           /\ \A k \in 1 .. 3 : g[k] = session(g[k - 1], warrantless[k])
    BY ActivityRuns DEF ActivityRun
  <1>2. \A k \in 1 .. 3 : s(k) \in ToSet(warrantless) /\ g[k - 1] \in Books
    <2>1. DOMAIN warrantless = 1 .. 3 /\ \A k \in 1 .. 3 : k - 1 \in 0 .. 3
      BY SessionsAre
    <2>2. QED
      BY <2>1 DEF ToSet
  <1>3. \A k \in 1 .. 3 : /\ F(g[k]) = F(g[k - 1]) /\ G(g[k]) = G(g[k - 1]) \cup {LoginOf(s(k))}
                          /\ H(g[k]) = H(g[k - 1]) \cup {RowOf(s(k), 0, 0)}
    BY <1>1, <1>2, SessionIs
  <1>4. F(g[0]) = OfWarrants(ToSet(l.events)) /\ G(g[0]) = Logins(ToSet(l.events)) /\ H(g[0]) = {}
    <2>1. g[0].log = l /\ g[0].sessions = <<>>
      BY <1>1 DEF NoSession
    <2>2. OfSessions(<<>>) = {}
      BY DEF OfSessions, ToSet
    <2>3. QED
      BY <2>1, <2>2
  <1> HIDE DEF F, G, H, s
  <1>5. /\ F(g[1]) = F(g[0]) /\ G(g[1]) = G(g[0]) \cup {LoginOf(s(1))}
        /\ H(g[1]) = H(g[0]) \cup {RowOf(s(1), 0, 0)}
        /\ F(g[2]) = F(g[1]) /\ G(g[2]) = G(g[1]) \cup {LoginOf(s(2))}
        /\ H(g[2]) = H(g[1]) \cup {RowOf(s(2), 0, 0)}
        /\ F(g[3]) = F(g[2]) /\ G(g[3]) = G(g[2]) \cup {LoginOf(s(3))}
        /\ H(g[3]) = H(g[2]) \cup {RowOf(s(3), 0, 0)}
    <2>1. 1 - 1 = 0 /\ 2 - 1 = 1 /\ 3 - 1 = 2 /\ 1 \in 1 .. 3 /\ 2 \in 1 .. 3 /\ 3 \in 1 .. 3
      OBVIOUS
    <2>2. QED
      BY <1>3, <2>1
  <1>6. /\ F(g[3]) = F(g[0])
        /\ G(g[3]) = G(g[0]) \cup {LoginOf(s(1)), LoginOf(s(2)), LoginOf(s(3))}
        /\ H(g[3]) = H(g[0]) \cup {RowOf(s(1), 0, 0), RowOf(s(2), 0, 0), RowOf(s(3), 0, 0)}
    BY <1>5
  <1>7. /\ AllLogins = {LoginOf(s(1)), LoginOf(s(2)), LoginOf(s(3))}
        /\ AllRows = {RowOf(s(1), 0, 0), RowOf(s(2), 0, 0), RowOf(s(3), 0, 0)}
    BY SessionsAre DEF AllLogins, AllRows, s
  <1>8. g[3] \in Books
    BY <1>1
  <1>9. /\ F(g[3]) = OfWarrants(ToSet(l.events)) /\ G(g[3]) = Logins(ToSet(l.events)) \cup AllLogins
        /\ H(g[3]) = AllRows
    BY <1>4, <1>6, <1>7
  <1>10. QED
    BY <1>1, <1>8, <1>9 DEF F, G, H

-----------------------------------------------------------------------------
(* What is said of a session *)

\* The records of the session with cgroup c.
Own(l, c) == {e \in ToSet(l.events) : e.warrant = None /\ e.cgroup = c}
OwnAt(l, c) == {i \in DOMAIN l.events : l.events[i].warrant = None /\ l.events[i].cgroup = c}

LEMMA CountIs ==
  ASSUME NEW l \in Draft, NEW c
  PROVE  Cardinality(OwnAt(l, c)) = Cardinality(Own(l, c)) /\ Cardinality(OwnAt(l, c)) \in Nat
  <1> DEFINE I == OwnAt(l, c)
             S == Own(l, c)
             f == [i \in I |-> l.events[i]]
             n == Len(l.events)
  <1>1. /\ n \in Nat /\ DOMAIN l.events = 1 .. n
        /\ \A i \in 1 .. n : l.events[i].pid = 3999 + i
    <2>1. l \in Made0 /\ Rising(l.events, l.seqByNode)
      BY DEF Draft
    <2>2. DOMAIN l.events = 1 .. n /\ n \in Nat
      BY <2>1 DEF Made0
    <2>3. QED
      BY <2>1, <2>2 DEF Rising
  <1> HIDE DEF n
  <1>2. I \in SUBSET (1 .. n) /\ IsFiniteSet(1 .. n)
    BY <1>1, FS_Interval DEF OwnAt
  <1>3. IsFiniteSet(I)
    BY <1>2, FS_Subset
  <1>4. S = {l.events[i] : i \in I}
    BY DEF Own, OwnAt, ToSet
  <1>5. \A i, j \in I : l.events[i] = l.events[j] => i = j
    <2> SUFFICES ASSUME NEW i \in I, NEW j \in I, l.events[i] = l.events[j] PROVE i = j
      OBVIOUS
    <2>1. 3999 + i = 3999 + j /\ i \in Int /\ j \in Int
      BY <1>1, <1>2
    <2>2. QED
      BY <2>1
  <1> HIDE DEF I, S
  <1>6. f \in Bijection(I, S)
    <2>1. f \in [I -> S] /\ \A v \in S : \E i \in I : f[i] = v
      BY <1>4
    <2>2. \A i, j \in I : f[i] = f[j] => i = j
      BY <1>5
    <2>3. QED
      BY <2>1, <2>2 DEF Bijection, Injection, Surjection, IsInjective
  <1>7. ExistsBijection(I, S)
    BY <1>6 DEF ExistsBijection
  <1>8. QED
    BY <1>3, <1>7, FS_Bijection, FS_CardinalityType DEF I, S

\* The calls of a turn of a session are one, at the time of the turn.
LEMMA SessionCalls ==
  \A i \in DOMAIN sessionTurns : /\ Len(sessionTurns[i].calls) = 1
                                 /\ sessionTurns[i].calls[1].at = 0
  <1> DEFINE a == execEv(<<"ls", "cat", "grep", "tail", "git">>, "ALLOW", 0)
             b == execEv(<<"vim", "cp", "python3">>, "ALLOW", 0)
             c == connectEv(<<"45.33.32.156", "10.0.12.40">>, "ALLOW", 0)
  <1>1. /\ Len(a) = 1 /\ a[1].at = 0 /\ Len(c) = 1 /\ c[1].at = 0
    BY DEF execEv, connectEv, Ev
  <1>2. Len(noted(b, "no-warrant")) = 1 /\ noted(b, "no-warrant")[1].at = 0
    <2>1. b[1].at = 0 /\ b[1] = [hook |-> b[1].hook, names |-> b[1].names, verdict |-> b[1].verdict,
                                 at |-> b[1].at, drawn |-> b[1].drawn, root |-> b[1].root,
                                 note |-> b[1].note]
      BY DEF execEv, Ev
    <2> HIDE DEF b
    <2>2. noted(b, "no-warrant") = <<[b[1] EXCEPT !.note = "no-warrant"]>>
      BY DEF noted
    <2>3. QED
      BY <2>1, <2>2
  <1> HIDE DEF a, b, c
  <1>3. sessionTurns = <<Turn(60, 2, a), Turn(85, 2, noted(b, "no-warrant")), Turn(100, 2, c)>>
    BY DEF sessionTurns, a, b, c
  <1>4. \A below, args, calls : Turn(below, args, calls).calls = calls
    BY DEF Turn
  <1>5. /\ DOMAIN sessionTurns = 1 .. 3 /\ sessionTurns[1].calls = a
        /\ sessionTurns[2].calls = noted(b, "no-warrant") /\ sessionTurns[3].calls = c
    BY <1>3, <1>4
  <1>6. \A i \in 1 .. 3 : i = 1 \/ i = 2 \/ i = 3
    OBVIOUS
  <1>7. QED
    BY <1>1, <1>2, <1>5, <1>6

\* The clock of the rounds of a session is at its last record, or past NOW.
Timely(c, s) ==
  /\ \A e \in Own(c.log, s.cgroup) : e.node = s.node /\ e.ts <= c.t
  /\ c.t > NOW \/ \E e \in Own(c.log, s.cgroup) : e.ts = c.t

\* A record more of the session, at the time of the clock.
LEMMA TimelyMore ==
  ASSUME NEW l, NEW m, NEW s \in ToSet(warrantless), NEW t \in Int, NEW W,
         OneMore(l, m, s, t, W) # {},
         \A e \in Own(l, s.cgroup) : e.node = s.node /\ e.ts <= t
  PROVE  \A over : Timely([log |-> m, t |-> t, over |-> over], s)
  <1>1. PICK e \in OneMore(l, m, s, t, W) : TRUE
    OBVIOUS
  <1>2. s.id = None
    BY SessionsAre
  <1>3. e.warrant = None /\ e.cgroup = s.cgroup /\ e.node = s.node /\ e.ts = t
    BY <1>1, <1>2 DEF OneMore, Made
  <1>4. ToSet(m.events) = ToSet(l.events) \cup {e}
    BY <1>1 DEF OneMore
  <1>5. Own(m, s.cgroup) = Own(l, s.cgroup) \cup {e}
    BY <1>3, <1>4 DEF Own
  <1>6. t <= t
    OBVIOUS
  <1>7. QED
    BY <1>3, <1>5, <1>6 DEF Timely

LEMMA RoundTimely ==
  ASSUME NEW c \in Clock, NEW s \in ToSet(warrantless), Timely(c, s)
  PROVE  Timely(Round(c, s, 1, 6, NOW, Always(sessionTurns)), s)
  <1> DEFINE turns == Always(sessionTurns)
             time == c.t + between(c.log, 1, 6) * MIN
             left == Skip(c.log, 1)
             turn == TurnOf(turns[Late(s, time)], R(left, 100))
             done == Do(Skip(left, 1), s, time, turn.args, turn.calls)
             stop == NOW # None /\ time > NOW
  <1>1. Round(c, s, 1, 6, NOW, Always(sessionTurns)) =
          IF stop THEN [log |-> left, t |-> time, over |-> TRUE]
          ELSE [log |-> done, t |-> time, over |-> FALSE]
    BY DEF Round
  <1>2. c.log \in Draft /\ c.t \in Int
    BY DEF Clock
  <1>3. IsOwner(s) /\ IsTable(sessionTurns, Later) /\ Later \in SUBSET Names0
    BY SessionsAre, SessionTurns DEF Later
  <1>4. time \in Int /\ c.t <= time
    <2>1. 6 - 1 + 1 = 6 /\ 6 \in Nat \ {0}
      OBVIOUS
    <2>2. R(c.log, 6) \in 0 .. 6 - 1
      BY <1>2, <2>1, DrawIs
    <2>3. time = c.t + (1 + R(c.log, 6)) * 60000
      BY <2>1 DEF between, MIN
    <2>4. QED
      BY <1>2, <2>2, <2>3
  <1>5. left \in Draft /\ left.events = c.log.events /\ Skip(left, 1) \in Draft
        /\ Skip(left, 1).events = c.log.events
    <2>1. 1 \in Nat
      OBVIOUS
    <2>2. left \in Draft /\ left.events = c.log.events
      BY <1>2, <2>1, SkipIs
    <2> HIDE DEF left
    <2>3. QED
      BY <2>1, <2>2, SkipIs
  <1>6. R(left, 100) \in 0 .. 99
    <2>1. 100 \in Nat \ {0} /\ 100 - 1 = 99
      OBVIOUS
    <2> HIDE DEF left
    <2>2. R(left, 100) \in 0 .. 100 - 1
      BY <1>5, <2>1, DrawIs
    <2>3. QED
      BY <2>1, <2>2
  <1> HIDE DEF left, time
  <1>7. turns[Late(s, time)] = sessionTurns
    BY DEF Always, Late
  <1>8. turn \in Turns(Later) /\ Len(turn.calls) = 1 /\ turn.calls[1].at = 0
    <2> DEFINE r == R(left, 100)
    <2>1. turn = TurnOf(sessionTurns, r)
      BY <1>7
    <2> HIDE DEF turn, r
    <2>2. r \in 0 .. 99
      BY <1>6 DEF r
    <2>3. turn \in Turns(Later) /\ \E i \in DOMAIN sessionTurns : turn = sessionTurns[i]
      BY <1>3, <2>1, <2>2, TurnIs
    <2>4. QED
      BY <2>3, SessionCalls
  <1> HIDE DEF turn
  <1>9. \A e \in Own(c.log, s.cgroup) : e.node = s.node /\ e.ts <= time
    <2> SUFFICES ASSUME NEW e \in Own(c.log, s.cgroup) PROVE e.node = s.node /\ e.ts <= time
      OBVIOUS
    <2>1. e.node = s.node /\ e.ts <= c.t
      BY DEF Timely
    <2>2. e.ts \in Int
      <3>1. c.log.events \in Seq(Entry)
        BY <1>2 DEF Draft, Made0
      <3>2. e \in Entry
        BY <3>1 DEF Own, ToSet
      <3>3. QED
        BY <3>2 DEF Entry
    <2>3. QED
      BY <1>2, <1>4, <2>1, <2>2
  <1>10. CASE stop
    <2>1. Own(left, s.cgroup) = Own(c.log, s.cgroup)
      BY <1>5 DEF Own
    <2>2. QED
      BY <1>1, <1>9, <1>10, <2>1 DEF Timely
  <1>11. CASE ~stop
    <2>1. turn.args \in Nat /\ turn.calls \in Seq(Call(Later))
      BY <1>8 DEF Turns
    <2>2. OneMore(Skip(left, 1), done, s, time, Later) # {}
      BY <1>3, <1>4, <1>5, <1>8, <2>1, DoOne
    <2>3. Own(Skip(left, 1), s.cgroup) = Own(c.log, s.cgroup)
      BY <1>5 DEF Own
    <2> HIDE DEF done
    <2>4. Timely([log |-> done, t |-> time, over |-> FALSE], s)
      BY <1>4, <1>9, <2>2, <2>3, TimelyMore
    <2>5. QED
      BY <1>1, <1>11, <2>4
  <1>12. QED
    BY <1>10, <1>11

LEMMA RoundsTimely ==
  ASSUME NEW l \in Draft, NEW s \in ToSet(warrantless), NEW t \in Int, NEW n \in Nat,
         Timely(Start(l, t), s)
  PROVE  Timely(Rounds(l, s, t, n, 1, 6, NOW, Always(sessionTurns)), s)
  <1> DEFINE turns == Always(sessionTurns)
  <1>1. \A k \in 1 .. n : k - 1 \in 0 .. n /\ k \in 0 .. n
    OBVIOUS
  <1>2. IsScript(s, 1, 6, turns, Later)
    BY SessionScript
  <1> HIDE DEF turns
  <1>3. PICK g \in [0 .. n -> Clock] :
           /\ g[0] = Start(l, t) /\ Rounds(l, s, t, n, 1, 6, NOW, turns) = g[n]
           /\ \A k \in 1 .. n : g[k] = Next0(g[k - 1], s, 1, 6, NOW, turns)
    <2>1. RoundsOf(l, s, t, n, 1, 6, NOW, turns) # {}
      BY <1>2, RoundsRun
    <2>2. QED
      BY <2>1 DEF RoundsOf
  <1> DEFINE P == {k \in 0 .. n : Timely(g[k], s)}
  <1>4. 0 \in P
    BY <1>3
  <1>5. \A k \in 1 .. n : k - 1 \in P => k \in P
    <2> SUFFICES ASSUME NEW k \in 1 .. n, k - 1 \in P PROVE Timely(g[k], s)
      BY <1>1
    <2>1. g[k - 1] \in Clock /\ Timely(g[k - 1], s)
      BY <1>1
    <2>2. CASE g[k - 1].over
      BY <1>3, <2>1, <2>2 DEF Next0
    <2>3. CASE ~g[k - 1].over
      <3>1. g[k] = Round(g[k - 1], s, 1, 6, NOW, turns)
        BY <1>3, <2>3 DEF Next0
      <3>2. QED
        BY <2>1, <3>1, RoundTimely DEF turns
    <2>4. QED
      BY <2>2, <2>3
  <1> HIDE DEF P
  <1>6. n \in P
    BY <1>4, <1>5, Along
  <1>7. QED
    BY <1>3, <1>6 DEF P, turns

\* What a row of the list of sessions says is true of the records.
RowTrue(l, r) ==
  /\ r.count = Cardinality(Own(l, r.cgroup))
  /\ \A e \in Own(l, r.cgroup) : e.node = r.node /\ e.ts <= r.last
  /\ r.last > NOW \/ \E e \in Own(l, r.cgroup) : e.ts = r.last
Accounted(m) ==
  /\ \A r \in ToSet(m.sessions) : RowTrue(m.log, r)
  /\ \A e \in ToSet(m.log.events) :
       e.warrant = None => \E r \in ToSet(m.sessions) : r.cgroup = e.cgroup
  /\ \A r, q \in ToSet(m.sessions) : r.cgroup = q.cgroup => r = q
Groups(m) == {r.cgroup : r \in ToSet(m.sessions)}

\* The session after it logged in, its rounds, and the row about it.
LoggedIn(m, s) == Login(m.log, s, s.first)
EndOf(m, s) == Rounds(Skip(LoggedIn(m, s), 1), s, s.first, between(LoggedIn(m, s), 6, 16), 1, 6, NOW,
                      Always(sessionTurns))
RowMade(m, s) == RowOf(s, Cardinality(OwnAt(EndOf(m, s).log, s.cgroup)), EndOf(m, s).t)

LEMMA SessionMakes ==
  ASSUME NEW m, NEW s
  PROVE  session(m, s) = [log |-> EndOf(m, s).log, sessions |-> Append(m.sessions, RowMade(m, s))]
  BY DEF session, EndOf, LoggedIn, RowMade, RowOf, OwnAt

\* Records of the session only are added, and its clock is right.
LEMMA EndIs ==
  ASSUME NEW m \in Books, NEW s \in ToSet(warrantless), Own(m.log, s.cgroup) = {}
  PROVE  /\ EndOf(m, s).log \in Draft /\ EndOf(m, s).t \in Int
         /\ Adds(m.log, EndOf(m, s).log, Made(s, Names0)) /\ Timely(EndOf(m, s), s)
  <1> DEFINE login == LoggedIn(m, s)
             n == between(login, 6, 16)
             l == Skip(login, 1)
             end == Rounds(l, s, s.first, n, 1, 6, NOW, Always(sessionTurns))
  <1>1. EndOf(m, s) = end
    BY DEF EndOf
  <1>2. IsOwner(s) /\ s.first \in Int
    BY SessionsAre
  <1>3. m.log \in Draft
    BY DEF Books
  <1>4. OneMore(m.log, login, s, s.first, {"bash"}) # {}
    BY <1>2, <1>3, LoginAdds DEF LoggedIn
  <1>5. login \in Draft /\ Adds(m.log, login, Made(s, {"bash"}))
    BY <1>2, <1>3, LoginIs DEF Grows, LoggedIn
  <1> HIDE DEF login
  <1>6. n \in Nat
    <2>1. 16 - 6 + 1 = 11 /\ 11 \in Nat \ {0}
      OBVIOUS
    <2>2. R(login, 11) \in 0 .. 10
      BY <1>5, <2>1, DrawIs
    <2>3. n = 6 + R(login, 11)
      BY <2>1 DEF between
    <2>4. QED
      BY <2>2, <2>3
  <1> HIDE DEF n
  <1>7. l \in Draft /\ l.events = login.events /\ Adds(login, l, Made(s, Later))
    <2>1. 1 \in Nat
      OBVIOUS
    <2>2. QED
      BY <1>5, <2>1, SkipIs DEF Adds
  <1> HIDE DEF l
  <1>8. Timely(Start(l, s.first), s)
    <2>1. Timely(Start(login, s.first), s)
      BY <1>2, <1>4, TimelyMore DEF Start
    <2>2. Own(l, s.cgroup) = Own(login, s.cgroup)
      BY <1>7 DEF Own
    <2>3. QED
      BY <2>1, <2>2 DEF Timely, Start
  <1>9. end \in Clock /\ Adds(l, end.log, Made(s, Later))
    BY <1>2, <1>6, <1>7, SessionScript, RoundsAre
  <1>10. Timely(end, s)
    BY <1>2, <1>6, <1>7, <1>8, RoundsTimely
  <1> HIDE DEF end
  <1>11. Made(s, {"bash"}) \subseteq Made(s, Names0) /\ Made(s, Later) \subseteq Made(s, Names0)
    BY DEF Made, Later, Names0, Entry
  <1>12. Adds(m.log, end.log, Made(s, Names0))
    BY <1>5, <1>7, <1>9, <1>11 DEF Adds
  <1>13. end.log \in Draft /\ end.t \in Int
    BY <1>9 DEF Clock
  <1>14. QED
    BY <1>1, <1>10, <1>12, <1>13

LEMMA AppendHas ==
  ASSUME NEW S, NEW s \in Seq(S), NEW v \in S
  PROVE  ToSet(Append(s, v)) = ToSet(s) \cup {v}
  <1> DEFINE k == Len(s)
  <1>1. /\ k \in Nat /\ DOMAIN s = 1 .. k /\ DOMAIN Append(s, v) = 1 .. k + 1
        /\ Append(s, v)[k + 1] = v
        /\ \A i \in 1 .. k : Append(s, v)[i] = s[i]
    OBVIOUS
  <1> HIDE DEF k
  <1>2. \A y : (\E i \in 1 .. k + 1 : Append(s, v)[i] = y)
                  <=> (\E i \in 1 .. k : s[i] = y) \/ y = v
    BY <1>1
  <1>3. QED
    BY <1>1, <1>2 DEF ToSet

LEMMA SessionTells ==
  ASSUME NEW m \in Books, Accounted(m), NEW s \in ToSet(warrantless), s.cgroup \notin Groups(m)
  PROVE  /\ session(m, s) \in Books /\ Accounted(session(m, s))
         /\ Groups(session(m, s)) = Groups(m) \cup {s.cgroup}
         /\ \A r \in ToSet(session(m, s).sessions) : r.cgroup \in Groups(session(m, s))
  <1> DEFINE end == EndOf(m, s)
             row == RowMade(m, s)
             new == session(m, s)
             rows == {RowOf(q, c, t) : q \in ToSet(warrantless), c \in Nat, t \in Int}
             E == ToSet(m.log.events)
             F == ToSet(end.log.events)
  <1>1. new.log = end.log /\ new.sessions = Append(m.sessions, row) /\ new \in Books
    BY SessionMakes, SessionIs
  <1>2. Own(m.log, s.cgroup) = {}
    BY DEF Accounted, Groups, Own
  <1>3. end.log \in Draft /\ end.t \in Int /\ Adds(m.log, end.log, Made(s, Names0)) /\ Timely(end, s)
    BY <1>2, EndIs
  <1>4. /\ row.cgroup = s.cgroup /\ row.node = s.node /\ row.last = end.t
        /\ row.count = Cardinality(Own(end.log, s.cgroup)) /\ row \in rows
    <2>1. Cardinality(OwnAt(end.log, s.cgroup)) = Cardinality(Own(end.log, s.cgroup))
          /\ Cardinality(OwnAt(end.log, s.cgroup)) \in Nat
      BY <1>3, CountIs
    <2>2. row = RowOf(s, Cardinality(OwnAt(end.log, s.cgroup)), end.t)
      BY DEF RowMade
    <2> HIDE DEF row, end
    <2>3. row \in rows
      BY <1>3, <2>1, <2>2
    <2>4. QED
      BY <2>1, <2>2, <2>3 DEF RowOf
  <1> HIDE DEF row, end, new
  <1>5. ToSet(new.sessions) = ToSet(m.sessions) \cup {row}
    <2>1. m.sessions \in Seq(rows)
      BY DEF Books
    <2> HIDE DEF rows
    <2>2. QED
      BY <1>1, <1>4, <2>1, AppendHas
  <1>6. Groups(new) = Groups(m) \cup {s.cgroup}
    BY <1>4, <1>5 DEF Groups
  <1>7. E \subseteq F /\ F \subseteq E \cup Made(s, Names0)
    BY <1>3 DEF Adds
  <1>8. \A e \in F \ E : e.warrant = None /\ e.cgroup = s.cgroup
    BY <1>7, SessionsAre DEF Made
  <1>9. \A c : c # s.cgroup => Own(end.log, c) = Own(m.log, c)
    BY <1>7, <1>8 DEF Own
  <1>10. RowTrue(end.log, row)
    BY <1>3, <1>4 DEF Timely, RowTrue
  <1>11. \A r \in ToSet(m.sessions) : r.cgroup # s.cgroup /\ RowTrue(end.log, r)
    <2> SUFFICES ASSUME NEW r \in ToSet(m.sessions) PROVE r.cgroup # s.cgroup /\ RowTrue(end.log, r)
      OBVIOUS
    <2>1. RowTrue(m.log, r) /\ r.cgroup # s.cgroup
      BY DEF Accounted, Groups
    <2>2. QED
      BY <1>9, <2>1 DEF RowTrue
  <1>12. \A r \in ToSet(new.sessions) : RowTrue(new.log, r)
    BY <1>1, <1>5, <1>10, <1>11
  <1>13. \A e \in ToSet(new.log.events) :
           e.warrant = None => \E r \in ToSet(new.sessions) : r.cgroup = e.cgroup
    <2> SUFFICES ASSUME NEW e \in F, e.warrant = None
                 PROVE  \E r \in ToSet(new.sessions) : r.cgroup = e.cgroup
      BY <1>1
    <2>1. CASE e \in E
      BY <1>5, <2>1 DEF Accounted
    <2>2. CASE e \notin E
      BY <1>4, <1>5, <1>8, <2>2
    <2>3. QED
      BY <2>1, <2>2
  <1>14. \A r, q \in ToSet(new.sessions) : r.cgroup = q.cgroup => r = q
    <2>1. \A r, q \in ToSet(m.sessions) : r.cgroup = q.cgroup => r = q
      BY DEF Accounted
    <2>2. QED
      BY <1>4, <1>5, <1>11, <2>1
  <1>15. Accounted(new)
    BY <1>12, <1>13, <1>14 DEF Accounted
  <1>16. QED
    BY <1>1, <1>6, <1>15 DEF new, Groups

LEMMA ActivityTells ==
  ASSUME NEW l \in Draft, \A e \in ToSet(l.events) : e.warrant # None
  PROVE  Accounted(activity(l)) /\ Groups(activity(l)) = {9350, 5602, 8290}
  <1> DEFINE s(k) == warrantless[k]
  <1>1. PICK g \in [0 .. 3 -> Books] :
           /\ g[0] = NoSession(l) /\ activity(l) = g[3]
           /\ \A k \in 1 .. 3 : g[k] = session(g[k - 1], warrantless[k])
    BY ActivityRuns DEF ActivityRun
  <1>2. /\ s(1).cgroup = 9350 /\ s(2).cgroup = 5602 /\ s(3).cgroup = 8290
        /\ \A k \in 1 .. 3 : s(k) \in ToSet(warrantless)
    <2>1. s(1).cgroup = 9350 /\ s(2).cgroup = 5602 /\ s(3).cgroup = 8290
      BY DEF warrantless, Session
    <2>2. QED
      BY <2>1, SessionsAre DEF ToSet
  <1>3. /\ g[0] \in Books /\ g[1] \in Books /\ g[2] \in Books
        /\ g[1] = session(g[0], s(1)) /\ g[2] = session(g[1], s(2)) /\ g[3] = session(g[2], s(3))
    <2>1. 1 - 1 = 0 /\ 2 - 1 = 1 /\ 3 - 1 = 2 /\ 1 \in 1 .. 3 /\ 2 \in 1 .. 3 /\ 3 \in 1 .. 3
          /\ 0 \in 0 .. 3 /\ 1 \in 0 .. 3 /\ 2 \in 0 .. 3
      OBVIOUS
    <2>2. QED
      BY <1>1, <2>1
  <1> HIDE DEF s
  <1>4. Accounted(g[0]) /\ Groups(g[0]) = {}
    <2>1. ToSet(<<>>) = {}
      BY DEF ToSet
    <2>2. g[0].log = l /\ ToSet(g[0].sessions) = {}
      BY <1>1, <2>1 DEF NoSession
    <2>3. QED
      BY <2>2 DEF Accounted, Groups
  <1>5. Accounted(g[1]) /\ Groups(g[1]) = {9350}
    <2>1. s(1) \in ToSet(warrantless) /\ s(1).cgroup \notin Groups(g[0])
      BY <1>2, <1>4
    <2>2. QED
      BY <1>2, <1>3, <1>4, <2>1, SessionTells
  <1>6. Accounted(g[2]) /\ Groups(g[2]) = {9350, 5602}
    <2>1. s(2) \in ToSet(warrantless) /\ s(2).cgroup \notin Groups(g[1])
      BY <1>2, <1>5
    <2>2. QED
      BY <1>2, <1>3, <1>5, <2>1, SessionTells
  <1>7. Accounted(g[3]) /\ Groups(g[3]) = {9350, 5602, 8290}
    <2>1. s(3) \in ToSet(warrantless) /\ s(3).cgroup \notin Groups(g[2])
      BY <1>2, <1>6
    <2>2. QED
      BY <1>2, <1>3, <1>6, <2>1, SessionTells
  <1>8. QED
    BY <1>1, <1>7

-----------------------------------------------------------------------------
(* The log that a module exports *)

LEMMA EmptyIs ==
  ASSUME NEW seed \in Int
  PROVE  /\ \A p \in Programs : Empty(p, seed) \in Draft /\ Empty(p, seed).events = <<>>
         /\ Twin(Empty("app", seed), Empty("dash", seed))
  <1> DEFINE place(n) == CHOOSE i \in DOMAIN nodes : nodes[i] = n
             l(p) == [prog |-> p, seed |-> seed, drawn |-> 0]
             last(p) == [n \in Hosts |-> 40000 + between(Skip(l(p), place(n) - 1), 0, 900)]
  <1>1. \A p : Empty(p, seed) = [prog |-> p, seed |-> seed, drawn |-> Len(nodes), pid |-> 4000,
                                 events |-> <<>>, seqByNode |-> last(p)]
    BY DEF Empty, Hosts
  <1>2. Len(nodes) = 4 /\ DOMAIN nodes = 1 .. 4
    BY DEF nodes
  <1>3. \A n \in Hosts : place(n) \in 1 .. 4
    <2>1. \A n \in Hosts : \E i \in DOMAIN nodes : nodes[i] = n
      BY DEF Hosts, ToSet
    <2>2. QED
      BY <1>2, <2>1
  <1> HIDE DEF place
  <1>4. ASSUME NEW p, NEW k \in Int
        PROVE  /\ Skip(l(p), k).seed = seed /\ Skip(l(p), k).drawn = k
               /\ between(Skip(l(p), k), 0, 900) \in Int
    <2>1. ASSUME NEW m, m = Skip(l(p), k) PROVE m.seed = seed /\ m.drawn = k
      <3>1. m = [l(p) EXCEPT !.drawn = 0 + k]
        BY <2>1 DEF Skip
      <3>2. QED
        BY <3>1
    <2>2. Skip(l(p), k).seed = seed /\ Skip(l(p), k).drawn = k
      BY <2>1
    <2> HIDE DEF l
    <2>3. 900 - 0 + 1 = 901 /\ 901 \in Nat \ {0}
      OBVIOUS
    <2>4. R(Skip(l(p), k), 901) \in 0 .. 901 - 1
      <3> DEFINE m == Skip(l(p), k)
                 n == 901
      <3>1. m.seed \in Int /\ m.drawn \in Int
        BY <2>2
      <3>2. n \in Nat \ {0}
        BY <2>3
      <3> HIDE DEF m, n
      <3>3. R(m, n) \in 0 .. n - 1
        BY <3>1, <3>2, RIs
      <3>4. QED
        BY <3>3 DEF m, n
    <2>5. between(Skip(l(p), k), 0, 900) = 0 + R(Skip(l(p), k), 901)
      BY <2>3 DEF between
    <2>6. QED
      BY <2>2, <2>4, <2>5
  <1>5. \A n \in Hosts : place(n) - 1 \in Int
    BY <1>3
  <1>6. last("app") = last("dash")
    <2>1. \A k \in Int : between(Skip(l("app"), k), 0, 900) = between(Skip(l("dash"), k), 0, 900)
      <3> HIDE DEF l
      <3> SUFFICES ASSUME NEW k \in Int
                   PROVE  between(Skip(l("app"), k), 0, 900) = between(Skip(l("dash"), k), 0, 900)
        OBVIOUS
      <3> DEFINE a == Skip(l("app"), k)
                 b == Skip(l("dash"), k)
      <3>1. a.seed = b.seed /\ a.drawn = b.drawn
        BY <1>4
      <3> HIDE DEF a, b
      <3>2. \A n : R(a, n) = R(b, n)
        BY <3>1 DEF R
      <3>3. between(a, 0, 900) = between(b, 0, 900)
        BY <3>2 DEF between
      <3>4. QED
        BY <3>3 DEF a, b
    <2> HIDE DEF l
    <2>2. QED
      BY <1>5, <2>1
  <1>7. \A p : last(p) \in [Hosts -> Int]
    <2> HIDE DEF l
    <2>1. \A p : \A n \in Hosts : 40000 + between(Skip(l(p), place(n) - 1), 0, 900) \in Int
      BY <1>4, <1>5
    <2>2. QED
      BY <2>1
  <1> HIDE DEF last
  <1>8. ASSUME NEW p \in Programs PROVE Empty(p, seed) \in Draft /\ Empty(p, seed).events = <<>>
    <2>1. Empty(p, seed) \in Made0
      <3>1. <<>> \in Seq(Entry) /\ 4 \in Int /\ 4000 \in Int /\ last(p) \in [Hosts -> Int]
        BY <1>7
      <3>2. [prog |-> p, seed |-> seed, drawn |-> 4, pid |-> 4000, events |-> <<>>,
             seqByNode |-> last(p)] \in Made0
        BY <3>1 DEF Made0
      <3>3. QED
        BY <1>1, <1>2, <3>2
    <2>2. Empty(p, seed).pid = 4000 + Len(Empty(p, seed).events)
      BY <1>1
    <2>3. Rising(<<>>, last(p))
      BY DEF Rising
    <2>4. QED
      BY <1>1, <2>1, <2>2, <2>3 DEF Draft
  <1>9. ASSUME NEW a, NEW b, a = Empty("app", seed), b = Empty("dash", seed) PROVE Twin(a, b)
    <2>1. a = [prog |-> "app", seed |-> seed, drawn |-> Len(nodes), pid |-> 4000,
               events |-> <<>>, seqByNode |-> last("app")]
      BY <1>1, <1>9
    <2>2. ASSUME NEW c, c = [a EXCEPT !.prog = "dash"] PROVE c = b
      BY <1>1, <1>6, <1>9, <2>1, <2>2
    <2>3. [a EXCEPT !.prog = "dash"] = b
      BY <2>2
    <2>4. a.prog = "app"
      BY <2>1
    <2>5. QED
      BY <2>3, <2>4 DEF Twin
  <1>10. QED
    BY <1>8, <1>9

\* The sort neither loses nor doubles a record: of two records one is before
\* the other.
Ranks(s) == [i \in DOMAIN s |-> 1 + Cardinality({j \in DOMAIN s : Before(s[j], s[i])})]

LEMMA RanksAre ==
  ASSUME NEW s \in Seq(Entry), \A i \in DOMAIN s : s[i].pid = 3999 + i
  PROVE  Ranks(s) \in Bijection(1 .. Len(s), 1 .. Len(s))
  <1> DEFINE n == Len(s)
             below(i) == {j \in 1 .. n : Before(s[j], s[i])}
  <1>1. n \in Nat /\ DOMAIN s = 1 .. n /\ IsFiniteSet(1 .. n) /\ Cardinality(1 .. n) = n
    <2>1. n \in Nat /\ DOMAIN s = 1 .. n
      OBVIOUS
    <2> HIDE DEF n
    <2>2. IsFiniteSet(1 .. n) /\ Cardinality(1 .. n) = IF 1 > n THEN 0 ELSE n - 1 + 1
      BY <2>1, FS_Interval
    <2>3. QED
      BY <2>1, <2>2
  <1>2. \A i \in 1 .. n : s[i].ts \in Int /\ s[i].pid = 3999 + i
    <2> SUFFICES ASSUME NEW i \in DOMAIN s PROVE s[i].ts \in Int /\ s[i].pid = 3999 + i
      BY <1>1
    <2>1. s[i] \in Entry
      OBVIOUS
    <2>2. QED
      BY <2>1 DEF Entry
  <1> HIDE DEF n
  <1>3. \A i \in 1 .. n : Ranks(s)[i] = 1 + Cardinality(below(i))
    BY <1>1 DEF Ranks
  <1>4. \A i \in 1 .. n : below(i) \in SUBSET (1 .. n) /\ i \notin below(i)
    BY <1>2 DEF Before
  <1>5. \A i, j \in 1 .. n : i # j => Before(s[i], s[j]) \/ Before(s[j], s[i])
    BY <1>1, <1>2 DEF Before
  <1>6. \A i, j, k \in 1 .. n : Before(s[i], s[j]) /\ Before(s[j], s[k]) => Before(s[i], s[k])
    BY <1>1, <1>2 DEF Before
  <1> HIDE DEF below
  <1>7. \A i \in 1 .. n : IsFiniteSet(below(i)) /\ Cardinality(below(i)) \in 0 .. n - 1
    <2> SUFFICES ASSUME NEW i \in 1 .. n
                 PROVE  IsFiniteSet(below(i)) /\ Cardinality(below(i)) \in 0 .. n - 1
      OBVIOUS
    <2>1. /\ IsFiniteSet(below(i)) /\ Cardinality(below(i)) <= n
          /\ Cardinality(below(i)) = n => below(i) = 1 .. n
      BY <1>1, <1>4, FS_Subset
    <2>2. Cardinality(below(i)) \in Nat
      BY <2>1, FS_CardinalityType
    <2>3. Cardinality(below(i)) # n
      <3> SUFFICES ASSUME Cardinality(below(i)) = n PROVE FALSE
        OBVIOUS
      <3> DEFINE all == 1 .. n
      <3>1. i \notin below(i) /\ i \in all
        BY <1>4
      <3>2. below(i) = all
        BY <2>1
      <3> HIDE DEF all
      <3>3. QED
        BY <3>1, <3>2
    <2>4. QED
      BY <1>1, <2>1, <2>2, <2>3
  <1>8. \A i, j \in 1 .. n : Before(s[i], s[j]) => Cardinality(below(i)) < Cardinality(below(j))
    <2> SUFFICES ASSUME NEW i \in 1 .. n, NEW j \in 1 .. n, Before(s[i], s[j])
                 PROVE  Cardinality(below(i)) < Cardinality(below(j))
      OBVIOUS
    <2>1. below(i) \in SUBSET below(j) /\ i \in below(j)
      BY <1>6 DEF below
    <2>2. /\ Cardinality(below(i)) <= Cardinality(below(j))
          /\ Cardinality(below(j)) = Cardinality(below(i)) => below(j) = below(i)
      BY <1>7, <2>1, FS_Subset
    <2>3. Cardinality(below(i)) # Cardinality(below(j))
      BY <1>4, <2>1, <2>2
    <2>4. QED
      BY <1>1, <1>7, <2>2, <2>3
  <1>9. Ranks(s) \in [1 .. n -> 1 .. n]
    <2>1. DOMAIN Ranks(s) = 1 .. n /\ Ranks(s) = [i \in 1 .. n |-> Ranks(s)[i]]
      BY <1>1 DEF Ranks
    <2>2. \A i \in 1 .. n : Ranks(s)[i] \in 1 .. n
      <3> SUFFICES ASSUME NEW i \in 1 .. n PROVE Ranks(s)[i] \in 1 .. n
        OBVIOUS
      <3>1. Cardinality(below(i)) \in 0 .. n - 1 /\ Ranks(s)[i] = 1 + Cardinality(below(i))
        BY <1>3, <1>7
      <3>2. QED
        BY <1>1, <3>1
    <2>3. QED
      BY <2>1, <2>2
  <1>10. ASSUME NEW i \in 1 .. n, NEW j \in 1 .. n, Ranks(s)[i] = Ranks(s)[j] PROVE i = j
    <2>1. Cardinality(below(i)) = Cardinality(below(j))
      BY <1>1, <1>3, <1>7, <1>10
    <2>2. Cardinality(below(i)) \in Int
      BY <1>1, <1>7
    <2>3. QED
      BY <1>5, <1>8, <2>1, <2>2
  <1>11. Ranks(s) \in Injection(1 .. n, 1 .. n)
    BY <1>9, <1>10 DEF Injection, IsInjective
  <1>12. Ranks(s) \in Surjection(1 .. n, 1 .. n)
    BY <1>1, <1>11, FS_Injection
  <1>13. QED
    BY <1>11, <1>12 DEF Bijection, n

Placed(s, rank) == [k \in DOMAIN s |-> s[CHOOSE i \in DOMAIN s : rank[i] = k]]

LEMMA Permuted ==
  ASSUME NEW n, NEW s, DOMAIN s = 1 .. n, NEW rank \in Bijection(1 .. n, 1 .. n)
  PROVE  ToSet(Placed(s, rank)) = ToSet(s)
  <1> DEFINE at(k) == CHOOSE i \in DOMAIN s : rank[i] = k
             sorted == [k \in DOMAIN s |-> s[at(k)]]
  <1>1. /\ \A k \in 1 .. n : \E i \in 1 .. n : rank[i] = k
        /\ \A i, j \in 1 .. n : rank[i] = rank[j] => i = j
        /\ \A i \in 1 .. n : rank[i] \in 1 .. n
    <2>1. rank \in [1 .. n -> 1 .. n]
      BY DEF Bijection, Injection
    <2>2. IsInjective(rank) /\ \A k \in 1 .. n : \E i \in 1 .. n : rank[i] = k
      BY DEF Bijection, Injection, Surjection
    <2>3. DOMAIN rank = 1 .. n /\ \A i \in 1 .. n : rank[i] \in 1 .. n
      BY <2>1
    <2>4. QED
      BY <2>2, <2>3 DEF IsInjective
  <1>2. \A k \in 1 .. n : at(k) \in 1 .. n /\ rank[at(k)] = k
    BY <1>1
  <1>3. DOMAIN sorted = 1 .. n /\ \A k \in 1 .. n : sorted[k] = s[at(k)]
    OBVIOUS
  <1> HIDE DEF at, sorted
  <1>4. ASSUME NEW i \in 1 .. n PROVE rank[i] \in 1 .. n /\ sorted[rank[i]] = s[i]
    <2> DEFINE c == at(rank[i])
    <2>1. rank[i] \in 1 .. n
      BY <1>1
    <2>2. c \in 1 .. n
      BY <1>2, <2>1
    <2>3. rank[c] = rank[i]
      BY <1>2, <2>1
    <2>4. sorted[rank[i]] = s[c]
      BY <1>3, <2>1
    <2> HIDE DEF c
    <2>5. c = i
      BY <1>1, <2>2, <2>3
    <2>6. QED
      BY <2>1, <2>4, <2>5
  <1>5. ToSet(sorted) = {sorted[k] : k \in 1 .. n} /\ ToSet(s) = {s[i] : i \in 1 .. n}
    BY <1>3 DEF ToSet
  <1>6. ToSet(sorted) \subseteq ToSet(s)
    BY <1>2, <1>3, <1>5
  <1>7. ToSet(s) \subseteq ToSet(sorted)
    BY <1>4, <1>5
  <1>8. ToSet(sorted) = ToSet(s)
    BY <1>6, <1>7
  <1>9. QED
    BY <1>8 DEF at, sorted, Placed

LEMMA OrderKeeps ==
  ASSUME NEW s \in Seq(Entry), \A i \in DOMAIN s : s[i].pid = 3999 + i
  PROVE  ToSet(InOrder(s)) = ToSet(s)
  <1> DEFINE rank == Ranks(s)
             n == Len(s)
  <1>1. InOrder(s) = CHOOSE r \in {Placed(s, x) : x \in {rank}} : TRUE
    BY DEF InOrder, Then, Ranks, Placed
  <1>2. DOMAIN s = 1 .. n
    OBVIOUS
  <1>3. rank \in Bijection(1 .. n, 1 .. n)
    BY RanksAre
  <1> HIDE DEF rank, n
  <1>4. ToSet(Placed(s, rank)) = ToSet(s)
    BY <1>2, <1>3, Permuted
  <1>5. {Placed(s, x) : x \in {rank}} = {Placed(s, rank)}
    OBVIOUS
  <1>6. \A v : (CHOOSE r \in {v} : TRUE) = v
    OBVIOUS
  <1>7. InOrder(s) = Placed(s, rank)
    BY <1>1, <1>5, <1>6
  <1>8. QED
    BY <1>4, <1>7

\* What a module exports of a seed: all but the records of the sessions is the
\* same in both.
Before0(p, seed) == writes(choi(paul(lee(kim(Empty(p, seed))))))

LEMMA ScriptsRun ==
  ASSUME NEW l \in Draft, NEW b, Twin(l, b), Owning
  PROVE  /\ Grows(l, writes(choi(paul(lee(kim(l))))), Warranted)
         /\ Twin(writes(choi(paul(lee(kim(l))))), writes(choi(paul(lee(kim(b))))))
  <1>1. Grows(l, kim(l), Warranted) /\ Twin(kim(l), kim(b)) /\ kim(l) \in Draft
    BY KimIs DEF Grows
  <1>2. Grows(kim(l), lee(kim(l)), Warranted) /\ Twin(lee(kim(l)), lee(kim(b))) /\ lee(kim(l)) \in Draft
    BY <1>1, LeeIs DEF Grows
  <1> DEFINE m == lee(kim(l))
             n == lee(kim(b))
  <1>3. Grows(l, m, Warranted) /\ Twin(m, n) /\ m \in Draft
    BY <1>1, <1>2, GrowsMore
  <1> HIDE DEF m, n
  <1>4. Grows(m, paul(m), Warranted) /\ Twin(paul(m), paul(n)) /\ paul(m) \in Draft
    BY <1>3, PaulIs DEF Grows
  <1>5. /\ Grows(paul(m), choi(paul(m)), Warranted) /\ Twin(choi(paul(m)), choi(paul(n)))
        /\ choi(paul(m)) \in Draft
    BY <1>4, ChoiIs DEF Grows
  <1>6. /\ Grows(choi(paul(m)), writes(choi(paul(m))), Warranted)
        /\ Twin(writes(choi(paul(m))), writes(choi(paul(n))))
    BY <1>5, WritesAre
  <1>7. Grows(l, choi(paul(m)), Warranted)
    BY <1>3, <1>4, <1>5, GrowsMore
  <1>8. Grows(l, writes(choi(paul(m))), Warranted)
    BY <1>6, <1>7, GrowsMore
  <1>9. QED
    BY <1>6, <1>8 DEF m, n

LEMMA DataMade ==
  ASSUME NEW seed \in Int, Owning
  PROVE  /\ \A p \in Programs :
              /\ Before0(p, seed) \in Draft
              /\ Before0(p, seed).events = Before0("app", seed).events
              /\ activity(Before0(p, seed)) \in Books
              /\ ToSet(data(p, seed).events) = ToSet(activity(Before0(p, seed)).log.events)
              /\ data(p, seed).sessions = activity(Before0(p, seed)).sessions
              /\ data(p, seed).warrants = warrants
         /\ \A e \in ToSet(Before0("app", seed).events) : e.warrant # None
  <1> DEFINE pre(p) == Before0(p, seed)
             m(p) == activity(pre(p))
  <1>1. \A p : data(p, seed) = [events |-> InOrder(m(p).log.events), warrants |-> warrants,
                                sessions |-> m(p).sessions, gaps |-> gaps, nodes |-> ToSet(nodes)]
    <2> SUFFICES ASSUME NEW p
                 PROVE  data(p, seed) = [events |-> InOrder(m(p).log.events), warrants |-> warrants,
                                         sessions |-> m(p).sessions, gaps |-> gaps,
                                         nodes |-> ToSet(nodes)]
      OBVIOUS
    <2> DEFINE k0 == Empty(p, seed)
               k1 == Then(k0, kim)
               k2 == Then(k1, lee)
               k3 == Then(k2, paul)
               k4 == Then(k3, choi)
               k5 == Then(k4, writes)
               k6 == Then(k5, activity)
    <2>0. \A v : (CHOOSE r \in {v} : TRUE) = v
      OBVIOUS
    <2>1. data(p, seed) = [events |-> InOrder(k6.log.events), warrants |-> warrants,
                           sessions |-> k6.sessions, gaps |-> gaps, nodes |-> ToSet(nodes)]
      BY DEF data
    <2>2. k6 = m(p)
      <3>1. k1 = kim(k0)
        <4> HIDE DEF k0
        <4>1. {kim(x) : x \in {k0}} = {kim(k0)}
          OBVIOUS
        <4>2. QED
          BY <2>0, <4>1 DEF Then
      <3>2. k2 = lee(k1)
        <4> HIDE DEF k1
        <4>1. {lee(x) : x \in {k1}} = {lee(k1)}
          OBVIOUS
        <4>2. QED
          BY <2>0, <4>1 DEF Then
      <3>3. k3 = paul(k2)
        <4> HIDE DEF k2
        <4>1. {paul(x) : x \in {k2}} = {paul(k2)}
          OBVIOUS
        <4>2. QED
          BY <2>0, <4>1 DEF Then
      <3>4. k4 = choi(k3)
        <4> HIDE DEF k3
        <4>1. {choi(x) : x \in {k3}} = {choi(k3)}
          OBVIOUS
        <4>2. QED
          BY <2>0, <4>1 DEF Then
      <3>5. k5 = writes(k4)
        <4> HIDE DEF k4
        <4>1. {writes(x) : x \in {k4}} = {writes(k4)}
          OBVIOUS
        <4>2. QED
          BY <2>0, <4>1 DEF Then
      <3>6. k6 = activity(k5)
        <4> HIDE DEF k5
        <4>1. {activity(x) : x \in {k5}} = {activity(k5)}
          OBVIOUS
        <4>2. QED
          BY <2>0, <4>1 DEF Then
      <3> HIDE DEF k1, k2, k3, k4, k5, k6
      <3>7. QED
        BY <3>1, <3>2, <3>3, <3>4, <3>5, <3>6 DEF Before0
    <2> HIDE DEF k6, m
    <2>3. QED
      BY <2>1, <2>2
  <1>2. /\ \A p \in Programs : Empty(p, seed) \in Draft /\ Empty(p, seed).events = <<>>
        /\ Twin(Empty("app", seed), Empty("dash", seed))
    BY EmptyIs
  <1>3. "app" \in Programs /\ "dash" \in Programs /\ \A p \in Programs : p = "app" \/ p = "dash"
    BY DEF Programs
  <1>4. Grows(Empty("app", seed), pre("app"), Warranted) /\ Twin(pre("app"), pre("dash"))
    BY <1>2, <1>3, ScriptsRun DEF Before0
  <1> HIDE DEF pre
  <1>5. /\ pre("app") \in Draft /\ pre("dash") \in Draft /\ pre("dash").events = pre("app").events
    BY <1>4, TwinIs DEF Grows
  <1>6. \A e \in ToSet(pre("app").events) : e.warrant # None
    <2>1. ToSet(pre("app").events) \subseteq ToSet(<<>>) \cup Warranted
      BY <1>2, <1>3, <1>4 DEF Grows, Adds
    <2>2. ToSet(<<>>) = {}
      BY DEF ToSet
    <2>3. \A e \in Warranted : e.warrant # None
      BY DEF Warranted, Made, Owning
    <2>4. QED
      BY <2>1, <2>2, <2>3
  <1>7. ASSUME NEW p \in Programs PROVE m(p) \in Books
    <2>1. pre(p) \in Draft
      BY <1>3, <1>5
    <2>2. QED
      BY <2>1, ActivityIs
  <1> HIDE DEF m
  <1>8. ASSUME NEW p \in Programs PROVE ToSet(data(p, seed).events) = ToSet(m(p).log.events)
    <2>1. m(p).log \in Draft
      <3>1. m(p) \in Books
        BY <1>7
      <3>2. QED
        BY <3>1 DEF Books
    <2>2. m(p).log.events \in Seq(Entry) /\ \A i \in DOMAIN m(p).log.events : m(p).log.events[i].pid = 3999 + i
      BY <2>1 DEF Draft, Made0, Rising
    <2>3. ToSet(InOrder(m(p).log.events)) = ToSet(m(p).log.events)
      BY <2>2, OrderKeeps
    <2>4. QED
      BY <1>1, <2>3
  <1>9. \A p \in Programs : data(p, seed).sessions = m(p).sessions /\ data(p, seed).warrants = warrants
    BY <1>1
  <1>10. \A p \in Programs : pre(p) \in Draft /\ pre(p).events = pre("app").events
    BY <1>3, <1>5
  <1>11. QED
    BY <1>6, <1>7, <1>8, <1>9, <1>10 DEF pre, m

LEMMA DataIs ==
  ASSUME NEW seed \in Int, Owning
  PROVE  /\ \A p \in Programs :
              /\ Logins(ToSet(data(p, seed).events)) = AllLogins
              /\ OfSessions(data(p, seed).sessions) = AllRows
         /\ OfWarrants(ToSet(data("app", seed).events)) = OfWarrants(ToSet(data("dash", seed).events))
  <1> DEFINE pre(p) == Before0(p, seed)
             m(p) == activity(pre(p))
  <1>1. /\ \A p \in Programs :
             /\ pre(p) \in Draft /\ pre(p).events = pre("app").events
             /\ ToSet(data(p, seed).events) = ToSet(m(p).log.events)
             /\ data(p, seed).sessions = m(p).sessions
        /\ \A e \in ToSet(pre("app").events) : e.warrant # None
    BY DataMade
  <1>2. "app" \in Programs /\ "dash" \in Programs
    BY DEF Programs
  <1> HIDE DEF pre
  <1>3. Logins(ToSet(pre("app").events)) = {}
    BY <1>1 DEF Logins
  <1>4. ASSUME NEW p \in Programs
        PROVE  /\ OfSessions(m(p).sessions) = AllRows
               /\ OfWarrants(ToSet(m(p).log.events)) = OfWarrants(ToSet(pre("app").events))
               /\ Logins(ToSet(m(p).log.events)) = AllLogins
    BY <1>1, <1>3, ActivityIs
  <1>5. QED
    BY <1>1, <1>2, <1>4

LEMMA ThreeLogins == Cardinality(AllLogins) = 3 /\ Len(warrantless) = 3
  <1>1. /\ warrantless[1].cgroup = 9350 /\ warrantless[2].cgroup = 5602 /\ warrantless[3].cgroup = 8290
        /\ Len(warrantless) = 3
    BY DEF warrantless, Session
  <1> DEFINE a == LoginOf(warrantless[1])
             b == LoginOf(warrantless[2])
             c == LoginOf(warrantless[3])
  <1>2. a.cgroup = 9350 /\ b.cgroup = 5602 /\ c.cgroup = 8290
    BY <1>1 DEF LoginOf
  <1>3. AllLogins = {a, b, c}
    BY SessionsAre DEF AllLogins
  <1> HIDE DEF a, b, c
  <1>4. IsFiniteSet({a}) /\ Cardinality({a}) = 1
    BY FS_Singleton
  <1>5. IsFiniteSet({a} \cup {b}) /\ Cardinality({a} \cup {b}) = 2
    <2>1. b \notin {a}
      BY <1>2
    <2>2. QED
      BY <1>4, <2>1, FS_AddElement
  <1>6. Cardinality(({a} \cup {b}) \cup {c}) = 3
    <2>1. c \notin {a} \cup {b}
      BY <1>2
    <2>2. QED
      BY <1>5, <2>1, FS_AddElement
  <1>7. {a, b, c} = ({a} \cup {b}) \cup {c}
    OBVIOUS
  <1>8. QED
    BY <1>1, <1>3, <1>6, <1>7

\* The warrants of a log have names (LogAssumption).
LEMMA OwnersNamed ==
  ASSUME NEW d \in Seeds
  PROVE  /\ Owning
         /\ \A p \in Programs : /\ Imported[p][d] = data(p, d)
                                /\ Records[p][d] = ToSet(data(p, d).events)
  <1>1. \A p \in Programs : Imported[p][d] = data(p, d)
    BY ConsoleAssumption DEF Mock
  <1>2. d \in Sources /\ d \notin DOMAIN Served
    BY ConsoleAssumption DEF Sources
  <1>3. \A p \in Programs : Logs[p][d] = data(p, d)
    BY <1>1, <1>2 DEF Logs
  <1>4. \A p \in Programs : Records[p][d] = ToSet(data(p, d).events)
    BY <1>2, <1>3 DEF Records
  <1>5. data("app", d).warrants = warrants
    BY DEF data
  <1>6. IsLog(data("app", d))
    <2>1. "app" \in Programs
      BY DEF Programs
    <2>2. QED
      BY <1>2, <1>3, <2>1, LogAssumption
  <1>7. Owning
    BY <1>5, <1>6 DEF IsLog, Owning
  <1>8. QED
    BY <1>1, <1>4, <1>7

LEMMA SeedsAgree == Seeds \subseteq Agreed
  <1> SUFFICES ASSUME NEW d \in Seeds PROVE d \in Agreed
    OBVIOUS
  <1>1. d \in Int
    BY SeedAssumption
  <1>2. /\ Owning
        /\ \A p \in Programs : /\ Imported[p][d] = data(p, d)
                               /\ Records[p][d] = ToSet(data(p, d).events)
    BY OwnersNamed
  <1>3. "app" \in Programs /\ "dash" \in Programs
    BY DEF Programs
  <1>4. /\ \A p \in Programs : /\ Logins(Records[p][d]) = AllLogins
                               /\ OfSessions(Imported[p][d].sessions) = AllRows
        /\ OfWarrants(Records["app"][d]) = OfWarrants(Records["dash"][d])
    BY <1>1, <1>2, <1>3, DataIs
  <1>5. d \in Agreed <=>
          /\ OfWarrants(Records["app"][d]) = OfWarrants(Records["dash"][d])
          /\ OfSessions(Imported["app"][d].sessions) = OfSessions(Imported["dash"][d].sessions)
          /\ Logins(Records["app"][d]) = Logins(Records["dash"][d])
          /\ Cardinality(Logins(Records["app"][d])) = Len(warrantless)
    BY DEF Agreed, OfWarrants, OfSessions, Bare, Logins
  <1>6. QED
    BY <1>3, <1>4, <1>5, ThreeLogins

\* data.js and data.ts agree on everything but what the sessions did after they
\* logged in, whatever the seed (data.ts:1): the scripts of the warrants draw the
\* same numbers in both, and the same number of them.
THEOREM TwinsAgreeAlways == Spec => []TwinsAgree
  <1>1. TwinsAgree
    BY SeedsAgree DEF TwinsAgree
  <1>2. QED
    BY <1>1, PTL

\* What is said of a session is true of the log that a module exports.
LEMMA SeedsTold ==
  ASSUME NEW f \in Pages, f \in Filters, f.data \in Seeds
  PROVE  Setting(f) \in ToldSettings
  <1> DEFINE p == f.prog
             d == f.data
             m == activity(Before0(p, d))
  <1>1. p \in Programs /\ d \in Int
    <2>1. f.prog \in Programs
      BY DEF Filters
    <2>2. \A x \in Seeds : x \in Int
      BY SeedAssumption
    <2>3. QED
      BY <2>1, <2>2
  <1>2. Owning /\ Imported[p][d] = data(p, d) /\ Records[p][d] = ToSet(data(p, d).events)
    BY <1>1, OwnersNamed
  <1>3. /\ m \in Books /\ Accounted(m) /\ Groups(m) = {9350, 5602, 8290}
        /\ Records[p][d] = ToSet(m.log.events) /\ data(p, d).sessions = m.sessions
        /\ data(p, d).warrants = warrants
    <2>1. /\ Before0(p, d) \in Draft /\ \A e \in ToSet(Before0(p, d).events) : e.warrant # None
          /\ m \in Books /\ ToSet(data(p, d).events) = ToSet(m.log.events)
          /\ data(p, d).sessions = m.sessions /\ data(p, d).warrants = warrants
      BY <1>1, <1>2, DataMade
    <2>2. QED
      BY <1>2, <2>1, ActivityTells
  <1> HIDE DEF m
  <1>4. Log(f) = data(p, d) /\ IsLog(Log(f))
    <2>1. d \in Sources /\ d \notin DOMAIN Served
      BY ConsoleAssumption DEF Sources
    <2>2. Log(f) = Logs[p][d]
      BY DEF Log
    <2>3. Logs[p][d] = data(p, d)
      BY <1>1, <1>2, <2>1 DEF Logs
    <2>4. QED
      BY <1>1, <2>1, <2>2, <2>3, LogAssumption
  <1>5. /\ EventSet(f) = ToSet(m.log.events) /\ SessionSet(f) = ToSet(m.sessions)
        /\ WarrantSet(f) = ToSet(warrants)
    BY <1>3, <1>4 DEF EventSet, SessionSet, WarrantSet
  <1>6. \A r \in SessionSet(f) : r # None => SessionEvents(f, r) = Own(m.log, r.cgroup)
    BY <1>5 DEF SessionEvents, Own
  <1>7. \A r \in SessionSet(f) : r # None /\ r.cgroup \in {9350, 5602, 8290} /\ r.last \in Int
    <2> SUFFICES ASSUME NEW r \in SessionSet(f)
                 PROVE  r # None /\ r.cgroup \in {9350, 5602, 8290} /\ r.last \in Int
      OBVIOUS
    <2>1. r.cgroup \in {9350, 5602, 8290}
      BY <1>3, <1>5 DEF Groups
    <2>2. r.last \in Int
      BY <1>3, <1>5 DEF Books, RowOf, ToSet
    <2>3. r # None
      BY <1>4 DEF IsLog, SessionSet
    <2>4. QED
      BY <2>1, <2>2, <2>3
  <1>8. \A w \in WarrantSet(f) : w.cgroup \in {8213, 5510, 9107, 3321}
    <2>1. DOMAIN warrants = 1 .. 4 /\ warrants[1].cgroup = 8213 /\ warrants[2].cgroup = 5510
          /\ warrants[3].cgroup = 9107 /\ warrants[4].cgroup = 3321
      BY DEF warrants
    <2>2. \A i \in 1 .. 4 : i = 1 \/ i = 2 \/ i = 3 \/ i = 4
      OBVIOUS
    <2>3. QED
      BY <1>5, <2>1, <2>2 DEF ToSet
  <1>9. ASSUME NEW r \in SessionSet(f) PROVE SessionTold(f, r)
    <2>1. RowTrue(m.log, r) /\ SessionEvents(f, r) = Own(m.log, r.cgroup)
      BY <1>3, <1>5, <1>6, <1>7 DEF Accounted
    <2>2. \A w \in WarrantSet(f) : w.cgroup # r.cgroup
      BY <1>7, <1>8
    <2>3. r.last <= NOW => ~(r.last > NOW)
      BY <1>7 DEF NOW
    <2>4. QED
      BY <2>1, <2>2, <2>3 DEF SessionTold, RowTrue
  <1>10. ASSUME NEW e \in baseEvents(f), e.warrant = None
         PROVE  Cardinality({s \in warrantlessIn(f) : s.cgroup = e.cgroup}) = 1
    <2>1. e \in EventSet(f) /\ e.ts >= since(f) /\ nodeOk(f, e)
      BY DEF baseEvents, inWindow
    <2>2. PICK r \in SessionSet(f) : r.cgroup = e.cgroup
      BY <1>3, <1>5, <1>10, <2>1 DEF Accounted
    <2>3. e.node = r.node /\ e.ts <= r.last
      <3>1. e \in SessionEvents(f, r)
        BY <1>7, <1>10, <2>1, <2>2 DEF SessionEvents
      <3>2. QED
        BY <1>9, <3>1 DEF SessionTold
    <2>4. r.last >= since(f)
      <3>1. e.ts \in Int
        <4>1. m.log.events \in Seq(Entry)
          BY <1>3 DEF Books, Draft, Made0
        <4>2. e \in Entry
          BY <1>5, <2>1, <4>1 DEF ToSet
        <4>3. QED
          BY <4>2 DEF Entry
      <3>2. since(f) \in Int
        <4>1. f.range \in Ranges
          BY DEF Filters
        <4>2. \A x \in Ranges : x \in Int
          BY ConsoleAssumption
        <4>3. QED
          BY <4>1, <4>2 DEF since, NOW
      <3>3. QED
        BY <1>7, <2>1, <2>3, <3>1, <3>2
    <2>5. r \in warrantlessIn(f)
      BY <2>1, <2>3, <2>4 DEF warrantlessIn, nodeOk
    <2>6. \A s \in SessionSet(f) : s.cgroup = e.cgroup => s = r
      BY <1>3, <1>5, <2>2 DEF Accounted
    <2>7. {s \in warrantlessIn(f) : s.cgroup = e.cgroup} = {r}
      BY <2>2, <2>5, <2>6 DEF warrantlessIn
    <2>8. QED
      BY <2>7, FS_Singleton
  <1>11. QED
    BY <1>9, <1>10 DEF ToldSettings

\* On any mock data, each session that data.ts and data.js list by hand has its
\* records, its count and its last activity right, and none in the period is
\* missing in the list of the overview (data.ts:314, filters.ts:23).
THEOREM SessionsToldAlways == Spec => [](app.data \in Seeds => SessionsTold)
  <1>1. ASSUME IInv, app.data \in Seeds PROVE SessionsTold
    <2>1. Both(app, dash)
      BY <1>1 DEF IInv
    <2>2. app \in Filters /\ dash \in Filters /\ dash.data = app.data
      BY <2>1 DEF Both, Alike
    <2>3. dash.node \in Log(dash).nodes \cup {"all"} /\ app.node \in Log(app).nodes \cup {"all"}
      <3>1. app.node = dash.node /\ dash.node \in Log(dash).nodes \cup {"all"}
        BY <2>1 DEF Both, Alike
      <3>2. Log(app).nodes = Log(dash).nodes
        BY <2>1, TwinLogs
      <3>3. QED
        BY <3>1, <3>2
    <2>4. ASSUME NEW u \in Filters, u.data \in Seeds, u.node \in Log(u).nodes \cup {"all"}
          PROVE  Setting(u) \in ToldSettings
      <3>1. PICK f \in Pages : f \in Filters /\ Setting(f) = Setting(u)
        BY <2>4, PageOf
      <3>2. f.data = u.data
        BY <3>1 DEF Setting
      <3>3. QED
        BY <2>4, <3>1, <3>2, SeedsTold
    <2>5. QED
      BY <1>1, <2>2, <2>3, <2>4 DEF SessionsTold
  <1>2. QED
    BY <1>1, Inductive, PTL

=============================================================================
