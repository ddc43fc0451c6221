---------------------------- MODULE PamPatch_proofs ----------------------------
(***************************************************************************)
(* What holds of the files below /etc/pam.d for any number of enables, of  *)
(* edits and of copies that fail.                                          *)
(***************************************************************************)
EXTENDS PamPatch, Integers, TLAPS, WellFoundedInduction, SequenceTheorems

-----------------------------------------------------------------------------
(* Induction *)

\* A non-empty set of naturals has a least element.
LEMMA NatLeast ==
  ASSUME NEW T, T \subseteq Nat, T # {}
  PROVE  \E x \in T : \A y \in T : x <= y
  <1> DEFINE R == OpToRel(<, Nat)
  <1>1. IsWellFoundedOn(R, Nat)
    BY NatLessThanWellFounded
  <1>2. \A x, y \in Nat : y < x => <<y, x>> \in R
    BY DEF OpToRel
  <1> HIDE DEF R
  <1>3. PICK x \in T : \A y \in T : ~(<<y, x>> \in R)
    BY <1>1, WFMin
  <1>4. ASSUME NEW y \in T PROVE x <= y
    <2>1. x \in Nat /\ y \in Nat /\ ~(y < x)
      BY <1>2, <1>3
    <2>2. QED
      BY <2>1
  <1>5. QED
    BY <1>4

\* Induction along the lines of a file.
LEMMA UpTo ==
  ASSUME NEW n \in Nat, NEW P, 0 \in P, \A k \in 0..(n - 1) : k \in P => k + 1 \in P
  PROVE  0..n \subseteq P
  <1> DEFINE T == (0..n) \ P
  <1> SUFFICES ASSUME T # {} PROVE FALSE
    OBVIOUS
  <1>1. T \subseteq Nat
    OBVIOUS
  <1>2. PICK x \in T : \A y \in T : x <= y
    <2> HIDE DEF T
    <2>1. QED
      BY <1>1, NatLeast
  <1>3. x \in 1..n /\ x - 1 \in 0..(n - 1) /\ x - 1 \notin T
    BY <1>2
  <1>4. QED
    BY <1>2, <1>3

-----------------------------------------------------------------------------
(* Folds *)

\* The recursion of MapThenFoldSet over the positions 1..n, as FoldLeft uses it;
\* G[<<i, v>>] is what it makes of position i after v.
Folds(n, base, G, it) ==
  \A t \in SUBSET (1..n) :
    it[t] = IF t = {} THEN base ELSE G[<<Max(t), it[t \ {Max(t)}]>>]

LEMMA MaxOf ==
  ASSUME NEW n \in Nat, NEW t \in SUBSET (1..(n + 1)), n + 1 \in t
  PROVE  Max(t) = n + 1
  <1> DEFINE m == CHOOSE x \in t : \A y \in t : x >= y
  <1>1. \A y \in t : n + 1 >= y /\ y \in Int
    OBVIOUS
  <1>2. m \in t /\ \A y \in t : m >= y
    BY <1>1
  <1>3. m = n + 1
    <2> HIDE DEF m
    <2>1. QED
      BY <1>1, <1>2
  <1>4. QED
    BY <1>3 DEF Max

LEMMA FoldsExist ==
  ASSUME NEW n \in Nat, NEW V, NEW base \in V, NEW G \in [(1..n) \X V -> V]
  PROVE  \E it \in [SUBSET (1..n) -> V] : Folds(n, base, G, it)
  <1> DEFINE P == {k \in 0..n : \E it \in [SUBSET (1..k) -> V] : Folds(k, base, G, it)}
  <1>1. 0 \in P
    <2> DEFINE z == [t \in SUBSET (1..0) |-> base]
    <2>1. z \in [SUBSET (1..0) -> V] /\ Folds(0, base, G, z)
      BY DEF Folds
    <2>2. QED
      BY <2>1
  <1>2. ASSUME NEW k \in 0..(n - 1), k \in P PROVE k + 1 \in P
    <2>1. PICK it \in [SUBSET (1..k) -> V] : Folds(k, base, G, it)
      BY <1>2
    <2> DEFINE s(t) == t \ {k + 1}
               h == [t \in SUBSET (1..(k + 1)) |->
                       IF k + 1 \in t THEN G[<<k + 1, it[s(t)]>>] ELSE it[t]]
    <2>2. ASSUME NEW t \in SUBSET (1..(k + 1))
          PROVE  s(t) \in SUBSET (1..k) /\ (k + 1 \notin t => t \in SUBSET (1..k))
      OBVIOUS
    <2>3. h \in [SUBSET (1..(k + 1)) -> V]
      BY <2>1, <2>2
    <2>4. ASSUME NEW t \in SUBSET (1..k) PROVE h[t] = it[t]
      OBVIOUS
    <2>5. ASSUME NEW t \in SUBSET (1..(k + 1))
          PROVE  h[t] = IF t = {} THEN base ELSE G[<<Max(t), h[t \ {Max(t)}]>>]
      <3>1. CASE k + 1 \in t
        <4>1. Max(t) = k + 1
          BY <3>1, MaxOf
        <4>2. h[t] = G[<<k + 1, it[s(t)]>>]
          BY <3>1
        <4>3. h[s(t)] = it[s(t)]
          BY <2>2, <2>4
        <4>4. QED
          BY <3>1, <4>1, <4>2, <4>3
      <3>2. CASE k + 1 \notin t
        <4>1. h[t] = it[t] /\ t \in SUBSET (1..k)
          BY <2>2, <3>2
        <4>2. it[t] = IF t = {} THEN base ELSE G[<<Max(t), it[t \ {Max(t)}]>>]
          BY <2>1, <4>1 DEF Folds
        <4>3. h[t \ {Max(t)}] = it[t \ {Max(t)}]
          BY <2>4, <4>1
        <4>4. QED
          BY <4>1, <4>2, <4>3
      <3>3. QED
        BY <3>1, <3>2
    <2> HIDE DEF h
    <2>6. Folds(k + 1, base, G, h)
      BY <2>5 DEF Folds
    <2>7. k + 1 \in 0..n
      OBVIOUS
    <2>8. QED
      BY <2>3, <2>6, <2>7
  <1> HIDE DEF P
  <1>3. n \in P
    BY <1>1, <1>2, UpTo
  <1>4. QED
    BY <1>3 DEF P

\* What such a recursion is after each position.
Runs(n, base, G, g) == g[0] = base /\ \A k \in 1..n : g[k] = G[<<k, g[k - 1]>>]

LEMMA RunsType ==
  ASSUME NEW n \in Nat, NEW V, NEW base \in V, NEW G \in [(1..n) \X V -> V],
         NEW g, Runs(n, base, G, g)
  PROVE  \A k \in 0..n : g[k] \in V
  <1> DEFINE P == {k \in 0..n : g[k] \in V}
  <1>1. 0 \in P
    BY DEF Runs
  <1>2. ASSUME NEW k \in 0..(n - 1), k \in P PROVE k + 1 \in P
    <2>1. k + 1 \in 1..n /\ (k + 1) - 1 = k
      OBVIOUS
    <2>2. g[k + 1] = G[<<k + 1, g[k]>>]
      BY <2>1 DEF Runs
    <2>3. QED
      BY <1>2, <2>1, <2>2
  <1> HIDE DEF P
  <1>3. 0..n \subseteq P
    BY <1>1, <1>2, UpTo
  <1>4. QED
    BY <1>3 DEF P

LEMMA RunsUnique ==
  ASSUME NEW n \in Nat, NEW base, NEW G, NEW g, Runs(n, base, G, g),
         NEW h, Runs(n, base, G, h)
  PROVE  \A k \in 0..n : g[k] = h[k]
  <1> DEFINE P == {k \in 0..n : g[k] = h[k]}
  <1>1. 0 \in P
    BY DEF Runs
  <1>2. ASSUME NEW k \in 0..(n - 1), k \in P PROVE k + 1 \in P
    <2>1. k + 1 \in 1..n /\ (k + 1) - 1 = k
      OBVIOUS
    <2>2. g[k + 1] = G[<<k + 1, g[k]>>] /\ h[k + 1] = G[<<k + 1, h[k]>>]
      BY <2>1 DEF Runs
    <2>3. QED
      BY <1>2, <2>1, <2>2
  <1> HIDE DEF P
  <1>3. 0..n \subseteq P
    BY <1>1, <1>2, UpTo
  <1>4. QED
    BY <1>3 DEF P

LEMMA MaxIn ==
  ASSUME NEW n \in Nat, NEW t \in SUBSET (1..n), t # {}
  PROVE  Max(t) \in t /\ Max(t) \in 1..n
  <1> DEFINE T == {n - y : y \in t}
  <1>1. T \subseteq Nat /\ T # {}
    <2>1. \A y \in t : n - y \in Nat
      OBVIOUS
    <2>2. QED
      BY <2>1
  <1>2. PICK x \in T : \A y \in T : x <= y
    <2> HIDE DEF T
    <2>1. QED
      BY <1>1, NatLeast
  <1>3. PICK m \in t : x = n - m
    BY <1>2
  <1>4. \A y \in t : m >= y
    <2>1. ASSUME NEW y \in t PROVE m >= y
      <3>1. n - m <= n - y
        BY <1>2, <1>3
      <3>2. n \in Int /\ m \in Int /\ y \in Int
        OBVIOUS
      <3>3. QED
        BY <3>1, <3>2
    <2>2. QED
      BY <2>1
  <1>5. QED
    BY <1>3, <1>4 DEF Max

LEMMA PrefixSets ==
  ASSUME NEW n \in Nat, NEW k \in 1..n
  PROVE  /\ 1..k \in SUBSET (1..n) /\ 1..k # {} /\ (1..k) \ {k} = 1..(k - 1)
         /\ Max(1..k) = k
  <1>1. 1..k \in SUBSET (1..n) /\ 1..k # {} /\ (1..k) \ {k} = 1..(k - 1)
    OBVIOUS
  <1>2. k - 1 \in Nat /\ (k - 1) + 1 = k /\ k \in 1..k
    OBVIOUS
  <1>3. Max(1..k) = k
    BY <1>2, MaxOf
  <1>4. QED
    BY <1>1, <1>3

\* A function that recurs as G does along the prefixes is, on them, a run of G.
Recurs(n, V, base, G, it) ==
  /\ it[{}] = base
  /\ \A k \in 1..n : it[1..(k - 1)] \in V => it[1..k] = G[<<k, it[1..(k - 1)]>>]

LEMMA PrefixRuns ==
  ASSUME NEW n \in Nat, NEW V, NEW base \in V, NEW G \in [(1..n) \X V -> V],
         NEW it, Recurs(n, V, base, G, it), NEW g, \A k \in 0..n : g[k] = it[1..k]
  PROVE  Runs(n, base, G, g)
  <1> USE DEF Recurs
  <1> DEFINE P == {k \in 0..n : it[1..k] \in V}
  <1>1. 1..0 = {} /\ 0 \in P
    <2>1. 1..0 = {}
      OBVIOUS
    <2>2. QED
      BY <2>1
  <1>2. ASSUME NEW k \in 0..(n - 1), k \in P PROVE k + 1 \in P
    <2>1. k + 1 \in 1..n /\ (k + 1) - 1 = k /\ it[1..k] \in V
      BY <1>2
    <2>2. it[1..(k + 1)] = G[<<k + 1, it[1..k]>>]
      BY <2>1
    <2>3. QED
      BY <2>1, <2>2
  <1> HIDE DEF P
  <1>3. 0..n \subseteq P
    BY <1>1, <1>2, UpTo
  <1>4. \A k \in 1..n : k - 1 \in 0..n /\ it[1..(k - 1)] \in V
    BY <1>3 DEF P
  <1>5. QED
    BY <1>1, <1>4 DEF Runs

-----------------------------------------------------------------------------
(* The file without the probe *)

Own == {"mark", "probe"}
StripStep(s) ==
  [p \in (1..Len(s)) \X Seq(Line) |->
     IF s[p[1]] \in Own THEN p[2] ELSE Append(p[2], s[p[1]])]

LEMMA StripStepType ==
  ASSUME NEW s \in Seq(Line)
  PROVE  /\ Len(s) \in Nat /\ DOMAIN s = 1..Len(s) /\ <<>> \in Seq(Line)
         /\ StripStep(s) \in [(1..Len(s)) \X Seq(Line) -> Seq(Line)]
         /\ \A k \in 1..Len(s), v \in Seq(Line) :
              StripStep(s)[<<k, v>>] = IF s[k] \in Own THEN v ELSE Append(v, s[k])
  <1>1. Len(s) \in Nat /\ DOMAIN s = 1..Len(s) /\ <<>> \in Seq(Line)
    OBVIOUS
  <1>2. \A k \in 1..Len(s), v \in Seq(Line) :
          (IF s[k] \in Own THEN v ELSE Append(v, s[k])) \in Seq(Line)
    OBVIOUS
  <1>3. QED
    BY <1>1, <1>2 DEF StripStep

\* Strip(s) is what a run along the lines ends with, and there is one such run.
LEMMA StripRuns ==
  ASSUME NEW s \in Seq(Line)
  PROVE  \E g : /\ Runs(Len(s), <<>>, StripStep(s), g) /\ g \in [0..Len(s) -> Seq(Line)]
                /\ Strip(s) = g[Len(s)]
  <1> DEFINE n == Len(s)
             Rec(it) == it = [t \in SUBSET DOMAIN s |->
                                IF t = {} THEN <<>>
                                ELSE IF s[Max(t)] \in Own THEN it[t \ {Max(t)}]
                                     ELSE Append(it[t \ {Max(t)}], s[Max(t)])]
  <1>1. Strip(s) = (CHOOSE it : Rec(it))[DOMAIN s]
    BY DEF Strip, FoldLeft, MapThenFoldSet, Own
  <1>2. n \in Nat /\ DOMAIN s = 1..n
    BY StripStepType
  <1>3. \E it : Rec(it)
    <2>1. PICK it \in [SUBSET (1..n) -> Seq(Line)] : Folds(n, <<>>, StripStep(s), it)
      BY StripStepType, FoldsExist
    <2>2. ASSUME NEW t \in SUBSET (1..n)
          PROVE  it[t] = IF t = {} THEN <<>>
                         ELSE IF s[Max(t)] \in Own THEN it[t \ {Max(t)}]
                              ELSE Append(it[t \ {Max(t)}], s[Max(t)])
      <3>1. CASE t = {}
        BY <2>1, <3>1 DEF Folds
      <3>2. CASE t # {}
        <4>1. Max(t) \in 1..n
          BY <1>2, <3>2, MaxIn
        <4>2. it[t \ {Max(t)}] \in Seq(Line)
          OBVIOUS
        <4>3. it[t] = StripStep(s)[<<Max(t), it[t \ {Max(t)}]>>]
          BY <2>1, <3>2 DEF Folds
        <4>4. QED
          BY <3>2, <4>1, <4>2, <4>3, StripStepType
      <3>3. QED
        BY <3>1, <3>2
    <2>3. Rec(it)
      BY <1>2, <2>2
    <2>4. QED
      BY <2>3
  <1> HIDE DEF Rec
  <1>4. PICK it : Rec(it) /\ Strip(s) = it[DOMAIN s]
    BY <1>1, <1>3
  <1> USE DEF Rec
  <1>5. it[{}] = <<>>
    BY <1>4
  <1>6. ASSUME NEW k \in 1..n, it[1..(k - 1)] \in Seq(Line)
        PROVE  it[1..k] = StripStep(s)[<<k, it[1..(k - 1)]>>]
    <2> HIDE DEF n
    <2>1. /\ 1..k \in SUBSET (1..n) /\ 1..k # {} /\ (1..k) \ {k} = 1..(k - 1)
          /\ Max(1..k) = k
      BY <1>2, PrefixSets
    <2>2. it[1..k] = IF s[k] \in Own THEN it[1..(k - 1)] ELSE Append(it[1..(k - 1)], s[k])
      BY <1>2, <1>4, <2>1
    <2>3. QED
      BY <1>6, <2>2, StripStepType DEF n
  <1> HIDE DEF Rec
  <1> DEFINE g == [k \in 0..n |-> it[1..k]]
  <1>7. Runs(n, <<>>, StripStep(s), g)
    <2>1. Recurs(n, Seq(Line), <<>>, StripStep(s), it)
      BY <1>5, <1>6 DEF Recurs
    <2> DEFINE V == Seq(Line)
               base == <<>>
               G == StripStep(s)
    <2>2. G \in [(1..n) \X V -> V] /\ base \in V /\ n \in Nat
      BY StripStepType
    <2>3. \A k \in 0..n : g[k] = it[1..k]
      OBVIOUS
    <2>4. Recurs(n, V, base, G, it)
      BY <2>1
    <2> HIDE DEF V, base, G, n, g
    <2>5. Runs(n, base, G, g)
      BY <2>2, <2>3, <2>4, PrefixRuns
    <2>6. QED
      BY <2>5 DEF base, G
  <1>8. \A k \in 0..n : g[k] \in Seq(Line)
    <2> HIDE DEF g
    <2>1. QED
      BY <1>2, <1>7, StripStepType, RunsType
  <1>9. Strip(s) = g[n]
    BY <1>2, <1>4
  <1>10. g \in [0..n -> Seq(Line)]
    BY <1>8
  <1>11. QED
    BY <1>7, <1>9, <1>10

LEMMA StripIs ==
  ASSUME NEW s \in Seq(Line), NEW h,
         h[0] = <<>>,
         \A k \in 1..Len(s) : /\ h[k - 1] \in Seq(Line)
                              /\ h[k] = IF s[k] \in Own THEN h[k - 1] ELSE Append(h[k - 1], s[k])
  PROVE  Strip(s) = h[Len(s)]
  <1>1. PICK g : Runs(Len(s), <<>>, StripStep(s), g) /\ Strip(s) = g[Len(s)]
    BY StripRuns
  <1>2. Runs(Len(s), <<>>, StripStep(s), h)
    BY StripStepType DEF Runs
  <1>3. QED
    BY <1>1, <1>2, StripStepType, RunsUnique

LEMMA StripHas ==
  ASSUME NEW s \in Seq(Line)
  PROVE  \E g \in [0..Len(s) -> Seq(Line)] :
           /\ Strip(s) = g[Len(s)] /\ g[0] = <<>>
           /\ \A k \in 1..Len(s) :
                g[k] = IF s[k] \in Own THEN g[k - 1] ELSE Append(g[k - 1], s[k])
  <1>1. PICK g \in [0..Len(s) -> Seq(Line)] :
               Runs(Len(s), <<>>, StripStep(s), g) /\ Strip(s) = g[Len(s)]
    BY StripRuns
  <1>2. \A k \in 1..Len(s) : k - 1 \in 0..Len(s) /\ g[k - 1] \in Seq(Line)
    BY StripStepType
  <1>3. QED
    BY <1>1, <1>2, StripStepType DEF Runs

LEMMA StripType ==
  ASSUME NEW s \in Seq(Line)
  PROVE  Strip(s) \in Seq(Line)
  BY StripHas, StripStepType

-----------------------------------------------------------------------------
(* The lines disable deletes *)

Acc == [out : Seq(Line), skip : Nat]
SedNext(l, a) ==
  IF a.skip > 0 THEN [a EXCEPT !.skip = @ - 1]
  ELSE IF l = "mark" THEN [a EXCEPT !.skip = 1]
  ELSE [a EXCEPT !.out = Append(@, l)]
SedStep(s) == [p \in (1..Len(s)) \X Acc |-> SedNext(s[p[1]], p[2])]
SedBase == [out |-> <<>>, skip |-> 0]

LEMMA SedStepType ==
  ASSUME NEW s \in Seq(Line)
  PROVE  /\ Len(s) \in Nat /\ DOMAIN s = 1..Len(s) /\ SedBase \in Acc
         /\ SedStep(s) \in [(1..Len(s)) \X Acc -> Acc]
         /\ \A k \in 1..Len(s), a \in Acc : SedStep(s)[<<k, a>>] = SedNext(s[k], a)
  <1>1. Len(s) \in Nat /\ DOMAIN s = 1..Len(s) /\ SedBase \in Acc
    BY DEF SedBase, Acc
  <1>2. ASSUME NEW k \in 1..Len(s), NEW a \in Acc PROVE SedNext(s[k], a) \in Acc
    <2>1. s[k] \in Line /\ Append(a.out, s[k]) \in Seq(Line)
      BY <1>1 DEF Acc
    <2>2. a.skip > 0 => a.skip - 1 \in Nat
      BY DEF Acc
    <2>3. QED
      BY <2>1, <2>2 DEF SedNext, Acc
  <1>3. QED
    BY <1>1, <1>2 DEF SedStep

\* WithoutProbe(s) is what sed has after the last line.
LEMMA SedRuns ==
  ASSUME NEW s \in Seq(Line)
  PROVE  \E g : Runs(Len(s), SedBase, SedStep(s), g) /\ WithoutProbe(s) = g[Len(s)].out
  <1> DEFINE n == Len(s)
             Rec(it) == it = [t \in SUBSET DOMAIN s |->
                                IF t = {} THEN SedBase
                                ELSE SedNext(s[Max(t)], it[t \ {Max(t)}])]
  <1>1. WithoutProbe(s) = (CHOOSE it : Rec(it))[DOMAIN s].out
    BY DEF WithoutProbe, SedDelete, FoldLeft, MapThenFoldSet, SedNext, SedBase
  <1>2. n \in Nat /\ DOMAIN s = 1..n
    BY SedStepType
  <1>3. \E it : Rec(it)
    <2>1. PICK it \in [SUBSET (1..n) -> Acc] : Folds(n, SedBase, SedStep(s), it)
      BY SedStepType, FoldsExist
    <2>2. ASSUME NEW t \in SUBSET (1..n)
          PROVE  it[t] = IF t = {} THEN SedBase ELSE SedNext(s[Max(t)], it[t \ {Max(t)}])
      <3>1. CASE t = {}
        BY <2>1, <3>1 DEF Folds
      <3>2. CASE t # {}
        <4>1. Max(t) \in 1..n
          BY <1>2, <3>2, MaxIn
        <4>2. it[t \ {Max(t)}] \in Acc
          OBVIOUS
        <4>3. it[t] = SedStep(s)[<<Max(t), it[t \ {Max(t)}]>>]
          BY <2>1, <3>2 DEF Folds
        <4>4. QED
          BY <3>2, <4>1, <4>2, <4>3, SedStepType
      <3>3. QED
        BY <3>1, <3>2
    <2>3. Rec(it)
      BY <1>2, <2>2
    <2>4. QED
      BY <2>3
  <1> HIDE DEF Rec
  <1>4. PICK it : Rec(it) /\ WithoutProbe(s) = it[DOMAIN s].out
    BY <1>1, <1>3
  <1> USE DEF Rec
  <1>5. it[{}] = SedBase
    BY <1>4
  <1>6. ASSUME NEW k \in 1..n, it[1..(k - 1)] \in Acc
        PROVE  it[1..k] = SedStep(s)[<<k, it[1..(k - 1)]>>]
    <2> HIDE DEF n
    <2>1. /\ 1..k \in SUBSET (1..n) /\ 1..k # {} /\ (1..k) \ {k} = 1..(k - 1)
          /\ Max(1..k) = k
      BY <1>2, PrefixSets
    <2>2. it[1..k] = SedNext(s[k], it[1..(k - 1)])
      BY <1>2, <1>4, <2>1
    <2>3. QED
      BY <1>6, <2>2, SedStepType DEF n
  <1> HIDE DEF Rec
  <1> DEFINE g == [k \in 0..n |-> it[1..k]]
             G == SedStep(s)
  <1>7. Runs(n, SedBase, G, g)
    <2>1. Recurs(n, Acc, SedBase, G, it)
      BY <1>5, <1>6 DEF Recurs
    <2>2. G \in [(1..n) \X Acc -> Acc] /\ SedBase \in Acc
      BY SedStepType
    <2>3. \A k \in 0..n : g[k] = it[1..k]
      OBVIOUS
    <2> HIDE DEF G, n, g
    <2>4. QED
      BY <1>2, <2>1, <2>2, <2>3, PrefixRuns
  <1>8. WithoutProbe(s) = g[n].out
    BY <1>2, <1>4
  <1>9. QED
    BY <1>7, <1>8

\* A mark is above a probe, and a probe below a mark.
Paired(s) ==
  \A i \in DOMAIN s :
    /\ s[i] = "mark" => i + 1 \in DOMAIN s /\ s[i + 1] = "probe"
    /\ s[i] = "probe" => i - 1 \in DOMAIN s /\ s[i - 1] = "mark"

\* In such a file sed takes the lines of the probe out, and no others.
LEMMA WithoutIsStrip ==
  ASSUME NEW s \in Seq(Line), Paired(s)
  PROVE  WithoutProbe(s) = Strip(s)
  <1> DEFINE n == Len(s)
  <1>1. PICK g \in [0..n -> Seq(Line)] :
               /\ Strip(s) = g[n] /\ g[0] = <<>>
               /\ \A k \in 1..n : g[k] = IF s[k] \in Own THEN g[k - 1] ELSE Append(g[k - 1], s[k])
    BY StripHas
  <1>2. PICK f : Runs(n, SedBase, SedStep(s), f) /\ WithoutProbe(s) = f[n].out
    BY SedRuns
  <1> DEFINE skip(k) == IF k > 0 /\ s[k] = "mark" THEN 1 ELSE 0
             h == [k \in 0..n |-> [out |-> g[k], skip |-> skip(k)]]
  <1>3. n \in Nat /\ DOMAIN s = 1..n
    BY SedStepType
  <1>4. ASSUME NEW k \in 1..n PROVE h[k] = SedStep(s)[<<k, h[k - 1]>>]
    <2>1. k - 1 \in 0..n /\ k \in 0..n /\ k > 0
      BY <1>3
    <2>2. /\ h[k] = [out |-> g[k], skip |-> IF s[k] = "mark" THEN 1 ELSE 0]
          /\ h[k - 1] = [out |-> g[k - 1], skip |-> skip(k - 1)]
          /\ h[k - 1] \in Acc
      BY <2>1 DEF Acc
    <2>3. SedStep(s)[<<k, h[k - 1]>>] = SedNext(s[k], h[k - 1])
      BY <2>2, SedStepType
    <2>4. CASE s[k] = "probe"
      <3>1. k - 1 \in DOMAIN s /\ s[k - 1] = "mark"
        BY <1>3, <2>4 DEF Paired
      <3>2. skip(k - 1) = 1 /\ g[k] = g[k - 1]
        BY <1>1, <1>3, <2>4, <3>1 DEF Own
      <3> HIDE DEF h, skip
      <3>3. SedNext(s[k], h[k - 1]) = [out |-> g[k], skip |-> 0]
        BY <2>2, <3>2 DEF SedNext
      <3>4. QED
        BY <2>2, <2>3, <2>4, <3>3
    <2>5. CASE s[k] # "probe"
      <3>1. skip(k - 1) = 0
        <4>1. k - 1 > 0 => k - 1 \in DOMAIN s /\ (k - 1) + 1 = k
          BY <1>3, <2>1
        <4>2. ~(k - 1 > 0 /\ s[k - 1] = "mark")
          BY <2>5, <4>1 DEF Paired
        <4>3. QED
          BY <4>2
      <3>2. g[k] = IF s[k] = "mark" THEN g[k - 1] ELSE Append(g[k - 1], s[k])
        BY <1>1, <2>5 DEF Own
      <3>0. h[k - 1] = [out |-> g[k - 1], skip |-> 0]
        BY <2>2, <3>1
      <3> HIDE DEF h, skip
      <3>3. SedNext(s[k], h[k - 1]) = [out |-> g[k], skip |-> IF s[k] = "mark" THEN 1 ELSE 0]
        <4>1. CASE s[k] = "mark"
          BY <2>2, <3>1, <3>2, <4>1 DEF SedNext
        <4>2. CASE s[k] # "mark"
          <5> DEFINE r == g[k - 1]
                     l == s[k]
          <5>1. l # "mark" /\ h[k - 1] = [out |-> r, skip |-> 0] /\ g[k] = Append(r, l)
            BY <3>0, <3>2, <4>2
          <5> HIDE DEF r, l
          <5>2. ASSUME NEW a, NEW q, a = [out |-> r, skip |-> 0]
                PROVE  [a EXCEPT !.out = q] = [out |-> q, skip |-> 0]
            BY <5>2
          <5>3. h[k - 1].skip = 0 /\ h[k - 1].out = r
            BY <5>1
          <5>4. SedNext(l, h[k - 1]) = [h[k - 1] EXCEPT !.out = Append(r, l)]
            BY <5>1, <5>3 DEF SedNext
          <5>5. SedNext(l, h[k - 1]) = [out |-> Append(r, l), skip |-> 0]
            BY <5>1, <5>2, <5>4
          <5>6. QED
            BY <4>2, <5>1, <5>5 DEF l
        <4>3. QED
          BY <4>1, <4>2
      <3>4. QED
        BY <2>2, <2>3, <3>3
    <2>6. QED
      BY <2>4, <2>5
  <1>5. h[0] = SedBase /\ h[n].out = g[n]
    BY <1>1, <1>3 DEF SedBase
  <1>6. f[n] = h[n]
    <2> HIDE DEF h, n
    <2>1. Runs(n, SedBase, SedStep(s), h)
      BY <1>4, <1>5 DEF Runs
    <2>2. QED
      BY <1>2, <1>3, <2>1, RunsUnique
  <1> HIDE DEF h
  <1>7. QED
    BY <1>1, <1>2, <1>5, <1>6

\* Nothing of the probe is left by Strip, and a file without it stays as it is.
Clean(s) == \A i \in DOMAIN s : s[i] \notin Own

LEMMA StripClean ==
  ASSUME NEW s \in Seq(Line)
  PROVE  Clean(Strip(s))
  <1> DEFINE n == Len(s)
  <1>1. PICK g \in [0..n -> Seq(Line)] :
               /\ Strip(s) = g[n] /\ g[0] = <<>>
               /\ \A k \in 1..n : g[k] = IF s[k] \in Own THEN g[k - 1] ELSE Append(g[k - 1], s[k])
    BY StripHas
  <1>2. n \in Nat
    BY StripStepType
  <1> HIDE DEF n
  <1> DEFINE P == {k \in 0..n : Clean(g[k])}
  <1>3. 0 \in P
    BY <1>1, <1>2 DEF Clean
  <1>4. ASSUME NEW k \in 0..(n - 1), k \in P PROVE k + 1 \in P
    <2>1. k + 1 \in 1..n /\ (k + 1) - 1 = k /\ k + 1 \in 0..n /\ g[k] \in Seq(Line) /\ Clean(g[k])
      BY <1>2, <1>4
    <2>2. g[k + 1] = IF s[k + 1] \in Own THEN g[k] ELSE Append(g[k], s[k + 1])
      BY <1>1, <2>1
    <2>3. ASSUME NEW r \in Seq(Line), NEW l, l \notin Own, Clean(r) PROVE Clean(Append(r, l))
      <3>1. \A i \in DOMAIN Append(r, l) :
              (i \in DOMAIN r /\ Append(r, l)[i] = r[i]) \/ Append(r, l)[i] = l
        OBVIOUS
      <3>2. QED
        BY <2>3, <3>1 DEF Clean
    <2>4. Clean(g[k + 1])
      BY <2>1, <2>2, <2>3
    <2>5. QED
      BY <2>1, <2>4
  <1> HIDE DEF P
  <1>5. 0..n \subseteq P
    BY <1>2, <1>3, <1>4, UpTo
  <1>6. QED
    BY <1>1, <1>2, <1>5 DEF P

LEMMA CleanIsStrip ==
  ASSUME NEW s \in Seq(Line), Clean(s)
  PROVE  Strip(s) = s
  <1> DEFINE h == [k \in 0..Len(s) |-> SubSeq(s, 1, k)]
  <1>1. Len(s) \in Nat /\ DOMAIN s = 1..Len(s)
    OBVIOUS
  <1>2. h[0] = <<>>
    BY <1>1
  <1>3. ASSUME NEW k \in 1..Len(s)
        PROVE  h[k - 1] \in Seq(Line) /\ h[k] = Append(h[k - 1], s[k]) /\ s[k] \notin Own
    <2>1. k - 1 \in 0..Len(s) /\ k \in 0..Len(s)
      BY <1>1
    <2>2. SubSeq(s, 1, k - 1) \in Seq(Line)
      BY <1>1
    <2>3. SubSeq(s, 1, k) = Append(SubSeq(s, 1, k - 1), s[k])
      BY <1>1
    <2>4. s[k] \notin Own
      BY <1>1 DEF Clean
    <2>5. QED
      BY <2>1, <2>2, <2>3, <2>4
  <1>4. h[Len(s)] = s
    BY <1>1
  <1> HIDE DEF h
  <1>5. QED
    BY <1>2, <1>3, <1>4, StripIs

LEMMA StripConcat ==
  ASSUME NEW a \in Seq(Line), NEW b \in Seq(Line)
  PROVE  Strip(a \o b) = Strip(a) \o Strip(b)
  <1> DEFINE m == Len(a)
             n == Len(b)
             s == a \o b
  <1>1. /\ m \in Nat /\ n \in Nat /\ s \in Seq(Line) /\ Len(s) = m + n
        /\ \A k \in 1..m : s[k] = a[k]
        /\ \A k \in (m + 1)..(m + n) : s[k] = b[k - m]
    OBVIOUS
  <1>2. PICK g \in [0..m -> Seq(Line)] :
               /\ Strip(a) = g[m] /\ g[0] = <<>>
               /\ \A k \in 1..m : g[k] = IF a[k] \in Own THEN g[k - 1] ELSE Append(g[k - 1], a[k])
    BY StripHas
  <1>3. PICK f \in [0..n -> Seq(Line)] :
               /\ Strip(b) = f[n] /\ f[0] = <<>>
               /\ \A k \in 1..n : f[k] = IF b[k] \in Own THEN f[k - 1] ELSE Append(f[k - 1], b[k])
    BY StripHas
  <1> DEFINE h == [k \in 0..(m + n) |-> IF k < m THEN g[k] ELSE g[m] \o f[k - m]]
  <1> HIDE DEF m, n, s
  <1>4. g[m] \in Seq(Line) /\ g[m] \o f[0] = g[m]
    <2>1. m \in 0..m
      BY <1>1
    <2>2. g[m] \in Seq(Line)
      BY <2>1
    <2>3. QED
      BY <1>3, <2>2
  <1>5. ASSUME NEW k \in 0..m PROVE h[k] = g[k]
    <2>1. k \in 0..(m + n) /\ (~(k < m) => k = m /\ k - m = 0)
      BY <1>1
    <2>2. h[k] = IF k < m THEN g[k] ELSE g[m] \o f[k - m]
      BY <2>1
    <2> HIDE DEF h
    <2>3. QED
      BY <1>4, <2>1, <2>2
  <1>6. ASSUME NEW k \in m..(m + n) PROVE h[k] = g[m] \o f[k - m]
    <2>1. k \in 0..(m + n) /\ ~(k < m)
      BY <1>1
    <2>2. QED
      BY <2>1
  <1>7. h[0] = <<>>
    <2>1. 0 \in 0..m
      BY <1>1
    <2> HIDE DEF h
    <2>2. QED
      BY <1>2, <1>5, <2>1
  <1>8. ASSUME NEW k \in 1..(m + n)
        PROVE  /\ h[k - 1] \in Seq(Line)
               /\ h[k] = IF s[k] \in Own THEN h[k - 1] ELSE Append(h[k - 1], s[k])
    <2>1. CASE k <= m
      <3>1. k \in 1..m /\ k - 1 \in 0..m /\ k \in 0..m
        BY <1>1, <2>1
      <3>2. h[k] = g[k] /\ h[k - 1] = g[k - 1] /\ g[k - 1] \in Seq(Line) /\ s[k] = a[k]
        BY <1>1, <1>5, <3>1
      <3> HIDE DEF h
      <3>3. QED
        BY <1>2, <3>1, <3>2
    <2>2. CASE k > m
      <3> DEFINE j == k - m
      <3>1. j \in 1..n /\ j - 1 \in 0..n /\ (k - 1) - m = j - 1 /\ k \in m..(m + n)
            /\ k - 1 \in m..(m + n) /\ k \in (m + 1)..(m + n)
        BY <1>1, <2>2
      <3>2. h[k] = g[m] \o f[j] /\ h[k - 1] = g[m] \o f[j - 1] /\ s[k] = b[j]
        BY <1>1, <1>6, <3>1
      <3>3. f[j] = IF b[j] \in Own THEN f[j - 1] ELSE Append(f[j - 1], b[j])
        BY <1>3, <3>1
      <3>4. f[j - 1] \in Seq(Line)
        BY <3>1
      <3>5. ASSUME NEW x \in Seq(Line), NEW y \in Seq(Line), NEW l
            PROVE  x \o Append(y, l) = Append(x \o y, l) /\ x \o y \in Seq(Line)
        OBVIOUS
      <3> DEFINE x == g[m]
                 y == f[j - 1]
      <3>6. x \in Seq(Line) /\ y \in Seq(Line)
        BY <1>4, <3>4
      <3> HIDE DEF h, j, x, y
      <3>7. CASE b[j] \in Own
        <4>1. x \o y \in Seq(Line)
          BY <3>6
        <4>2. h[k] = x \o y /\ h[k - 1] = x \o y
          BY <3>2, <3>3, <3>7 DEF x, y
        <4>3. QED
          BY <3>2, <3>7, <4>1, <4>2
      <3>8. CASE b[j] \notin Own
        <4>1. x \o Append(y, b[j]) = Append(x \o y, b[j]) /\ x \o y \in Seq(Line)
          BY <3>5, <3>6
        <4>2. h[k] = x \o Append(y, b[j]) /\ h[k - 1] = x \o y
          BY <3>2, <3>3, <3>8 DEF x, y
        <4>3. QED
          BY <3>2, <3>8, <4>1, <4>2
      <3>9. QED
        BY <3>7, <3>8
    <2>3. QED
      BY <1>1, <2>1, <2>2
  <1>9. h[m + n] = g[m] \o f[n]
    <2>1. m + n \in m..(m + n) /\ (m + n) - m = n
      BY <1>1
    <2> HIDE DEF h
    <2>2. QED
      BY <1>6, <2>1
  <1> HIDE DEF h
  <1>10. Strip(s) = h[m + n]
    BY <1>1, <1>7, <1>8, StripIs
  <1>11. QED
    BY <1>2, <1>3, <1>9, <1>10 DEF s

-----------------------------------------------------------------------------
(* The lines awk adds *)

TheProbe == <<"mark", "probe">>

LEMMA WithProbeIs ==
  ASSUME NEW s \in Seq(Line)
  PROVE  \/ WithProbe(s) = s
         \/ \E k \in 1..Len(s) :
              /\ s[k] = "anchor"
              /\ WithProbe(s) = (SubSeq(s, 1, k) \o TheProbe) \o SubSeq(s, k + 1, Len(s))
  <1> DEFINE I == {i \in 1..Len(s) : s[i] = "anchor"}
             k == SelectInSeq(s, LAMBDA l : l = "anchor")
  <1>1. k = IF I # {} THEN Min(I) ELSE 0
    BY DEF SelectInSeq
  <1>2. WithProbe(s) = IF k = 0 THEN s
                       ELSE (SubSeq(s, 1, k) \o TheProbe) \o SubSeq(s, k + 1, Len(s))
    BY DEF WithProbe, TheProbe
  <1>3. ASSUME I # {} PROVE k \in I
    <2>1. I \subseteq Nat
      OBVIOUS
    <2> HIDE DEF I, k
    <2>2. PICK x \in I : \A y \in I : x <= y
      BY <1>3, <2>1, NatLeast
    <2>3. Min(I) \in I
      BY <2>2 DEF Min
    <2>4. QED
      BY <1>1, <1>3, <2>3
  <1>4. CASE I = {}
    <2> HIDE DEF I, k
    <2>1. QED
      BY <1>1, <1>2, <1>4
  <1>5. CASE I # {}
    <2>1. k \in 1..Len(s) /\ s[k] = "anchor"
      BY <1>3, <1>5
    <2>2. k # 0
      BY <2>1
    <2> HIDE DEF k
    <2>3. QED
      BY <1>2, <2>1, <2>2
  <1>6. QED
    BY <1>4, <1>5

\* Every line of the file is still there, in its order.
LEMMA StripWith ==
  ASSUME NEW s \in Seq(Line)
  PROVE  WithProbe(s) \in Seq(Line) /\ Strip(WithProbe(s)) = Strip(s)
  <1>1. CASE WithProbe(s) = s
    BY <1>1
  <1>2. CASE \E k \in 1..Len(s) :
               WithProbe(s) = (SubSeq(s, 1, k) \o TheProbe) \o SubSeq(s, k + 1, Len(s))
    <2>1. PICK k \in 1..Len(s) :
                 WithProbe(s) = (SubSeq(s, 1, k) \o TheProbe) \o SubSeq(s, k + 1, Len(s))
      BY <1>2
    <2> DEFINE x == SubSeq(s, 1, k)
               y == SubSeq(s, k + 1, Len(s))
    <2>2. x \in Seq(Line) /\ y \in Seq(Line) /\ s = x \o y
      OBVIOUS
    <2>3. TheProbe \in Seq(Line) /\ Len(TheProbe) = 2 /\ \A i \in 1..2 : TheProbe[i] \in Own
      BY DEF TheProbe, Line, Own
    <2>4. Strip(TheProbe) = <<>>
      <3> DEFINE h == [i \in 0..2 |-> <<>>]
      <3>1. /\ h[0] = <<>> /\ h[2] = <<>>
            /\ \A i \in 1..2 : h[i - 1] \in Seq(Line) /\ h[i] = h[i - 1]
        OBVIOUS
      <3> HIDE DEF h
      <3>2. QED
        BY <2>3, <3>1, StripIs
    <2> HIDE DEF x, y
    <2>5. Strip(x \o TheProbe) = Strip(x)
      <3>1. Strip(x \o TheProbe) = Strip(x) \o <<>>
        BY <2>2, <2>3, <2>4, StripConcat
      <3>2. Strip(x) \in Seq(Line)
        BY <2>2, StripType
      <3>3. QED
        BY <3>1, <3>2
    <2>6. Strip((x \o TheProbe) \o y) = Strip(x) \o Strip(y)
      <3>1. x \o TheProbe \in Seq(Line)
        BY <2>2, <2>3
      <3>2. QED
        BY <2>2, <2>5, <3>1, StripConcat
    <2>7. (x \o TheProbe) \o y \in Seq(Line)
      BY <2>2, <2>3
    <2>8. QED
      BY <2>1, <2>2, <2>6, <2>7, StripConcat DEF x, y
  <1>3. QED
    BY <1>1, <1>2, WithProbeIs

\* A probe is where the Makefile puts it: a mark above it, the anchor before.
Planted(s) ==
  /\ Paired(s)
  /\ \A i \in DOMAIN s : s[i] = "mark" => \E j \in 1..(i - 1) : s[j] = "anchor"

LEMMA CleanPlanted ==
  ASSUME NEW s \in Seq(Line), Clean(s)
  PROVE  Planted(s)
  BY DEF Clean, Own, Planted, Paired

LEMMA PlantedAppend ==
  ASSUME NEW s \in Seq(Line), Planted(s)
  PROVE  Planted(Append(s, "edit"))
  <1> DEFINE n == Len(s)
             t == Append(s, "edit")
  <1>1. /\ n \in Nat /\ DOMAIN s = 1..n /\ DOMAIN t = 1..(n + 1)
        /\ t[n + 1] = "edit" /\ \A i \in 1..n : t[i] = s[i]
    OBVIOUS
  <1> HIDE DEF n, t
  <1>2. ASSUME NEW i \in 1..(n + 1), t[i] \in Own
        PROVE  i \in 1..n /\ t[i] = s[i]
    BY <1>1, <1>2 DEF Own
  <1>3. ASSUME NEW i \in 1..(n + 1), t[i] = "mark"
        PROVE  /\ i + 1 \in 1..(n + 1) /\ t[i + 1] = "probe"
               /\ \E j \in 1..(i - 1) : t[j] = "anchor"
    <2>1. i \in 1..n /\ s[i] = "mark"
      BY <1>2, <1>3 DEF Own
    <2>2. i + 1 \in 1..n /\ s[i + 1] = "probe"
      BY <1>1, <2>1 DEF Planted, Paired
    <2>3. PICK j \in 1..(i - 1) : s[j] = "anchor"
      BY <1>1, <2>1 DEF Planted
    <2>4. t[i + 1] = "probe" /\ t[j] = "anchor"
      BY <1>1, <2>1, <2>2, <2>3
    <2>5. QED
      BY <1>1, <2>2, <2>4
  <1>4. ASSUME NEW i \in 1..(n + 1), t[i] = "probe"
        PROVE  i - 1 \in 1..(n + 1) /\ t[i - 1] = "mark"
    <2>1. i \in 1..n /\ s[i] = "probe"
      BY <1>2, <1>4 DEF Own
    <2>2. i - 1 \in 1..n /\ s[i - 1] = "mark"
      BY <1>1, <2>1 DEF Planted, Paired
    <2>3. QED
      BY <1>1, <2>2
  <1>5. QED
    BY <1>1, <1>3, <1>4 DEF Planted, Paired, t

LEMMA PlantedPrepend ==
  ASSUME NEW s \in Seq(Line), Planted(s)
  PROVE  Planted(<<"edit">> \o s)
  <1> DEFINE n == Len(s)
             t == <<"edit">> \o s
  <1>1. /\ n \in Nat /\ DOMAIN s = 1..n /\ DOMAIN t = 1..(n + 1)
        /\ t[1] = "edit" /\ \A i \in 1..n : t[i + 1] = s[i]
    OBVIOUS
  <1> HIDE DEF n, t
  <1>2. ASSUME NEW i \in 1..(n + 1), t[i] \in Own
        PROVE  i - 1 \in 1..n /\ t[i] = s[i - 1]
    <2>1. i # 1
      BY <1>1, <1>2 DEF Own
    <2>2. i - 1 \in 1..n /\ (i - 1) + 1 = i
      BY <1>1, <2>1
    <2>3. QED
      BY <1>1, <2>2
  <1>3. ASSUME NEW i \in 1..(n + 1), t[i] = "mark"
        PROVE  /\ i + 1 \in 1..(n + 1) /\ t[i + 1] = "probe"
               /\ \E j \in 1..(i - 1) : t[j] = "anchor"
    <2>1. i - 1 \in 1..n /\ s[i - 1] = "mark"
      BY <1>2, <1>3 DEF Own
    <2>2. i \in 1..n /\ s[i] = "probe"
      <3>1. (i - 1) + 1 = i
        BY <1>1
      <3>2. QED
        BY <1>1, <2>1, <3>1 DEF Planted, Paired
    <2>3. PICK j \in 1..((i - 1) - 1) : s[j] = "anchor"
      BY <1>1, <2>1 DEF Planted
    <2>4. t[i + 1] = "probe" /\ j + 1 \in 1..(i - 1) /\ t[j + 1] = "anchor"
      BY <1>1, <2>1, <2>2, <2>3
    <2>5. QED
      BY <1>1, <2>2, <2>4
  <1>4. ASSUME NEW i \in 1..(n + 1), t[i] = "probe"
        PROVE  i - 1 \in 1..(n + 1) /\ t[i - 1] = "mark"
    <2>1. i - 1 \in 1..n /\ s[i - 1] = "probe"
      BY <1>2, <1>4 DEF Own
    <2>2. (i - 1) - 1 \in 1..n /\ s[(i - 1) - 1] = "mark"
      BY <1>1, <2>1 DEF Planted, Paired
    <2>3. ((i - 1) - 1) + 1 = i - 1
      BY <1>1
    <2>4. QED
      BY <1>1, <2>1, <2>2, <2>3
  <1>5. QED
    BY <1>1, <1>3, <1>4 DEF Planted, Paired, t

LEMMA ConcatAt ==
  ASSUME NEW a, a \in Seq(Line), NEW b, b \in Seq(Line), NEW c, c = a \o b
  PROVE  /\ c \in Seq(Line) /\ Len(c) = Len(a) + Len(b) /\ DOMAIN c = 1..(Len(a) + Len(b))
         /\ \A i \in 1..Len(a) : c[i] = a[i]
         /\ \A i \in 1..Len(b) : c[Len(a) + i] = b[i]
  <1>1. c \in Seq(Line)
    OBVIOUS
  <1>2. Len(c) = Len(a) + Len(b)
    OBVIOUS
  <1>3. DOMAIN c = 1..(Len(a) + Len(b))
    BY <1>1, <1>2
  <1>4. \A i \in 1..Len(a) : c[i] = a[i]
    OBVIOUS
  <1>5. \A i \in 1..Len(b) : c[Len(a) + i] = b[i]
    OBVIOUS
  <1>6. QED
    BY <1>1, <1>2, <1>3, <1>4, <1>5

LEMMA PlantedWith ==
  ASSUME NEW s \in Seq(Line), Planted(s)
  PROVE  Planted(WithProbe(s))
  <1>1. CASE WithProbe(s) = s
    BY <1>1
  <1>2. CASE \E k \in 1..Len(s) :
               /\ s[k] = "anchor"
               /\ WithProbe(s) = (SubSeq(s, 1, k) \o TheProbe) \o SubSeq(s, k + 1, Len(s))
    <2>1. PICK k \in 1..Len(s) :
                 /\ s[k] = "anchor"
                 /\ WithProbe(s) = (SubSeq(s, 1, k) \o TheProbe) \o SubSeq(s, k + 1, Len(s))
      BY <1>2
    <2> DEFINE n == Len(s)
               t == WithProbe(s)
               x == SubSeq(s, 1, k)
               y == SubSeq(s, k + 1, n)
    <2>2. /\ n \in Nat /\ DOMAIN s = 1..n
          /\ x \in Seq(Line) /\ Len(x) = k /\ \A i \in 1..k : x[i] = s[i]
          /\ y \in Seq(Line) /\ Len(y) = n - k /\ \A i \in 1..(n - k) : y[i] = s[k + i]
      OBVIOUS
    <2>3. TheProbe \in Seq(Line) /\ Len(TheProbe) = 2 /\ TheProbe[1] = "mark" /\ TheProbe[2] = "probe"
      BY DEF TheProbe, Line
    <2>4. t = (x \o TheProbe) \o y
      BY <2>1
    <2> HIDE DEF n, t, x, y
    <2>5. /\ DOMAIN t = 1..(n + 2)
          /\ \A i \in 1..k : t[i] = s[i]
          /\ t[k + 1] = "mark" /\ t[k + 2] = "probe"
          /\ \A i \in (k + 1)..n : t[i + 2] = s[i]
      <3> DEFINE z == x \o TheProbe
      <3>0. /\ z \in Seq(Line) /\ Len(z) = k + 2
            /\ \A i \in 1..k : z[i] = x[i]
            /\ \A i \in 1..2 : z[k + i] = TheProbe[i]
        <4>1. z = x \o TheProbe
          OBVIOUS
        <4>2. x \in Seq(Line) /\ TheProbe \in Seq(Line)
          BY <2>2, <2>3
        <4> HIDE DEF z
        <4>3. /\ z \in Seq(Line) /\ Len(z) = Len(x) + Len(TheProbe)
              /\ \A i \in 1..Len(x) : z[i] = x[i]
              /\ \A i \in 1..Len(TheProbe) : z[Len(x) + i] = TheProbe[i]
          BY <4>1, <4>2, ConcatAt
        <4>4. QED
          BY <2>2, <2>3, <4>3
      <3> HIDE DEF z
      <3>1. z[k + 1] = "mark" /\ z[k + 2] = "probe"
        BY <2>3, <3>0
      <3>2. z \in Seq(Line) /\ Len(z) = k + 2 /\ t = z \o y
        BY <2>4, <3>0 DEF z
      <3>3. /\ DOMAIN t = 1..(n + 2)
            /\ \A i \in 1..(k + 2) : t[i] = z[i]
            /\ \A i \in 1..(n - k) : t[(k + 2) + i] = y[i]
        <4>1. k \in Nat /\ (k + 2) + (n - k) = n + 2
          BY <2>2
        <4>2. z \in Seq(Line) /\ y \in Seq(Line) /\ t = z \o y
          BY <2>2, <3>2
        <4>3. /\ DOMAIN t = 1..(Len(z) + Len(y))
              /\ \A i \in 1..Len(z) : t[i] = z[i]
              /\ \A i \in 1..Len(y) : t[Len(z) + i] = y[i]
          BY <4>2, ConcatAt
        <4>4. QED
          BY <2>2, <3>2, <4>1, <4>3
      <3>4. ASSUME NEW i \in (k + 1)..n PROVE t[i + 2] = s[i]
        <4>1. i - k \in 1..(n - k) /\ (k + 2) + (i - k) = i + 2 /\ k + (i - k) = i
          BY <2>2
        <4>2. t[(k + 2) + (i - k)] = y[i - k] /\ y[i - k] = s[k + (i - k)]
          BY <2>2, <3>3, <4>1
        <4>3. QED
          BY <4>1, <4>2
      <3>5. k \in Nat /\ 1..k \subseteq 1..(k + 2) /\ k + 1 \in 1..(k + 2) /\ k + 2 \in 1..(k + 2)
        BY <2>2
      <3>6. QED
        BY <2>2, <3>0, <3>1, <3>3, <3>4, <3>5
    <2>6. ASSUME NEW i \in 1..(n + 2)
          PROVE  \/ i \in 1..k /\ t[i] = s[i]
                 \/ i = k + 1 \/ i = k + 2
                 \/ i - 2 \in (k + 1)..n /\ t[i] = s[i - 2]
      <3>1. i > k + 2 => i - 2 \in (k + 1)..n /\ (i - 2) + 2 = i
        BY <2>2
      <3>2. QED
        BY <2>2, <2>5, <3>1
    <2>7. k \in 1..n /\ s[k] = "anchor" /\ t[k] = "anchor" /\ n \in Nat
      BY <2>1, <2>2, <2>5 DEF n
    <2>8. \A i \in 1..n : /\ s[i] = "mark" => i + 1 \in 1..n /\ s[i + 1] = "probe"
                          /\ s[i] = "probe" => i - 1 \in 1..n /\ s[i - 1] = "mark"
                          /\ s[i] = "mark" => \E j \in 1..(i - 1) : s[j] = "anchor"
      BY <2>2 DEF Planted, Paired
    <2>9. ASSUME NEW i \in 1..(n + 2), t[i] = "mark"
          PROVE  /\ i + 1 \in 1..(n + 2) /\ t[i + 1] = "probe"
                 /\ \E j \in 1..(i - 1) : t[j] = "anchor"
      <3>1. CASE i \in 1..k /\ t[i] = s[i]
        <4>1. i # k /\ i + 1 \in 1..k /\ t[i + 1] = s[i + 1]
          BY <2>5, <2>7, <2>9, <3>1
        <4>2. i \in 1..n /\ s[i] = "mark"
          BY <2>7, <2>9, <3>1
        <4>3. PICK j \in 1..(i - 1) : s[j] = "anchor"
          BY <2>8, <4>2
        <4>4. j \in 1..k
          BY <2>7, <3>1
        <4>5. QED
          BY <2>5, <2>7, <2>8, <4>1, <4>2, <4>3, <4>4
      <3>2. CASE i = k + 1
        BY <2>5, <2>7, <3>2
      <3>3. CASE i = k + 2
        BY <2>5, <2>9, <3>3
      <3>4. CASE i - 2 \in (k + 1)..n /\ t[i] = s[i - 2]
        <4>1. i - 2 \in 1..n /\ s[i - 2] = "mark"
          BY <2>7, <2>9, <3>4
        <4>2. (i - 2) + 1 \in 1..n /\ s[(i - 2) + 1] = "probe"
          BY <2>8, <4>1
        <4>3. i - 1 \in (k + 1)..n /\ (i - 1) + 2 = i + 1 /\ (i - 2) + 1 = i - 1
          BY <2>7, <3>4, <4>2
        <4>4. t[i + 1] = "probe"
          BY <2>5, <4>2, <4>3
        <4>5. k \in 1..(i - 1) /\ i + 1 \in 1..(n + 2)
          BY <2>7, <4>3
        <4>6. QED
          BY <2>7, <4>4, <4>5
      <3>5. QED
        BY <2>6, <3>1, <3>2, <3>3, <3>4
    <2>10. ASSUME NEW i \in 1..(n + 2), t[i] = "probe"
           PROVE  i - 1 \in 1..(n + 2) /\ t[i - 1] = "mark"
      <3>1. CASE i \in 1..k /\ t[i] = s[i]
        <4>1. i \in 1..n /\ s[i] = "probe"
          BY <2>7, <2>10, <3>1
        <4>2. i - 1 \in 1..n /\ s[i - 1] = "mark"
          BY <2>8, <4>1
        <4>3. i - 1 \in 1..k
          BY <2>7, <3>1, <4>2
        <4>4. QED
          BY <2>5, <2>7, <4>2, <4>3
      <3>2. CASE i = k + 1
        BY <2>5, <2>10, <3>2
      <3>3. CASE i = k + 2
        <4>1. i - 1 = k + 1
          BY <2>7, <3>3
        <4>2. QED
          BY <2>5, <2>7, <4>1
      <3>4. CASE i - 2 \in (k + 1)..n /\ t[i] = s[i - 2]
        <4>1. i - 2 \in 1..n /\ s[i - 2] = "probe"
          BY <2>7, <2>10, <3>4
        <4>2. (i - 2) - 1 \in 1..n /\ s[(i - 2) - 1] = "mark"
          BY <2>8, <4>1
        <4>3. (i - 2) - 1 # k
          BY <2>7, <4>2
        <4>4. (i - 2) - 1 \in (k + 1)..n /\ ((i - 2) - 1) + 2 = i - 1
          BY <2>7, <3>4, <4>2, <4>3
        <4>5. t[i - 1] = "mark"
          BY <2>5, <4>2, <4>4
        <4>6. i - 1 \in 1..(n + 2)
          BY <2>7, <4>4
        <4>7. QED
          BY <4>5, <4>6
      <3>5. QED
        BY <2>6, <3>1, <3>2, <3>3, <3>4
    <2>11. QED
      BY <2>5, <2>9, <2>10 DEF Planted, Paired, t
  <1>3. QED
    BY <1>1, <1>2, WithProbeIs

-----------------------------------------------------------------------------
(* The recipes *)

Patching == {"cp", "cp_part", "awk", "check", "mv"}

\* What is true of the files of one service: where the probe is, it is where
\* the Makefile puts it; a command finds the file that it reads; each file is one
\* that somebody wrote, give or take the probe, but for a backup that is being
\* written; and once disable has been there, there is no backup, nor a _patch
\* that would make one, and after its second time no probe.
Sound(f) ==
  /\ Planted(pamd[f])
  /\ bak[f] # NoFile => Planted(bak[f])
  /\ new[f] # NoFile => Planted(new[f])
  /\ At("cp_part", f) \/ At("awk", f) => bak[f] # NoFile
  /\ At("check", f) \/ At("mv", f) => new[f] # NoFile
  /\ torn = 0 => /\ Strip(pamd[f]) \in versions[f]
                 /\ bak[f] # NoFile /\ ~At("cp_part", f) => Strip(bak[f]) \in versions[f]
                 /\ new[f] # NoFile => Strip(new[f]) \in versions[f]
  /\ visits[f] # 0 => bak[f] = NoFile /\ ~(make.file = f /\ make.at \in Patching)
  /\ visits[f] = 2 => Clean(pamd[f])

IInv ==
  /\ TypeOK
  /\ versions \in [File -> SUBSET Seq(Line)]
  /\ \A f \in File : Sound(f)

LEMMA NoFileIsNone ==
  NoFile \notin Seq(Line)
  <1> SUFFICES ASSUME NoFile \in Seq(Line) PROVE FALSE
    OBVIOUS
  <1>1. Len(NoFile) = 1 /\ NoFile[1] = "no file"
    BY DEF NoFile
  <1>2. \A s \in Seq(Line) : Len(s) = 1 => s[1] \in Line
    OBVIOUS
  <1>3. NoFile[1] \in Line
    BY <1>1, <1>2
  <1>4. QED
    BY <1>1, <1>3 DEF Line

LEMMA EmptySound ==
  /\ <<>> \in Seq(Line) /\ Planted(<<>>)
  BY DEF Planted, Paired

LEMMA InitIInv ==
  ASSUME Init
  PROVE  IInv
  <1>1. ASSUME NEW f \in File
        PROVE  pamd[f] \in Seq(Line) /\ Clean(pamd[f])
    <2>1. pamd[f] = <<"auth", "anchor", "auth">> \/ pamd[f] = <<"auth">>
      BY DEF Init
    <2>2. CASE pamd[f] = <<"auth", "anchor", "auth">>
      <3>1. pamd[f] \in Seq(Line)
        BY <2>2 DEF Line
      <3>2. QED
        BY <2>2, <3>1 DEF Clean, Own
    <2>3. CASE pamd[f] = <<"auth">>
      <3>1. pamd[f] \in Seq(Line)
        BY <2>3 DEF Line
      <3>2. QED
        BY <2>3, <3>1 DEF Clean, Own
    <2>4. QED
      BY <2>1, <2>2, <2>3
  <1>2. pamd \in [File -> Seq(Line)]
    <2>1. pamd = [f \in File |-> pamd[f]]
      BY DEF Init
    <2>2. QED
      BY <1>1, <2>1
  <1>3. TypeOK
    BY <1>2, NumberAssumption DEF Init, TypeOK, NoRecipe, Recipe, File
  <1>4. versions \in [File -> SUBSET Seq(Line)]
    BY <1>1 DEF Init
  <1>5. ASSUME NEW f \in File PROVE Sound(f)
    <2>1. Planted(pamd[f]) /\ Strip(pamd[f]) = pamd[f]
      BY <1>1, CleanPlanted, CleanIsStrip
    <2>2. bak[f] = NoFile /\ new[f] = NoFile /\ visits[f] = 0 /\ make.at = "none"
          /\ pamd[f] \in versions[f]
      BY DEF Init, NoRecipe
    <2>3. QED
      BY <2>1, <2>2 DEF Sound, At
  <1>6. QED
    BY <1>3, <1>4, <1>5 DEF IInv

\* A step that leaves the files of f alone, and what is kept about them.
LEMMA OthersSound ==
  ASSUME NEW f, Sound(f),
         pamd'[f] = pamd[f], bak'[f] = bak[f], new'[f] = new[f],
         versions'[f] = versions[f], visits'[f] = visits[f],
         torn' = 0 => torn = 0,
         \/ make' = make
         \/ make'.at \in {"none", "disable"} /\ ~At("cp_part", f)
         \/ make'.at \in {"none", "disable"} /\ torn' # 0
         \/ make'.file # f /\ make.file # f
  PROVE  Sound(f)'
  BY DEF Sound, At, Patching

LEMMA StepEnable ==
  ASSUME IInv, NEW f \in File, Enable(f)
  PROVE  IInv'
  <1>1. /\ make.at = "none" /\ enables < MaxEnables
        /\ make' = [at |-> "cp", file |-> f]
        /\ enables' = enables + 1 /\ visits' = [visits EXCEPT ![f] = 0]
        /\ UNCHANGED <<pamd, bak, new, edits, torn, versions>>
    BY DEF Enable, files
  <1>2. TypeOK'
    BY <1>1, NumberAssumption DEF IInv, TypeOK, Recipe
  <1>3. ASSUME NEW g \in File PROVE Sound(g)'
    <2>1. Sound(g) /\ visits'[g] = IF g = f THEN 0 ELSE visits[g]
      BY <1>1 DEF IInv, TypeOK
    <2>2. make'.at = "cp" /\ make'.file = f
      BY <1>1
    <2>3. QED
      BY <1>1, <2>1, <2>2 DEF Sound, At
  <1>4. QED
    BY <1>1, <1>2, <1>3 DEF IInv

LEMMA StepCopyOpen ==
  ASSUME IInv, NEW f \in File, CopyOpen(f)
  PROVE  IInv'
  <1>1. /\ make.at = "cp" /\ make.file = f
        /\ make' = [make EXCEPT !.at = "cp_part"]
        /\ bak' = [bak EXCEPT ![f] = <<>>]
        /\ UNCHANGED <<pamd, new, enables, edits, torn, versions, visits>>
    BY DEF CopyOpen, At, bounds, history
  <1>2. make'.at = "cp_part" /\ make'.file = f
    BY <1>1 DEF IInv, TypeOK
  <1>3. TypeOK'
    BY <1>1, EmptySound DEF IInv, TypeOK, Recipe
  <1>4. ASSUME NEW g \in File PROVE Sound(g)'
    <2>1. Sound(g) /\ bak'[g] = IF g = f THEN <<>> ELSE bak[g]
      BY <1>1 DEF IInv, TypeOK
    <2>2. CASE g = f
      <3>1. bak'[g] # NoFile /\ Planted(bak'[g])
        BY <2>1, <2>2, EmptySound, NoFileIsNone
      <3>2. visits[g] = 0
        BY <1>1, <2>1, <2>2 DEF Sound, Patching
      <3>3. QED
        BY <1>1, <1>2, <2>1, <2>2, <3>1, <3>2 DEF Sound, At
    <2>3. CASE g # f
      BY <1>1, <1>2, <2>1, <2>3, OthersSound
    <2>4. QED
      BY <2>2, <2>3
  <1>5. QED
    BY <1>1, <1>3, <1>4 DEF IInv

LEMMA StepCopyWrite ==
  ASSUME IInv, NEW f \in File, CopyWrite(f)
  PROVE  IInv'
  <1>1. /\ make.at = "cp_part" /\ make.file = f
        /\ make' = [make EXCEPT !.at = "awk"]
        /\ bak' = [bak EXCEPT ![f] = pamd[f]]
        /\ UNCHANGED <<pamd, new, enables, edits, torn, versions, visits>>
    BY DEF CopyWrite, At, bounds, history
  <1>2. make'.at = "awk" /\ make'.file = f
    BY <1>1 DEF IInv, TypeOK
  <1>3. pamd[f] \in Seq(Line)
    BY DEF IInv, TypeOK
  <1>4. TypeOK'
    BY <1>1, <1>3 DEF IInv, TypeOK, Recipe
  <1>5. ASSUME NEW g \in File PROVE Sound(g)'
    <2>1. Sound(g) /\ bak'[g] = IF g = f THEN pamd[g] ELSE bak[g]
      BY <1>1 DEF IInv, TypeOK
    <2>2. CASE g = f
      <3>1. bak'[g] # NoFile /\ bak'[g] = pamd[g] /\ Planted(bak'[g])
        BY <1>3, <2>1, <2>2, NoFileIsNone DEF Sound
      <3>2. visits[g] = 0
        BY <1>1, <2>1, <2>2 DEF Sound, Patching
      <3>3. QED
        BY <1>1, <1>2, <2>1, <2>2, <3>1, <3>2 DEF Sound, At
    <2>3. CASE g # f
      BY <1>1, <1>2, <2>1, <2>3, OthersSound
    <2>4. QED
      BY <2>2, <2>3
  <1>6. QED
    BY <1>1, <1>4, <1>5 DEF IInv

LEMMA StepCopyFails ==
  ASSUME IInv, NEW f \in File, CopyFails(f)
  PROVE  IInv'
  <1>1. /\ make.at = "cp_part" /\ torn < MaxTorn
        /\ make' = NoRecipe /\ torn' = torn + 1
        /\ UNCHANGED <<pamd, bak, new, enables, edits, versions, visits>>
    BY DEF CopyFails, At, files, history
  <1>2. make'.at = "none" /\ torn' # 0 /\ NoRecipe \in [at : Recipe, file : File]
    BY <1>1 DEF IInv, TypeOK, NoRecipe, Recipe, File
  <1>3. TypeOK'
    BY <1>1, <1>2, NumberAssumption DEF IInv, TypeOK
  <1>4. ASSUME NEW g \in File PROVE Sound(g)'
    <2>1. Sound(g)
      BY DEF IInv
    <2>2. QED
      BY <1>1, <1>2, <2>1, OthersSound
  <1>5. QED
    BY <1>1, <1>3, <1>4 DEF IInv

LEMMA StepAwk ==
  ASSUME IInv, NEW f \in File, Awk(f)
  PROVE  IInv'
  <1>1. /\ make.at = "awk" /\ make.file = f
        /\ make' = [make EXCEPT !.at = "check"]
        /\ new' = [new EXCEPT ![f] = WithProbe(bak[f])]
        /\ UNCHANGED <<pamd, bak, enables, edits, torn, versions, visits>>
    BY DEF Awk, At, bounds, history
  <1>2. make'.at = "check" /\ make'.file = f
    BY <1>1 DEF IInv, TypeOK
  <1>3. bak[f] # NoFile /\ bak[f] \in Seq(Line) /\ Planted(bak[f])
    BY <1>1 DEF IInv, TypeOK, Sound, At
  <1>4. /\ WithProbe(bak[f]) \in Seq(Line) /\ Planted(WithProbe(bak[f]))
        /\ Strip(WithProbe(bak[f])) = Strip(bak[f])
    BY <1>3, StripWith, PlantedWith
  <1>5. TypeOK'
    BY <1>1, <1>4 DEF IInv, TypeOK, Recipe
  <1>6. ASSUME NEW g \in File PROVE Sound(g)'
    <2>1. Sound(g) /\ new'[g] = IF g = f THEN WithProbe(bak[g]) ELSE new[g]
      BY <1>1 DEF IInv, TypeOK
    <2>2. CASE g = f
      <3>1. new'[g] # NoFile /\ Planted(new'[g]) /\ Strip(new'[g]) = Strip(bak[g])
        BY <1>4, <2>1, <2>2, NoFileIsNone
      <3>2. visits[g] = 0
        BY <1>1, <2>1, <2>2 DEF Sound, Patching
      <3>3. torn = 0 => Strip(bak[g]) \in versions[g]
        BY <1>1, <1>3, <2>1, <2>2 DEF Sound, At
      <3>4. QED
        BY <1>1, <1>2, <2>1, <2>2, <3>1, <3>2, <3>3 DEF Sound, At
    <2>3. CASE g # f
      BY <1>1, <1>2, <2>1, <2>3, OthersSound
    <2>4. QED
      BY <2>2, <2>3
  <1>7. QED
    BY <1>1, <1>5, <1>6 DEF IInv

LEMMA StepCheckNew ==
  ASSUME IInv, NEW f \in File, CheckNew(f)
  PROVE  IInv'
  <1>1. /\ make.at = "check" /\ make.file = f
        /\ \/ make' = [make EXCEPT !.at = "mv"] /\ new' = new
           \/ make' = NoRecipe /\ new' = [new EXCEPT ![f] = NoFile]
        /\ UNCHANGED <<pamd, bak, enables, edits, torn, versions, visits>>
    BY DEF CheckNew, At, bounds, history
  <1>2. CASE make' = [make EXCEPT !.at = "mv"] /\ new' = new
    <2>1. make'.at = "mv" /\ make'.file = f
      BY <1>1, <1>2 DEF IInv, TypeOK
    <2>2. TypeOK'
      BY <1>1, <1>2 DEF IInv, TypeOK, Recipe
    <2>3. ASSUME NEW g \in File PROVE Sound(g)'
      <3>1. Sound(g)
        BY DEF IInv
      <3>2. CASE g = f
        <4>1. visits[g] = 0
          BY <1>1, <3>1, <3>2 DEF Sound, Patching
        <4>2. QED
          BY <1>1, <1>2, <2>1, <3>1, <3>2, <4>1 DEF Sound, At
      <3>3. CASE g # f
        BY <1>1, <1>2, <2>1, <3>1, <3>3, OthersSound
      <3>4. QED
        BY <3>2, <3>3
    <2>4. QED
      BY <1>1, <2>2, <2>3 DEF IInv
  <1>3. CASE make' = NoRecipe /\ new' = [new EXCEPT ![f] = NoFile]
    <2>1. make'.at = "none" /\ NoRecipe \in [at : Recipe, file : File]
      BY <1>3 DEF NoRecipe, Recipe, File
    <2>2. TypeOK'
      BY <1>1, <1>3, <2>1 DEF IInv, TypeOK
    <2>3. ASSUME NEW g \in File PROVE Sound(g)'
      <3>1. Sound(g) /\ new'[g] = IF g = f THEN NoFile ELSE new[g]
        BY <1>3 DEF IInv, TypeOK
      <3>2. QED
        BY <1>1, <2>1, <3>1 DEF Sound, At, Patching
    <2>4. QED
      BY <1>1, <2>2, <2>3 DEF IInv
  <1>4. QED
    BY <1>1, <1>2, <1>3

LEMMA StepMove ==
  ASSUME IInv, NEW f \in File, Move(f)
  PROVE  IInv'
  <1>1. /\ make.at = "mv" /\ make.file = f /\ make' = NoRecipe
        /\ pamd' = [pamd EXCEPT ![f] = new[f]]
        /\ new' = [new EXCEPT ![f] = NoFile]
        /\ UNCHANGED <<bak, enables, edits, torn, versions, visits>>
    BY DEF Move, At, bounds, history
  <1>2. make'.at = "none" /\ NoRecipe \in [at : Recipe, file : File]
    BY <1>1 DEF NoRecipe, Recipe, File
  <1>3. new[f] # NoFile /\ new[f] \in Seq(Line) /\ Planted(new[f])
    BY <1>1 DEF IInv, TypeOK, Sound, At
  <1>4. TypeOK'
    BY <1>1, <1>2, <1>3 DEF IInv, TypeOK
  <1>5. ASSUME NEW g \in File PROVE Sound(g)'
    <2>1. /\ Sound(g) /\ new'[g] = IF g = f THEN NoFile ELSE new[g]
          /\ pamd'[g] = IF g = f THEN new[g] ELSE pamd[g]
      BY <1>1 DEF IInv, TypeOK
    <2>2. CASE g = f
      <3>1. visits[g] = 0
        BY <1>1, <2>1, <2>2 DEF Sound, Patching
      <3>2. QED
        BY <1>1, <1>2, <1>3, <2>1, <2>2, <3>1 DEF Sound, At
    <2>3. CASE g # f
      BY <1>1, <1>2, <2>1, <2>3, OthersSound DEF At
    <2>4. QED
      BY <2>2, <2>3
  <1>6. QED
    BY <1>1, <1>4, <1>5 DEF IInv

LEMMA StepDisable ==
  ASSUME IInv, Disable
  PROVE  IInv'
  <1>1. /\ make.at = "none" /\ make' = [at |-> "disable", file |-> Service[1]]
        /\ UNCHANGED <<pamd, bak, new, enables, edits, torn, versions, visits>>
    BY DEF Disable, files, bounds, history
  <1>2. make'.at = "disable" /\ make' \in [at : Recipe, file : File]
    BY <1>1 DEF Service, Recipe, File
  <1>3. TypeOK'
    BY <1>1, <1>2 DEF IInv, TypeOK
  <1>4. ASSUME NEW g \in File PROVE Sound(g)'
    <2>1. Sound(g)
      BY DEF IInv
    <2>2. QED
      BY <1>1, <1>2, <2>1, OthersSound DEF At
  <1>5. QED
    BY <1>1, <1>3, <1>4 DEF IInv

\* A visit of disable to f leaves what was backed up, or the file without the
\* probe.
LEMMA StepRestore ==
  ASSUME IInv, NEW f \in File, Restore(f)
  PROVE  IInv'
  <1>1. /\ make.at = "disable" /\ make.file = f
        /\ make' = NoRecipe \/ make' = [make EXCEPT !.file = Last(Service)]
        /\ pamd' = [pamd EXCEPT ![f] = IF bak[f] # NoFile THEN bak[f] ELSE WithoutProbe(pamd[f])]
        /\ bak' = [bak EXCEPT ![f] = NoFile]
        /\ visits' = [visits EXCEPT ![f] = IF visits[f] = 2 THEN 2 ELSE visits[f] + 1]
        /\ UNCHANGED <<new, enables, edits, torn, versions>>
    BY DEF Restore, At, Visit, bounds
  <1>2. make'.at \in {"none", "disable"} /\ make' \in [at : Recipe, file : File]
    <2>1. Last(Service) \in File
      BY DEF Last, Service, File
    <2>2. QED
      BY <1>1, <2>1 DEF IInv, TypeOK, NoRecipe, Recipe, File
  <1>3. Sound(f) /\ pamd[f] \in Seq(Line) /\ visits[f] \in 0..2
    BY DEF IInv, TypeOK
  <1>4. WithoutProbe(pamd[f]) = Strip(pamd[f])
    BY <1>3, WithoutIsStrip DEF Sound, Planted
  <1>5. /\ Strip(pamd[f]) \in Seq(Line) /\ Clean(Strip(pamd[f])) /\ Planted(Strip(pamd[f]))
        /\ Strip(Strip(pamd[f])) = Strip(pamd[f])
    BY <1>3, StripType, StripClean, CleanPlanted, CleanIsStrip
  <1> DEFINE p == IF bak[f] # NoFile THEN bak[f] ELSE Strip(pamd[f])
  <1>6. /\ p \in Seq(Line) /\ Planted(p)
        /\ torn = 0 => Strip(p) \in versions[f]
        /\ visits[f] # 0 => Clean(p)
    <2>1. CASE bak[f] # NoFile
      BY <1>1, <1>3, <2>1 DEF IInv, TypeOK, Sound, At
    <2>2. CASE bak[f] = NoFile
      BY <1>3, <1>5, <2>2 DEF Sound
    <2>3. QED
      BY <2>1, <2>2
  <1>7. pamd' = [pamd EXCEPT ![f] = p]
    BY <1>1, <1>4
  <1> HIDE DEF p
  <1>8. TypeOK'
    BY <1>1, <1>2, <1>3, <1>6, <1>7 DEF IInv, TypeOK
  <1>9. ASSUME NEW g \in File PROVE Sound(g)'
    <2>1. /\ Sound(g) /\ bak'[g] = IF g = f THEN NoFile ELSE bak[g]
          /\ pamd'[g] = IF g = f THEN p ELSE pamd[g]
          /\ visits'[g] = IF g # f THEN visits[g] ELSE IF visits[g] = 2 THEN 2 ELSE visits[g] + 1
      BY <1>1, <1>7 DEF IInv, TypeOK
    <2>2. CASE g = f
      <3>1. visits'[g] = 2 => visits[g] # 0
        BY <1>3, <2>1, <2>2
      <3>2. QED
        BY <1>1, <1>2, <1>6, <2>1, <2>2, <3>1 DEF Sound, At, Patching
    <2>3. CASE g # f
      BY <1>1, <1>2, <2>1, <2>3, OthersSound DEF At
    <2>4. QED
      BY <2>2, <2>3
  <1>10. QED
    BY <1>1, <1>8, <1>9 DEF IInv

LEMMA StepInterrupt ==
  ASSUME IInv, Interrupt
  PROVE  IInv'
  <1>1. /\ make.at # "cp_part" /\ make' = NoRecipe
        /\ UNCHANGED <<pamd, bak, new, enables, edits, torn, versions, visits>>
    BY DEF Interrupt, files, bounds, history
  <1>2. make'.at = "none" /\ make' \in [at : Recipe, file : File]
    BY <1>1 DEF NoRecipe, Recipe, File
  <1>3. TypeOK'
    BY <1>1, <1>2 DEF IInv, TypeOK
  <1>4. ASSUME NEW g \in File PROVE Sound(g)'
    <2>1. Sound(g)
      BY DEF IInv
    <2>2. QED
      BY <1>1, <1>2, <2>1, OthersSound DEF At
  <1>5. QED
    BY <1>1, <1>3, <1>4 DEF IInv

LEMMA CleanEdit ==
  ASSUME NEW s \in Seq(Line), Clean(s)
  PROVE  Clean(Append(s, "edit")) /\ Clean(<<"edit">> \o s)
  <1>1. "edit" \in Line /\ "edit" \notin Own
    BY DEF Line, Own
  <1>2. /\ DOMAIN Append(s, "edit") = 1..(Len(s) + 1)
        /\ \A i \in 1..(Len(s) + 1) :
             Append(s, "edit")[i] = IF i <= Len(s) THEN s[i] ELSE "edit"
    BY <1>1
  <1>3. /\ DOMAIN (<<"edit">> \o s) = 1..(Len(s) + 1)
        /\ \A i \in 1..(Len(s) + 1) :
             (<<"edit">> \o s)[i] = IF i = 1 THEN "edit" ELSE s[i - 1]
    BY <1>1
  <1>4. \A i \in 1..Len(s) : s[i] \notin Own
    BY DEF Clean
  <1>5. Len(s) \in Nat
    OBVIOUS
  <1>6. QED
    BY <1>1, <1>2, <1>3, <1>4, <1>5 DEF Clean

LEMMA StepEdit ==
  ASSUME IInv, NEW f \in File, Edit(f)
  PROVE  IInv'
  <1>1. /\ edits < MaxEdits /\ edits' = edits + 1
        /\ \/ pamd' = [pamd EXCEPT ![f] = Append(pamd[f], "edit")]
           \/ pamd' = [pamd EXCEPT ![f] = <<"edit">> \o pamd[f]]
        /\ versions' = [versions EXCEPT ![f] = versions[f] \cup {Strip(pamd'[f])}]
        /\ UNCHANGED <<bak, new, make, enables, torn, visits>>
    BY DEF Edit
  <1>2. Sound(f) /\ pamd[f] \in Seq(Line)
    BY DEF IInv, TypeOK
  <1>3. PICK p : /\ p = Append(pamd[f], "edit") \/ p = <<"edit">> \o pamd[f]
                 /\ pamd' = [pamd EXCEPT ![f] = p]
    BY <1>1
  <1>4. p \in Seq(Line)
    <2>1. "edit" \in Line
      BY DEF Line
    <2>2. Append(pamd[f], "edit") \in Seq(Line)
      BY <1>2, <2>1
    <2>3. <<"edit">> \in Seq(Line)
      BY <2>1
    <2>4. <<"edit">> \o pamd[f] \in Seq(Line)
      BY <1>2, <2>3
    <2>5. QED
      BY <1>3, <2>2, <2>4
  <1>5. Planted(p) /\ (visits[f] = 2 => Clean(p))
    BY <1>2, <1>3, PlantedAppend, PlantedPrepend, CleanEdit DEF Sound
  <1>6. Strip(p) \in Seq(Line)
    BY <1>4, StripType
  <1>7. TypeOK'
    BY <1>1, <1>3, <1>4, NumberAssumption DEF IInv, TypeOK
  <1>8. pamd'[f] = p
    BY <1>3 DEF IInv, TypeOK
  <1>9. versions' \in [File -> SUBSET Seq(Line)]
    BY <1>1, <1>6, <1>8 DEF IInv
  <1>10. ASSUME NEW g \in File PROVE Sound(g)'
    <2>1. /\ Sound(g) /\ pamd'[g] = IF g = f THEN p ELSE pamd[g]
          /\ versions[g] \subseteq versions'[g]
          /\ g = f => Strip(p) \in versions'[g]
      BY <1>1, <1>3, <1>8 DEF IInv, TypeOK
    <2>2. CASE g = f
      BY <1>1, <1>5, <2>1, <2>2 DEF Sound, At
    <2>3. CASE g # f
      BY <1>1, <2>1, <2>3 DEF Sound, At
    <2>4. QED
      BY <2>2, <2>3
  <1>11. QED
    BY <1>7, <1>9, <1>10 DEF IInv

LEMMA NextIInv ==
  ASSUME IInv, [Next]_vars
  PROVE  IInv'
  <1>1. CASE Next
    BY <1>1, StepEnable, StepCopyOpen, StepCopyWrite, StepCopyFails, StepAwk, StepCheckNew,
       StepMove, StepRestore, StepEdit, StepDisable, StepInterrupt DEF Next
  <1>2. CASE UNCHANGED vars
    BY <1>2 DEF vars, files, bounds, history, IInv, TypeOK, Sound, At
  <1>3. QED
    BY <1>1, <1>2

THEOREM Inductive == Spec => []IInv
  BY InitIInv, NextIInv, PTL DEF Spec

-----------------------------------------------------------------------------
(* The results *)

\* TypeOK: every file is one of lines, or absent; the recipe is at one of its
\* commands; and no counter passes its bound.
THEOREM TypeCorrect == Spec => []TypeOK
  <1>1. IInv => TypeOK
    BY DEF IInv
  <1>2. QED
    BY <1>1, Inductive, PTL

\* StackIsWhole: no interleaving of enable, disable, interrupts and edits takes a
\* line of the stack away or reorders it, while no copy fails; and a probe line
\* always has pam_systemd before it and its mark above.
THEOREM StackIsWholeAlways == Spec => []StackIsWhole
  <1>1. ASSUME IInv PROVE StackIsWhole
    <2>1. torn = 0 => \A f \in File : Strip(pamd[f]) \in versions[f]
      BY <1>1 DEF IInv, Sound
    <2>2. ASSUME NEW f \in File, NEW i \in DOMAIN pamd[f], pamd[f][i] = "probe"
          PROVE  /\ i > 2 /\ pamd[f][i - 1] = "mark"
                 /\ \E j \in 1..(i - 2) : pamd[f][j] = "anchor"
      <3>1. Planted(pamd[f]) /\ pamd[f] \in Seq(Line)
        BY <1>1 DEF IInv, TypeOK, Sound
      <3>2. i - 1 \in DOMAIN pamd[f] /\ pamd[f][i - 1] = "mark"
        BY <2>2, <3>1 DEF Planted, Paired
      <3>3. PICK j \in 1..((i - 1) - 1) : pamd[f][j] = "anchor"
        BY <3>1, <3>2 DEF Planted
      <3>4. i \in Nat /\ (i - 1) - 1 = i - 2
        BY <3>1
      <3>5. QED
        BY <3>2, <3>3, <3>4
    <2>3. QED
      BY <2>1, <2>2 DEF StackIsWhole
  <1>2. QED
    BY <1>1, Inductive, PTL

\* TwoDisablesClean: after two calls of disable with no _patch between them no
\* probe is left, however often _patch ran before and wherever it stopped.
THEOREM TwoDisablesCleanAlways == Spec => []TwoDisablesClean
  <1>1. ASSUME IInv PROVE TwoDisablesClean
    <2>1. ASSUME NEW f \in File, visits[f] = 2 PROVE ~Contains(pamd[f], "probe")
      <3>1. Clean(pamd[f])
        BY <1>1, <2>1 DEF IInv, Sound
      <3>2. QED
        BY <3>1 DEF Clean, Own, Contains
    <2>2. QED
      BY <2>1 DEF TwoDisablesClean
  <1>2. QED
    BY <1>1, Inductive, PTL
=============================================================================
