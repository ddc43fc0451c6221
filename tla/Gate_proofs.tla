------------------------------ MODULE Gate_proofs ------------------------------
(***************************************************************************)
(* What holds of Gate for any number of CPUs, cgroups, file opens and      *)
(* latency buckets, any tier and any time to live.                         *)
(***************************************************************************)
EXTENDS Gate, TLAPS, FiniteSetTheorems, WellFoundedInduction

-----------------------------------------------------------------------------
(* The inductive invariant *)

Before == {"load", "tag", "warrant"}
Running == {"check", "enter", "paused", "dump"}

\* The order of main(): nothing is attached before the maps are filled, and
\* they are not written afterwards.
LoaderOrder ==
  /\ loader = "tag" => TagCgroup \in Cgroup
  /\ loader = "warrant" => TagCgroup \in oh_tag
  /\ loader \in {"attach"} \cup Running =>
       (TagCgroup \in Cgroup => Warranted(TagCgroup))
  /\ attached => loader \in Running

\* A finding of expiry, once made, is made for good.
ExpirySeen == SawExpired => (loader \notin Before /\ now > oh_warrants.expires_ns)

\* An open that is in the total is in a class too, unless the hook is between.
Between(c, steps) == IF hook[c].at \in steps THEN 1 ELSE 0
Counted ==
  \A c \in CPU :
    /\ cell[OH_C_TOTAL][c] = Classes(cell, c) + Between(c, {"code"})
    /\ cell[OH_C_TOTAL][c] = Devices(cell, c) + Between(c, {"code", "dev"})

\* What has been read is not more than what is there, and what is read later
\* has caught up with what was read before.
HasRead(k, c) == pos > k \/ (pos = k /\ c \in copied)
Snapshot ==
  \A c \in CPU :
    /\ \A k \in Key : report[k][c] <= cell[k][c]
    /\ HasRead(OH_C_TOTAL, c) => Classes(report, c) <= report[OH_C_TOTAL][c]
    /\ HasRead(DevKey("read"), c) =>
         report[OH_C_TOTAL][c] <= report[DevKey("read")][c] + cell[DevKey("write")][c] + 1
    /\ HasRead(DevKey("write"), c) => report[OH_C_TOTAL][c] <= Devices(report, c) + 1

IInv ==
  /\ TypeOK
  /\ LoaderOrder
  /\ TaggedNeverMisses
  /\ ExpirySeen
  /\ Counted
  /\ Snapshot

-----------------------------------------------------------------------------
(* Keys and cells *)

USE CPUAssumption, CgroupAssumption, TierAssumption, NumberAssumption
USE DEF OH_R_PASS, OH_R_READ, OH_R_TAG_MISS, OH_R_TAG_HIT, OH_R_REVOKED,
        OH_R_EXPIRED, OH_R_MAX, OH_C_TOTAL

\* The keys of the counters, the buckets and the device table are all keys.
LEMMA Keys ==
  /\ 0 \in Key /\ 1 \in Key /\ 2 \in Key /\ 3 \in Key
  /\ 4 \in Key /\ 5 \in Key /\ 6 \in Key
  /\ DevKey("write") \in Key /\ DevKey("read") \in Key
  /\ DevKey("read") > 6 /\ DevKey("write") = DevKey("read") + 1
  /\ \A b \in 0..(LatMax - 1) : LatKey(b) \in Key /\ LatKey(b) > 6 /\ LatKey(b) < DevKey("read")
  /\ Key = 0..LastKey /\ LastKey = DevKey("write") /\ LastKey \in Nat
BY DEF Key, LastKey, DevKey, LatKey

\* What the increment of one slot does to every slot.
LEMMA BumpOne ==
  ASSUME cell \in [Key -> [CPU -> Nat]], NEW k \in Key, NEW c \in CPU, Bump(k, c)
  PROVE  /\ cell' \in [Key -> [CPU -> Nat]]
         /\ \A j \in Key, d \in CPU :
              cell'[j][d] = IF j = k /\ d = c THEN cell[j][d] + 1 ELSE cell[j][d]
BY DEF Bump

\* The sums are sums of naturals, and one increment moves at most one of them.
LEMMA SumTypes ==
  ASSUME cell \in [Key -> [CPU -> Nat]], NEW c \in CPU
  PROVE  /\ cell[6][c] \in Nat /\ Classes(cell, c) \in Nat /\ Devices(cell, c) \in Nat
  <1>1. \A k \in Key : cell[k][c] \in Nat
    OBVIOUS
  <1>2. /\ cell[0][c] \in Nat /\ cell[1][c] \in Nat /\ cell[2][c] \in Nat
        /\ cell[3][c] \in Nat /\ cell[4][c] \in Nat /\ cell[5][c] \in Nat
        /\ cell[6][c] \in Nat
        /\ cell[DevKey("read")][c] \in Nat /\ cell[DevKey("write")][c] \in Nat
    BY <1>1, Keys
  <1>3. QED
    BY <1>2 DEF Classes, Devices

LEMMA BumpSums ==
  ASSUME cell \in [Key -> [CPU -> Nat]], NEW k \in Key, NEW c \in CPU, Bump(k, c),
         NEW d \in CPU
  PROVE  /\ cell'[6][d] = cell[6][d] + (IF k = 6 /\ d = c THEN 1 ELSE 0)
         /\ Classes(cell, d)' = Classes(cell, d) + (IF k < 6 /\ d = c THEN 1 ELSE 0)
         /\ Devices(cell, d)' = Devices(cell, d)
              + (IF DevKey("read") <= k /\ d = c THEN 1 ELSE 0)
  <1> DEFINE add(j) == IF j = k /\ d = c THEN 1 ELSE 0
             slot(j) == cell[j][d] \in Nat /\ cell'[j][d] = cell[j][d] + add(j)
  <1>1. ASSUME NEW j \in Key PROVE slot(j)
    BY BumpOne
  <1> HIDE DEF slot
  <1>2. /\ slot(0) /\ slot(1) /\ slot(2) /\ slot(3) /\ slot(4) /\ slot(5) /\ slot(6)
        /\ slot(DevKey("read")) /\ slot(DevKey("write"))
    BY <1>1, Keys
  <1>3. /\ k \in Nat /\ DevKey("read") \in Nat /\ DevKey("write") = DevKey("read") + 1
        /\ k <= DevKey("write")
    BY Keys DEF Key, DevKey
  <1>4. cell'[6][d] = cell[6][d] + (IF k = 6 /\ d = c THEN 1 ELSE 0)
    BY <1>2 DEF slot
  <1>5. Classes(cell, d)' = Classes(cell, d) + (IF k < 6 /\ d = c THEN 1 ELSE 0)
    <2>1. /\ cell'[0][d] = cell[0][d] + add(0) /\ cell'[1][d] = cell[1][d] + add(1)
          /\ cell'[2][d] = cell[2][d] + add(2) /\ cell'[3][d] = cell[3][d] + add(3)
          /\ cell'[4][d] = cell[4][d] + add(4) /\ cell'[5][d] = cell[5][d] + add(5)
      BY <1>2 DEF slot
    <2>2. /\ cell[0][d] \in Nat /\ cell[1][d] \in Nat /\ cell[2][d] \in Nat
          /\ cell[3][d] \in Nat /\ cell[4][d] \in Nat /\ cell[5][d] \in Nat
      BY <1>2 DEF slot
    <2> DEFINE inc == IF k < 6 /\ d = c THEN 1 ELSE 0
    <2>3. add(0) + add(1) + add(2) + add(3) + add(4) + add(5) = inc
      BY <1>3
    <2>4. inc \in Nat /\ \A j : add(j) \in Nat
      OBVIOUS
    <2> HIDE DEF add, inc
    <2>5. Classes(cell, d)' = Classes(cell, d) + inc
      BY <2>1, <2>2, <2>3, <2>4 DEF Classes
    <2>6. QED
      BY <2>5 DEF inc
  <1>6. Devices(cell, d)' = Devices(cell, d)
              + (IF DevKey("read") <= k /\ d = c THEN 1 ELSE 0)
    <2>1. /\ cell'[DevKey("read")][d] = cell[DevKey("read")][d] + add(DevKey("read"))
          /\ cell'[DevKey("write")][d] = cell[DevKey("write")][d] + add(DevKey("write"))
          /\ cell[DevKey("read")][d] \in Nat /\ cell[DevKey("write")][d] \in Nat
      BY <1>2 DEF slot
    <2>2. add(DevKey("read")) + add(DevKey("write"))
            = IF DevKey("read") <= k /\ d = c THEN 1 ELSE 0
      BY <1>3
    <2>3. \A j : add(j) \in Nat
      OBVIOUS
    <2>4. /\ Devices(cell, d)' = cell'[DevKey("write")][d] + cell'[DevKey("read")][d]
          /\ Devices(cell, d) = cell[DevKey("write")][d] + cell[DevKey("read")][d]
      BY DEF Devices, DevKey
    <2> HIDE DEF add
    <2>5. QED
      BY <2>1, <2>2, <2>3, <2>4
  <1>7. QED
    BY <1>4, <1>5, <1>6

\* A decision is one of the six codes.
LEMMA DecideCode ==
  ASSUME NEW cg, NEW mode \in Mode
  PROVE  oh_decide(cg, mode) \in Code
BY DEF oh_decide, Code

\* A write of a cgroup that has its tag and its warrant is no miss.
LEMMA DecideWarranted ==
  ASSUME NEW cg, NEW mode \in Mode, Warranted(cg)
  PROVE  oh_decide(cg, mode) # OH_R_TAG_MISS
BY DEF oh_decide

\* Moving the hook on keeps what it carries.
LEMMA HookMoves ==
  ASSUME TypeOK, NEW c \in CPU, NEW from \in HookStep, NEW to \in HookStep,
         HookAt(c, from, to)
  PROVE  /\ hook' \in [CPU -> HookState]
         /\ hook[c].at = from /\ hook'[c].at = to
         /\ hook'[c].code = hook[c].code /\ hook'[c].cgroup = hook[c].cgroup
         /\ hook[c].code \in Code /\ hook[c].mode \in Mode
         /\ \A d \in CPU \ {c} : hook'[d] = hook[d]
  BY DEF TypeOK, HookState, HookAt

LEMMA InitIInv == Init => IInv
  <1> SUFFICES ASSUME Init PROVE IInv
    OBVIOUS
  <1>1. TypeOK
    <2>1. NoCount \in [Key -> [CPU -> Nat]]
      BY DEF NoCount
    <2>2. Idle \in HookState
      BY DEF Idle, HookState, HookStep, Code, Mode
    <2>3. hook \in [CPU -> HookState]
      BY <2>2 DEF Init
    <2>4. pos \in 0..(LastKey + 1)
      BY Keys DEF Init
    <2>5. opens \in 0..MaxOpens
      BY DEF Init
    <2>6. QED
      BY <2>1, <2>3, <2>4, <2>5 DEF Init, TypeOK, NoEntry
  <1>2. LoaderOrder
    BY DEF Init, LoaderOrder, Running
  <1>3. TaggedNeverMisses
    BY DEF Init, TaggedNeverMisses, InHook, Idle
  <1>4. ExpirySeen
    BY Keys DEF Init, ExpirySeen, SawExpired, NoCount, InHook, Idle
  <1>5. Counted
    BY Keys DEF Init, Counted, Classes, Devices, Between, Idle, NoCount
  <1>6. Snapshot
    BY Keys DEF Init, Snapshot, HasRead, NoCount, Classes, Devices
  <1>7. QED
    BY <1>1, <1>2, <1>3, <1>4, <1>5, <1>6 DEF IInv

-----------------------------------------------------------------------------
(* The hook *)

LEMMA OpenIInv ==
  ASSUME IInv, NEW c \in CPU, NEW cg \in Cgroup, NEW mode \in Mode, Open(c, cg, mode)
  PROVE  IInv'
  <1> DEFINE r == [at |-> "record", code |-> oh_decide(cg, mode),
                   mode |-> mode, cgroup |-> cg]
  <1>1. hook' = [hook EXCEPT ![c] = r]
    BY DEF Open
  <1>2. /\ hook'[c] = r /\ \A d \in CPU \ {c} : hook'[d] = hook[d]
        /\ ~InHook(c)
    BY <1>1 DEF Open, IInv, TypeOK
  <1>3. oh_decide(cg, mode) \in Code
    BY DecideCode
  <1>4. TypeOK'
    BY <1>1, <1>3 DEF IInv, TypeOK, Open, loaderVars, gateMaps, dumpVars, HookStep, HookState
  <1>5. LoaderOrder'
    BY DEF IInv, LoaderOrder, Open, loaderVars, gateMaps, Warranted
  <1>6. TaggedNeverMisses'
    <2>1. cg = TagCgroup => oh_decide(cg, mode) # OH_R_TAG_MISS
      BY DecideWarranted DEF IInv, LoaderOrder, Open, Running
    <2>2. QED
      BY <1>2, <2>1 DEF IInv, TaggedNeverMisses, InHook
  <1>7. ExpirySeen'
    <2>1. oh_decide(cg, mode) = OH_R_EXPIRED =>
            (loader \notin Before /\ now > oh_warrants.expires_ns)
      BY DEF oh_decide, Open, IInv, LoaderOrder, Running, Before
    <2>2. SawExpired' => (SawExpired \/ oh_decide(cg, mode) = OH_R_EXPIRED)
      BY <1>2 DEF SawExpired, Open, InHook
    <2>3. QED
      BY <2>1, <2>2 DEF IInv, ExpirySeen, Open, loaderVars, gateMaps
  <1>8. Counted'
    <2>1. cell' = cell
      BY DEF Open
    <2>2. \A d \in CPU : hook'[d].at \in {"code", "dev"} => hook'[d].at = hook[d].at
      BY <1>2
    <2>3. \A d \in CPU : hook[d].at \in {"code", "dev"} => hook'[d].at = hook[d].at
      BY <1>2 DEF InHook
    <2>4. \A d \in CPU : /\ Between(d, {"code"})' = Between(d, {"code"})
                        /\ Between(d, {"code", "dev"})' = Between(d, {"code", "dev"})
      BY <2>2, <2>3 DEF Between
    <2>5. QED
      BY <2>1, <2>4 DEF IInv, Counted, Classes, Devices
  <1>9. Snapshot'
    BY DEF IInv, Snapshot, HasRead, Classes, Devices, Open, dumpVars
  <1>10. QED
    BY <1>4, <1>5, <1>6, <1>7, <1>8, <1>9 DEF IInv

\* Counting never unsettles a report: a slot only grows.
LEMMA SnapshotGrows ==
  ASSUME TypeOK, Snapshot, UNCHANGED dumpVars, cell' \in [Key -> [CPU -> Nat]],
         \A k \in Key, c \in CPU : cell[k][c] <= cell'[k][c]
  PROVE  Snapshot'
  <1> SUFFICES ASSUME NEW c \in CPU
               PROVE  /\ \A k \in Key : report[k][c] <= cell'[k][c]
                      /\ HasRead(OH_C_TOTAL, c) => Classes(report, c) <= report[OH_C_TOTAL][c]
                      /\ HasRead(DevKey("read"), c) =>
                           report[OH_C_TOTAL][c]
                             <= report[DevKey("read")][c] + cell'[DevKey("write")][c] + 1
                      /\ HasRead(DevKey("write"), c) =>
                           report[OH_C_TOTAL][c] <= Devices(report, c) + 1
    BY DEF Snapshot, HasRead, Classes, Devices, dumpVars, DevKey
  <1>1. \A k \in Key : report[k][c] \in Nat /\ cell[k][c] \in Nat /\ cell'[k][c] \in Nat
    BY DEF TypeOK
  <1>2. /\ report[OH_C_TOTAL][c] \in Nat /\ report[DevKey("read")][c] \in Nat
        /\ cell[DevKey("write")][c] \in Nat /\ cell'[DevKey("write")][c] \in Nat
        /\ cell[DevKey("write")][c] <= cell'[DevKey("write")][c]
    BY <1>1, Keys
  <1>3. \A k \in Key : report[k][c] <= cell'[k][c]
    BY <1>1 DEF Snapshot
  <1>4. HasRead(DevKey("read"), c) =>
          report[OH_C_TOTAL][c] <= report[DevKey("read")][c] + cell'[DevKey("write")][c] + 1
    BY <1>2 DEF Snapshot
  <1>5. QED
    BY <1>3, <1>4 DEF Snapshot

\* A step of the hook that adds to one slot.
LEMMA BumpTypes ==
  ASSUME TypeOK, NEW k \in Key, NEW c \in CPU, Bump(k, c), UNCHANGED others,
         hook' \in [CPU -> HookState]
  PROVE  TypeOK'
  BY BumpOne DEF TypeOK, others, loaderVars, gateMaps, dumpVars

\* ... and leaves what was decided alone.
LEMMA BumpKeeps ==
  ASSUME IInv, NEW k \in Key, NEW c \in CPU, Bump(k, c), UNCHANGED others,
         k = OH_R_EXPIRED => InHook(c) /\ hook[c].code = OH_R_EXPIRED,
         \A d \in CPU : InHook(d)' =>
           InHook(d) /\ hook'[d].code = hook[d].code /\ hook'[d].cgroup = hook[d].cgroup
  PROVE  LoaderOrder' /\ TaggedNeverMisses' /\ ExpirySeen' /\ Snapshot'
  <1>1. /\ cell' \in [Key -> [CPU -> Nat]]
        /\ \A j \in Key, d \in CPU :
             cell'[j][d] = IF j = k /\ d = c THEN cell[j][d] + 1 ELSE cell[j][d]
    BY BumpOne DEF IInv, TypeOK
  <1>2. LoaderOrder'
    BY DEF IInv, LoaderOrder, Warranted, others, loaderVars, gateMaps
  <1>3. TaggedNeverMisses'
    BY DEF IInv, TaggedNeverMisses
  <1>4. ExpirySeen'
    <2>1. ASSUME NEW d \in CPU,
                 cell'[5][d] > 0 \/ (InHook(d)' /\ hook'[d].code = 5)
          PROVE  SawExpired
      <3>1. 5 \in Key /\ cell'[5][d] = IF 5 = k /\ d = c THEN cell[5][d] + 1 ELSE cell[5][d]
        BY <1>1, Keys
      <3>2. CASE k = 5 /\ d = c
        BY <3>2 DEF SawExpired
      <3>3. CASE ~(k = 5 /\ d = c)
        BY <2>1, <3>1, <3>3 DEF SawExpired
      <3>4. QED
        BY <3>2, <3>3
    <2>2. QED
      BY <2>1 DEF IInv, ExpirySeen, SawExpired, others, loaderVars, gateMaps
  <1>5. Snapshot'
    <2>1. \A j \in Key, d \in CPU : cell[j][d] <= cell'[j][d]
      BY <1>1 DEF IInv, TypeOK
    <2>2. QED
      BY <1>1, <2>1, SnapshotGrows DEF IInv, others
  <1>6. QED
    BY <1>2, <1>3, <1>4, <1>5

LEMMA RecordIInv ==
  ASSUME IInv, NEW c \in CPU, Record(c)
  PROVE  IInv'
  <1>1. PICK b \in 0..(LatMax - 1) : Bump(LatKey(b), c)
    BY DEF Record
  <1>2. /\ HookAt(c, "record", "total") /\ UNCHANGED others /\ LatKey(b) \in Key
        /\ LatKey(b) > 6 /\ LatKey(b) # DevKey("read") /\ LatKey(b) # DevKey("write")
    BY Keys DEF Record
  <1>3. /\ hook' \in [CPU -> HookState]
        /\ hook[c].at = "record" /\ hook'[c].at = "total"
        /\ hook'[c].code = hook[c].code /\ hook'[c].cgroup = hook[c].cgroup
        /\ \A d \in CPU \ {c} : hook'[d] = hook[d]
    BY <1>2, HookMoves DEF IInv, HookStep
  <1>4. TypeOK'
    BY <1>1, <1>2, <1>3, BumpTypes DEF IInv
  <1>5. LoaderOrder' /\ TaggedNeverMisses' /\ ExpirySeen' /\ Snapshot'
    BY <1>1, <1>2, <1>3, BumpKeeps DEF InHook
  <1>6. Counted'
    <2>1. ASSUME NEW d \in CPU
          PROVE  /\ cell'[6][d] = cell[6][d]
                 /\ Classes(cell, d)' = Classes(cell, d)
                 /\ Devices(cell, d)' = Devices(cell, d)
      <3> DEFINE k == LatKey(b)
      <3>1. /\ k \in Key /\ Bump(k, c) /\ k \in Nat /\ ~(k < 6) /\ k # 6
            /\ ~(DevKey("read") <= k)
        BY <1>1, <1>2, Keys DEF Key, DevKey, LatKey
      <3> HIDE DEF k
      <3>2. QED
        BY <3>1, BumpSums, SumTypes DEF IInv, TypeOK
    <2>2. \A d \in CPU : /\ Between(d, {"code"})' = Between(d, {"code"})
                        /\ Between(d, {"code", "dev"})' = Between(d, {"code", "dev"})
      BY <1>3 DEF Between
    <2>3. QED
      BY <2>1, <2>2 DEF IInv, Counted
  <1>7. QED
    BY <1>4, <1>5, <1>6 DEF IInv

LEMMA BumpTotalIInv ==
  ASSUME IInv, NEW c \in CPU, BumpTotal(c)
  PROVE  IInv'
  <1>1. /\ HookAt(c, "total", "code") /\ UNCHANGED others /\ Bump(6, c) /\ 6 \in Key
    BY Keys DEF BumpTotal
  <1>2. /\ hook' \in [CPU -> HookState]
        /\ hook[c].at = "total" /\ hook'[c].at = "code"
        /\ hook'[c].code = hook[c].code /\ hook'[c].cgroup = hook[c].cgroup
        /\ \A d \in CPU \ {c} : hook'[d] = hook[d]
    BY <1>1, HookMoves DEF IInv, HookStep
  <1>3. TypeOK'
    BY <1>1, <1>2, BumpTypes DEF IInv
  <1>4. LoaderOrder' /\ TaggedNeverMisses' /\ ExpirySeen' /\ Snapshot'
    BY <1>1, <1>2, BumpKeeps DEF InHook
  <1>5. Counted'
    <2>1. ASSUME NEW d \in CPU
          PROVE  /\ cell'[6][d] = IF d = c THEN cell[6][d] + 1 ELSE cell[6][d]
                 /\ Classes(cell, d)' = Classes(cell, d)
                 /\ Devices(cell, d)' = Devices(cell, d)
      <3>1. ~(DevKey("read") <= 6)
        BY Keys DEF DevKey
      <3>2. QED
        BY <1>1, <3>1, BumpSums, SumTypes DEF IInv, TypeOK
    <2>2. \A d \in CPU :
            /\ Between(d, {"code"})' = IF d = c THEN 1 ELSE Between(d, {"code"})
            /\ Between(d, {"code", "dev"})' = IF d = c THEN 1 ELSE Between(d, {"code", "dev"})
            /\ Between(c, {"code"}) = 0 /\ Between(c, {"code", "dev"}) = 0
      BY <1>2 DEF Between
    <2>3. \A d \in CPU : Classes(cell, d) \in Nat /\ Devices(cell, d) \in Nat
      BY SumTypes DEF IInv, TypeOK
    <2>4. QED
      BY <2>1, <2>2, <2>3 DEF IInv, Counted
  <1>6. QED
    BY <1>3, <1>4, <1>5 DEF IInv

LEMMA BumpCodeIInv ==
  ASSUME IInv, NEW c \in CPU, BumpCode(c)
  PROVE  IInv'
  <1> DEFINE k == hook[c].code
  <1>1. HookAt(c, "code", "dev") /\ UNCHANGED others /\ Bump(k, c)
    BY DEF BumpCode
  <1>2. /\ hook' \in [CPU -> HookState]
        /\ hook[c].at = "code" /\ hook'[c].at = "dev" /\ k \in Code
        /\ hook'[c].code = hook[c].code /\ hook'[c].cgroup = hook[c].cgroup
        /\ \A d \in CPU \ {c} : hook'[d] = hook[d]
    BY <1>1, HookMoves DEF IInv, HookStep
  <1>3. k \in 0..5 /\ k \in Key
    BY <1>2, Keys DEF Code
  <1>4. TypeOK'
    BY <1>1, <1>2, <1>3, BumpTypes DEF IInv
  <1>5. LoaderOrder' /\ TaggedNeverMisses' /\ ExpirySeen' /\ Snapshot'
    BY <1>1, <1>2, <1>3, BumpKeeps DEF InHook
  <1>6. Counted'
    <2>1. ASSUME NEW d \in CPU
          PROVE  /\ cell'[6][d] = cell[6][d] /\ Devices(cell, d)' = Devices(cell, d)
                 /\ Classes(cell, d)' = IF d = c THEN Classes(cell, d) + 1 ELSE Classes(cell, d)
      <3>1. ~(DevKey("read") <= k) /\ k < 6 /\ k # 6
        BY <1>3, Keys DEF DevKey
      <3> HIDE DEF k
      <3>2. QED
        BY <1>1, <1>3, <3>1, BumpSums, SumTypes DEF IInv, TypeOK
    <2>2. \A d \in CPU :
            /\ Between(d, {"code"})' = IF d = c THEN 0 ELSE Between(d, {"code"})
            /\ Between(d, {"code", "dev"})' = Between(d, {"code", "dev"})
            /\ Between(c, {"code"}) = 1
      BY <1>2 DEF Between
    <2>3. \A d \in CPU : Classes(cell, d) \in Nat /\ Devices(cell, d) \in Nat
      BY SumTypes DEF IInv, TypeOK
    <2>4. QED
      BY <2>1, <2>2, <2>3 DEF IInv, Counted
  <1>7. QED
    BY <1>4, <1>5, <1>6 DEF IInv

LEMMA BumpDevIInv ==
  ASSUME IInv, NEW c \in CPU, BumpDev(c)
  PROVE  IInv'
  <1> DEFINE k == DevKey(hook[c].mode)
  <1>1. /\ hook[c].at = "dev" /\ UNCHANGED others /\ Bump(k, c)
        /\ hook' = [hook EXCEPT ![c] = Idle]
    BY DEF BumpDev
  <1>2. k = DevKey("read") \/ k = DevKey("write")
    BY DEF IInv, TypeOK, HookState, Mode
  <1>3. k \in Key /\ k > 6
    BY <1>2, Keys
  <1>4. /\ hook' \in [CPU -> HookState] /\ hook'[c].at = "idle"
        /\ \A d \in CPU \ {c} : hook'[d] = hook[d]
    BY <1>1 DEF IInv, TypeOK, Idle, HookState, HookStep, Code, Mode
  <1>5. TypeOK'
    BY <1>1, <1>3, <1>4, BumpTypes DEF IInv
  <1>6. LoaderOrder' /\ TaggedNeverMisses' /\ ExpirySeen' /\ Snapshot'
    BY <1>1, <1>3, <1>4, BumpKeeps DEF InHook
  <1>7. Counted'
    <2>1. ASSUME NEW d \in CPU
          PROVE  /\ cell'[6][d] = cell[6][d] /\ Classes(cell, d)' = Classes(cell, d)
                 /\ Devices(cell, d)' = IF d = c THEN Devices(cell, d) + 1 ELSE Devices(cell, d)
      <3>1. DevKey("read") <= k /\ ~(k < 6) /\ k # 6
        BY <1>2, <1>3, Keys DEF DevKey
      <3> HIDE DEF k
      <3>2. QED
        BY <1>1, <1>3, <3>1, BumpSums, SumTypes DEF IInv, TypeOK
    <2>2. \A d \in CPU :
            /\ Between(d, {"code"})' = Between(d, {"code"})
            /\ Between(d, {"code", "dev"})' = IF d = c THEN 0 ELSE Between(d, {"code", "dev"})
            /\ Between(c, {"code", "dev"}) = 1
      BY <1>1, <1>4 DEF Between
    <2>3. \A d \in CPU : Classes(cell, d) \in Nat /\ Devices(cell, d) \in Nat
      BY SumTypes DEF IInv, TypeOK
    <2>4. QED
      BY <2>1, <2>2, <2>3 DEF IInv, Counted
  <1>8. QED
    BY <1>5, <1>6, <1>7 DEF IInv

-----------------------------------------------------------------------------
(* The loader *)

\* A step that touches neither the hook nor the counts.
LEMMA CountedStays ==
  ASSUME Counted, UNCHANGED kernel
  PROVE  Counted'
  BY DEF Counted, Classes, Devices, Between, kernel, DevKey

\* A step of main() before the dump.
LEMMA MainKeeps ==
  ASSUME IInv, UNCHANGED kernel, UNCHANGED dumpVars
  PROVE  TaggedNeverMisses' /\ Counted' /\ Snapshot'
  <1>1. cell' = cell /\ hook' = hook
    BY DEF kernel
  <1>2. \A k \in Key, c \in CPU : cell[k][c] <= cell'[k][c]
    BY <1>1 DEF IInv, TypeOK
  <1>3. Snapshot'
    BY <1>1, <1>2, SnapshotGrows DEF IInv, TypeOK
  <1>4. QED
    BY <1>1, <1>3, CountedStays DEF IInv, TaggedNeverMisses, InHook

LEMMA MainIInv ==
  ASSUME IInv,
         Load \/ InjectTag \/ (\E upt \in {now, 0} : InjectWarrant(upt)) \/ Attach
           \/ Check \/ Pause \/ Fail \/ OnSig \/ Exit \/ Kill \/ Tick
  PROVE  IInv'
  <1>1. UNCHANGED kernel /\ UNCHANGED dumpVars
    BY DEF Load, InjectTag, InjectWarrant, Attach, Check, Pause, Fail, OnSig, Exit, Kill, Tick
  <1>2. TaggedNeverMisses' /\ Counted' /\ Snapshot'
    BY <1>1, MainKeeps
  <1>3. UNCHANGED cell /\ UNCHANGED hook
    BY <1>1 DEF kernel
  <1>4. CASE Load
    <2>1. TypeOK'
      BY <1>4 DEF IInv, TypeOK, Load, gateMaps, kernel, dumpVars
    <2>2. LoaderOrder' /\ ExpirySeen'
      BY <1>3, <1>4
      DEF IInv, TypeOK, LoaderOrder, ExpirySeen, SawExpired, InHook, Load, gateMaps, Warranted,
          Before, Running
    <2>3. QED
      BY <1>2, <2>1, <2>2 DEF IInv
  <1>5. CASE InjectTag
    <2>1. TypeOK'
      BY <1>5 DEF IInv, TypeOK, LoaderOrder, InjectTag, gateMaps, kernel, dumpVars
    <2>2. LoaderOrder' /\ ExpirySeen'
      BY <1>3, <1>5
      DEF IInv, TypeOK, LoaderOrder, ExpirySeen, SawExpired, InHook, InjectTag, Warranted,
          Before, Running
    <2>3. QED
      BY <1>2, <2>1, <2>2 DEF IInv
  <1>6. CASE \E upt \in {now, 0} : InjectWarrant(upt)
    <2> PICK upt \in {now, 0} : InjectWarrant(upt)
      BY <1>6
    <2>1. upt + Ttl \in Nat /\ now \in 0..MaxTime
      BY DEF IInv, TypeOK
    <2>2. TypeOK'
      BY <2>1 DEF IInv, TypeOK, InjectWarrant, kernel, dumpVars
    <2>3. oh_warrants' # NoEntry
      BY DEF InjectWarrant, NoEntry
    <2>4. LoaderOrder'
      BY <2>3 DEF IInv, TypeOK, LoaderOrder, InjectWarrant, Warranted, Running
    <2>5. ExpirySeen'
      <3>1. ~SawExpired
        BY DEF IInv, ExpirySeen, InjectWarrant, Before
      <3>2. QED
        BY <1>3, <3>1 DEF ExpirySeen, SawExpired, InHook
    <2>6. QED
      BY <1>2, <2>2, <2>4, <2>5 DEF IInv
  <1>7. CASE Attach \/ Check \/ Pause \/ Fail \/ OnSig \/ Exit \/ Kill
    <2>1. /\ UNCHANGED gateMaps /\ now' = now
          /\ attached' \in BOOLEAN /\ stop' \in BOOLEAN /\ pending' \in BOOLEAN
          /\ loader' \in {"load", "tag", "warrant", "attach", "check", "enter", "paused",
                          "dump", "exit"}
      BY <1>7 DEF IInv, TypeOK, Attach, Check, Pause, Fail, OnSig, Exit, Kill
    <2>2. TypeOK'
      BY <1>1, <2>1 DEF IInv, TypeOK, gateMaps, kernel, dumpVars
    <2>3. LoaderOrder'
      BY <1>7, <2>1
      DEF IInv, TypeOK, LoaderOrder, Attach, Check, Pause, Fail, OnSig, Exit, Kill, gateMaps,
          Warranted, Running
    <2>4. ExpirySeen'
      <3>1. loader' \in Before => loader \in Before
        BY <1>7 DEF Attach, Check, Pause, Fail, OnSig, Exit, Kill, Before
      <3>2. QED
        BY <1>3, <2>1, <3>1 DEF IInv, ExpirySeen, SawExpired, InHook, gateMaps
    <2>5. QED
      BY <1>2, <2>2, <2>3, <2>4 DEF IInv
  <1>8. CASE Tick
    <2>1. TypeOK'
      BY <1>8 DEF IInv, TypeOK, Tick, loaderVars, gateMaps, kernel, dumpVars
    <2>2. LoaderOrder'
      BY <1>8 DEF IInv, LoaderOrder, Tick, loaderVars, gateMaps, Warranted
    <2>3. ExpirySeen'
      BY <1>3, <1>8
      DEF IInv, TypeOK, ExpirySeen, SawExpired, InHook, Tick, loaderVars, gateMaps
    <2>4. QED
      BY <1>2, <2>1, <2>2, <2>3 DEF IInv
  <1>9. QED
    BY <1>4, <1>5, <1>6, <1>7, <1>8

\* A slot is copied.  The total is copied after the classes, so it is at least
\* what they were; the device table after the total, so it is one short at most.
LEMMA ReadCellIInv ==
  ASSUME IInv, NEW c \in CPU, ReadCell(c)
  PROVE  IInv'
  <1>1. /\ pos \in Key /\ pos \in Nat /\ c \notin copied
        /\ report' = [report EXCEPT ![pos][c] = cell[pos][c]]
        /\ UNCHANGED <<loaderVars, gateMaps, attached, kernel, now>>
    BY Keys DEF ReadCell, IInv, TypeOK
  <1>2. /\ report' \in [Key -> [CPU -> Nat]]
        /\ \A k \in Key, d \in CPU :
             report'[k][d] = IF k = pos /\ d = c THEN cell[k][d] ELSE report[k][d]
    BY <1>1 DEF IInv, TypeOK
  <1>3. pos' \in 0..(LastKey + 1) /\ copied' \subseteq CPU
    <2>1. pos <= LastKey /\ pos \in Nat /\ LastKey \in Nat /\ copied \subseteq CPU
      BY <1>1, Keys DEF ReadCell, IInv, TypeOK
    <2>2. CASE copied \cup {c} = CPU /\ pos' = pos + 1 /\ copied' = {}
      BY <2>1, <2>2
    <2>3. CASE pos' = pos /\ copied' = copied \cup {c}
      BY <2>1, <2>3
    <2>4. QED
      BY <2>2, <2>3 DEF ReadCell
  <1>4. TypeOK'
    BY <1>1, <1>2, <1>3 DEF IInv, TypeOK, loaderVars, gateMaps, kernel
  <1>5. LoaderOrder' /\ TaggedNeverMisses' /\ ExpirySeen' /\ Counted'
    <2>1. UNCHANGED cell /\ UNCHANGED hook
      BY <1>1 DEF kernel
    <2>2. QED
      BY <1>1, <2>1, CountedStays
      DEF IInv, LoaderOrder, TaggedNeverMisses, ExpirySeen, SawExpired, InHook, loaderVars,
          gateMaps, Warranted
  <1>6. Snapshot'
    <2> SUFFICES ASSUME NEW d \in CPU
                 PROVE  /\ \A k \in Key : report'[k][d] <= cell'[k][d]
                        /\ HasRead(6, d)' => Classes(report, d)' <= report'[6][d]
                        /\ HasRead(DevKey("read"), d)' =>
                             report'[6][d] <= report'[DevKey("read")][d] + cell'[DevKey("write")][d] + 1
                        /\ HasRead(DevKey("write"), d)' =>
                             report'[6][d] <= Devices(report, d)' + 1
      BY DEF Snapshot, DevKey, HasRead
    <2>1. cell' = cell
      BY <1>1 DEF kernel
    <2>2. \A k \in Key : report[k][d] <= cell[k][d] /\ report[k][d] \in Nat /\ cell[k][d] \in Nat
      BY DEF IInv, TypeOK, Snapshot
    <2>3. \A k \in Key : report'[k][d] <= cell'[k][d]
      BY <1>2, <2>1, <2>2
    \* A key is read for d when it was before, or when this is the step that reads it.
    <2>4. ASSUME NEW k \in Key, HasRead(k, d)'
          PROVE  HasRead(k, d) \/ (k = pos /\ d = c)
      <3>1. k \in Nat /\ (pos' > k \/ (pos' = k /\ d \in copied'))
        BY <2>4, Keys DEF HasRead, Key
      <3>2. CASE copied \cup {c} = CPU /\ pos' = pos + 1 /\ copied' = {}
        BY <1>1, <3>1, <3>2 DEF HasRead
      <3>3. CASE pos' = pos /\ copied' = copied \cup {c}
        BY <1>1, <3>1, <3>3 DEF HasRead
      <3>4. QED
        BY <3>2, <3>3 DEF ReadCell
    <2> DEFINE R == DevKey("read")
               W == DevKey("write")
    <2>5. R \in Key /\ W \in Key /\ R \in Nat /\ R > 6 /\ W = R + 1
      BY Keys DEF Key
    <2>6. /\ HasRead(6, d) => Classes(report, d) <= report[6][d]
          /\ HasRead(R, d) => report[6][d] <= report[R][d] + cell[W][d] + 1
          /\ HasRead(W, d) => report[6][d] <= Devices(report, d) + 1
      BY DEF IInv, Snapshot
    <2>7. /\ cell[6][d] = Classes(cell, d) + Between(d, {"code"})
          /\ cell[6][d] = Devices(cell, d) + Between(d, {"code", "dev"})
          /\ Between(d, {"code"}) \in 0..1 /\ Between(d, {"code", "dev"}) \in 0..1
      BY DEF IInv, Counted, Between
    <2>8. /\ Devices(report, d) = report[W][d] + report[R][d]
          /\ Devices(report, d)' = report'[W][d] + report'[R][d]
          /\ Devices(cell, d) = cell[W][d] + cell[R][d]
      BY DEF Devices, DevKey
    <2> HIDE DEF R, W
    \* What a key has for d is not read again.
    <2>9. ASSUME NEW k \in Key, NEW j \in Key, j <= k, HasRead(k, d)
          PROVE  report'[j][d] = report[j][d]
      <3>1. j \in Nat /\ k \in Nat
        BY DEF Key
      <3>2. ~(j = pos /\ d = c)
        BY <1>1, <2>9, <3>1 DEF HasRead
      <3>3. QED
        BY <1>2, <3>2
    <2>10. HasRead(6, d)' => Classes(report, d)' <= report'[6][d]
      <3>1. CASE HasRead(6, d)
        <4>1. \A j \in {0, 1, 2, 3, 4, 5, 6} : report'[j][d] = report[j][d]
          BY <2>9, <3>1, Keys
        <4>2. Classes(report, d)' = Classes(report, d)
          BY <4>1 DEF Classes
        <4>3. QED
          BY <2>6, <3>1, <4>1, <4>2
      <3>2. CASE pos = 6 /\ d = c
        <4>1. report'[6][d] = cell[6][d]
          BY <1>2, <3>2, Keys
        <4>2. /\ report'[0][d] = report[0][d] /\ report'[1][d] = report[1][d]
              /\ report'[2][d] = report[2][d] /\ report'[3][d] = report[3][d]
              /\ report'[4][d] = report[4][d] /\ report'[5][d] = report[5][d]
          BY <1>2, <3>2, Keys
        <4>3. /\ report[0][d] <= cell[0][d] /\ report[1][d] <= cell[1][d]
              /\ report[2][d] <= cell[2][d] /\ report[3][d] <= cell[3][d]
              /\ report[4][d] <= cell[4][d] /\ report[5][d] <= cell[5][d]
              /\ report[0][d] \in Nat /\ report[1][d] \in Nat /\ report[2][d] \in Nat
              /\ report[3][d] \in Nat /\ report[4][d] \in Nat /\ report[5][d] \in Nat
              /\ cell[0][d] \in Nat /\ cell[1][d] \in Nat /\ cell[2][d] \in Nat
              /\ cell[3][d] \in Nat /\ cell[4][d] \in Nat /\ cell[5][d] \in Nat
          BY <2>2, Keys
        <4>4. Classes(report, d)' <= Classes(cell, d) /\ Classes(cell, d) \in Nat
              /\ Classes(report, d)' \in Nat
          BY <4>2, <4>3 DEF Classes
        <4>5. QED
          BY <2>7, <4>1, <4>4
      <3>3. QED
        BY <2>4, <3>1, <3>2, Keys
    <2>11. /\ report[6][d] \in Nat /\ report[R][d] \in Nat /\ report[W][d] \in Nat
           /\ cell[6][d] \in Nat /\ cell[R][d] \in Nat /\ cell[W][d] \in Nat
           /\ report[6][d] <= cell[6][d] /\ report[W][d] <= cell[W][d]
      BY <2>2, <2>5, Keys
    <2>12. HasRead(R, d)' => report'[6][d] <= report'[R][d] + cell'[W][d] + 1
      <3>1. CASE HasRead(R, d)
        <4>1. report'[6][d] = report[6][d] /\ report'[R][d] = report[R][d]
          BY <2>5, <2>9, <3>1, Keys
        <4>2. QED
          BY <2>1, <2>6, <3>1, <4>1
      <3>2. CASE pos = R /\ d = c
        <4>1. report'[6][d] = report[6][d] /\ report'[R][d] = cell[R][d]
          BY <1>2, <2>5, <3>2, Keys
        <4>2. QED
          BY <2>1, <2>7, <2>8, <2>11, <4>1
      <3>3. QED
        BY <2>4, <2>5, <3>1, <3>2
    <2>13. HasRead(W, d)' => report'[6][d] <= Devices(report, d)' + 1
      <3>1. CASE HasRead(W, d)
        <4>1. /\ report'[6][d] = report[6][d] /\ report'[R][d] = report[R][d]
              /\ report'[W][d] = report[W][d]
          BY <2>5, <2>9, <3>1, Keys
        <4>2. QED
          BY <2>6, <2>8, <3>1, <4>1
      <3>2. CASE pos = W /\ d = c
        <4>1. /\ report'[6][d] = report[6][d] /\ report'[R][d] = report[R][d]
              /\ report'[W][d] = cell[W][d]
          BY <1>2, <2>5, <3>2, Keys
        <4>2. HasRead(R, d)
          BY <2>5, <3>2 DEF HasRead
        <4>3. QED
          BY <2>6, <2>8, <2>11, <4>1, <4>2
      <3>3. QED
        BY <2>4, <2>5, <3>1, <3>2
    <2>14. QED
      BY <2>3, <2>10, <2>12, <2>13 DEF R, W
  <1>7. QED
    BY <1>4, <1>5, <1>6 DEF IInv

LEMMA NextIInv == IInv /\ [Next]_vars => IInv'
  <1> SUFFICES ASSUME IInv, [Next]_vars PROVE IInv'
    OBVIOUS
  <1>1. CASE \E c \in CPU, cg \in Cgroup, mode \in Mode : Open(c, cg, mode)
    BY <1>1, OpenIInv
  <1>2. CASE \E c \in CPU : Hook(c)
    BY <1>2, RecordIInv, BumpTotalIInv, BumpCodeIInv, BumpDevIInv DEF Hook
  <1>3. CASE \E c \in CPU : ReadCell(c)
    BY <1>3, ReadCellIInv
  <1>4. CASE Load \/ InjectTag \/ (\E upt \in {now, 0} : InjectWarrant(upt)) \/ Attach
               \/ Check \/ Pause \/ Fail \/ OnSig \/ Exit \/ Kill \/ Tick
    BY <1>4, MainIInv
  <1>5. CASE UNCHANGED vars
    <2>1. UNCHANGED kernel /\ UNCHANGED dumpVars
      BY <1>5 DEF vars, kernel
    <2>2. TaggedNeverMisses' /\ Counted' /\ Snapshot'
      BY <2>1, MainKeeps
    <2>3. TypeOK' /\ LoaderOrder' /\ ExpirySeen'
      BY <1>5
      DEF IInv, TypeOK, LoaderOrder, ExpirySeen, SawExpired, InHook, Warranted, vars,
          loaderVars, gateMaps, dumpVars
    <2>4. QED
      BY <2>2, <2>3 DEF IInv
  <1>6. QED
    BY <1>1, <1>2, <1>3, <1>4, <1>5 DEF Next, Main

LEMMA Invariance == Spec => []IInv
  <1>1. Init => IInv
    BY InitIInv
  <1>2. IInv /\ [Next]_vars => IInv'
    BY NextIInv
  <1>3. QED
    BY <1>1, <1>2, PTL DEF Spec

-----------------------------------------------------------------------------
(* The theorems *)

\* The state of a run of gate has the type TypeOK gives it.
THEOREM TypeCorrect == Spec => []TypeOK
  <1>1. IInv => TypeOK
    BY DEF IInv
  <1>2. QED
    BY <1>1, Invariance, PTL

\* main() fills the maps before it attaches, so tier D never counts a write of
\* the tagged cgroup as a miss.
THEOREM TaggedNeverMissesAlways == Spec => []TaggedNeverMisses
  <1>1. IInv => TaggedNeverMisses
    BY DEF IInv
  <1>2. QED
    BY <1>1, Invariance, PTL

\* The classes of dump()'s report never add up to more than its total, and its
\* device table is behind the total by one open a CPU at most.
THEOREM ReportTalliesAlways == Spec => []ReportTallies
  <1>1. ASSUME IInv, NEW c \in CPU, pos > OH_C_TOTAL
        PROVE  Classes(report, c) <= report[OH_C_TOTAL][c]
    BY <1>1 DEF IInv, Snapshot, HasRead
  <1>2. ASSUME IInv, NEW c \in CPU, pos > LastKey
        PROVE  report[OH_C_TOTAL][c] <= Devices(report, c) + 1
    <2>1. HasRead(DevKey("write"), c)
      BY <1>2, Keys DEF HasRead
    <2>2. QED
      BY <1>2, <2>1 DEF IInv, Snapshot
  <1>3. IInv => ReportTallies
    BY <1>1, <1>2 DEF ReportTallies
  <1>4. QED
    BY <1>3, Invariance, PTL

\* No CPU finds the warrant valid after one has found it expired.
THEOREM ExpiryIsFinalAlways == Spec => ExpiryIsFinal
  <1> DEFINE A == \A c \in CPU : (SawExpired /\ ~InHook(c) /\ InHook(c)')
                                   => hook'[c].code # OH_R_TAG_HIT
  <1>1. IInv /\ [Next]_vars => [A]_vars
    <2> SUFFICES ASSUME IInv, Next, NEW c \in CPU, SawExpired, ~InHook(c), InHook(c)'
                 PROVE  hook'[c].code # OH_R_TAG_HIT
      OBVIOUS
    <2>1. PICK cg \in Cgroup, mode \in Mode : Open(c, cg, mode)
      <3>1. CASE \E d \in CPU, cg \in Cgroup, mode \in Mode : Open(d, cg, mode)
        <4>1. PICK d \in CPU, cg \in Cgroup, mode \in Mode : Open(d, cg, mode)
          BY <3>1
        <4>2. d = c
          BY <4>1 DEF Open, InHook, IInv, TypeOK
        <4>3. QED
          BY <4>1, <4>2
      <3>2. CASE \E d \in CPU : Hook(d)
        <4>1. PICK d \in CPU : Hook(d)
          BY <3>2
        <4>2. d # c
          BY <4>1 DEF Hook, Record, BumpTotal, BumpCode, BumpDev, HookAt, InHook
        <4>3. hook'[c] = hook[c]
          BY <4>1, <4>2 DEF Hook, Record, BumpTotal, BumpCode, BumpDev, HookAt, IInv, TypeOK
        <4>4. QED
          BY <4>3 DEF InHook
      <3>3. CASE Main \/ Fail \/ OnSig \/ Kill \/ Tick
        <4>1. hook' = hook
          BY <3>3 DEF Main, Load, InjectTag, InjectWarrant, Attach, Check, Pause, Exit, ReadCell,
                      Fail, OnSig, Kill, Tick, kernel
        <4>2. QED
          BY <4>1 DEF InHook
      <3>4. QED
        BY <3>1, <3>2, <3>3 DEF Next
    <2>2. hook'[c].code = oh_decide(cg, mode)
      BY <2>1 DEF Open, IInv, TypeOK
    <2>3. now > oh_warrants.expires_ns
      BY DEF IInv, ExpirySeen
    <2>4. QED
      BY <2>2, <2>3 DEF oh_decide
  <1>2. QED
    BY <1>1, Invariance, PTL DEF Spec, ExpiryIsFinal

-----------------------------------------------------------------------------
(* The sum over the buckets *)

\* A non-empty set of naturals has a least element: what the induction below is
\* made of.
LEMMA NatLeast ==
  ASSUME NEW T, T \subseteq Nat, T # {}
  PROVE  \E x \in T : \A y \in T : x <= y
  <1> DEFINE R == OpToRel(<, Nat)
  <1>1. IsWellFoundedOn(R, Nat)
    BY NatLessThanWellFounded
  <1>2. \A x, y \in Nat : y < x => <<y, x>> \in R
    BY DEF OpToRel
  <1> HIDE DEF R
  <1>3. PICK x \in T : \A y \in T : ~(<<y, x>> \in R)
    BY <1>1, WFMin
  <1>4. ASSUME NEW y \in T PROVE x <= y
    <2>1. x \in Nat /\ y \in Nat /\ ~(y < x)
      BY <1>2, <1>3
    <2>2. QED
      BY <2>1
  <1>5. QED
    BY <1>4

Bucket == 0..(LatMax - 1)
First(s) == CHOOSE x \in s : TRUE

LEMMA BucketSets ==
  ASSUME NEW s \in SUBSET Bucket
  PROVE  /\ Cardinality(s) \in Nat /\ Cardinality(s) <= LatMax
         /\ s # {} => /\ First(s) \in s /\ First(s) \in Bucket
                      /\ s \ {First(s)} \in SUBSET Bucket
                      /\ Cardinality(s \ {First(s)}) = Cardinality(s) - 1
  <1>1. IsFiniteSet(Bucket) /\ Cardinality(Bucket) = LatMax
    BY FS_Interval DEF Bucket
  <1>2. IsFiniteSet(s) /\ Cardinality(s) \in Nat /\ Cardinality(s) <= LatMax
    BY <1>1, FS_Subset, FS_CardinalityType
  <1>3. ASSUME s # {} PROVE First(s) \in s
    BY <1>3 DEF First
  <1>4. ASSUME s # {} PROVE Cardinality(s \ {First(s)}) = Cardinality(s) - 1
    <2> DEFINE x == First(s)
    <2>1. x \in s
      BY <1>3, <1>4
    <2> HIDE DEF x
    <2>2. Cardinality(s \ {x}) = Cardinality(s) - 1
      BY <1>2, <2>1, FS_RemoveElement
    <2>3. QED
      BY <2>2 DEF x
  <1>5. QED
    BY <1>2, <1>3, <1>4

\* What holds of the empty set, and of a set when it holds of the set without
\* its first element, holds of every set of buckets.
LEMMA BucketInduction ==
  ASSUME NEW P, {} \in P,
         \A s \in SUBSET Bucket : s # {} /\ s \ {First(s)} \in P => s \in P
  PROVE  SUBSET Bucket \subseteq P
  <1> SUFFICES ASSUME NEW r \in SUBSET Bucket, r \notin P PROVE FALSE
    OBVIOUS
  <1> DEFINE T == {Cardinality(s) : s \in (SUBSET Bucket) \ P}
  <1>1. T \subseteq Nat /\ T # {}
    <2>1. \A s \in SUBSET Bucket : Cardinality(s) \in Nat
      BY BucketSets
    <2>2. Cardinality(r) \in T
      OBVIOUS
    <2>3. QED
      BY <2>1, <2>2
  <1>2. PICK n \in T : \A m \in T : n <= m
    <2> HIDE DEF T
    <2>1. QED
      BY <1>1, NatLeast
  <1>3. PICK s \in (SUBSET Bucket) \ P : Cardinality(s) = n
    BY <1>2
  <1>4. s # {} /\ s \ {First(s)} \notin P
    <2> HIDE DEF T
    <2>1. QED
      BY <1>3
  <1>5. Cardinality(s \ {First(s)}) \in T /\ Cardinality(s \ {First(s)}) = n - 1 /\ n \in Int
    BY <1>1, <1>3, <1>4, BucketSets
  <1>6. QED
    BY <1>2, <1>5

\* The function that Buckets folds with.
Step(f, it, s) == IF s = {} THEN 0 ELSE f[First(s)] + it[s \ {First(s)}]
Sums(f, it) == it \in [SUBSET Bucket -> Nat] /\ \A s \in SUBSET Bucket : it[s] = Step(f, it, s)

LEMMA SumsExist ==
  ASSUME NEW f \in [Bucket -> Nat]
  PROVE  \E it : Sums(f, it)
  <1> DEFINE Upto(n, it) == it \in [SUBSET Bucket -> Nat]
               /\ \A s \in SUBSET Bucket : Cardinality(s) <= n => it[s] = Step(f, it, s)
             P == {n \in Nat : \E it : Upto(n, it)}
  <1>1. 0 \in P
    <2> DEFINE z == [s \in SUBSET Bucket |-> 0]
    <2>1. ASSUME NEW s \in SUBSET Bucket, Cardinality(s) <= 0 PROVE s = {}
      <3>1. Cardinality(s) \in Nat /\ (s # {} => Cardinality(s \ {First(s)}) = Cardinality(s) - 1
              /\ Cardinality(s \ {First(s)}) \in Nat)
        BY BucketSets
      <3>2. QED
        BY <2>1, <3>1
    <2>2. Upto(0, z)
      BY <2>1 DEF Step
    <2>3. QED
      BY <2>2
  <1>2. ASSUME NEW n \in P PROVE n + 1 \in P
    <2>1. PICK h : Upto(n, h)
      OBVIOUS
    <2> DEFINE g == [s \in SUBSET Bucket |-> IF Cardinality(s) <= n + 1 THEN Step(f, h, s) ELSE 0]
    <2>2. ASSUME NEW s \in SUBSET Bucket PROVE Step(f, h, s) \in Nat
      <3>1. s # {} => f[First(s)] \in Nat /\ h[s \ {First(s)}] \in Nat
        BY <2>1, BucketSets
      <3>2. QED
        BY <3>1 DEF Step
    <2>3. ASSUME NEW s \in SUBSET Bucket, Cardinality(s) <= n + 1, s # {}
          PROVE  h[s \ {First(s)}] = g[s \ {First(s)}]
      <3> DEFINE r == s \ {First(s)}
      <3>1. r \in SUBSET Bucket /\ Cardinality(r) = Cardinality(s) - 1 /\ Cardinality(s) \in Nat
        BY <2>3, BucketSets
      <3>2. Cardinality(r) <= n /\ Cardinality(r) <= n + 1
        BY <2>3, <3>1
      <3> HIDE DEF r
      <3>3. g[r] = Step(f, h, r) /\ h[r] = Step(f, h, r)
        BY <2>1, <3>1, <3>2
      <3>4. QED
        BY <3>3 DEF r
    <2>4. ASSUME NEW s \in SUBSET Bucket, Cardinality(s) <= n + 1 PROVE g[s] = Step(f, g, s)
      <3>1. g[s] = Step(f, h, s)
        BY <2>4
      <3> HIDE DEF g
      <3>2. QED
        BY <2>3, <2>4, <3>1 DEF Step
    <2>5. g \in [SUBSET Bucket -> Nat]
      BY <2>2
    <2> HIDE DEF g
    <2>6. Upto(n + 1, g)
      BY <2>4, <2>5
    <2>7. QED
      BY <2>6
  <1>3. LatMax \in P
    <2> DEFINE T == Nat \ P
    <2> HIDE DEF P
    <2> SUFFICES ASSUME T # {} PROVE FALSE
      OBVIOUS
    <2>1. T \subseteq Nat
      OBVIOUS
    <2>2. PICK n \in T : \A m \in T : n <= m
      BY <2>1, NatLeast
    <2>3. n \in Nat /\ n # 0 /\ n - 1 \in Nat /\ n - 1 \notin T
      BY <1>1, <2>2
    <2>4. QED
      BY <1>2, <2>2, <2>3
  <1>4. PICK it : Upto(LatMax, it)
    BY <1>3
  <1>5. \A s \in SUBSET Bucket : Cardinality(s) <= LatMax
    BY BucketSets
  <1>6. QED
    BY <1>4, <1>5 DEF Sums

\* Buckets(of, c) is the last value of such a function.
LEMMA BucketsSum ==
  ASSUME NEW of, NEW c, NEW f \in [Bucket -> Nat], \A b \in Bucket : f[b] = of[LatKey(b)][c]
  PROVE  \E it : Sums(f, it) /\ Buckets(of, c) = it[Bucket]
  <1> DEFINE Rec(it) == it = [s \in SUBSET Bucket |->
                                IF s = {} THEN 0
                                ELSE of[LatKey(First(s))][c] + it[s \ {First(s)}]]
  <1>1. Buckets(of, c) = (CHOOSE it : Rec(it))[Bucket]
    BY DEF Buckets, MapThenSumSet, MapThenFoldSet, Bucket, First
  <1>2. ASSUME NEW it, Sums(f, it) PROVE Rec(it)
    BY <1>2, BucketSets DEF Sums, Step
  <1>3. ASSUME NEW it, Rec(it) PROVE Sums(f, it)
    <2>1. \A s \in SUBSET Bucket : it[s] = Step(f, it, s)
      BY <1>3, BucketSets DEF Step
    <2> DEFINE P == {s \in SUBSET Bucket : it[s] \in Nat}
    <2>2. {} \in P
      BY <2>1 DEF Step
    <2>3. ASSUME NEW s \in SUBSET Bucket, s # {}, s \ {First(s)} \in P PROVE s \in P
      <3>1. f[First(s)] \in Nat /\ it[s \ {First(s)}] \in Nat
        BY <2>3, BucketSets
      <3>2. it[s] = f[First(s)] + it[s \ {First(s)}]
        BY <2>1, <2>3 DEF Step
      <3>3. QED
        BY <3>1, <3>2
    <2> HIDE DEF P
    <2>4. SUBSET Bucket \subseteq P
      BY <2>2, <2>3, BucketInduction
    <2>5. it \in [SUBSET Bucket -> Nat]
      BY <1>3, <2>4 DEF P
    <2>6. QED
      BY <2>1, <2>5 DEF Sums
  <1>4. \E it : Rec(it)
    BY <1>2, SumsExist
  <1> HIDE DEF Rec
  <1>5. Rec(CHOOSE it : Rec(it))
    BY <1>4
  <1>6. QED
    BY <1>1, <1>3, <1>5

\* A histogram that has no bucket above another's has no larger sum.
LEMMA SumsMonotone ==
  ASSUME NEW f \in [Bucket -> Nat], NEW g \in [Bucket -> Nat],
         \A b \in Bucket : f[b] <= g[b], NEW i, Sums(f, i), NEW j, Sums(g, j)
  PROVE  i[Bucket] <= j[Bucket]
  <1> DEFINE P == {s \in SUBSET Bucket : i[s] <= j[s]}
  <1>1. {} \in P
    <2>1. {} \in SUBSET Bucket
      OBVIOUS
    <2>2. i[{}] = 0 /\ j[{}] = 0
      BY <2>1 DEF Sums, Step
    <2>3. QED
      BY <2>1, <2>2
  <1>2. ASSUME NEW s \in SUBSET Bucket, s # {}, s \ {First(s)} \in P PROVE s \in P
    <2>1. First(s) \in Bucket /\ s \ {First(s)} \in SUBSET Bucket
      BY <1>2, BucketSets
    <2>2. /\ i[s] = f[First(s)] + i[s \ {First(s)}] /\ j[s] = g[First(s)] + j[s \ {First(s)}]
          /\ i[s \ {First(s)}] <= j[s \ {First(s)}] /\ f[First(s)] <= g[First(s)]
          /\ i[s \ {First(s)}] \in Nat /\ j[s \ {First(s)}] \in Nat
          /\ f[First(s)] \in Nat /\ g[First(s)] \in Nat
      BY <1>2, <2>1 DEF Sums, Step
    <2>3. QED
      BY <2>2
  <1> HIDE DEF P
  <1>3. SUBSET Bucket \subseteq P
    BY <1>1, <1>2, BucketInduction
  <1>4. QED
    BY <1>3 DEF P

\* One more in one bucket is one more in the sum.
LEMMA SumsBump ==
  ASSUME NEW f \in [Bucket -> Nat], NEW g \in [Bucket -> Nat], NEW b \in Bucket,
         g[b] = f[b] + 1, \A d \in Bucket \ {b} : g[d] = f[d],
         NEW i, Sums(f, i), NEW j, Sums(g, j)
  PROVE  j[Bucket] = i[Bucket] + 1
  <1> DEFINE P == {s \in SUBSET Bucket : j[s] = i[s] + (IF b \in s THEN 1 ELSE 0)}
  <1>1. {} \in P
    <2>1. {} \in SUBSET Bucket
      OBVIOUS
    <2>2. i[{}] = 0 /\ j[{}] = 0
      BY <2>1 DEF Sums, Step
    <2>3. QED
      BY <2>1, <2>2
  <1>2. ASSUME NEW s \in SUBSET Bucket, s # {}, s \ {First(s)} \in P PROVE s \in P
    <2> DEFINE x == First(s)
               r == s \ {First(s)}
    <2>1. x \in s /\ x \in Bucket /\ r \in SUBSET Bucket
      BY <1>2, BucketSets
    <2>2. b \in s <=> (b \in r \/ x = b)
      BY <2>1
    <2>3. ~(b \in r /\ x = b)
      OBVIOUS
    <2>4. /\ i[s] = f[x] + i[r] /\ j[s] = g[x] + j[r]
          /\ j[r] = i[r] + (IF b \in r THEN 1 ELSE 0)
          /\ g[x] = f[x] + (IF x = b THEN 1 ELSE 0)
          /\ i[r] \in Nat /\ j[r] \in Nat /\ f[x] \in Nat /\ g[x] \in Nat
      BY <1>2, <2>1 DEF Sums, Step
    <2> HIDE DEF x, r
    <2>5. j[s] = i[s] + (IF b \in s THEN 1 ELSE 0)
      BY <2>2, <2>3, <2>4
    <2>6. QED
      BY <2>5
  <1> HIDE DEF P
  <1>3. SUBSET Bucket \subseteq P
    BY <1>1, <1>2, BucketInduction
  <1>4. QED
    BY <1>3 DEF P
-----------------------------------------------------------------------------
(* The histogram *)

\* What dump() will have of a slot if nothing is counted any more: what it has
\* read, and the slot itself where it has not been.
Seen == [k \in Key |-> [c \in CPU |-> IF HasRead(k, c) THEN report[k][c] ELSE cell[k][c]]]

\* An open is in a bucket before it is in the total, so what is still to be read
\* of the histogram makes up for what the total was when it was read.
Histogram ==
  \A c \in CPU :
    /\ Buckets(cell, c) = cell[OH_C_TOTAL][c] + Between(c, {"total"})
    /\ HasRead(OH_C_TOTAL, c) => report[OH_C_TOTAL][c] <= Buckets(Seen, c)

Counts == [Key -> [CPU -> Nat]]

\* The histogram of a CPU, as a function on the buckets.
LEMMA BucketsTotal ==
  ASSUME NEW of \in Counts, NEW c \in CPU
  PROVE  LET f == [b \in Bucket |-> of[LatKey(b)][c]]
         IN  f \in [Bucket -> Nat] /\ \E it : Sums(f, it) /\ Buckets(of, c) = it[Bucket]
  <1> DEFINE f == [b \in Bucket |-> of[LatKey(b)][c]]
  <1>1. \A b \in Bucket : LatKey(b) \in Key
    BY Keys DEF Bucket
  <1>2. f \in [Bucket -> Nat] /\ \A b \in Bucket : f[b] = of[LatKey(b)][c]
    BY <1>1 DEF Counts
  <1> HIDE DEF f
  <1>3. \E it : Sums(f, it) /\ Buckets(of, c) = it[Bucket]
    BY <1>2, BucketsSum
  <1>4. QED
    BY <1>2, <1>3 DEF f

\* The sums are naturals, they grow with their buckets and with nothing else.
LEMMA BucketsNat ==
  ASSUME NEW of \in Counts, NEW c \in CPU
  PROVE  Buckets(of, c) \in Nat
  BY BucketsTotal DEF Sums

LEMMA BucketsGrow ==
  ASSUME NEW of \in Counts, NEW to \in Counts, NEW c \in CPU,
         \A b \in Bucket : of[LatKey(b)][c] <= to[LatKey(b)][c]
  PROVE  Buckets(of, c) <= Buckets(to, c)
  <1> DEFINE f == [b \in Bucket |-> of[LatKey(b)][c]]
             g == [b \in Bucket |-> to[LatKey(b)][c]]
  <1>1. PICK i : Sums(f, i) /\ Buckets(of, c) = i[Bucket]
    BY BucketsTotal
  <1>2. PICK j : Sums(g, j) /\ Buckets(to, c) = j[Bucket]
    BY BucketsTotal
  <1>3. f \in [Bucket -> Nat] /\ g \in [Bucket -> Nat]
    BY BucketsTotal
  <1>4. \A b \in Bucket : f[b] <= g[b]
    OBVIOUS
  <1> HIDE DEF f, g
  <1>5. QED
    BY <1>1, <1>2, <1>3, <1>4, SumsMonotone

LEMMA BucketsSame ==
  ASSUME NEW of \in Counts, NEW to \in Counts, NEW c \in CPU,
         \A b \in Bucket : of[LatKey(b)][c] = to[LatKey(b)][c]
  PROVE  Buckets(of, c) = Buckets(to, c)
  <1>1. \A b \in Bucket : of[LatKey(b)][c] \in Nat /\ to[LatKey(b)][c] \in Nat
    BY Keys DEF Bucket, Counts
  <1>2. Buckets(of, c) <= Buckets(to, c) /\ Buckets(to, c) <= Buckets(of, c)
    BY <1>1, BucketsGrow
  <1>3. Buckets(of, c) \in Nat /\ Buckets(to, c) \in Nat
    BY BucketsNat
  <1>4. QED
    BY <1>2, <1>3

LEMMA BucketsBump ==
  ASSUME NEW of \in Counts, NEW to \in Counts, NEW c \in CPU, NEW b \in Bucket,
         to[LatKey(b)][c] = of[LatKey(b)][c] + 1,
         \A d \in Bucket \ {b} : to[LatKey(d)][c] = of[LatKey(d)][c]
  PROVE  Buckets(to, c) = Buckets(of, c) + 1
  <1> DEFINE f == [d \in Bucket |-> of[LatKey(d)][c]]
             g == [d \in Bucket |-> to[LatKey(d)][c]]
  <1>1. PICK i : Sums(f, i) /\ Buckets(of, c) = i[Bucket]
    BY BucketsTotal
  <1>2. PICK j : Sums(g, j) /\ Buckets(to, c) = j[Bucket]
    BY BucketsTotal
  <1>3. f \in [Bucket -> Nat] /\ g \in [Bucket -> Nat]
    BY BucketsTotal
  <1>4. g[b] = f[b] + 1 /\ \A d \in Bucket \ {b} : g[d] = f[d]
    OBVIOUS
  <1> HIDE DEF f, g
  <1>5. QED
    BY <1>1, <1>2, <1>3, <1>4, SumsBump

LEMMA SeenType ==
  ASSUME TypeOK
  PROVE  /\ cell \in Counts /\ report \in Counts /\ Seen \in Counts
         /\ \A k \in Key, c \in CPU :
              Seen[k][c] = IF HasRead(k, c) THEN report[k][c] ELSE cell[k][c]
  BY DEF TypeOK, Counts, Seen

LEMMA CountsNat ==
  ASSUME NEW of \in Counts, NEW c \in CPU
  PROVE  of[OH_C_TOTAL][c] \in Nat /\ \A k \in Key : of[k][c] \in Nat
  <1>1. 6 \in Key
    BY Keys
  <1>2. QED
    BY <1>1 DEF Counts

\* Counting does not take anything out of what there is to see.
LEMMA SeenGrows ==
  ASSUME TypeOK, TypeOK', Histogram, UNCHANGED dumpVars, NEW c \in CPU,
         \A k \in Key : cell[k][c] <= cell'[k][c], HasRead(OH_C_TOTAL, c)'
  PROVE  report'[OH_C_TOTAL][c] <= Buckets(Seen', c)
  <1>1. /\ HasRead(OH_C_TOTAL, c) /\ report' = report
        /\ \A k : HasRead(k, c)' <=> HasRead(k, c)
    BY DEF HasRead, dumpVars
  <1>2. Seen \in Counts /\ Seen' \in Counts
    <2>1. Seen \in Counts
      BY SeenType
    <2>2. Seen' \in Counts
      BY DEF TypeOK, Counts, Seen
    <2>3. QED
      BY <2>1, <2>2
  <1>3. ASSUME NEW b \in Bucket PROVE Seen[LatKey(b)][c] <= Seen'[LatKey(b)][c]
    <2> DEFINE k == LatKey(b)
    <2>1. k \in Key
      BY Keys DEF Bucket
    <2> HIDE DEF k
    <2>2. /\ Seen[k][c] = IF HasRead(k, c) THEN report[k][c] ELSE cell[k][c]
          /\ Seen'[k][c] = IF HasRead(k, c) THEN report[k][c] ELSE cell'[k][c]
      BY <1>1, <2>1 DEF Seen
    <2>3. report[k][c] \in Nat /\ cell[k][c] <= cell'[k][c]
      BY <2>1 DEF TypeOK
    <2>4. Seen[k][c] <= Seen'[k][c]
      BY <2>2, <2>3
    <2>5. QED
      BY <2>4 DEF k
  <1>4. Buckets(Seen, c) <= Buckets(Seen', c)
    BY <1>2, <1>3, BucketsGrow
  <1>5. report[OH_C_TOTAL][c] <= Buckets(Seen, c)
    BY <1>1 DEF Histogram
  <1>6. report[OH_C_TOTAL][c] \in Nat /\ Buckets(Seen, c) \in Nat /\ Buckets(Seen', c) \in Nat
    BY <1>2, BucketsNat, CountsNat, SeenType
  <1>7. QED
    BY <1>1, <1>4, <1>5, <1>6

\* A step of the hook that adds to a slot of another map.
LEMMA BumpElsewhere ==
  ASSUME TypeOK, TypeOK', NEW k \in Key, NEW c \in CPU, Bump(k, c), NEW d \in CPU,
         \A b \in Bucket : k # LatKey(b)
  PROVE  Buckets(cell', d) = Buckets(cell, d)
  <1>1. cell \in Counts /\ cell' \in Counts
    BY DEF TypeOK, Counts
  <1>2. \A b \in Bucket : cell[LatKey(b)][d] = cell'[LatKey(b)][d]
    <2>1. \A j \in Key : cell'[j][d] = IF j = k /\ d = c THEN cell[j][d] + 1 ELSE cell[j][d]
      BY BumpOne DEF TypeOK
    <2>2. \A b \in Bucket : LatKey(b) \in Key
      BY Keys DEF Bucket
    <2>3. QED
      BY <2>1, <2>2
  <1>3. QED
    BY <1>1, <1>2, BucketsSame

LEMMA HookHistogram ==
  ASSUME IInv, TypeOK', Histogram, NEW c \in CPU, Hook(c)
  PROVE  Histogram'
  <1>1. /\ TypeOK /\ UNCHANGED dumpVars
        /\ \A d \in CPU \ {c} : hook'[d] = hook[d]
    <2>1. UNCHANGED others
      BY DEF Hook, Record, BumpTotal, BumpCode, BumpDev
    <2>2. \A d \in CPU \ {c} : hook'[d] = hook[d]
      BY DEF Hook, Record, BumpTotal, BumpCode, BumpDev, HookAt, IInv, TypeOK
    <2>3. QED
      BY <2>1, <2>2 DEF IInv, others
  <1>2. cell \in Counts /\ cell' \in Counts
    BY <1>1 DEF TypeOK, Counts
  <1>3. PICK k \in Key : Bump(k, c)
    <2>1. hook[c].code \in 0..5 /\ hook[c].mode \in {"read", "write"}
      BY <1>1 DEF TypeOK, HookState, Code, Mode
    <2>2. hook[c].code \in Key /\ DevKey(hook[c].mode) \in Key
      BY <2>1, Keys
    <2>3. QED
      BY <2>2, Keys DEF Hook, Record, BumpTotal, BumpCode, BumpDev
  <1>4. \A j \in Key, d \in CPU :
          cell'[j][d] = IF j = k /\ d = c THEN cell[j][d] + 1 ELSE cell[j][d]
    BY <1>1, <1>3, BumpOne DEF TypeOK
  <1>5. ASSUME NEW d \in CPU, HasRead(OH_C_TOTAL, d)'
        PROVE  report'[OH_C_TOTAL][d] <= Buckets(Seen', d)
    <2>1. \A j \in Key : cell[j][d] <= cell'[j][d]
      <3>1. \A j \in Key : cell[j][d] \in Nat
        BY <1>2, CountsNat
      <3>2. QED
        BY <1>4, <3>1
    <2>2. QED
      BY <1>1, <1>5, <2>1, SeenGrows
  <1>6. \A d \in CPU : Buckets(cell, d) \in Nat /\ cell[6][d] \in Nat
    BY <1>2, BucketsNat, CountsNat
  <1>7. \A d \in CPU : Buckets(cell, d) = cell[6][d] + Between(d, {"total"})
    BY DEF Histogram
  <1>8. ASSUME NEW d \in CPU
        PROVE  Buckets(cell', d) = cell'[6][d] + (IF hook'[d].at = "total" THEN 1 ELSE 0)
    <2>1. CASE Record(c)
      <3>1. PICK b \in 0..(LatMax - 1) : Bump(LatKey(b), c)
        BY <2>1 DEF Record
      <3>2. b \in Bucket /\ LatKey(b) \in Key /\ LatKey(b) # 6
        BY <3>1, Keys DEF Bucket
      <3>3. hook[c].at = "record" /\ hook'[c].at = "total"
        BY <1>1, <2>1 DEF Record, HookAt, TypeOK
      <3>4. \A j \in Key :
              cell'[j][d] = IF j = LatKey(b) /\ d = c THEN cell[j][d] + 1 ELSE cell[j][d]
        BY <1>1, <3>1, <3>2, BumpOne DEF TypeOK
      <3>5. cell'[6][d] = cell[6][d]
        BY <3>2, <3>4, Keys
      <3>6. \A x \in Bucket : LatKey(x) \in Key /\ (LatKey(x) = LatKey(b) <=> x = b)
        BY <3>2, Keys DEF Bucket, LatKey
      <3>7. CASE d = c
        <4>1. /\ cell'[LatKey(b)][d] = cell[LatKey(b)][d] + 1
              /\ \A x \in Bucket \ {b} : cell'[LatKey(x)][d] = cell[LatKey(x)][d]
          BY <3>2, <3>4, <3>6, <3>7
        <4>2. Buckets(cell', d) = Buckets(cell, d) + 1
          BY <1>2, <3>2, <4>1, BucketsBump
        <4>3. QED
          BY <1>6, <1>7, <3>3, <3>5, <3>7, <4>2 DEF Between
      <3>8. CASE d # c
        <4>1. \A x \in Bucket : cell[LatKey(x)][d] = cell'[LatKey(x)][d]
          BY <3>4, <3>6, <3>8
        <4>2. Buckets(cell', d) = Buckets(cell, d)
          BY <1>2, <4>1, BucketsSame
        <4>3. hook'[d] = hook[d]
          BY <1>1, <3>8
        <4>4. QED
          BY <1>6, <1>7, <3>5, <4>2, <4>3 DEF Between
      <3>9. QED
        BY <3>7, <3>8
    <2>2. CASE BumpTotal(c)
      <3>1. Bump(6, c) /\ 6 \in Key /\ hook[c].at = "total" /\ hook'[c].at = "code"
        BY <1>1, <2>2, Keys DEF BumpTotal, HookAt, TypeOK
      <3>2. Buckets(cell', d) = Buckets(cell, d)
        BY <1>1, <3>1, BumpElsewhere, Keys DEF Bucket
      <3>3. cell'[6][d] = IF d = c THEN cell[6][d] + 1 ELSE cell[6][d]
        BY <1>1, <3>1, BumpOne DEF TypeOK
      <3>4. QED
        BY <1>1, <1>6, <1>7, <3>1, <3>2, <3>3 DEF Between
    <2>3. CASE BumpCode(c)
      <3> DEFINE j == hook[c].code
      <3>1. Bump(j, c) /\ hook[c].at = "code" /\ hook'[c].at = "dev"
        BY <1>1, <2>3 DEF BumpCode, HookAt, TypeOK
      <3>2. j \in 0..5
        BY <1>1 DEF TypeOK, HookState, Code
      <3> HIDE DEF j
      <3>3. j \in Key /\ j # 6 /\ \A b \in Bucket : j # LatKey(b)
        BY <3>2, Keys DEF Bucket
      <3>4. Buckets(cell', d) = Buckets(cell, d)
        BY <1>1, <3>1, <3>3, BumpElsewhere
      <3>5. cell'[6][d] = cell[6][d]
        <4>1. \A x \in Key :
                cell'[x][d] = IF x = j /\ d = c THEN cell[x][d] + 1 ELSE cell[x][d]
          BY <1>1, <3>1, <3>3, BumpOne DEF TypeOK
        <4>2. 6 \in Key
          BY Keys
        <4>3. QED
          BY <3>3, <4>1, <4>2
      <3>6. QED
        BY <1>1, <1>6, <1>7, <3>1, <3>4, <3>5 DEF Between
    <2>4. CASE BumpDev(c)
      <3> DEFINE j == DevKey(hook[c].mode)
      <3>1. Bump(j, c) /\ hook[c].at = "dev" /\ hook'[c].at = "idle"
        BY <1>1, <2>4 DEF BumpDev, TypeOK, Idle
      <3>2. j = DevKey("read") \/ j = DevKey("write")
        BY <1>1 DEF TypeOK, HookState, Mode
      <3> HIDE DEF j
      <3>3. j \in Key /\ j # 6 /\ \A b \in Bucket : j # LatKey(b)
        <4>1. DevKey("read") \in Nat /\ DevKey("write") = DevKey("read") + 1 /\ DevKey("read") > 6
          BY Keys DEF Key
        <4>2. \A b \in Bucket : LatKey(b) \in Nat /\ LatKey(b) < DevKey("read")
          BY Keys DEF Bucket, Key
        <4>3. QED
          BY <3>2, <4>1, <4>2, Keys
      <3>4. Buckets(cell', d) = Buckets(cell, d)
        BY <1>1, <3>1, <3>3, BumpElsewhere
      <3>5. cell'[6][d] = cell[6][d]
        <4>1. \A x \in Key :
                cell'[x][d] = IF x = j /\ d = c THEN cell[x][d] + 1 ELSE cell[x][d]
          BY <1>1, <3>1, <3>3, BumpOne DEF TypeOK
        <4>2. 6 \in Key
          BY Keys
        <4>3. QED
          BY <3>3, <4>1, <4>2
      <3>6. QED
        BY <1>1, <1>6, <1>7, <3>1, <3>4, <3>5 DEF Between
    <2>5. QED
      BY <2>1, <2>2, <2>3, <2>4 DEF Hook
  <1>9. QED
    BY <1>5, <1>8 DEF Histogram, Between

\* A slot that is copied is seen as it was; when it is the total, no bucket has
\* been read.
LEMMA ReadHistogram ==
  ASSUME IInv, TypeOK', Histogram, NEW c \in CPU, ReadCell(c)
  PROVE  Histogram'
  <1>1. /\ TypeOK /\ pos \in Key /\ pos \in Nat /\ c \notin copied
        /\ report' = [report EXCEPT ![pos][c] = cell[pos][c]]
        /\ cell' = cell /\ hook' = hook
    <2>1. TypeOK /\ pos \in 0..(LastKey + 1) /\ pos <= LastKey /\ c \notin copied
      BY DEF ReadCell, IInv, TypeOK
    <2>2. pos \in Key /\ pos \in Nat
      BY <2>1, Keys
    <2>3. QED
      BY <2>1, <2>2 DEF ReadCell, kernel
  <1>2. \A k \in Key, d \in CPU :
          report'[k][d] = IF k = pos /\ d = c THEN cell[k][d] ELSE report[k][d]
    BY <1>1 DEF TypeOK
  <1>3. cell \in Counts /\ Seen \in Counts /\ Seen' \in Counts
    <2>1. Seen' \in Counts
      BY DEF TypeOK, Counts, Seen
    <2>2. QED
      BY <1>1, <2>1, SeenType
  <1>4. ASSUME NEW k \in Key, NEW d \in CPU
        PROVE  HasRead(k, d)' <=> (HasRead(k, d) \/ (k = pos /\ d = c))
    <2>1. k \in Nat
      BY Keys DEF Key
    <2>2. CASE copied \cup {c} = CPU /\ pos' = pos + 1 /\ copied' = {}
      <3>1. pos' > k <=> (pos > k \/ k = pos)
        BY <1>1, <2>1, <2>2
      <3>2. k = pos => (d \in copied \/ d = c)
        BY <2>2
      <3>3. HasRead(k, d)' <=> pos' > k
        BY <2>2 DEF HasRead
      <3>4. QED
        BY <1>1, <2>1, <3>1, <3>2, <3>3 DEF HasRead
    <2>3. CASE pos' = pos /\ copied' = copied \cup {c}
      BY <1>1, <2>1, <2>3 DEF HasRead
    <2>4. QED
      BY <2>2, <2>3 DEF ReadCell
  <1>5. \A k \in Key, d \in CPU : Seen'[k][d] = Seen[k][d]
    <2> SUFFICES ASSUME NEW k \in Key, NEW d \in CPU PROVE Seen'[k][d] = Seen[k][d]
      OBVIOUS
    <2>1. /\ Seen[k][d] = IF HasRead(k, d) THEN report[k][d] ELSE cell[k][d]
          /\ Seen'[k][d] = IF HasRead(k, d)' THEN report'[k][d] ELSE cell'[k][d]
      BY DEF Seen
    <2>2. k = pos /\ d = c => ~HasRead(k, d)
      BY <1>1 DEF HasRead
    <2>3. QED
      BY <1>1, <1>2, <1>4, <2>1, <2>2
  <1>6. ASSUME NEW d \in CPU PROVE Buckets(Seen', d) = Buckets(Seen, d)
    <2>1. \A b \in Bucket : LatKey(b) \in Key
      BY Keys DEF Bucket
    <2>2. \A b \in Bucket : Seen[LatKey(b)][d] = Seen'[LatKey(b)][d]
      BY <1>5, <2>1
    <2>3. QED
      BY <1>3, <2>2, BucketsSame
  <1>7. ASSUME NEW d \in CPU, HasRead(OH_C_TOTAL, d)'
        PROVE  report'[OH_C_TOTAL][d] <= Buckets(Seen', d)
    <2>1. CASE HasRead(OH_C_TOTAL, d)
      <3>1. ~(6 = pos /\ d = c)
        BY <1>1, <2>1 DEF HasRead
      <3>2. report'[6][d] = report[6][d]
        BY <1>2, <3>1, Keys
      <3>3. QED
        BY <1>6, <2>1, <3>2 DEF Histogram
    <2>2. CASE pos = 6 /\ d = c
      <3>1. report'[6][d] = cell[6][d]
        BY <1>2, <2>2, Keys
      <3>2. \A b \in Bucket : Seen[LatKey(b)][d] = cell[LatKey(b)][d]
        <4>1. \A b \in Bucket : LatKey(b) \in Key /\ LatKey(b) > 6 /\ LatKey(b) \in Nat
          BY Keys DEF Bucket, Key
        <4>2. \A b \in Bucket : ~HasRead(LatKey(b), d)
          BY <2>2, <4>1 DEF HasRead
        <4>3. QED
          BY <1>1, <4>1, <4>2, SeenType
      <3>3. Buckets(Seen, d) = Buckets(cell, d)
        BY <1>3, <3>2, BucketsSame
      <3>4. /\ Buckets(cell, d) = cell[6][d] + Between(d, {"total"})
            /\ Between(d, {"total"}) \in 0..1 /\ cell[6][d] \in Nat
        BY <1>3, CountsNat DEF Histogram, Between
      <3>5. cell[6][d] <= Buckets(cell, d)
        BY <3>4
      <3>6. QED
        BY <1>6, <3>1, <3>3, <3>5
    <2>3. QED
      BY <1>4, <1>7, <2>1, <2>2, Keys
  <1>8. \A d \in CPU : Buckets(cell', d) = cell'[6][d] + Between(d, {"total"})'
    BY <1>1 DEF Histogram, Between
  <1>9. QED
    BY <1>7, <1>8 DEF Histogram

LEMMA NextHistogram ==
  ASSUME IInv, IInv', Histogram, [Next]_vars
  PROVE  Histogram'
  <1>1. TypeOK /\ TypeOK'
    BY DEF IInv
  <1>2. CASE \E c \in CPU : Hook(c)
    BY <1>1, <1>2, HookHistogram
  <1>3. CASE \E c \in CPU : ReadCell(c)
    BY <1>1, <1>3, ReadHistogram
  <1>4. ASSUME UNCHANGED cell, UNCHANGED dumpVars,
               \A c \in CPU : hook'[c].at = "total" <=> hook[c].at = "total"
        PROVE  Histogram'
    <2>1. \A k \in Key, c \in CPU : cell[k][c] <= cell'[k][c]
      BY <1>1, <1>4 DEF TypeOK
    <2>2. \A c \in CPU : HasRead(OH_C_TOTAL, c)' =>
            report'[OH_C_TOTAL][c] <= Buckets(Seen', c)
      BY <1>1, <1>4, <2>1, SeenGrows
    <2>3. \A c \in CPU : Buckets(cell', c) = cell'[6][c] + Between(c, {"total"})'
      BY <1>4 DEF Histogram, Between
    <2>4. QED
      BY <2>2, <2>3 DEF Histogram
  <1>5. CASE \E c \in CPU, cg \in Cgroup, mode \in Mode : Open(c, cg, mode)
    <2>1. PICK c \in CPU, cg \in Cgroup, mode \in Mode : Open(c, cg, mode)
      BY <1>5
    <2>2. hook[c].at = "idle" /\ hook'[c].at = "record"
          /\ \A d \in CPU \ {c} : hook'[d] = hook[d]
      BY <1>1, <2>1 DEF Open, InHook, TypeOK
    <2>3. UNCHANGED cell /\ UNCHANGED dumpVars
      BY <2>1 DEF Open
    <2>4. QED
      BY <1>4, <2>2, <2>3
  <1>6. CASE Load \/ InjectTag \/ (\E upt \in {now, 0} : InjectWarrant(upt)) \/ Attach
               \/ Check \/ Pause \/ Fail \/ OnSig \/ Exit \/ Kill \/ Tick
    <2>1. UNCHANGED kernel /\ UNCHANGED dumpVars
      BY <1>6 DEF Load, InjectTag, InjectWarrant, Attach, Check, Pause, Fail, OnSig, Exit, Kill, Tick
    <2>2. QED
      BY <1>4, <2>1 DEF kernel
  <1>7. CASE UNCHANGED vars
    BY <1>4, <1>7 DEF vars
  <1>8. QED
    BY <1>2, <1>3, <1>5, <1>6, <1>7 DEF Next, Main

LEMMA InitHistogram == Init => Histogram
  <1> SUFFICES ASSUME Init, NEW c \in CPU
               PROVE  /\ Buckets(cell, c) = cell[6][c] + Between(c, {"total"})
                      /\ ~HasRead(6, c)
    BY DEF Histogram
  <1>1. cell \in Counts /\ \A k \in Key : cell[k][c] = 0
    BY DEF Init, NoCount, Counts
  <1>2. cell[6][c] = 0 /\ Between(c, {"total"}) = 0 /\ ~HasRead(6, c)
    BY <1>1, Keys DEF Init, Between, Idle, HasRead
  <1> DEFINE f == [b \in Bucket |-> cell[LatKey(b)][c]]
  <1>3. PICK it : Sums(f, it) /\ Buckets(cell, c) = it[Bucket]
    BY <1>1, BucketsTotal
  <1>4. \A b \in Bucket : f[b] = 0
    BY <1>1, Keys DEF Bucket
  <1>5. it[Bucket] = 0
    <2> HIDE DEF f
    <2> DEFINE P == {s \in SUBSET Bucket : it[s] = 0}
    <2>1. {} \in P
      <3>1. {} \in SUBSET Bucket
        OBVIOUS
      <3>2. it[{}] = 0
        BY <1>3, <3>1 DEF Sums, Step
      <3>3. QED
        BY <3>1, <3>2
    <2>2. ASSUME NEW s \in SUBSET Bucket, s # {}, s \ {First(s)} \in P PROVE s \in P
      <3>1. f[First(s)] = 0 /\ it[s \ {First(s)}] = 0
        BY <1>4, <2>2, BucketSets
      <3>2. it[s] = f[First(s)] + it[s \ {First(s)}]
        BY <1>3, <2>2 DEF Sums, Step
      <3>3. QED
        BY <3>1, <3>2
    <2> HIDE DEF P
    <2>3. SUBSET Bucket \subseteq P
      BY <2>1, <2>2, BucketInduction
    <2>4. QED
      BY <2>3 DEF P
  <1>6. QED
    BY <1>2, <1>3, <1>5

\* The buckets dump() reads after the total hold every open of the total, however
\* many files are opened while it reads.
THEOREM LatencyCoversTotalAlways == Spec => []LatencyCoversTotal
  <1>1. ASSUME IInv, Histogram, NEW c \in CPU, pos > LatKey(LatMax - 1)
        PROVE  report[OH_C_TOTAL][c] <= Buckets(report, c)
    <2>1. TypeOK /\ pos \in Nat
      <3>1. TypeOK /\ pos \in 0..(LastKey + 1)
        BY <1>1 DEF IInv, TypeOK
      <3>2. QED
        BY <3>1, Keys
    <2>2. HasRead(6, c) /\ \A b \in Bucket : LatKey(b) \in Key /\ HasRead(LatKey(b), c)
      BY <1>1, <2>1, Keys DEF HasRead, Bucket, LatKey
    <2>3. Seen \in Counts /\ report \in Counts
          /\ \A b \in Bucket : Seen[LatKey(b)][c] = report[LatKey(b)][c]
      BY <2>1, <2>2, SeenType
    <2>4. Buckets(Seen, c) = Buckets(report, c)
      BY <2>3, BucketsSame
    <2>5. QED
      BY <1>1, <2>2, <2>4 DEF Histogram
  <1>2. IInv /\ Histogram => LatencyCoversTotal
    BY <1>1 DEF LatencyCoversTotal
  <1>3. IInv /\ IInv' /\ Histogram /\ [Next]_vars => Histogram'
    BY NextHistogram
  <1>4. QED
    BY <1>2, <1>3, InitHistogram, Invariance, PTL DEF Spec

-----------------------------------------------------------------------------
(* Gate implements GateLife *)

\* The dump is reached by way of the flag, and nothing is copied before it.
DumpOrder ==
  /\ loader = "dump" => stop
  /\ loader \notin {"dump", "exit"} => pos = 0

LEMMA DumpOrderStep == DumpOrder /\ [Next]_vars => DumpOrder'
  <1> SUFFICES ASSUME DumpOrder, [Next]_vars PROVE DumpOrder'
    OBVIOUS
  <1> USE DEF DumpOrder
  <1>1. CASE \E c \in CPU, cg \in Cgroup, mode \in Mode : Open(c, cg, mode)
    BY <1>1 DEF Open, loaderVars, dumpVars
  <1>2. CASE \E c \in CPU : Hook(c)
    BY <1>2 DEF Hook, Record, BumpTotal, BumpCode, BumpDev, others, loaderVars, dumpVars
  <1>3. CASE \E c \in CPU : ReadCell(c)
    BY <1>3 DEF ReadCell, loaderVars
  <1>4. CASE Load \/ InjectTag \/ (\E upt \in {now, 0} : InjectWarrant(upt)) \/ Attach
               \/ Pause \/ Fail \/ Exit \/ Kill \/ Tick
    BY <1>4 DEF Load, InjectTag, InjectWarrant, Attach, Pause, Fail, Exit, Kill, Tick,
                dumpVars, loaderVars
  <1>5. CASE Check
    BY <1>5 DEF Check, dumpVars
  <1>6. CASE OnSig
    BY <1>6 DEF OnSig, dumpVars
  <1>7. CASE UNCHANGED vars
    BY <1>7 DEF vars, loaderVars, dumpVars
  <1>8. QED
    BY <1>1, <1>2, <1>3, <1>4, <1>5, <1>6, <1>7 DEF Next, Main

\* Every step of gate.c is a step of the process run.sh reckons with, or none.
LEMMA PromiseStep ==
  DumpOrder /\ [Next]_vars => [Promise!Next]_(Promise!vars)
  <1> SUFFICES ASSUME DumpOrder, [Next]_vars
               PROVE  [Promise!Next]_(Promise!vars)
    OBVIOUS
  <1>0. LastKey + 1 # 0
    BY Keys
  <1> USE DEF Promise!vars
  <1>1. CASE \E c \in CPU, cg \in Cgroup, mode \in Mode : Open(c, cg, mode)
    BY <1>1 DEF Open, loaderVars, dumpVars
  <1>2. CASE \E c \in CPU : Hook(c)
    BY <1>2 DEF Hook, Record, BumpTotal, BumpCode, BumpDev, others, loaderVars, dumpVars
  <1>3. CASE \E c \in CPU : ReadCell(c)
    BY <1>3 DEF ReadCell, loaderVars
  <1>4. CASE Load \/ InjectTag \/ (\E upt \in {now, 0} : InjectWarrant(upt)) \/ Check
               \/ Pause \/ Tick
    BY <1>4 DEF Load, InjectTag, InjectWarrant, Check, Pause, Tick, dumpVars, loaderVars
  <1>5. CASE Attach
    BY <1>5 DEF Attach, dumpVars, Promise!Next, Promise!Ready
  <1>6. CASE Fail
    BY <1>0, <1>6 DEF Fail, DumpOrder, dumpVars, Promise!Next, Promise!Fail
  <1>7. CASE Exit
    BY <1>7 DEF Exit, DumpOrder, dumpVars, Promise!Next, Promise!Quit
  <1>8. CASE OnSig
    BY <1>8 DEF OnSig, dumpVars
  <1>9. CASE Kill
    BY <1>9 DEF Kill, dumpVars, Promise!Next, Promise!Ask
  <1>10. CASE UNCHANGED vars
    BY <1>10 DEF vars, loaderVars, dumpVars
  <1>11. QED
    BY <1>1, <1>2, <1>3, <1>4, <1>5, <1>6, <1>7, <1>8, <1>9, <1>10 DEF Next, Main

\* The loader keeps the promise run.sh relies on: it is ready only once it has
\* attached, stays until it is asked, and leaves a whole report only then.
THEOREM PromiseKept == Spec => KeepsPromise
  <1>1. Init => DumpOrder /\ Promise!Init
    <2>1. LastKey + 1 # 0
      BY Keys
    <2>2. QED
      BY <2>1 DEF Init, DumpOrder, Promise!Init
  <1>2. QED
    BY <1>1, DumpOrderStep, PromiseStep, PTL DEF Spec, KeepsPromise, Promise!Spec
=============================================================================
