--------------------------- MODULE OverheadReport ---------------------------
(***************************************************************************)
(* bench/overhead/report.py over the files a run of run.sh leaves, of one  *)
(* workload: the wall clock of every tier (macro) and, for the tiers with  *)
(* a hook, the histogram of the time spent in it (micro).  The run can be  *)
(* broken off anywhere, and the report made of what is there.              *)
(*                                                                         *)
(* report.py sees a histogram, lat keeps the latencies it was made of: the *)
(* properties compare what is reported with what happened.  Times are      *)
(* integers of one unit; the square roots of the standard errors are gone  *)
(* because only comparisons of them are reported, which are squared here.  *)
(* Names that OverheadRun has as well are others here, or begin with       *)
(* Report, so that one module can be about both.                           *)
(***************************************************************************)
EXTENDS OverheadPlan, Integers, Sequences, FiniteSets, SequencesExt

CONSTANTS
  MicroTiers,   \* sequence, "b" first
  RUNS,
  Times,        \* what a run of the workload may take
  Latencies,    \* what a call of the hook may take
  MaxOpens,     \* calls of the hook in one workload
  None

ASSUME ReportAssumption ==
  /\ MicroTiers \in Seq(Tier \ {"a"})
  /\ MicroTiers # <<>> /\ MicroTiers[1] = "b"
  /\ RUNS \in Nat \ {0} /\ MaxOpens \in Nat \ {0}
  /\ Times \subseteq Nat \ {0} /\ Latencies \subseteq 1..(2^30)

VARIABLES
  times,    \* times[t]: the times of macro_<t>_*.json, of all passes
  lat,      \* lat[t]: what the hook took, in the run of probe_<t>_*.json
  measured, \* p, the pass that is measured
  left,     \* the tiers it has left
  micro,    \* those the second stage has measured
  table     \* what report.py printed, or None

reportVars == <<times, lat, measured, left, micro, table>>

SumOf(s) == FoldLeft(LAMBDA a, x : a + x, 0, s)
Abs(x) == IF x < 0 THEN -x ELSE x
Ascending(s) == \A i \in 1..(Len(s) - 1) : s[i] <= s[i + 1]

----------------------------------------------------------------------------
(* gate.bpf.c: the histogram                                               *)

\* v >> s of the values below 2^31 this model has.
Shift(v, s) == IF s > 30 THEN 0 ELSE v \div 2^s
log2Step(a, i) ==
  LET w == Shift(a.v, 2^i)
  IN IF w > 0 THEN [v |-> w, r |-> a.r + 2^i] ELSE a

\* Mutant: the loop ends at i > 0.
oh_log2Short(v) == FoldLeft(log2Step, [v |-> v, r |-> 0], <<5, 4, 3, 2, 1>>).r
oh_log2(v) == FoldLeft(log2Step, [v |-> v, r |-> 0], <<5, 4, 3, 2, 1, 0>>).r

oh_record(s) ==
  LET bucket == [i \in 1..Len(s) |-> oh_log2(s[i])]
  IN [b \in ToSet(bucket) |-> Cardinality({i \in 1..Len(s) : bucket[i] = b})]

----------------------------------------------------------------------------
(* report.py: the statistics                                               *)

\* The squares of the deviations from the mean, times Len(s)^2: what stdev()
\* takes its root of, times Len(s)^2 * Dof(s), and 0 of a single value.
Square(x) == x * x
Dev(s) == SumOf([i \in 1..Len(s) |-> Square(Len(s) * s[i] - SumOf(s))])
Dof(s) == IF Len(s) > 1 THEN Len(s) - 1 ELSE 1

\* The difference of two means, times both lengths.
Slower(v, base) == SumOf(v) * Len(base) - SumOf(base) * Len(v)

\* Its square against that of 2 * se, both times what makes them integers.
DiffSquared(v, base) ==
  Square(Slower(v, base)) * (Len(v) * Dof(v)) * (Len(base) * Dof(base))
ErrorSquared(v, base) ==
  4 * (Dev(base) * Square(Len(v)) * (Len(v) * Dof(v))
       + Dev(v) * Square(Len(base)) * (Len(base) * Dof(base)))

\* macro_table: "invalid" when a tier is faster than a, and the column beside.
Bogus(v, base) == Slower(v, base) < 0 /\ DiffSquared(v, base) > ErrorSquared(v, base)
Significance(v, base) ==
  IF DiffSquared(v, base) < ErrorSquared(v, base) THEN "noise" ELSE "over"

\* pct(): a quantile, in thousandths, of values in order.
pct(vals, p) ==
  LET i == (p * Len(vals) + 999) \div 1000
  IN vals[Min({Len(vals), Max({1, i})})]

Calls(hist, buckets) == MapThenSumSet(LAMBDA b : hist[b], buckets)
Opens(hist) == Calls(hist, DOMAIN hist)

\* q() of micro_table: the bucket of the histogram in which it falls.
q(hist, p) ==
  LET reached(b) == Calls(hist, {c \in DOMAIN hist : c <= b})
      b == Min({c \in DOMAIN hist : 1000 * reached(c) >= Opens(hist) * p})
  IN [lo |-> IF b = 0 THEN 0 ELSE 2^b, hi |-> 2^(b + 1) - 1]

\* hook_ns(): twice the time of all calls, with 1.5 * 2^b for one of bucket b.
HookTwice(hist) == MapThenSumSet(LAMBDA c : 3 * hist[c] * 2^c, DOMAIN hist)

\* opens * net, the part of a workload that the hook accounts for, times
\* twice the calls of b: b has the cost of the instrumentation alone.
Cost(h, hb) == HookTwice(h) * Opens(hb) - HookTwice(hb) * Opens(h)

----------------------------------------------------------------------------
(* report.py: crosscheck()                                                 *)

\* abs(got) < floor: the noise of a alone, which does not know that of v.
\* Mutant: the deviation of one run for that of the mean.
BelowFloorSd(v, base) ==
  Square(Slower(v, base)) * Dof(base) < 4 * Dev(base) * Square(Len(v))
BelowFloor(v, base) ==
  Square(Slower(v, base)) * (Len(base) * Dof(base)) < 4 * Dev(base) * Square(Len(v))

\* ratio > 3, the ratio being infinite when exp is at most 0.001 percent.
Measurable(v, base, h, hb) ==
  Cost(h, hb) * 100000 * Len(base) > 2 * Opens(hb) * SumOf(base)
\* Mutant: every value above what was expected.
TooMuchOnce(v, base, h, hb) ==
  \/ ~Measurable(v, base, h, hb)
  \/ 2 * Opens(hb) * Abs(Slower(v, base)) > Cost(h, hb) * Len(base) * Len(v)
TooMuch(v, base, h, hb) ==
  \/ ~Measurable(v, base, h, hb)
  \/ 2 * Opens(hb) * Abs(Slower(v, base)) > 3 * Cost(h, hb) * Len(base) * Len(v)

Verdict(v, base, h, hb) ==
  IF BelowFloor(v, base) THEN "noise"
  ELSE IF TooMuch(v, base, h, hb) THEN "impossible" ELSE "explained"

----------------------------------------------------------------------------
(* The run                                                                 *)

Probed == {t \in ToSet(MicroTiers) : lat[t] # <<>>}
Hist(t) == oh_record(lat[t])

\* The table of what is there.  The cross-check needs a and b, and ends in an
\* exception when it looks for the most expensive of no tiers at all.
macro_table ==
  [t \in Tier \ {"a"} |->
     IF times[t] = <<>> \/ times["a"] = <<>> THEN "absent"
     ELSE Significance(times[t], times["a"])]
invalid ==
  {t \in Tier \ {"a"} :
     times[t] # <<>> /\ times["a"] # <<>> /\ Bogus(times[t], times["a"])}
micro_table ==
  [t \in Probed |-> [p \in {500, 900, 990, 999} |-> q(Hist(t), p)]]
Checked == times["a"] # <<>> /\ "b" \in Probed
crosscheck ==
  [t \in Tier \ {"a", "b"} |->
     IF Checked /\ t \in Probed /\ times[t] # <<>>
     THEN Verdict(times[t], times["a"], Hist(t), Hist("b"))
     ELSE "absent"]
Raises == Checked /\ Dev(times["a"]) > 0 /\ Probed \ {"b"} = {}

ReportInit ==
  /\ times = [t \in Tier |-> <<>>]
  /\ lat = [t \in ToSet(MicroTiers) |-> <<>>]
  /\ measured = 1 /\ left = Tier
  /\ micro = 0
  /\ table = None

\* sorted() of load_macro.
sorted(s) ==
  CHOOSE r \in {[i \in DOMAIN s |-> s[p[i]]] : p \in Bijection(DOMAIN s, DOMAIN s)} : Ascending(r)

\* One tier of a pass, in an order that shuf chose.  report.py sorts the times
\* of a tier; those of one file are taken in order here.
MacroRound(t) ==
  /\ table = None /\ t \in left
  /\ \E s \in {s \in [1..RUNS -> Times] : Ascending(s)} :
       times' = [times EXCEPT ![t] = sorted(@ \o s)]
  /\ IF left = {t} /\ measured < PASSES
       THEN measured' = measured + 1 /\ left' = Tier
       ELSE left' = left \ {t} /\ UNCHANGED measured
  /\ UNCHANGED <<lat, micro, table>>

\* One tier of the second stage, the gate of which counts every call.
MicroRound ==
  /\ table = None /\ left = {} /\ micro < Len(MicroTiers)
  /\ \E s \in {s \in UNION {[1..n -> Latencies] : n \in 1..MaxOpens} : Ascending(s)} :
       lat' = [lat EXCEPT ![MicroTiers[micro + 1]] = s]
  /\ micro' = micro + 1
  /\ UNCHANGED <<times, measured, left, table>>

\* By run.sh at the end, or by hand after a run that was broken off.
main ==
  /\ table = None
  /\ table' = [macro |-> macro_table, invalid |-> invalid, micro |-> micro_table,
               cross |-> crosscheck, raised |-> Raises]
  /\ UNCHANGED <<times, lat, measured, left, micro>>

ReportNext == (\E t \in Tier : MacroRound(t)) \/ MicroRound \/ main

ReportSpec == ReportInit /\ [][ReportNext]_reportVars

----------------------------------------------------------------------------
(* Properties                                                              *)

Verdicts == {"absent", "noise", "impossible", "explained"}

\* Every variable has its type; the lengths are those of the rounds that ran.
ReportTypeOK ==
  /\ measured \in 1..PASSES /\ left \subseteq Tier /\ micro \in 0..Len(MicroTiers)
  /\ \A t \in Tier :
        /\ ToSet(times[t]) \subseteq Times /\ Ascending(times[t])
        /\ Len(times[t]) = RUNS * (IF t \in left THEN measured - 1 ELSE measured)
  /\ \A t \in ToSet(MicroTiers) :
        /\ ToSet(lat[t]) \subseteq Latencies
        /\ lat[t] # <<>> <=> \E i \in 1..micro : MicroTiers[i] = t
  /\ table # None =>
        /\ table.macro \in [Tier \ {"a"} -> {"absent", "noise", "over"}]
        /\ table.cross \in [Tier \ {"a", "b"} -> Verdicts]
        /\ table.raised => ~\E t \in DOMAIN table.cross : table.cross[t] # "absent"

\* A quantile read from the histogram of gate.bpf.c is the range that holds
\* the quantile pct() would find in the latencies themselves.
QuantileRight ==
  table # None =>
    \A t \in DOMAIN table.micro : \A p \in DOMAIN table.micro[t] :
      pct(lat[t], p) \in table.micro[t][p].lo..table.micro[t][p].hi

\* The three judgements of one row fit together although each has a formula of
\* its own: a tier that makes the measurement invalid is above the noise of
\* the first table and of the cross-check.
FlagsAgree ==
  table # None =>
    \A t \in table.invalid :
      table.macro[t] = "over" /\ (t # "b" => table.cross[t] # "noise")

\* The workload lost more time in tier t than its calls of the hook took, each
\* less the mean of b.
Spent(t) == SumOf(lat[t])
MoreThanSpent(t) ==
  Slower(times[t], times["a"]) * Len(lat["b"])
    > (Spent(t) * Len(lat["b"]) - Spent("b") * Len(lat[t])) * Len(times["a"]) * Len(times[t])
Flagged(t) == table # None /\ table.cross[t] = "impossible"

\* The calls of tier t took, each less the mean of b, no more than three
\* thousandths of a percent of the workload.
Negligible(t) ==
  100000 * (Spent(t) * Len(lat["b"]) - Spent("b") * Len(lat[t])) * Len(times["a"])
    <= 3 * Len(lat["b"]) * SumOf(times["a"])

\* A Delta flagged as one the hook cannot cause (report.py:281) is none that it
\* caused: the factor 3 covers the error of the buckets (report.py:260) when a
\* call takes at least 14/5 of the time it takes in b.  When it takes less the
\* two means can be of the same bucket, and the flag says nothing.  Neither does
\* it of a hook that the histogram gives no more than 0.001 percent of the
\* workload (report.py:258): by the same error it can have taken 0.003.
FlagSoundWhenDear ==
  \A t \in Tier \ {"a", "b"} :
    (Flagged(t) /\ 5 * Spent(t) * Len(lat["b"]) >= 14 * Spent("b") * Len(lat[t]))
      => Slower(times[t], times["a"]) <= 0 \/ MoreThanSpent(t) \/ Negligible(t)
=============================================================================
