---------------------------- MODULE GlobalStats ----------------------------
(***************************************************************************)
(* ComputeGlobalStats and computeDiagnosis (src/core/overview.go): the     *)
(* Overview and the verdicts of `distribute`, from the same records that   *)
(* the size report counts.                                                 *)
(***************************************************************************)
EXTENDS Records

CONSTANT topN  \* the number of prefixes shown; 5 in the code

ASSUME TopNAssumption == topN \in Nat /\ topN >= 3

----------------------------------------------------------------------------
(* sizeAccum: add and finalize.  The slice of distinct sizes is the domain  *)
(* of sizeToCount; it is sorted before it is used.                          *)

newSizeAccum == [total |-> 0, min |-> -1, max |-> 0, sizeToCount |-> NoCounts]

(* Faulty variant: a size seen before is not added to the total.            *)
BugAddSize(a, s) ==
  IF s < 0
    THEN a
    ELSE [total |-> a.total + (IF s \in DOMAIN a.sizeToCount THEN 0 ELSE s),
          min |-> IF a.min < 0 \/ s < a.min THEN s ELSE a.min,
          max |-> Larger(a.max, s),
          sizeToCount |-> AddCount(a.sizeToCount, s)]

AddSize(a, s) ==
  IF s < 0
    THEN a
    ELSE [total |-> a.total + s,
          min |-> IF a.min < 0 \/ s < a.min THEN s ELSE a.min,
          max |-> Larger(a.max, s),
          sizeToCount |-> AddCount(a.sizeToCount, s)]

pctls == <<10, 25, 50, 75, 90, 95, 99>>

(* percentiles() as one fold over the sorted sizes; module ReportText has   *)
(* the walk step by step.                                                   *)
PercentileStep(st, s, c, n) ==
  IF st.j <= Len(pctls) /\ (st.cur + c) * 100 >= pctls[st.j] * n
    THEN [j |-> st.j + 1, cur |-> st.cur + c, data |-> [st.data EXCEPT ![st.j] = s]]
    ELSE [st EXCEPT !.cur = @ + c]

walkStart == [j |-> 1, cur |-> 0, data |-> [p \in 1..Len(pctls) |-> 0]]

Walk(counts, n, sizes) ==
  FoldLeft(LAMBDA st, s : PercentileStep(st, s, counts[s], n), walkStart, sizes)

(* The slice of distinct sizes after sort.Ints.                             *)
InOrder(S) == CHOOSE s \in SetToSeqs(S) : \A i, j \in 1..Len(s) : i < j => s[i] < s[j]

percentiles(counts) ==
  LET sizes == InOrder(DOMAIN counts)
      walk == Walk(counts, SumFunction(counts), sizes)
  IN  [p \in 1..Len(pctls) |-> IF p >= walk.j THEN Last(sizes) ELSE walk.data[p]]

Finalize(a) ==
  IF a.sizeToCount = NoCounts
    THEN [Available |-> FALSE, Total |-> 0, Min |-> 0, Max |-> 0, P50 |-> 0, P99 |-> 0]
    ELSE LET p == percentiles(a.sizeToCount) IN
           [Available |-> TRUE, Total |-> a.total, Min |-> a.min, Max |-> a.max,
            P50 |-> p[3], P99 |-> p[7]]

----------------------------------------------------------------------------
(* One record.  A revision of 0 is taken for an unknown one.                *)

Earlier(min, r) == IF (min = 0 \/ r < min) /\ (r > 0 \/ min = 0) THEN r ELSE min

VersionBucket(v) ==
  Min({b \in 1..6 : b = 6 \/ v <= <<1, 10, 100, 1000, 10000>>[b]})

start ==
  [TotalKeys |-> 0, key |-> newSizeAccum, value |-> newSizeAccum, kv |-> newSizeAccum,
   version |-> newSizeAccum, LeaseZero |-> 0,
   HistoryRevisionsTotal |-> 0, TombstoneCountTotal |-> 0,
   CreateRevMin |-> 0, CreateRevMax |-> 0, ModRevMin |-> 0, ModRevMax |-> 0,
   MaxVersion |-> 0, VersionBuckets |-> [b \in 1..6 |-> 0], prefixCount |-> NoCounts]

AddMeta(g, m) ==
  [TotalKeys |-> g.TotalKeys + 1,
   key |-> AddSize(g.key, m.KeySizeBytes),
   value |-> AddSize(g.value, m.ValueSizeBytes),
   kv |-> AddSize(g.kv, m.KvSizeBytes),
   version |-> AddSize(g.version, m.Version),
   LeaseZero |-> g.LeaseZero + (IF m.Lease = 0 THEN 1 ELSE 0),
   HistoryRevisionsTotal |-> g.HistoryRevisionsTotal + Larger(m.RevCount, 0),
   TombstoneCountTotal |-> g.TombstoneCountTotal + Larger(m.TombstoneCount, 0),
   CreateRevMin |-> Earlier(g.CreateRevMin, m.CreateRevision),
   CreateRevMax |-> Larger(g.CreateRevMax, m.CreateRevision),
   ModRevMin |-> Earlier(g.ModRevMin, m.ModRevision),
   ModRevMax |-> Larger(g.ModRevMax, m.ModRevision),
   MaxVersion |-> Larger(g.MaxVersion, m.Version),
   VersionBuckets |-> [g.VersionBuckets EXCEPT ![VersionBucket(m.Version)] = @ + 1],
   prefixCount |-> AddCount(g.prefixCount, GroupPrefix(m.Key, 2))]

Collected(metas) == FoldLeft(AddMeta, start, metas)

----------------------------------------------------------------------------
(* topPrefixes: the counts of the topN largest prefixes, and of the others  *)
(* together, in one of the orders that sorting may leave.                   *)

Rows(order, count) ==
  LET shown == SubSeq(order, 1, Min({topN, Len(order)}))
      top == [r \in 1..Len(shown) |-> [Prefix |-> shown[r], Count |-> count[shown[r]]]]
      total == SumFunction(count)
  IN  IF Len(order) <= topN
        THEN top
        ELSE Append(top, [Prefix |-> "others", Count |-> total - SumFunctionOnSet(count, ToSet(shown))])

topPrefixes(count) ==
  { Rows(order, count) : order \in Descending(DOMAIN count, LAMBDA p : count[p]) }

(* computeDiagnosis.  The percentages are quotients with the same           *)
(* denominator; they are compared as products.                              *)
BugSmallP99(s) == s.P50  \* faulty variant: the wrong percentile
P99(s) == s.P99

CountVerdict(top, total) ==
  LET sum3 == FoldLeft(+, 0, [r \in 1..Min({3, Len(top)}) |-> top[r].Count]) IN
    CASE top[1].Count * 100 >= 80 * total -> "CONCENTRATED"
      [] top[1].Count * 100 < 80 * total /\ sum3 * 100 >= 90 * total -> "SKEWED"
      [] OTHER -> "BALANCED"

SizeVerdict(kv) == IF kv.Available /\ P99(kv) >= 100 * 1024 THEN "LARGE VALUES" ELSE "OK"

Diagnosis(g, top) ==
  [Count |-> CountVerdict(top, g.TotalKeys),
   Size |-> SizeVerdict(Finalize(g.kv)),
   Version |-> IF g.MaxVersion > 1000 THEN "WRITE HOTSPOT" ELSE "OK",
   Lease |-> IF g.LeaseZero * 100 >= 20 * g.TotalKeys THEN "HIGH PERSISTENT" ELSE "OK"]

(* What `distribute` may show for these records: nothing but the count of   *)
(* keys if there are none.                                                  *)
ComputeGlobalStats(metas) ==
  LET g == Collected(metas) IN
    { [stats |-> g, TopPrefixes |-> top, Diagnosis |-> Diagnosis(g, top)] :
        top \in IF metas = <<>> THEN {} ELSE topPrefixes(g.prefixCount) }
=============================================================================
