----------------------------- MODULE ReportText -----------------------------
(***************************************************************************)
(* What a size report says: String() of core.report (src/core/report.go),  *)
(* which sorts the distinct sizes, renders the histogram and then the      *)
(* percentile table (src/core/percent.go), and the rows of histogramJSON.  *)
(*                                                                         *)
(* Both renderings walk the sorted sizes with a second index, over the     *)
(* bounds of the buckets and over the thresholds of the percentiles.  The  *)
(* first walk has no exit for a size above the last bound, so that it ends *)
(* at all depends on Largest; the second gives every threshold that it did *)
(* not reach the largest size.  The Overview and the version distribution  *)
(* (src/core/overview.go) use the percentiles alone, in the same way.      *)
(***************************************************************************)
EXTENDS Integers, Sequences, FiniteSets, SequencesExt

CONSTANTS
  bucketCount,  \* the --bucket argument
  pctls,        \* the thresholds, ascending
  Arrivals      \* the data: pairs of a sequence of distinct sizes, in the order
                \* of arrival, and the function from these sizes to their counts

ASSUME BucketAssumption == bucketCount \in Nat \ {0}
ASSUME PctlsAssumption ==
  /\ pctls \in Seq(1..100)
  /\ \A a, b \in 1..Len(pctls) : a < b => pctls[a] < pctls[b]
ASSUME ArrivalsAssumption ==
  \A a \in Arrivals :
    /\ a[1] \in Seq(Nat) \ {<<>>}
    /\ \A p, q \in 1..Len(a[1]) : p # q => a[1][p] # a[1][q]
    /\ a[2] \in [ToSet(a[1]) -> Nat \ {0}]

VARIABLES
  sizes, sizeToCount, Smallest, Largest,  \* the statistics
  buckets, counts, bi,                    \* of histogram
  n, j, cur, data,                        \* of percentiles
  i,                                      \* of whichever walk is running
  phase

dataVars == <<sizeToCount, Smallest, Largest>>
histVars == <<buckets, counts, bi>>
pctVars == <<n, j, cur, data>>
vars == <<sizes, dataVars, histVars, pctVars, i, phase>>

(* What processResult left in the statistics.  Every caller returns before  *)
(* this point when there are no data.                                       *)
Init ==
  /\ \E a \in Arrivals :
       /\ sizes = a[1] /\ sizeToCount = a[2]
       /\ Smallest = Min(ToSet(a[1]))
       /\ Largest = Max(ToSet(a[1]))
  /\ buckets = [b \in 0..bucketCount |-> 0]
  /\ counts = [b \in 0..bucketCount |-> 0]
  /\ bi = 0
  /\ n = 0 /\ j = 1 /\ cur = 0
  /\ data = [p \in 1..Len(pctls) |-> 0]
  /\ i = 1
  /\ phase = "sort"

(* Faulty variants of the definitions below: unsorted sizes, every bound    *)
(* computed by the division, the size's own count left out of a comparison, *)
(* the smallest size as the one that fills.                                 *)
BugSortInts(s) == s
BugBound(b) == Smallest + ((Largest - Smallest) \div bucketCount) * b
BugReaches(c) == cur * 100 >= pctls[j] * n
BugFillWith == sizes[1]

(* sort.Ints: at place r comes the least element with r elements up to it.  *)
UpTo(s, x) == Cardinality({q \in DOMAIN s : s[q] <= x})
SortInts(s) == [r \in DOMAIN s |-> Min({x \in ToSet(s) : UpTo(s, x) >= r})]

Sort ==
  /\ phase = "sort"
  /\ sizes' = SortInts(sizes)
  /\ phase' = "bounds"
  /\ UNCHANGED <<dataVars, histVars, pctVars, i>>

----------------------------------------------------------------------------
(* histogram: bucketCount + 1 bounds, then the walk.                        *)

Step == (Largest - Smallest) \div bucketCount
Bound(b) == IF b = bucketCount THEN Largest ELSE Smallest + Step * b

MakeBounds ==
  /\ phase = "bounds"
  /\ buckets' = [b \in 0..bucketCount |-> Bound(b)]
  /\ phase' = "count"
  /\ UNCHANGED <<sizes, dataVars, counts, bi, pctVars, i>>

InBucket(s) == s <= buckets[bi]

CountSize ==
  /\ phase = "count" /\ i <= Len(sizes)
  /\ InBucket(sizes[i])
  /\ counts' = [counts EXCEPT ![bi] = @ + sizeToCount[sizes[i]]]
  /\ i' = i + 1
  /\ UNCHANGED <<sizes, dataVars, buckets, bi, pctVars, phase>>

NextBucket ==
  /\ phase = "count" /\ i <= Len(sizes)
  /\ ~InBucket(sizes[i])
  /\ bi' = IF bi < bucketCount THEN bi + 1 ELSE bi
  /\ UNCHANGED <<sizes, dataVars, buckets, counts, pctVars, i, phase>>

(* The rows of histogramJSON.                                               *)
JSONRows ==
  [b \in 0..(bucketCount - 1) |->
     [bucket_start |-> buckets[b], bucket_end |-> buckets[b + 1], count |-> counts[b]]]

----------------------------------------------------------------------------
(* percentiles.                                                             *)

Total(S) == SumFunctionOnSet(sizeToCount, S)

StartPercentiles ==
  /\ phase = "count" /\ i > Len(sizes)
  /\ n' = Total(DOMAIN sizeToCount)
  /\ i' = 1
  /\ phase' = "walk"
  /\ UNCHANGED <<sizes, dataVars, histVars, j, cur, data>>

(* float64(cur+c)*100/float64(n) >= pctls[j]: for counts that fit in memory *)
(* the rounding of the division never crosses a whole number, so this is    *)
(* the comparison of the exact quotient.                                    *)
Reaches(c) == (cur + c) * 100 >= pctls[j] * n

Walking == phase = "walk" /\ i <= Len(sizes) /\ j <= Len(pctls)

WalkStep ==
  /\ Walking
  /\ LET c == sizeToCount[sizes[i]] IN
       /\ IF Reaches(c)
            THEN data' = [data EXCEPT ![j] = sizes[i]] /\ j' = j + 1
            ELSE UNCHANGED <<data, j>>
       /\ cur' = cur + c
  /\ i' = i + 1
  /\ UNCHANGED <<sizes, dataVars, histVars, n, phase>>

StartFill ==
  /\ phase = "walk" /\ ~Walking
  /\ phase' = "fill"
  /\ UNCHANGED <<sizes, dataVars, histVars, pctVars, i>>

maxSize == sizes[Len(sizes)]
FillWith == maxSize

FillStep ==
  /\ phase = "fill" /\ j <= Len(pctls)
  /\ data' = IF data[j] = 0 THEN [data EXCEPT ![j] = FillWith] ELSE data
  /\ j' = j + 1
  /\ UNCHANGED <<sizes, dataVars, histVars, n, cur, i, phase>>

Return ==
  /\ phase = "fill" /\ j > Len(pctls)
  /\ phase' = "done"
  /\ UNCHANGED <<sizes, dataVars, histVars, pctVars, i>>

Next ==
  \/ Sort \/ MakeBounds \/ CountSize \/ NextBucket
  \/ StartPercentiles \/ WalkStep \/ StartFill \/ FillStep \/ Return

Spec == Init /\ [][Next]_vars
FairSpec == Spec /\ WF_vars(Next)

----------------------------------------------------------------------------
Done == phase = "done"
Occurring(lo, hi) == Total({s \in DOMAIN sizeToCount : lo < s /\ s <= hi})
AtMost(s) == Occurring(-1, s)

(* String() returns for every data set: no size is above the last bound.    *)
RenderingEnds == <>Done

(* The bounds ascend from the smallest to the largest size, also when the   *)
(* sizes are closer together than the number of buckets; each text row      *)
(* counts the sizes above the previous bound and up to its own; nothing is  *)
(* lost and nothing is counted twice.  The rows of histogramJSON show all   *)
(* of these counts but the last.                                            *)
RowsPartitionTheSizes ==
  Done =>
    /\ buckets[0] = Smallest /\ buckets[bucketCount] = Largest
    /\ \A b \in 1..bucketCount : buckets[b - 1] <= buckets[b]
    /\ counts[0] = AtMost(buckets[0])
    /\ \A b \in 1..bucketCount : counts[b] = Occurring(buckets[b - 1], buckets[b])
    /\ SumFunction(counts) = SumFunction(sizeToCount)
    /\ SumFunction([b \in DOMAIN JSONRows |-> JSONRows[b].count]) = AtMost(buckets[bucketCount - 1])

(* The table is a table of percentiles: occurring sizes, non-decreasing,    *)
(* and no line understates its percentile: at least p% of the data are at   *)
(* most the value shown for p.                                              *)
NeverUnderstates ==
  Done =>
    /\ \A p \in 1..Len(pctls) :
         data[p] \in DOMAIN sizeToCount /\ AtMost(data[p]) * 100 >= pctls[p] * n
    /\ \A p, q \in 1..Len(pctls) : p < q => data[p] <= data[q]

(* The least size that reaches threshold p.                                 *)
NearestRank(p) ==
  Min({s \in DOMAIN sizeToCount : AtMost(s) * 100 >= pctls[p] * n})

(* Every line is exact unless an earlier line shows the size that this one  *)
(* should: the walk gives a size to one threshold only, however many it     *)
(* passes, but it drops no nearest rank altogether.                         *)
ExactUnlessTaken ==
  Done => \A p \in 1..Len(pctls) :
    data[p] = NearestRank(p) \/ \E q \in 1..(p - 1) : data[q] = NearestRank(p)

(* The table of the README (README.md:105-110): where more than nine tenths *)
(* of the versions are 1, the 10% to 90% lines all show 1.                  *)
CommonValueFillsTheTable ==
  Done => \A p \in 1..Len(pctls) :
    AtMost(sizes[1]) * 100 >= pctls[p] * n => data[p] = sizes[1]
=============================================================================
