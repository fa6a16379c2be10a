--------------------------- MODULE ReportTextProofs ---------------------------
(***************************************************************************)
(* Theorems about ReportText that hold for any sizes and counts, any       *)
(* number of buckets and any table of thresholds.                          *)
(***************************************************************************)
EXTENDS ReportText, SequenceLemmas

(* The walks have dealt with the sizes before place i.                      *)
Before == {sizes[p] : p \in 1..(i - 1)}
Early == {"sort", "bounds"}
Counted == IF phase \in Early \union {"count"} THEN Before ELSE DOMAIN sizeToCount

TypeInv ==
  /\ sizes \in Seq(Nat) /\ sizes # <<>>
  /\ \A p, q \in 1..Len(sizes) : p # q => sizes[p] # sizes[q]
  /\ sizeToCount \in [ToSet(sizes) -> Nat \ {0}]
  /\ Smallest \in ToSet(sizes) /\ Largest \in ToSet(sizes)
  /\ \A s \in ToSet(sizes) : Smallest <= s /\ s <= Largest
  /\ buckets \in [0..bucketCount -> Nat] /\ counts \in [0..bucketCount -> Nat]
  /\ bi \in 0..bucketCount
  /\ n \in Nat /\ cur \in Nat
  /\ j \in 1..(Len(pctls) + 1) /\ data \in [1..Len(pctls) -> Nat]
  /\ i \in 1..(Len(sizes) + 1)
  /\ phase \in {"sort", "bounds", "count", "walk", "fill", "done"}

SortInv == phase # "sort" => \A p, q \in 1..Len(sizes) : p < q => sizes[p] < sizes[q]

(* A row of the histogram holds the counts of the sizes above the bound     *)
(* before it and up to its own that were dealt with; the sizes that are     *)
(* left lie above the bounds already passed.                                *)
InRow(s, b) == s <= buckets[b] /\ (b > 0 => buckets[b - 1] < s)
HistogramInv ==
  /\ phase \in Early => i = 1 /\ bi = 0 /\ \A b \in 0..bucketCount : counts[b] = 0
  /\ phase \notin Early =>
       /\ \A b \in 0..bucketCount : buckets[b] = Bound(b)
       /\ \A b \in 0..bucketCount : counts[b] = Total({s \in Counted : InRow(s, b)})
       /\ \A s \in DOMAIN sizeToCount \ Counted : bi > 0 => buckets[bi - 1] < s

(* A line of the table that has been filled never understates, and the      *)
(* lines ascend.                                                            *)
Suffices(p, s) == AtMost(s) * 100 >= pctls[p] * n
Filled ==
  /\ \A p \in 1..Len(pctls) :
       IF p < j THEN data[p] \in DOMAIN sizeToCount /\ Suffices(p, data[p]) ELSE data[p] = 0
  /\ \A p, q \in 1..Len(pctls) : p < q /\ q < j => data[p] <= data[q]

(* The nearest rank of a line is shown, in that line or in an earlier one.  *)
(* In the walk this is so for the lines that a size dealt with suffices for.*)
Shown(p) == \E q \in 1..p : q < j /\ data[q] = NearestRank(p)

TableInv ==
  /\ phase \in Early \union {"count"} => j = 1 /\ cur = 0 /\ \A p \in 1..Len(pctls) : data[p] = 0
  /\ phase \in {"walk", "fill", "done"} =>
       /\ n = Total(DOMAIN sizeToCount) /\ Filled
  /\ phase = "walk" =>
       /\ cur = Total(Before)
       /\ \A p \in 1..Len(pctls) : p < j => data[p] \in Before
       /\ \A p \in 1..Len(pctls) : (\E s \in Before : Suffices(p, s)) => Shown(p)
  /\ phase \in {"fill", "done"} => \A p \in 1..Len(pctls) : Shown(p)
  /\ phase = "done" => j = Len(pctls) + 1

TextInv == TypeInv /\ SortInv /\ HistogramInv /\ TableInv

(* sort.Ints, of different numbers: the same numbers, in ascending order.   *)
LEMMA SortIntsFacts ==
  ASSUME NEW s \in Seq(Nat), \A p, q \in 1..Len(s) : p # q => s[p] # s[q]
  PROVE  /\ SortInts(s) \in Seq(Nat) /\ Len(SortInts(s)) = Len(s)
         /\ ToSet(SortInts(s)) = ToSet(s)
         /\ \A p, q \in 1..Len(s) : p < q => SortInts(s)[p] < SortInts(s)[q]
<1> DEFINE m == Len(s)
           R == ToSet(s)
           Places(x) == {q \in 1..m : s[q] <= x}
           A(r) == {x \in R : Cardinality(Places(x)) >= r}
           t == SortInts(s)
<1>1. m \in Nat /\ DOMAIN s = 1..m /\ \A q \in 1..m : s[q] \in Nat
  OBVIOUS
<1>2. R \in SUBSET Nat /\ R \in SUBSET Int /\ IsFiniteSet(R)
      /\ \A x : x \in R <=> \E q \in 1..m : s[q] = x
  <2>1. IsFiniteSet(R) /\ R \in SUBSET Nat
    BY SetOfSequence
  <2>2. \A x : x \in R <=> \E q \in 1..m : s[q] = x
    BY <1>1 DEF ToSet
  <2> QED BY <2>1, <2>2
<1>3. t = [r \in 1..m |-> Min(A(r))]
  BY <1>1 DEF SortInts, UpTo
<1>4. \A r \in 1..m : t[r] = Min(A(r))
  BY <1>3
<1>5. IsFiniteSet(1..m) /\ Cardinality(1..m) = m
  <2>1. PICK n0 \in Nat : n0 = m
    BY <1>1
  <2>2. IsFiniteSet(1..n0) /\ Cardinality(1..n0) = IF 1 > n0 THEN 0 ELSE n0 - 1 + 1
    BY FS_Interval
  <2> QED BY <2>1, <2>2
<1>6. ASSUME NEW L \in SUBSET (1..m) PROVE IsFiniteSet(L) /\ Cardinality(L) \in 0..m
  <2>1. IsFiniteSet(L) /\ Cardinality(L) <= m
    <3>1. IsFiniteSet(1..m) /\ L \in SUBSET (1..m)
      BY <1>5
    <3>2. IsFiniteSet(L) /\ Cardinality(L) <= Cardinality(1..m)
      <4> HIDE DEF m
      <4> QED BY <3>1, FS_Subset
    <3> QED BY <1>5, <3>2, Zenon
  <2>2. Cardinality(L) \in Nat
    BY <2>1, FS_CardinalityType
  <2> QED BY <1>1, <2>1, <2>2
<1>7. ASSUME NEW r \in 1..m
      PROVE  /\ t[r] \in R /\ Cardinality(Places(t[r])) >= r
             /\ \A x \in R : Cardinality(Places(x)) >= r => t[r] <= x
  <2> HIDE DEF m, R, t, Places
  <2>1. A(r) \in SUBSET Int /\ IsFiniteSet(A(r))
    BY <1>2, FS_Subset
  <2>2. A(r) # {}
    <3>1. R # {}
      <4>1. s[r] \in R
        BY <1>2
      <4> QED BY <4>1
    <3>2. Max(R) \in R /\ \A x \in R : x <= Max(R)
      BY <1>2, <3>1, FiniteMaxFacts
    <3>3. Places(Max(R)) = 1..m
      <4>1. \A q \in 1..m : s[q] <= Max(R)
        BY <1>2, <3>2
      <4> QED BY <4>1 DEF Places
    <3>4. Cardinality(Places(Max(R))) >= r
      BY <1>1, <1>5, <3>3
    <3> QED BY <3>2, <3>4
  <2>3. Min(A(r)) \in A(r) /\ \A x \in A(r) : Min(A(r)) <= x
    <3> HIDE DEF A
    <3> QED BY <2>1, <2>2, FiniteMinFacts
  <2> QED BY <1>4, <2>3
<1>8. ASSUME NEW r \in 1..m, NEW q \in 1..m, r < q PROVE t[r] < t[q]
  <2> DEFINE x == t[q]
  <2>1. x \in R /\ Cardinality(Places(x)) >= q /\ x \in Nat /\ t[r] \in Nat
    <3> HIDE DEF t, R, Places
    <3> QED BY <1>2, <1>7
  <2> HIDE DEF t, x
  <2>2. SUFFICES ASSUME x <= t[r] PROVE FALSE
    BY <2>1 DEF x
  <2>3. PICK p0 \in 1..m : s[p0] = x
    BY <1>2, <2>1
  <2> DEFINE L == Places(x) \ {p0}
  <2>4. Places(x) \in SUBSET (1..m) /\ p0 \in Places(x) /\ L \in SUBSET (1..m)
    BY <1>1, <2>1, <2>3
  <2>5. IsFiniteSet(Places(x)) /\ Cardinality(Places(x)) \in Nat /\ IsFiniteSet(L)
    <3> HIDE DEF Places
    <3> QED BY <1>1, <1>6, <2>4
  <2>6. Cardinality(L) = Cardinality(Places(x)) - 1
    <3> HIDE DEF Places
    <3> QED BY <2>4, <2>5, FS_RemoveElement
  <2>7. Cardinality(L) \in Nat /\ Cardinality(L) >= r
    <3>1. PICK k : k = Cardinality(Places(x))
      OBVIOUS
    <3>2. k \in Nat /\ k >= q /\ Cardinality(L) = k - 1
      BY <2>1, <2>5, <2>6, <3>1, Zenon
    <3>3. k - 1 \in Nat /\ k - 1 >= r
      BY <1>1, <1>8, <3>2
    <3> QED BY <3>2, <3>3
  <2>8. L # {}
    <3>1. L = {} => Cardinality(L) = 0
      BY FS_EmptySet
    <3>2. PICK k : k = Cardinality(L)
      OBVIOUS
    <3> HIDE DEF L
    <3> QED BY <1>1, <2>7, <3>1, <3>2
  <2>9. \A p \in 1..m : p \in L <=> s[p] < x
    <3> SUFFICES ASSUME NEW p \in 1..m PROVE p \in L <=> s[p] < x
      OBVIOUS
    <3>1. p # p0 => s[p] # x
      BY <2>3
    <3> QED BY <1>1, <2>1, <2>3, <3>1, SMTT(30)
  <2> DEFINE V == {s[p] : p \in L}
  <2>10. V \in SUBSET R /\ V # {} /\ V \in SUBSET Int
    <3>1. \A p \in L : s[p] \in R
      BY <1>2, <2>4
    <3> HIDE DEF L, R
    <3> QED BY <1>2, <2>8, <3>1
  <2>11. IsFiniteSet(V)
    <3> HIDE DEF V
    <3> QED BY <1>2, <2>10, FS_Subset
  <2>12. PICK y \in V : \A z \in V : z <= y
    <3> HIDE DEF V
    <3> QED BY <2>10, <2>11, FiniteMaxFacts
  <2>13. y \in R /\ y \in Nat /\ y < x
    BY <1>2, <2>4, <2>9, <2>10, <2>12
  <2>14. Places(y) = L
    <3>1. ASSUME NEW p \in 1..m PROVE s[p] <= y <=> p \in L
      <4>1. p \in L => s[p] <= y
        BY <2>12
      <4>2. s[p] <= y => s[p] < x
        BY <1>1, <2>1, <2>13
      <4> QED BY <2>9, <4>1, <4>2
    <3> HIDE DEF L
    <3> QED BY <2>4, <3>1
  <2>15. t[r] <= y
    <3> HIDE DEF L, Places
    <3> QED BY <1>7, <2>7, <2>13, <2>14
  <2> QED BY <2>1, <2>2, <2>13, <2>15
<1> HIDE DEF t
<1>9. t \in [1..m -> R]
  <2> HIDE DEF R, Places
  <2> QED BY <1>3, <1>7
<1>10. t \in Seq(Nat) /\ Len(t) = m /\ DOMAIN t = 1..m
  BY <1>1, <1>2, <1>9, SMTT(30)
<1>11. ToSet(t) = R
  <2>1. \A p, q \in 1..m : s[p] = s[q] => p = q
    OBVIOUS
  <2>2. s \in Seq(R)
    BY <1>1, <1>2
  <2>3. m = Cardinality(R)
    <3>1. \A x \in R : \E q \in 1..m : s[q] = x
      BY <1>2
    <3> HIDE DEF R
    <3> QED BY <1>2, <2>1, <2>2, <3>1, DistinctFacts
  <2>4. t \in Injection(1..m, R)
    <3>1. ASSUME NEW p \in 1..m, NEW q \in 1..m, p # q PROVE t[p] # t[q]
      <4>1. t[p] \in Nat /\ t[q] \in Nat /\ (p < q \/ q < p)
        BY <1>1, <1>2, <1>9, <3>1, SMTT(30)
      <4> QED BY <1>8, <4>1
    <3> QED BY <1>9, <3>1 DEF Injection, IsInjective
  <2>5. t \in Surjection(1..m, R)
    <3> HIDE DEF R, m
    <3> QED BY <1>2, <1>5, <2>3, <2>4, FS_Injection
  <2>6. \A x \in R : \E p \in 1..m : t[p] = x
    BY <2>5 DEF Surjection
  <2> HIDE DEF R
  <2> QED BY <1>9, <1>10, <2>6 DEF ToSet
<1> QED BY <1>8, <1>10, <1>11 DEF t

----------------------------------------------------------------------------
(* Sums of the counts over sets of sizes.                                   *)
LEMMA TotalFacts ==
  ASSUME TypeInv, NEW S \in SUBSET (DOMAIN sizeToCount)
  PROVE  /\ IsFiniteSet(S) /\ Total(S) \in Nat /\ Total({}) = 0
         /\ DOMAIN sizeToCount = ToSet(sizes) /\ S \in SUBSET Nat
         /\ \A x \in DOMAIN sizeToCount : sizeToCount[x] \in Nat \ {0}
         /\ \A x \in DOMAIN sizeToCount \ S : Total(S \union {x}) = sizeToCount[x] + Total(S)
         /\ \A R \in SUBSET S : Total(R) <= Total(S) /\ Total(S) = Total(R) + Total(S \ R)
<1>1. /\ DOMAIN sizeToCount = ToSet(sizes)
      /\ \A x \in DOMAIN sizeToCount : sizeToCount[x] \in Nat \ {0}
  BY DEF TypeInv
<1>2. IsFiniteSet(ToSet(sizes)) /\ ToSet(sizes) \in SUBSET Nat
  BY SetOfSequence DEF TypeInv
<1>3. IsFiniteSet(S) /\ S \in SUBSET Nat
  BY <1>1, <1>2, FS_Subset
<1>4. \A x \in S : sizeToCount[x] \in Nat
  BY <1>1
<1>5. Total(S) \in Nat
  BY <1>3, <1>4, SetSumType DEF Total
<1>6. Total({}) = 0
  BY SetSumEmpty DEF Total
<1>7. ASSUME NEW x \in DOMAIN sizeToCount \ S
      PROVE  Total(S \union {x}) = sizeToCount[x] + Total(S)
  <2>1. sizeToCount[x] \in Nat /\ x \notin S
    BY <1>1
  <2> QED BY <1>3, <1>4, <2>1, SetSumAdd DEF Total
<1>8. ASSUME NEW R \in SUBSET S PROVE Total(R) <= Total(S) /\ Total(S) = Total(R) + Total(S \ R)
  <2>1. IsFiniteSet(R) /\ IsFiniteSet(S \ R) /\ R \intersect (S \ R) = {} /\ R \union (S \ R) = S
    BY <1>3, FS_Subset
  <2>2. \A x \in R \union (S \ R) : sizeToCount[x] \in Nat
    BY <1>4
  <2>3. Total(R \union (S \ R)) = Total(R) + Total(S \ R)
    BY <2>1, <2>2, SetSumUnion DEF Total
  <2>4. Total(R) <= Total(S)
    BY <1>3, <1>4, SetSumPart DEF Total
  <2> QED BY <2>1, <2>3, <2>4
<1> QED BY <1>1, <1>3, <1>5, <1>6, <1>7, <1>8

(* The sizes are natural numbers, and so is the sum of their counts.        *)
LEMMA SizesAreNumbers ==
  ASSUME TypeInv
  PROVE  /\ DOMAIN sizeToCount \in SUBSET Nat /\ \A x \in DOMAIN sizeToCount : x \in Nat
         /\ Total(DOMAIN sizeToCount) \in Nat
<1> DEFINE D == DOMAIN sizeToCount
<1>1. D \in SUBSET D
  OBVIOUS
<1>2. D \in SUBSET Nat /\ Total(D) \in Nat
  BY <1>1, TotalFacts
<1> QED BY <1>2

(* The sizes before place i, and the size at it.                            *)
LEMMA BeforeFacts ==
  ASSUME TypeInv
  PROVE  /\ Before \in SUBSET (DOMAIN sizeToCount)
         /\ i = 1 => Before = {}
         /\ i > Len(sizes) => Before = DOMAIN sizeToCount
         /\ i <= Len(sizes) =>
              /\ sizes[i] \in DOMAIN sizeToCount /\ sizes[i] \notin Before
              /\ i \in 1..Len(sizes) /\ i + 1 \in 1..(Len(sizes) + 1)
              /\ {sizes[p] : p \in 1..((i + 1) - 1)} = Before \union {sizes[i]}
<1>1. /\ i \in 1..(Len(sizes) + 1) /\ Len(sizes) \in Nat /\ DOMAIN sizes = 1..Len(sizes)
      /\ DOMAIN sizeToCount = ToSet(sizes)
  BY DEF TypeInv
<1>2. \A x : x \in ToSet(sizes) <=> \E p \in 1..Len(sizes) : sizes[p] = x
  BY <1>1 DEF ToSet
<1>3. Before \in SUBSET (DOMAIN sizeToCount)
  BY <1>1, <1>2 DEF Before
<1>4. ASSUME i = 1 PROVE Before = {}
  BY <1>4 DEF Before
<1>5. ASSUME i > Len(sizes) PROVE Before = DOMAIN sizeToCount
  <2>1. i - 1 = Len(sizes)
    BY <1>1, <1>5
  <2> QED BY <1>1, <1>2, <2>1 DEF Before
<1>6. ASSUME i <= Len(sizes)
      PROVE  /\ sizes[i] \in DOMAIN sizeToCount /\ sizes[i] \notin Before
             /\ i \in 1..Len(sizes) /\ i + 1 \in 1..(Len(sizes) + 1)
             /\ {sizes[p] : p \in 1..((i + 1) - 1)} = Before \union {sizes[i]}
  <2>1. i \in 1..Len(sizes) /\ i + 1 \in 1..(Len(sizes) + 1)
    BY <1>1, <1>6
  <2>2. sizes[i] \in DOMAIN sizeToCount
    BY <1>1, <1>2, <2>1
  <2>3. sizes[i] \notin Before
    <3>1. \A p \in 1..(i - 1) : p \in 1..Len(sizes) /\ p # i
      BY <1>1, <2>1
    <3> QED BY <2>1, <3>1 DEF Before, TypeInv
  <2>4. \A p : p \in 1..((i + 1) - 1) <=> p \in 1..(i - 1) \/ p = i
    BY <2>1
  <2> QED BY <2>1, <2>2, <2>3, <2>4 DEF Before
<1> QED BY <1>3, <1>4, <1>5, <1>6

(* In the sorted sizes, those up to the size at place i are those before    *)
(* the place and the size itself.                                           *)
LEMMA SortedBefore ==
  ASSUME TypeInv, SortInv, phase # "sort", i <= Len(sizes)
  PROVE  /\ \A s \in Before : s < sizes[i]
         /\ \A s \in DOMAIN sizeToCount \ Before : sizes[i] <= s
         /\ {s \in DOMAIN sizeToCount : s <= sizes[i]} = Before \union {sizes[i]}
<1>1. /\ i \in 1..Len(sizes) /\ Len(sizes) \in Nat /\ DOMAIN sizes = 1..Len(sizes)
      /\ DOMAIN sizeToCount = ToSet(sizes) /\ \A p \in 1..Len(sizes) : sizes[p] \in Nat
  BY SMTT(30) DEF TypeInv
<1>2. \A x : x \in ToSet(sizes) <=> \E p \in 1..Len(sizes) : sizes[p] = x
  BY <1>1 DEF ToSet
<1>3. \A p, q \in 1..Len(sizes) : p < q => sizes[p] < sizes[q]
  BY DEF SortInv
<1>4. ASSUME NEW s \in Before PROVE s < sizes[i]
  <2>1. PICK p \in 1..(i - 1) : s = sizes[p]
    BY DEF Before
  <2>2. p \in 1..Len(sizes) /\ p < i
    BY <1>1, <2>1
  <2> QED BY <1>1, <1>3, <2>1, <2>2
<1>5. ASSUME NEW s \in DOMAIN sizeToCount \ Before PROVE sizes[i] <= s
  <2>1. PICK p \in 1..Len(sizes) : s = sizes[p]
    BY <1>1, <1>2
  <2>2. p \notin 1..(i - 1)
    BY <2>1 DEF Before
  <2>3. p = i \/ i < p
    BY <1>1, <2>2
  <2> QED BY <1>1, <1>3, <2>1, <2>3
<1>6. Before \in SUBSET (DOMAIN sizeToCount) /\ sizes[i] \in DOMAIN sizeToCount
  BY BeforeFacts
<1>7. DOMAIN sizeToCount \in SUBSET Nat /\ sizes[i] \in Nat
  BY <1>1, TotalFacts
<1>8. ASSUME NEW s \in DOMAIN sizeToCount PROVE s <= sizes[i] <=> s \in Before \union {sizes[i]}
  BY <1>4, <1>5, <1>7
<1> QED BY <1>4, <1>5, <1>6, <1>8

----------------------------------------------------------------------------
(* Products with a larger factor.                                           *)
LEMMA Products ==
  ASSUME NEW x \in Nat, NEW a \in Nat, NEW b \in Nat, a <= b
  PROVE  x * a \in Nat /\ x * a <= x * b /\ x * a = a * x
<1>1. x * b = x * a + x * (b - a)
  OBVIOUS
<1>2. b - a \in Nat
  OBVIOUS
<1>3. x * a \in Nat /\ x * (b - a) \in Nat
  BY <1>2
<1>4. x * a = a * x
  OBVIOUS
<1> QED BY <1>1, <1>3, <1>4

(* The bounds ascend from the smallest to the largest size, however close   *)
(* together these are.                                                      *)
LEMMA BoundFacts ==
  ASSUME TypeInv
  PROVE  /\ Bound(0) = Smallest /\ Bound(bucketCount) = Largest
         /\ \A b \in 0..bucketCount : Bound(b) \in Nat
         /\ \A a, b \in 0..bucketCount : a <= b => Bound(a) <= Bound(b)
<1>1. /\ Smallest \in Nat /\ Largest \in Nat /\ Smallest <= Largest
      /\ bucketCount \in Nat /\ bucketCount # 0
  <2>1. ToSet(sizes) \in SUBSET Nat
    BY SetOfSequence DEF TypeInv
  <2> QED BY <2>1, BucketAssumption DEF TypeInv
<1>2. Step \in Nat /\ Step * bucketCount <= Largest - Smallest
  <2> DEFINE d == Largest - Smallest
  <2>1. d \in Nat
    BY <1>1
  <2>2. d \div bucketCount \in Nat /\ (d \div bucketCount) * bucketCount <= d
    <3> HIDE DEF d
    <3> QED BY <1>1, <2>1
  <2> QED BY <2>2 DEF Step
<1>3. ASSUME NEW b \in 0..bucketCount
      PROVE  /\ Step * b \in Nat /\ Smallest + Step * b <= Largest
             /\ \A a \in 0..bucketCount : a <= b => Step * a <= Step * b /\ Step * a \in Nat
  <2>1. b \in Nat /\ b <= bucketCount
    BY <1>1
  <2>2. Step * b \in Nat /\ Step * b <= Step * bucketCount
    BY <1>1, <1>2, <2>1, Products
  <2>3. ASSUME NEW a \in 0..bucketCount, a <= b PROVE Step * a <= Step * b /\ Step * a \in Nat
    <3>1. a \in Nat
      BY <1>1
    <3> QED BY <1>2, <2>1, <2>3, <3>1, Products
  <2>4. Step * bucketCount \in Nat
    BY <1>1, <1>2, Products
  <2>5. Smallest + Step * b <= Largest
    BY <1>1, <1>2, <2>2, <2>4
  <2> QED BY <2>2, <2>3, <2>5
<1>4. Bound(0) = Smallest
  <2>1. Step * 0 = 0
    BY <1>2
  <2> QED BY <1>1, <2>1 DEF Bound
<1>5. \A b \in 0..bucketCount : Bound(b) \in Nat
  BY <1>1, <1>3 DEF Bound
<1>6. ASSUME NEW a \in 0..bucketCount, NEW b \in 0..bucketCount, a <= b PROVE Bound(a) <= Bound(b)
  <2>1. CASE b = bucketCount /\ a # bucketCount
    <3>1. Bound(b) = Largest /\ Bound(a) = Smallest + Step * a
      BY <2>1 DEF Bound
    <3> QED BY <1>3, <3>1
  <2>2. CASE b = bucketCount /\ a = bucketCount
    BY <1>1, <2>2 DEF Bound
  <2>3. CASE b # bucketCount
    <3>1. a # bucketCount
      BY <1>1, <1>6, <2>3
    <3>2. Bound(b) = Smallest + Step * b /\ Bound(a) = Smallest + Step * a
      BY <2>3, <3>1 DEF Bound
    <3>3. Step * a <= Step * b /\ Step * a \in Nat /\ Step * b \in Nat
      BY <1>3, <1>6
    <3> QED BY <1>1, <3>2, <3>3
  <2> QED BY <2>1, <2>2, <2>3
<1> QED BY <1>1, <1>4, <1>5, <1>6 DEF Bound

----------------------------------------------------------------------------
(* The initial states.                                                      *)
LEMMA InitTextInv == Init => TextInv
<1> SUFFICES ASSUME Init PROVE TextInv
  OBVIOUS
<1>1. PICK a \in Arrivals :
        /\ sizes = a[1] /\ sizeToCount = a[2]
        /\ Smallest = Min(ToSet(a[1])) /\ Largest = Max(ToSet(a[1]))
  BY DEF Init
<1>2. /\ sizes \in Seq(Nat) /\ sizes # <<>>
      /\ \A p, q \in 1..Len(sizes) : p # q => sizes[p] # sizes[q]
      /\ sizeToCount \in [ToSet(sizes) -> Nat \ {0}]
  BY <1>1, ArrivalsAssumption
<1>3. /\ Smallest \in ToSet(sizes) /\ Largest \in ToSet(sizes)
      /\ \A s \in ToSet(sizes) : Smallest <= s /\ s <= Largest
  <2>1. ToSet(sizes) \in SUBSET Int /\ IsFiniteSet(ToSet(sizes)) /\ ToSet(sizes) # {}
    BY <1>2, SetOfSequence
  <2>2. /\ Max(ToSet(sizes)) \in ToSet(sizes) /\ Min(ToSet(sizes)) \in ToSet(sizes)
        /\ \A s \in ToSet(sizes) : Min(ToSet(sizes)) <= s /\ s <= Max(ToSet(sizes))
    BY <2>1, FiniteMaxFacts, FiniteMinFacts
  <2> QED BY <1>1, <2>2
<1>4. Len(sizes) \in Nat /\ Len(pctls) \in Nat /\ bucketCount \in Nat
  BY <1>2, BucketAssumption, PctlsAssumption
<1>5. /\ buckets = [b \in 0..bucketCount |-> 0] /\ counts = [b \in 0..bucketCount |-> 0]
      /\ bi = 0 /\ n = 0 /\ j = 1 /\ cur = 0 /\ i = 1 /\ phase = "sort"
      /\ data = [p \in 1..Len(pctls) |-> 0]
  BY DEF Init
<1>6. TypeInv
  BY <1>2, <1>3, <1>4, <1>5 DEF TypeInv
<1>7. SortInv /\ HistogramInv /\ TableInv
  BY <1>4, <1>5 DEF SortInv, HistogramInv, TableInv, Early
<1> QED BY <1>6, <1>7 DEF TextInv

(* Every step keeps the types, and the order of the sizes once they are     *)
(* sorted.                                                                  *)
LEMMA TypeStep ==
  ASSUME TypeInv, SortInv, [Next]_vars
  PROVE  TypeInv' /\ SortInv'
<1>0. /\ Len(sizes) \in Nat \ {0} /\ Len(pctls) \in Nat /\ bucketCount \in Nat
      /\ sizes \in Seq(Nat) /\ i \in Nat /\ j \in Nat
  BY BucketAssumption, PctlsAssumption, SMTT(30) DEF TypeInv
<1>1. CASE Sort
  <2>1. /\ sizes' = SortInts(sizes) /\ phase' = "bounds"
        /\ UNCHANGED <<sizeToCount, Smallest, Largest, buckets, counts, bi, n, j, cur, data, i>>
    BY <1>1 DEF Sort, dataVars, histVars, pctVars
  <2>2. /\ sizes' \in Seq(Nat) /\ Len(sizes') = Len(sizes) /\ ToSet(sizes') = ToSet(sizes)
        /\ \A p, q \in 1..Len(sizes') : p < q => sizes'[p] < sizes'[q]
    BY <2>1, SortIntsFacts DEF TypeInv
  <2>3. \A p, q \in 1..Len(sizes') : p # q => sizes'[p] # sizes'[q]
    <3> SUFFICES ASSUME NEW p \in 1..Len(sizes'), NEW q \in 1..Len(sizes'), p # q
                 PROVE  sizes'[p] # sizes'[q]
      OBVIOUS
    <3>1. p < q \/ q < p
      BY <1>0, <2>2
    <3>2. sizes'[p] \in Nat /\ sizes'[q] \in Nat
      BY <2>2
    <3> QED BY <2>2, <3>1, <3>2
  <2>4. sizes' # <<>>
    BY <1>0, <2>2
  <2>5. TypeInv'
    BY <2>1, <2>2, <2>3, <2>4 DEF TypeInv
  <2> QED BY <2>2, <2>5 DEF SortInv
<1>2. CASE MakeBounds
  <2>1. /\ buckets' = [b \in 0..bucketCount |-> Bound(b)] /\ phase = "bounds" /\ phase' = "count"
        /\ UNCHANGED <<sizes, sizeToCount, Smallest, Largest, counts, bi, n, j, cur, data, i>>
    BY <1>2 DEF MakeBounds, dataVars, pctVars
  <2>2. buckets' \in [0..bucketCount -> Nat]
    BY <2>1, BoundFacts
  <2> QED BY <2>1, <2>2 DEF TypeInv, SortInv
<1>3. CASE CountSize
  <2>1. /\ counts' = [counts EXCEPT ![bi] = @ + sizeToCount[sizes[i]]]
        /\ i <= Len(sizes) /\ i' = i + 1
        /\ UNCHANGED <<sizes, sizeToCount, Smallest, Largest, buckets, bi, n, j, cur, data, phase>>
    BY <1>3 DEF CountSize, dataVars, pctVars
  <2>2. sizeToCount[sizes[i]] \in Nat /\ i' \in 1..(Len(sizes) + 1)
    BY <2>1, BeforeFacts, TotalFacts
  <2> DEFINE x == counts[bi] + sizeToCount[sizes[i]]
  <2>6. counts \in [0..bucketCount -> Nat] /\ bi \in 0..bucketCount
    BY DEF TypeInv
  <2>7. counts[bi] \in Nat
    BY <2>6
  <2>3. counts \in [0..bucketCount -> Nat] /\ bi \in 0..bucketCount /\ x \in Nat
    BY <2>2, <2>6, <2>7
  <2>4. counts' = [counts EXCEPT ![bi] = x]
    BY <2>1
  <2> HIDE DEF x
  <2>5. counts' \in [0..bucketCount -> Nat]
    BY <2>3, <2>4
  <2> QED BY <2>1, <2>2, <2>5 DEF TypeInv, SortInv
<1>4. CASE NextBucket
  <2>1. /\ bi' = IF bi < bucketCount THEN bi + 1 ELSE bi
        /\ UNCHANGED <<sizes, sizeToCount, Smallest, Largest, buckets, counts, n, j, cur, data, i, phase>>
    BY <1>4 DEF NextBucket, dataVars, pctVars
  <2>2. bi' \in 0..bucketCount
    BY <1>0, <2>1 DEF TypeInv
  <2> QED BY <2>1, <2>2 DEF TypeInv, SortInv
<1>5. CASE StartPercentiles
  <2>1. /\ n' = Total(DOMAIN sizeToCount) /\ i' = 1 /\ phase = "count" /\ phase' = "walk"
        /\ UNCHANGED <<sizes, sizeToCount, Smallest, Largest, buckets, counts, bi, j, cur, data>>
    BY <1>5 DEF StartPercentiles, dataVars, histVars
  <2>2. n' \in Nat
    BY <2>1, TotalFacts
  <2>3. i' \in 1..(Len(sizes') + 1)
    BY <1>0, <2>1
  <2>4. TypeInv'
    BY <2>1, <2>2, <2>3 DEF TypeInv
  <2>5. SortInv'
    BY <2>1 DEF SortInv
  <2> QED BY <2>4, <2>5
<1>6. CASE WalkStep
  <2>1. /\ IF Reaches(sizeToCount[sizes[i]])
             THEN data' = [data EXCEPT ![j] = sizes[i]] /\ j' = j + 1
             ELSE data' = data /\ j' = j
        /\ cur' = cur + sizeToCount[sizes[i]] /\ i' = i + 1
        /\ i <= Len(sizes) /\ j <= Len(pctls)
        /\ UNCHANGED <<sizes, sizeToCount, Smallest, Largest, buckets, counts, bi, n, phase>>
    BY <1>6 DEF WalkStep, Walking, dataVars, histVars
  <2>2. sizeToCount[sizes[i]] \in Nat /\ i' \in 1..(Len(sizes) + 1) /\ sizes[i] \in Nat
    BY <2>1, BeforeFacts, TotalFacts
  <2>3. cur' \in Nat
    <3>1. cur \in Nat
      BY DEF TypeInv
    <3> QED BY <2>1, <2>2, <3>1
  <2>4. j' \in 1..(Len(pctls) + 1) /\ data' \in [1..Len(pctls) -> Nat]
    <3>1. j \in 1..(Len(pctls) + 1) /\ data \in [1..Len(pctls) -> Nat]
      BY DEF TypeInv
    <3>2. j + 1 \in 1..(Len(pctls) + 1)
      BY <1>0, <2>1, <3>1
    <3>3. [data EXCEPT ![j] = sizes[i]] \in [1..Len(pctls) -> Nat]
      BY <2>2, <3>1
    <3> QED BY <2>1, <3>1, <3>2, <3>3
  <2> QED BY <2>1, <2>2, <2>3, <2>4 DEF TypeInv, SortInv
<1>7. CASE StartFill
  <2>1. /\ phase = "walk" /\ phase' = "fill"
        /\ UNCHANGED <<sizes, sizeToCount, Smallest, Largest, buckets, counts, bi, n, j, cur, data, i>>
    BY <1>7 DEF StartFill, dataVars, histVars, pctVars
  <2> QED BY <2>1 DEF TypeInv, SortInv
<1>8. CASE FillStep
  <2>1. /\ data' = IF data[j] = 0 THEN [data EXCEPT ![j] = FillWith] ELSE data
        /\ j <= Len(pctls) /\ j' = j + 1
        /\ UNCHANGED <<sizes, sizeToCount, Smallest, Largest, buckets, counts, bi, n, cur, i, phase>>
    BY <1>8 DEF FillStep, dataVars, histVars
  <2>2. FillWith \in Nat
    BY <1>0 DEF FillWith, maxSize
  <2>3. j' \in 1..(Len(pctls) + 1) /\ data' \in [1..Len(pctls) -> Nat]
    BY <1>0, <2>1, <2>2 DEF TypeInv
  <2> QED BY <2>1, <2>3 DEF TypeInv, SortInv
<1>9. CASE Return
  <2>1. /\ phase = "fill" /\ phase' = "done"
        /\ UNCHANGED <<sizes, sizeToCount, Smallest, Largest, buckets, counts, bi, n, j, cur, data, i>>
    BY <1>9 DEF Return, dataVars, histVars, pctVars
  <2> QED BY <2>1 DEF TypeInv, SortInv
<1>10. CASE UNCHANGED vars
  <2>1. UNCHANGED <<sizes, sizeToCount, Smallest, Largest, buckets, counts, bi, n, j, cur, data, i, phase>>
    BY <1>10 DEF vars, dataVars, histVars, pctVars
  <2> QED BY <2>1 DEF TypeInv, SortInv
<1> QED BY <1>1, <1>2, <1>3, <1>4, <1>5, <1>6, <1>7, <1>8, <1>9, <1>10 DEF Next

----------------------------------------------------------------------------
(* The histogram: what a step that leaves it alone keeps.                   *)
LEMMA HistogramFrame ==
  ASSUME HistogramInv, phase \notin Early, phase' \notin Early, Counted' = Counted,
         UNCHANGED <<sizeToCount, Smallest, Largest, buckets, counts, bi>>
  PROVE  HistogramInv'
<1>1. \A b : Bound(b)' = Bound(b)
  BY DEF Bound, Step
<1>2. \A s, b : InRow(s, b)' <=> InRow(s, b)
  BY DEF InRow
<1>3. \A S : Total(S)' = Total(S)
  BY Zenon DEF Total
<1>4. ASSUME NEW b PROVE Total({s \in Counted : InRow(s, b)})' = Total({s \in Counted : InRow(s, b)})
  <2>1. {s \in Counted : InRow(s, b)}' = {s \in Counted : InRow(s, b)}
    BY <1>2
  <2> QED BY <1>3, <2>1, Zenon DEF Total
<1> QED BY <1>1, <1>4 DEF HistogramInv

(* A size belongs to one row only: that of the first bound that is not      *)
(* below it.                                                                *)
LEMMA OneRow ==
  ASSUME TypeInv, HistogramInv, phase \notin Early,
         NEW s \in DOMAIN sizeToCount, NEW c \in 0..bucketCount,
         s <= buckets[c], c > 0 => buckets[c - 1] < s, NEW b \in 0..bucketCount
  PROVE  InRow(s, b) <=> b = c
<1>1. bucketCount \in Nat /\ b \in Nat /\ c \in Nat /\ s \in Nat
  <2>1. bucketCount \in Nat /\ s \in Nat
    BY BucketAssumption, SizesAreNumbers
  <2> QED BY <2>1
<1>2. \A x \in 0..bucketCount : buckets[x] \in Nat
  BY BoundFacts DEF HistogramInv
<1>3. \A x, y \in 0..bucketCount : x <= y => buckets[x] <= buckets[y]
  BY BoundFacts DEF HistogramInv
<1>4. CASE b = c
  BY <1>4 DEF InRow
<1>5. CASE b < c
  <2>1. c > 0 /\ c - 1 \in 0..bucketCount /\ b <= c - 1
    BY <1>1, <1>5
  <2>2. buckets[b] <= buckets[c - 1] /\ buckets[c - 1] < s
    BY <1>3, <2>1
  <2>3. ~(s <= buckets[b])
    BY <1>1, <1>2, <2>1, <2>2
  <2> QED BY <1>1, <1>5, <2>3 DEF InRow
<1>6. CASE c < b
  <2>1. b > 0 /\ b - 1 \in 0..bucketCount /\ c <= b - 1
    BY <1>1, <1>6
  <2>2. buckets[c] <= buckets[b - 1]
    BY <1>3, <2>1
  <2>3. ~(buckets[b - 1] < s)
    BY <1>1, <1>2, <2>1, <2>2
  <2> QED BY <1>1, <1>6, <2>1, <2>3 DEF InRow
<1> QED BY <1>1, <1>4, <1>5, <1>6

(* Counting a size adds its count to its row and to no other.               *)
LEMMA CountSizeStep ==
  ASSUME TypeInv, SortInv, HistogramInv, CountSize
  PROVE  HistogramInv'
<1>1. /\ phase = "count" /\ phase' = "count" /\ i <= Len(sizes) /\ i' = i + 1
      /\ sizes[i] <= buckets[bi]
      /\ counts' = [counts EXCEPT ![bi] = @ + sizeToCount[sizes[i]]]
      /\ UNCHANGED <<sizes, sizeToCount, Smallest, Largest, buckets, bi>>
  BY DEF CountSize, InBucket, dataVars
<1> DEFINE s0 == sizes[i]
           C == Counted
<1>2. /\ C \in SUBSET (DOMAIN sizeToCount) /\ s0 \in DOMAIN sizeToCount \ C
      /\ Counted' = C \union {s0}
  <2>1. C = Before
    BY <1>1 DEF Counted, Early
  <2>2. Counted' = {sizes[p] : p \in 1..((i + 1) - 1)}
    BY <1>1 DEF Counted, Early, Before
  <2>3. /\ Before \in SUBSET (DOMAIN sizeToCount) /\ s0 \in DOMAIN sizeToCount /\ s0 \notin Before
        /\ {sizes[p] : p \in 1..((i + 1) - 1)} = Before \union {s0}
    BY <1>1, BeforeFacts
  <2> HIDE DEF C, s0
  <2> QED BY <2>1, <2>2, <2>3
<1>3. /\ bi \in 0..bucketCount /\ counts \in [0..bucketCount -> Nat]
      /\ bi > 0 => buckets[bi - 1] < s0
      /\ \A b \in 0..bucketCount : counts[b] = Total({s \in C : InRow(s, b)})
      /\ \A s \in DOMAIN sizeToCount \ C : bi > 0 => buckets[bi - 1] < s
  BY <1>1, <1>2 DEF TypeInv, HistogramInv, Early
<1>4. \A b \in 0..bucketCount : InRow(s0, b) <=> b = bi
  BY <1>1, <1>2, <1>3, OneRow DEF Early
<1> HIDE DEF C, s0
<1>5. ASSUME NEW b \in 0..bucketCount
      PROVE  counts'[b] = Total({s \in C \union {s0} : InRow(s, b)})
  <2> DEFINE S == {s \in C : InRow(s, b)}
  <2>1. S \in SUBSET (DOMAIN sizeToCount) /\ s0 \in DOMAIN sizeToCount \ S
    BY <1>2
  <2>2. counts[b] = Total(S)
    BY <1>3
  <2>3. CASE b = bi
    <3>1. {s \in C \union {s0} : InRow(s, b)} = S \union {s0}
      BY <1>4, <2>3
    <3>2. Total(S \union {s0}) = sizeToCount[s0] + Total(S) /\ Total(S) \in Nat /\ sizeToCount[s0] \in Nat
      <4> HIDE DEF S
      <4> QED BY <2>1, TotalFacts
    <3>3. counts'[b] = counts[b] + sizeToCount[s0]
      BY <1>1, <1>3, <2>3 DEF s0
    <3> HIDE DEF S
    <3>4. counts'[b] = Total(S \union {s0})
      BY <2>2, <3>2, <3>3
    <3> QED BY <3>1, <3>4, Zenon
  <2>4. CASE b # bi
    <3>1. {s \in C \union {s0} : InRow(s, b)} = S
      BY <1>4, <2>4
    <3>2. counts'[b] = counts[b]
      BY <1>1, <1>3, <2>4
    <3> QED BY <2>2, <3>1, <3>2, Zenon
  <2> QED BY <2>3, <2>4
<1>6. \A b \in 0..bucketCount : Bound(b)' = Bound(b) /\ buckets[b] = Bound(b)
  BY <1>1 DEF HistogramInv, Early, Bound, Step
<1>7. ASSUME NEW b \in 0..bucketCount
      PROVE  counts'[b] = Total({s \in Counted : InRow(s, b)})'
  <2>1. \A s : InRow(s, b)' <=> InRow(s, b)
    BY <1>1 DEF InRow
  <2>2. {s \in Counted : InRow(s, b)}' = {s \in C \union {s0} : InRow(s, b)}
    BY <1>2, <2>1
  <2> QED BY <1>1, <1>5, <2>2, Zenon DEF Total
<1>8. \A s \in DOMAIN sizeToCount' \ Counted' : bi' > 0 => buckets'[bi' - 1] < s
  BY <1>1, <1>2, <1>3
<1> QED BY <1>1, <1>6, <1>7, <1>8 DEF HistogramInv, Early

(* Passing a bound leaves the sizes that are left above it.                 *)
LEMMA NextBucketStep ==
  ASSUME TypeInv, SortInv, HistogramInv, NextBucket
  PROVE  HistogramInv'
<1>1. /\ phase = "count" /\ phase' = "count" /\ i <= Len(sizes) /\ i' = i
      /\ ~(sizes[i] <= buckets[bi])
      /\ bi' = IF bi < bucketCount THEN bi + 1 ELSE bi
      /\ UNCHANGED <<sizes, sizeToCount, Smallest, Largest, buckets, counts>>
  BY DEF NextBucket, InBucket, dataVars
<1>2. Counted = Before /\ Counted' = Counted
  BY <1>1 DEF Counted, Early, Before
<1>3. /\ bi \in Nat /\ bi \in 0..bucketCount /\ buckets[bi] \in Nat
      /\ DOMAIN sizeToCount \in SUBSET Nat /\ sizes[i] \in DOMAIN sizeToCount
  <2>1. bi \in 0..bucketCount /\ buckets \in [0..bucketCount -> Nat]
    BY DEF TypeInv
  <2>2. sizes[i] \in DOMAIN sizeToCount
    BY <1>1, BeforeFacts
  <2> QED BY <2>1, <2>2, SizesAreNumbers, BucketAssumption
<1>4. ASSUME NEW s \in DOMAIN sizeToCount \ Before PROVE buckets[bi] < s
  <2>1. sizes[i] <= s
    BY <1>1, SortedBefore
  <2> QED BY <1>1, <1>3, <2>1
<1>5. \A s \in DOMAIN sizeToCount \ Counted : bi > 0 => buckets[bi - 1] < s
  BY <1>1 DEF HistogramInv, Early
<1>6. ASSUME NEW s \in DOMAIN sizeToCount \ Counted PROVE bi' > 0 => buckets[bi' - 1] < s
  <2>1. CASE bi' = bi
    BY <1>5, <2>1
  <2>2. CASE bi' = bi + 1
    <3>1. bi' - 1 = bi
      BY <1>3, <2>2
    <3> QED BY <1>2, <1>4, <3>1
  <2> QED BY <1>1, <2>1, <2>2
<1>7. \A b \in 0..bucketCount : Bound(b)' = Bound(b)
  BY <1>1 DEF Bound, Step
<1>8. ASSUME NEW b \in 0..bucketCount
      PROVE  Total({s \in Counted : InRow(s, b)})' = Total({s \in Counted : InRow(s, b)})
  <2>1. \A s : InRow(s, b)' <=> InRow(s, b)
    BY <1>1 DEF InRow
  <2>2. {s \in Counted : InRow(s, b)}' = {s \in Counted : InRow(s, b)}
    BY <1>2, <2>1
  <2> QED BY <1>1, <2>2, Zenon DEF Total
<1>9. /\ \A b \in 0..bucketCount : buckets[b] = Bound(b)
      /\ \A b \in 0..bucketCount : counts[b] = Total({s \in Counted : InRow(s, b)})
  BY <1>1 DEF HistogramInv, Early
<1>10. \A s \in DOMAIN sizeToCount' \ Counted' : bi' > 0 => buckets'[bi' - 1] < s
  BY <1>1, <1>2, <1>6
<1>11. \A b \in 0..bucketCount : counts'[b] = Total({s \in Counted : InRow(s, b)})'
  BY <1>1, <1>8, <1>9
<1>12. \A b \in 0..bucketCount : buckets'[b] = Bound(b)'
  BY <1>1, <1>7, <1>9
<1> QED BY <1>1, <1>10, <1>11, <1>12 DEF HistogramInv, Early

(* Every step keeps what the rows hold.                                     *)
LEMMA HistogramStep ==
  ASSUME TypeInv, SortInv, HistogramInv, [Next]_vars
  PROVE  HistogramInv'
<1>1. CASE Sort
  <2>1. phase = "sort" /\ phase' = "bounds" /\ UNCHANGED <<counts, bi, i>>
    BY <1>1 DEF Sort, histVars
  <2> QED BY <2>1 DEF HistogramInv, Early
<1>2. CASE MakeBounds
  <2>1. /\ phase = "bounds" /\ phase' = "count"
        /\ buckets' = [b \in 0..bucketCount |-> Bound(b)]
        /\ UNCHANGED <<sizes, sizeToCount, Smallest, Largest, counts, bi, i>>
    BY <1>2 DEF MakeBounds, dataVars
  <2>2. i = 1 /\ bi = 0 /\ \A b \in 0..bucketCount : counts[b] = 0
    BY <2>1 DEF HistogramInv, Early
  <2>3. Counted' = {}
    BY <2>1, <2>2 DEF Counted, Before, Early
  <2>4. ASSUME NEW b \in 0..bucketCount PROVE Total({s \in Counted : InRow(s, b)})' = 0
    <3>1. {s \in Counted : InRow(s, b)}' = {}
      BY <2>3
    <3>2. SumFunctionOnSet(sizeToCount', {}) = 0
      BY SetSumEmpty
    <3> QED BY <3>1, <3>2, Zenon DEF Total
  <2>5. \A b \in 0..bucketCount : buckets'[b] = Bound(b)'
    BY <2>1 DEF Bound, Step
  <2>6. \A b \in 0..bucketCount : counts'[b] = Total({s \in Counted : InRow(s, b)})'
    BY <2>1, <2>2, <2>4
  <2> QED BY <2>1, <2>2, <2>5, <2>6 DEF HistogramInv, Early
<1>3. CASE CountSize \/ NextBucket
  BY <1>3, CountSizeStep, NextBucketStep
<1>4. CASE StartPercentiles
  <2>1. /\ phase = "count" /\ phase' = "walk" /\ i > Len(sizes)
        /\ UNCHANGED <<sizeToCount, Smallest, Largest, buckets, counts, bi>>
    BY <1>4 DEF StartPercentiles, dataVars, histVars
  <2>2. Counted' = DOMAIN sizeToCount /\ Counted = Before
    BY <2>1 DEF Counted, Early
  <2>3. Counted' = Counted
    BY <2>1, <2>2, BeforeFacts
  <2> QED BY <2>1, <2>3, HistogramFrame DEF Early
<1>5. CASE WalkStep \/ StartFill \/ FillStep \/ Return
  <2>1. /\ phase \in {"walk", "fill"} /\ phase' \in {"walk", "fill", "done"}
        /\ UNCHANGED <<sizeToCount, Smallest, Largest, buckets, counts, bi>>
    BY <1>5 DEF WalkStep, Walking, StartFill, FillStep, Return, dataVars, histVars
  <2>2. Counted' = Counted
    BY <2>1 DEF Counted, Early
  <2> QED BY <2>1, <2>2, HistogramFrame DEF Early
<1>6. CASE UNCHANGED vars
  <2>1. UNCHANGED <<sizes, sizeToCount, Smallest, Largest, buckets, counts, bi, i, phase>>
    BY <1>6 DEF vars, dataVars, histVars
  <2>2. CASE phase \in Early
    BY <2>1, <2>2 DEF HistogramInv, Early
  <2>3. CASE phase \notin Early
    <3>1. Counted' = Counted
      BY <2>1 DEF Counted, Before, Early
    <3> QED BY <2>1, <2>3, <3>1, HistogramFrame DEF Early
  <2> QED BY <2>2, <2>3
<1> QED BY <1>1, <1>2, <1>3, <1>4, <1>5, <1>6 DEF Next

----------------------------------------------------------------------------
(* What each row holds, in terms of its bounds.                             *)
RowSums ==
  /\ counts[0] = AtMost(buckets[0])
  /\ \A b \in 1..bucketCount : counts[b] = Occurring(buckets[b - 1], buckets[b])

(* The sizes up to a bound are those up to a smaller one and those in       *)
(* between.                                                                 *)
LEMMA SplitAtMost ==
  ASSUME TypeInv, NEW x \in Nat, NEW y \in Nat, x <= y
  PROVE  AtMost(x) \in Nat /\ AtMost(y) = AtMost(x) + Occurring(x, y)
<1> DEFINE D == DOMAIN sizeToCount
           R == {s \in D : -1 < s /\ s <= x}
           S == {s \in D : -1 < s /\ s <= y}
<1>1. \A s \in D : s \in Nat
  BY SizesAreNumbers
<1>2. R \in SUBSET S /\ S \in SUBSET D /\ R \in SUBSET D
  BY <1>1
<1>3. S \ R = {s \in D : x < s /\ s <= y}
  BY <1>1
<1> HIDE DEF R, S
<1>4. Total(S) = Total(R) + Total(S \ R) /\ Total(R) \in Nat
  BY <1>2, TotalFacts
<1> QED BY <1>3, <1>4, Zenon DEF AtMost, Occurring, R, S

(* The first rows together hold the sizes up to the bound of the last of    *)
(* them.                                                                    *)
LEMMA SumOfRows ==
  ASSUME TypeInv, HistogramInv, phase \notin Early, RowSums, NEW k \in 0..bucketCount
  PROVE  SumFunctionOnSet(counts, 0..k) = AtMost(buckets[k])
<1> DEFINE Holds(b) == SumFunctionOnSet(counts, 0..b) = AtMost(buckets[b])
           U == {b \in Nat : b <= bucketCount => Holds(b)}
<1>1. bucketCount \in Nat \ {0} /\ \A b \in 0..bucketCount : counts[b] \in Nat
  BY BucketAssumption DEF TypeInv
<1>2. 0 \in U
  <2>1. 0..0 = {} \union {0}
    OBVIOUS
  <2>2. SumFunctionOnSet(counts, {} \union {0}) = counts[0] + SumFunctionOnSet(counts, {})
    <3>1. IsFiniteSet({}) /\ counts[0] \in Nat /\ 0 \notin {} /\ \A y \in {} : counts[y] \in Nat
      BY <1>1, FS_EmptySet
    <3> QED BY <3>1, SetSumAdd
  <2>3. SumFunctionOnSet(counts, {}) = 0 /\ counts[0] \in Nat
    BY <1>1, SetSumEmpty
  <2>4. Holds(0)
    BY <2>1, <2>2, <2>3 DEF RowSums
  <2> HIDE DEF Holds
  <2> QED BY <2>4
<1>3. ASSUME NEW b \in Nat, b \in U PROVE b + 1 \in U
  <2>1. SUFFICES ASSUME b + 1 <= bucketCount PROVE Holds(b + 1)
    <3> HIDE DEF Holds
    <3> QED OBVIOUS
  <2>2. b \in 0..bucketCount /\ b + 1 \in 1..bucketCount /\ b + 1 \in 0..bucketCount /\ (b + 1) - 1 = b
    BY <1>1, <2>1
  <2>3. Holds(b)
    <3> HIDE DEF Holds
    <3> QED BY <1>3, <2>2
  <2>4. 0..(b + 1) = (0..b) \union {b + 1}
    OBVIOUS
  <2>5. SumFunctionOnSet(counts, (0..b) \union {b + 1}) = counts[b + 1] + SumFunctionOnSet(counts, 0..b)
    <3>1. IsFiniteSet(0..b)
      BY FS_Interval
    <3>2. counts[b + 1] \in Nat /\ b + 1 \notin 0..b /\ \A y \in 0..b : counts[y] \in Nat
      BY <1>1, <2>2
    <3> QED BY <3>1, <3>2, SetSumAdd
  <2>6. counts[b + 1] = Occurring(buckets[b], buckets[b + 1])
    BY <2>2 DEF RowSums
  <2>7. /\ AtMost(buckets[b]) \in Nat
        /\ AtMost(buckets[b + 1]) = AtMost(buckets[b]) + Occurring(buckets[b], buckets[b + 1])
    <3>1. buckets[b] \in Nat /\ buckets[b + 1] \in Nat /\ buckets[b] <= buckets[b + 1]
      BY <2>2, BoundFacts DEF HistogramInv
    <3> QED BY <3>1, SplitAtMost
  <2>8. counts[b + 1] \in Nat
    BY <1>1, <2>2
  <2>9. SumFunctionOnSet(counts, 0..(b + 1)) = counts[b + 1] + AtMost(buckets[b])
    BY <2>3, <2>4, <2>5, Zenon
  <2>10. AtMost(buckets[b + 1]) = AtMost(buckets[b]) + counts[b + 1]
    BY <2>6, <2>7, Zenon
  <2>11. counts[b + 1] + AtMost(buckets[b]) = AtMost(buckets[b]) + counts[b + 1]
    BY <2>7, <2>8
  <2> QED BY <2>9, <2>10, <2>11, Zenon
<1>4. k \in U
  <2>1. k \in Nat
    BY <1>1
  <2> HIDE DEF U
  <2> QED BY <1>2, <1>3, <2>1, SetInduction
<1> QED BY <1>1, <1>4

(* When the rendering is done the rows, in text and in JSON, divide all the *)
(* sizes among them.                                                        *)
LEMMA TextInvGivesRows == TypeInv /\ HistogramInv => RowsPartitionTheSizes
<1> SUFFICES ASSUME TypeInv, HistogramInv, Done
             PROVE  /\ buckets[0] = Smallest /\ buckets[bucketCount] = Largest
                    /\ \A b \in 1..bucketCount : buckets[b - 1] <= buckets[b]
                    /\ counts[0] = AtMost(buckets[0])
                    /\ \A b \in 1..bucketCount : counts[b] = Occurring(buckets[b - 1], buckets[b])
                    /\ SumFunction(counts) = SumFunction(sizeToCount)
                    /\ SumFunction([b \in DOMAIN JSONRows |-> JSONRows[b].count])
                         = AtMost(buckets[bucketCount - 1])
  BY DEF RowsPartitionTheSizes
<1> DEFINE D == DOMAIN sizeToCount
<1>1. phase \notin Early /\ Counted = D /\ bucketCount \in Nat \ {0}
  BY BucketAssumption DEF Done, Counted, Early
<1>2. /\ \A b \in 0..bucketCount : buckets[b] = Bound(b)
      /\ \A b \in 0..bucketCount : counts[b] = Total({s \in D : InRow(s, b)})
  BY <1>1 DEF HistogramInv
<1>3. \A s \in D : s \in Nat
  BY SizesAreNumbers
<1>4. buckets[0] = Smallest /\ buckets[bucketCount] = Largest
  <2>1. 0 \in 0..bucketCount /\ bucketCount \in 0..bucketCount
    BY <1>1
  <2> QED BY <1>2, <2>1, BoundFacts
<1>5. \A b \in 1..bucketCount : buckets[b - 1] <= buckets[b]
  <2> TAKE b \in 1..bucketCount
  <2>1. b - 1 \in 0..bucketCount /\ b \in 0..bucketCount /\ b - 1 <= b
    BY <1>1
  <2> QED BY <1>2, <2>1, BoundFacts
<1>6. RowSums
  <2>1. counts[0] = AtMost(buckets[0])
    <3>1. {s \in D : InRow(s, 0)} = {s \in D : -1 < s /\ s <= buckets[0]}
      BY <1>3 DEF InRow
    <3>2. 0 \in 0..bucketCount
      BY <1>1
    <3> QED BY <1>2, <3>1, <3>2, Zenon DEF AtMost, Occurring
  <2>2. ASSUME NEW b \in 1..bucketCount PROVE counts[b] = Occurring(buckets[b - 1], buckets[b])
    <3>1. {s \in D : InRow(s, b)} = {s \in D : buckets[b - 1] < s /\ s <= buckets[b]}
      BY <1>1 DEF InRow
    <3>2. b \in 0..bucketCount
      BY <1>1
    <3> QED BY <1>2, <3>1, <3>2, Zenon DEF Occurring
  <2> QED BY <2>1, <2>2 DEF RowSums
<1>7. SumFunction(counts) = SumFunction(sizeToCount)
  <2>1. DOMAIN counts = 0..bucketCount /\ bucketCount \in 0..bucketCount
    BY <1>1 DEF TypeInv
  <2>2. SumFunctionOnSet(counts, 0..bucketCount) = AtMost(buckets[bucketCount])
    BY <1>1, <1>6, <2>1, SumOfRows
  <2>3. {s \in D : -1 < s /\ s <= buckets[bucketCount]} = D
    <3>1. \A s \in D : s <= Largest
      BY TotalFacts DEF TypeInv
    <3> QED BY <1>3, <1>4, <3>1
  <2>4. AtMost(buckets[bucketCount]) = SumFunctionOnSet(sizeToCount, DOMAIN sizeToCount)
    BY <2>3, Zenon DEF AtMost, Occurring, Total
  <2> QED BY <2>1, <2>2, <2>4, Zenon DEF SumFunction
<1>8. SumFunction([b \in DOMAIN JSONRows |-> JSONRows[b].count]) = AtMost(buckets[bucketCount - 1])
  <2> DEFINE f == [b \in DOMAIN JSONRows |-> JSONRows[b].count]
  <2>1. DOMAIN JSONRows = 0..(bucketCount - 1) /\ \A b \in 0..(bucketCount - 1) : JSONRows[b].count = counts[b]
    BY DEF JSONRows
  <2>2. DOMAIN f = 0..(bucketCount - 1) /\ \A b \in 0..(bucketCount - 1) : f[b] = counts[b]
    BY <2>1
  <2> HIDE DEF f
  <2>3. \A b \in 0..(bucketCount - 1) : counts[b] \in Nat
    <3>1. \A b \in 0..(bucketCount - 1) : b \in 0..bucketCount
      BY <1>1
    <3> QED BY <3>1 DEF TypeInv
  <2>4. IsFiniteSet(0..(bucketCount - 1))
    <3>1. bucketCount - 1 \in Nat
      BY <1>1
    <3> QED BY <3>1, FS_Interval
  <2>5. SumFunctionOnSet(f, 0..(bucketCount - 1)) = SumFunctionOnSet(counts, 0..(bucketCount - 1))
    BY <2>2, <2>3, <2>4, SetSumSame
  <2>6. SumFunctionOnSet(counts, 0..(bucketCount - 1)) = AtMost(buckets[bucketCount - 1])
    <3>1. bucketCount - 1 \in 0..bucketCount
      BY <1>1
    <3> QED BY <1>1, <1>6, <3>1, SumOfRows
  <2>7. SumFunction(f) = AtMost(buckets[bucketCount - 1])
    BY <2>2, <2>5, <2>6, Zenon DEF SumFunction
  <2> QED BY <2>7 DEF f
<1> QED BY <1>4, <1>5, <1>6, <1>7, <1>8 DEF RowSums

----------------------------------------------------------------------------
(* The percentile table: what depends on the counts and n alone.            *)
LEMMA TableFrame ==
  ASSUME UNCHANGED <<sizeToCount, n>>
  PROVE  /\ \A p, s : Suffices(p, s)' <=> Suffices(p, s)
         /\ \A p : NearestRank(p)' = NearestRank(p)
<1>1. \A S : Total(S)' = Total(S)
  BY Zenon DEF Total
<1>2. ASSUME NEW s PROVE AtMost(s)' = AtMost(s)
  <2>1. {t \in DOMAIN sizeToCount : -1 < t /\ t <= s}' = {t \in DOMAIN sizeToCount : -1 < t /\ t <= s}
    OBVIOUS
  <2> QED BY <1>1, <2>1, Zenon DEF AtMost, Occurring, Total
<1>3. ASSUME NEW p, NEW s PROVE Suffices(p, s)' <=> Suffices(p, s)
  BY <1>2, Zenon DEF Suffices
<1>4. ASSUME NEW p PROVE NearestRank(p)' = NearestRank(p)
  <2>1. {s \in DOMAIN sizeToCount : AtMost(s) * 100 >= pctls[p] * n}'
          = {s \in DOMAIN sizeToCount : AtMost(s) * 100 >= pctls[p] * n}
    BY <1>2
  <2> QED BY <2>1, Zenon DEF NearestRank
<1> QED BY <1>3, <1>4

(* The thresholds are percentages and ascend.                               *)
LEMMA PctlsFacts ==
  ASSUME NEW p \in 1..Len(pctls)
  PROVE  /\ Len(pctls) \in Nat /\ pctls[p] \in Nat /\ pctls[p] <= 100
         /\ \A q \in 1..Len(pctls) : q < p => pctls[q] < pctls[p]
<1>1. PICK S : S = 1..100
  OBVIOUS
<1>2. pctls \in Seq(S)
  BY <1>1, PctlsAssumption, Zenon
<1>3. pctls[p] \in S /\ Len(pctls) \in Nat
  BY <1>2
<1>4. pctls[p] \in Nat /\ pctls[p] <= 100
  <2>1. pctls[p] \in 1..100
    BY <1>1, <1>3, Zenon
  <2>2. \A k \in 1..100 : k \in Nat /\ k <= 100
    OBVIOUS
  <2> QED BY <2>1, <2>2, Zenon
<1> QED BY <1>3, <1>4, PctlsAssumption

(* All the sizes up to the largest suffice for every threshold; what        *)
(* suffices for one suffices for the smaller ones.                          *)
LEMMA Thresholds ==
  ASSUME TypeInv, n = Total(DOMAIN sizeToCount), NEW p \in 1..Len(pctls), NEW s \in DOMAIN sizeToCount
  PROVE  /\ (\A x \in DOMAIN sizeToCount : x <= s) => Suffices(p, s)
         /\ Suffices(p, s) => \A q \in 1..Len(pctls) : q <= p => Suffices(q, s)
<1>1. /\ pctls[p] \in Nat /\ pctls[p] <= 100 /\ \A q \in 1..Len(pctls) : pctls[q] \in Nat
      /\ \A q \in 1..Len(pctls) : q < p => pctls[q] < pctls[p]
  BY PctlsFacts
<1>2. n \in Nat /\ AtMost(s) \in Nat
  <2>1. {t \in DOMAIN sizeToCount : -1 < t /\ t <= s} \in SUBSET (DOMAIN sizeToCount)
    OBVIOUS
  <2> QED BY <2>1, TotalFacts DEF AtMost, Occurring, TypeInv
<1>3. ASSUME \A x \in DOMAIN sizeToCount : x <= s PROVE Suffices(p, s)
  <2>1. {t \in DOMAIN sizeToCount : -1 < t /\ t <= s} = DOMAIN sizeToCount
    <3>1. \A t \in DOMAIN sizeToCount : -1 < t
      <4>1. \A t \in DOMAIN sizeToCount : t \in Nat
        BY SizesAreNumbers
      <4> QED BY <4>1
    <3> QED BY <1>3, <3>1
  <2>2. AtMost(s) = n
    BY <2>1, Zenon DEF AtMost, Occurring
  <2>3. n * pctls[p] <= n * 100 /\ n * pctls[p] = pctls[p] * n
    <3>1. pctls[p] \in Nat /\ 100 \in Nat /\ pctls[p] <= 100
      BY <1>1
    <3> QED BY <1>2, <3>1, Products
  <2>4. n * 100 >= pctls[p] * n
    BY <2>3
  <2> QED BY <2>2, <2>4 DEF Suffices
<1>4. ASSUME Suffices(p, s), NEW q \in 1..Len(pctls), q <= p PROVE Suffices(q, s)
  <2>1. pctls[q] \in Nat /\ pctls[p] \in Nat /\ pctls[q] <= pctls[p]
    <3>1. q = p \/ q < p
      BY <1>4, PctlsFacts
    <3> QED BY <1>1, <3>1
  <2>2. n * pctls[q] <= n * pctls[p]
    BY <1>2, <2>1, Products
  <2>3. pctls[q] * n <= pctls[p] * n /\ pctls[q] * n \in Nat /\ pctls[p] * n \in Nat
    <3>1. n * pctls[q] = pctls[q] * n /\ n * pctls[q] \in Nat
      BY <1>2, <2>1, Products
    <3>2. n * pctls[p] = pctls[p] * n /\ n * pctls[p] \in Nat
      <4>1. pctls[p] <= pctls[p]
        BY <2>1
      <4> QED BY <1>2, <2>1, <4>1, Products
    <3> QED BY <2>2, <3>1, <3>2, Zenon
  <2>4. AtMost(s) * 100 >= pctls[p] * n /\ AtMost(s) * 100 \in Nat
    BY <1>2, <1>4 DEF Suffices
  <2> QED BY <2>3, <2>4 DEF Suffices
<1> QED BY <1>3, <1>4

(* If nothing before place i suffices for a threshold, and the size at it   *)
(* does, then that is the nearest rank.                                     *)
LEMMA RankAtPlace ==
  ASSUME TypeInv, SortInv, phase # "sort", i <= Len(sizes), NEW p,
         Suffices(p, sizes[i]), \A s \in Before : ~Suffices(p, s)
  PROVE  NearestRank(p) = sizes[i]
<1> DEFINE S == {s \in DOMAIN sizeToCount : AtMost(s) * 100 >= pctls[p] * n}
<1>1. \A s : s \in S <=> s \in DOMAIN sizeToCount /\ Suffices(p, s)
  BY DEF Suffices
<1>2. sizes[i] \in S
  BY <1>1, BeforeFacts
<1>3. ASSUME NEW s \in S PROVE sizes[i] <= s
  <2>1. s \in DOMAIN sizeToCount \ Before
    BY <1>1
  <2> QED BY <2>1, SortedBefore
<1>4. S \in SUBSET Int
  BY SizesAreNumbers
<1> HIDE DEF S
<1>5. Min(S) = sizes[i]
  BY <1>2, <1>3, <1>4, MinIs
<1> QED BY <1>5 DEF S, NearestRank

(* What the loop compares is the share of the sizes up to the current one.  *)
LEMMA ReachesIsSuffices ==
  ASSUME TypeInv, SortInv, phase # "sort", i <= Len(sizes), cur = Total(Before)
  PROVE  /\ Reaches(sizeToCount[sizes[i]]) <=> Suffices(j, sizes[i])
         /\ cur + sizeToCount[sizes[i]] = Total(Before \union {sizes[i]})
<1>1. Before \in SUBSET (DOMAIN sizeToCount) /\ sizes[i] \in DOMAIN sizeToCount \ Before
  BY BeforeFacts
<1>2. /\ Total(Before \union {sizes[i]}) = sizeToCount[sizes[i]] + Total(Before)
      /\ sizeToCount[sizes[i]] \in Nat /\ Total(Before) \in Nat
  BY <1>1, TotalFacts
<1>3. cur + sizeToCount[sizes[i]] = Total(Before \union {sizes[i]})
  BY <1>2
<1>4. {t \in DOMAIN sizeToCount : -1 < t /\ t <= sizes[i]} = Before \union {sizes[i]}
  <2>1. \A t \in DOMAIN sizeToCount : -1 < t
    <3>1. \A t \in DOMAIN sizeToCount : t \in Nat
      BY SizesAreNumbers
    <3> QED BY <3>1
  <2>2. {t \in DOMAIN sizeToCount : t <= sizes[i]} = Before \union {sizes[i]}
    BY SortedBefore
  <2>3. {t \in DOMAIN sizeToCount : -1 < t /\ t <= sizes[i]} = {t \in DOMAIN sizeToCount : t <= sizes[i]}
    BY <2>1
  <2> QED BY <2>2, <2>3, Zenon
<1>5. AtMost(sizes[i]) = cur + sizeToCount[sizes[i]]
  BY <1>3, <1>4, Zenon DEF AtMost, Occurring
<1> QED BY <1>3, <1>5, Zenon DEF Reaches, Suffices

(* The walk gives a size to the line it is at if the size suffices, and     *)
(* then goes on to the next size and the next line.                         *)
LEMMA WalkTableStep ==
  ASSUME TypeInv, SortInv, TableInv, WalkStep
  PROVE  TableInv'
<1> DEFINE s0 == sizes[i]
<1>1. /\ IF Reaches(sizeToCount[s0]) THEN data' = [data EXCEPT ![j] = s0] /\ j' = j + 1
                                     ELSE data' = data /\ j' = j
      /\ cur' = cur + sizeToCount[s0] /\ i' = i + 1
      /\ phase = "walk" /\ i <= Len(sizes) /\ j <= Len(pctls)
      /\ UNCHANGED <<sizes, sizeToCount, n, phase>>
  BY DEF WalkStep, Walking, dataVars
<1>2. /\ n = Total(DOMAIN sizeToCount) /\ Filled /\ cur = Total(Before)
      /\ \A p \in 1..Len(pctls) : p < j => data[p] \in Before
      /\ \A p \in 1..Len(pctls) : (\E s \in Before : Suffices(p, s)) => Shown(p)
  BY <1>1 DEF TableInv
<1>3. /\ Before \in SUBSET (DOMAIN sizeToCount) /\ s0 \in DOMAIN sizeToCount
      /\ Before' = Before \union {s0}
      /\ \A s \in Before : s < s0
      /\ DOMAIN sizeToCount \in SUBSET Nat
  <2>1. Before' = {sizes[p] : p \in 1..((i + 1) - 1)}
    BY <1>1 DEF Before
  <2>2. Before \in SUBSET (DOMAIN sizeToCount) /\ DOMAIN sizeToCount \in SUBSET Nat
    BY BeforeFacts, SizesAreNumbers
  <2>3. s0 \in DOMAIN sizeToCount /\ Before' = Before \union {s0}
    BY <1>1, <2>1, BeforeFacts
  <2>4. \A s \in Before : s < s0
    BY <1>1, SortedBefore
  <2> QED BY <2>2, <2>3, <2>4
<1>4. /\ Reaches(sizeToCount[s0]) <=> Suffices(j, s0)
      /\ cur + sizeToCount[s0] = Total(Before \union {s0})
  BY <1>1, <1>2, ReachesIsSuffices
<1>5. /\ j \in 1..Len(pctls) /\ Len(pctls) \in Nat /\ data \in [1..Len(pctls) -> Nat]
  BY <1>1, PctlsAssumption, SMTT(30) DEF TypeInv
<1>6. \A p \in 1..Len(pctls) : Suffices(p, s0) /\ (\A s \in Before : ~Suffices(p, s)) => NearestRank(p) = s0
  BY <1>1, RankAtPlace
<1>7. ASSUME NEW p \in 1..Len(pctls), Suffices(p, s0), j <= p PROVE Suffices(j, s0)
  BY <1>2, <1>3, <1>5, <1>7, Thresholds
<1>8. /\ \A p, s : Suffices(p, s)' <=> Suffices(p, s)
      /\ \A p : NearestRank(p)' = NearestRank(p)
      /\ n' = Total(DOMAIN sizeToCount)'
  <2>1. n' = Total(DOMAIN sizeToCount)'
    BY <1>1, <1>2, Zenon DEF Total
  <2> QED BY <1>1, <2>1, TableFrame
<1> HIDE DEF s0
<1>9. ASSUME NEW p \in 1..Len(pctls), Suffices(p, s0), \A s \in Before : ~Suffices(p, s)
      PROVE  j <= p /\ NearestRank(p) = s0
  <2>1. ~(p < j)
    BY <1>2, <1>9 DEF Filled
  <2> QED BY <1>5, <1>6, <1>9, <2>1
<1>10. cur' = Total(Before)'
  BY <1>1, <1>3, <1>4, Zenon DEF Total
<1>11. CASE Suffices(j, s0)
  <2>1. /\ j' = j + 1 /\ data'[j] = s0
        /\ \A p \in 1..Len(pctls) : p # j => data'[p] = data[p]
    BY <1>1, <1>4, <1>5, <1>11
  <2>2. ASSUME NEW p \in 1..Len(pctls)
        PROVE  IF p < j' THEN data'[p] \in DOMAIN sizeToCount /\ Suffices(p, data'[p]) ELSE data'[p] = 0
    <3>1. CASE p = j
      BY <1>3, <1>5, <1>11, <2>1, <3>1
    <3>2. CASE p < j
      BY <1>2, <1>5, <2>1, <3>2 DEF Filled
    <3>3. CASE p > j
      BY <1>2, <1>5, <2>1, <3>3 DEF Filled
    <3> QED BY <1>5, <3>1, <3>2, <3>3
  <2>3. ASSUME NEW p \in 1..Len(pctls), NEW q \in 1..Len(pctls), p < q, q < j' PROVE data'[p] <= data'[q]
    <3>1. p < j /\ data'[p] = data[p] /\ p # j
      BY <1>5, <2>1, <2>3
    <3>2. CASE q = j
      BY <1>2, <1>3, <2>1, <3>1, <3>2
    <3>3. CASE q # j
      BY <1>2, <1>5, <2>1, <2>3, <3>1, <3>3 DEF Filled
    <3> QED BY <3>2, <3>3
  <2>4. Filled'
    BY <1>1, <1>8, <2>2, <2>3 DEF Filled
  <2>5. ASSUME NEW p \in 1..Len(pctls), NEW s \in Before \union {s0}, Suffices(p, s)
        PROVE  \E q \in 1..p : q < j' /\ data'[q] = NearestRank(p)
    <3>1. CASE \E x \in Before : Suffices(p, x)
      <4>1. PICK q \in 1..p : q < j /\ data[q] = NearestRank(p)
        BY <1>2, <3>1 DEF Shown
      <4>2. q \in 1..Len(pctls) /\ q # j /\ q < j'
        BY <1>5, <2>1, <4>1
      <4> QED BY <2>1, <4>1, <4>2
    <3>2. CASE \A x \in Before : ~Suffices(p, x)
      <4>1. s = s0
        BY <2>5, <3>2
      <4>2. j <= p /\ NearestRank(p) = s0
        BY <1>9, <2>5, <3>2, <4>1
      <4>3. j \in 1..p /\ j < j'
        BY <1>5, <2>1, <4>2
      <4> QED BY <2>1, <4>2, <4>3
    <3> QED BY <3>1, <3>2
  <2>6. \A p \in 1..Len(pctls) : p < j' => data'[p] \in Before \union {s0}
    <3> SUFFICES ASSUME NEW p \in 1..Len(pctls), p < j' PROVE data'[p] \in Before \union {s0}
      OBVIOUS
    <3>1. p = j \/ (p < j /\ p # j)
      BY <1>5, <2>1
    <3> QED BY <1>2, <2>1, <3>1
  <2>7. \A p \in 1..Len(pctls) : (\E s \in Before' : Suffices(p, s)') => Shown(p)'
    BY <1>3, <1>8, <2>5 DEF Shown
  <2> QED BY <1>1, <1>3, <1>8, <1>10, <2>4, <2>6, <2>7 DEF TableInv, Early
<1>12. CASE ~Suffices(j, s0)
  <2>1. j' = j /\ data' = data
    BY <1>1, <1>4, <1>12
  <2>2. Filled'
    BY <1>1, <1>2, <1>8, <2>1 DEF Filled
  <2>3. ASSUME NEW p \in 1..Len(pctls), NEW s \in Before \union {s0}, Suffices(p, s)
        PROVE  Shown(p)
    <3>1. \E x \in Before : Suffices(p, x)
      BY <1>7, <1>9, <1>12, <2>3
    <3> QED BY <1>2, <3>1
  <2>4. \A p \in 1..Len(pctls) : (\E s \in Before' : Suffices(p, s)') => Shown(p)'
    BY <1>3, <1>8, <2>1, <2>3 DEF Shown
  <2>5. \A p \in 1..Len(pctls) : p < j' => data'[p] \in Before'
    BY <1>2, <1>3, <2>1
  <2> QED BY <1>1, <1>8, <1>10, <2>2, <2>4, <2>5 DEF TableInv, Early
<1> QED BY <1>11, <1>12

(* The last of the sorted sizes is the largest.                             *)
LEMMA MaxSizeFacts ==
  ASSUME TypeInv, SortInv, phase # "sort"
  PROVE  maxSize \in DOMAIN sizeToCount /\ \A s \in DOMAIN sizeToCount : s <= maxSize
<1>1. /\ Len(sizes) \in Nat /\ Len(sizes) # 0 /\ DOMAIN sizes = 1..Len(sizes)
      /\ DOMAIN sizeToCount = ToSet(sizes) /\ \A p \in 1..Len(sizes) : sizes[p] \in Nat
  BY SMTT(30) DEF TypeInv
<1>2. \A x : x \in ToSet(sizes) <=> \E p \in 1..Len(sizes) : sizes[p] = x
  BY <1>1 DEF ToSet
<1>3. maxSize \in DOMAIN sizeToCount
  <2>1. Len(sizes) \in 1..Len(sizes)
    BY <1>1
  <2> QED BY <1>1, <1>2, <2>1 DEF maxSize
<1>4. ASSUME NEW s \in DOMAIN sizeToCount PROVE s <= maxSize
  <2>1. PICK p \in 1..Len(sizes) : sizes[p] = s
    BY <1>1, <1>2
  <2>2. p = Len(sizes) \/ p < Len(sizes)
    <3>1. Len(sizes) \in Nat
      BY <1>1
    <3> QED BY <3>1
  <2>3. p < Len(sizes) => sizes[p] < sizes[Len(sizes)]
    BY <1>1 DEF SortInv
  <2>4. sizes[p] \in Nat /\ sizes[Len(sizes)] \in Nat
    BY <1>1
  <2> QED BY <2>1, <2>2, <2>3, <2>4 DEF maxSize
<1> QED BY <1>3, <1>4

(* When the walk ends, every line is filled or every size was dealt with;   *)
(* either way the nearest rank of each line is shown.                       *)
LEMMA StartFillStep ==
  ASSUME TypeInv, SortInv, TableInv, StartFill
  PROVE  TableInv'
<1>1. /\ phase = "walk" /\ phase' = "fill" /\ ~(i <= Len(sizes) /\ j <= Len(pctls))
      /\ UNCHANGED <<sizes, sizeToCount, n, j, cur, data, i>>
  BY DEF StartFill, Walking, dataVars, pctVars
<1>2. /\ n = Total(DOMAIN sizeToCount) /\ Filled
      /\ \A p \in 1..Len(pctls) : p < j => data[p] \in Before
      /\ \A p \in 1..Len(pctls) : (\E s \in Before : Suffices(p, s)) => Shown(p)
  BY <1>1 DEF TableInv
<1>3. ASSUME NEW p \in 1..Len(pctls) PROVE Shown(p)
  <2>1. Len(pctls) \in Nat /\ Len(sizes) \in Nat /\ j \in 1..(Len(pctls) + 1) /\ i \in Nat
    BY PctlsAssumption DEF TypeInv
  <2>2. CASE p < j
    BY <1>2, <2>2 DEF Filled
  <2>3. CASE j <= p
    <3>1. i > Len(sizes)
      BY <1>1, <2>1, <2>3
    <3>2. Before = DOMAIN sizeToCount
      BY <3>1, BeforeFacts
    <3>3. maxSize \in Before /\ Suffices(p, maxSize)
      BY <1>1, <1>2, <3>2, MaxSizeFacts, Thresholds
    <3> QED BY <1>2, <3>3
  <2> QED BY <2>1, <2>2, <2>3
<1>4. /\ \A p, s : Suffices(p, s)' <=> Suffices(p, s)
      /\ \A p : NearestRank(p)' = NearestRank(p)
  BY <1>1, TableFrame
<1>5. Filled' /\ \A p \in 1..Len(pctls) : Shown(p)'
  BY <1>1, <1>2, <1>3, <1>4 DEF Filled, Shown
<1>6. n' = Total(DOMAIN sizeToCount)'
  BY <1>1, <1>2, Zenon DEF Total
<1> QED BY <1>1, <1>5, <1>6 DEF TableInv, Early

(* A line that the walk did not reach shows the largest size, which         *)
(* suffices for it.                                                         *)
LEMMA FillTableStep ==
  ASSUME TypeInv, SortInv, TableInv, FillStep
  PROVE  TableInv'
<1>1. /\ data' = IF data[j] = 0 THEN [data EXCEPT ![j] = maxSize] ELSE data
      /\ phase = "fill" /\ phase' = "fill" /\ j <= Len(pctls) /\ j' = j + 1
      /\ UNCHANGED <<sizes, sizeToCount, n>>
  BY DEF FillStep, FillWith, dataVars
<1>2. n = Total(DOMAIN sizeToCount) /\ Filled /\ \A p \in 1..Len(pctls) : Shown(p)
  BY <1>1 DEF TableInv
<1>3. j \in 1..Len(pctls) /\ Len(pctls) \in Nat /\ data \in [1..Len(pctls) -> Nat]
  BY <1>1, PctlsAssumption DEF TypeInv
<1>4. data[j] = 0
  BY <1>2, <1>3 DEF Filled
<1>5. data'[j] = maxSize /\ \A p \in 1..Len(pctls) : p # j => data'[p] = data[p]
  BY <1>1, <1>3, <1>4
<1>6. /\ maxSize \in DOMAIN sizeToCount /\ \A s \in DOMAIN sizeToCount : s <= maxSize
      /\ Suffices(j, maxSize)
  BY <1>1, <1>2, <1>3, MaxSizeFacts, Thresholds
<1>7. ASSUME NEW p \in 1..Len(pctls)
      PROVE  IF p < j' THEN data'[p] \in DOMAIN sizeToCount /\ Suffices(p, data'[p]) ELSE data'[p] = 0
  <2>1. CASE p = j
    BY <1>1, <1>3, <1>5, <1>6, <2>1
  <2>2. CASE p < j
    BY <1>1, <1>2, <1>3, <1>5, <2>2 DEF Filled
  <2>3. CASE p > j
    BY <1>1, <1>2, <1>3, <1>5, <2>3 DEF Filled
  <2> QED BY <1>3, <2>1, <2>2, <2>3
<1>8. ASSUME NEW p \in 1..Len(pctls), NEW q \in 1..Len(pctls), p < q, q < j' PROVE data'[p] <= data'[q]
  <2>1. p < j /\ data'[p] = data[p] /\ data[p] \in DOMAIN sizeToCount
    BY <1>1, <1>2, <1>3, <1>5, <1>8 DEF Filled
  <2>2. CASE q = j
    BY <1>5, <1>6, <2>1, <2>2
  <2>3. CASE q # j
    BY <1>1, <1>2, <1>3, <1>5, <1>8, <2>1, <2>3 DEF Filled
  <2> QED BY <2>2, <2>3
<1>9. (\A p, s : Suffices(p, s)' <=> Suffices(p, s)) /\ \A p : NearestRank(p)' = NearestRank(p)
  BY <1>1, TableFrame
<1>10. Filled'
  BY <1>1, <1>7, <1>8, <1>9 DEF Filled
<1>11. n' = Total(DOMAIN sizeToCount)'
  BY <1>1, <1>2, Zenon DEF Total
<1>12. ASSUME NEW p \in 1..Len(pctls) PROVE Shown(p)'
  <2>1. PICK q \in 1..p : q < j /\ data[q] = NearestRank(p)
    BY <1>2 DEF Shown
  <2>2. q \in 1..Len(pctls) /\ q # j /\ q < j'
    BY <1>1, <1>3, <2>1
  <2>3. data'[q] = NearestRank(p)'
    BY <1>5, <1>9, <2>1, <2>2
  <2> QED BY <2>2, <2>3 DEF Shown
<1> QED BY <1>1, <1>10, <1>11, <1>12 DEF TableInv, Early

(* Every step keeps what the filled lines show.                             *)
LEMMA TableStep ==
  ASSUME TypeInv, SortInv, TableInv, [Next]_vars
  PROVE  TableInv'
<1>1. CASE Sort \/ MakeBounds \/ CountSize \/ NextBucket
  <2>1. /\ phase \in {"sort", "bounds", "count"} /\ phase' \in {"sort", "bounds", "count"}
        /\ UNCHANGED <<j, cur, data>>
    BY <1>1 DEF Sort, MakeBounds, CountSize, NextBucket, pctVars
  <2> QED BY <2>1 DEF TableInv, Early
<1>2. CASE StartPercentiles
  <2>1. /\ phase = "count" /\ phase' = "walk" /\ n' = Total(DOMAIN sizeToCount) /\ i' = 1
        /\ UNCHANGED <<sizes, sizeToCount, j, cur, data>>
    BY <1>2 DEF StartPercentiles, dataVars
  <2>2. j = 1 /\ cur = 0 /\ \A p \in 1..Len(pctls) : data[p] = 0
    BY <2>1 DEF TableInv, Early
  <2>3. \A p \in 1..Len(pctls) : ~(p < j')
    BY <2>1, <2>2
  <2>4. Before' = {}
    BY <2>1 DEF Before
  <2>5. cur' = Total(Before)'
    <3>1. SumFunctionOnSet(sizeToCount', {}) = 0
      BY SetSumEmpty
    <3> QED BY <2>1, <2>2, <2>4, <3>1, Zenon DEF Total
  <2>6. n' = Total(DOMAIN sizeToCount)'
    BY <2>1, Zenon DEF Total
  <2>7. Filled'
    BY <2>1, <2>2, <2>3 DEF Filled
  <2> QED BY <2>1, <2>3, <2>4, <2>5, <2>6, <2>7 DEF TableInv, Early
<1>3. CASE WalkStep \/ StartFill \/ FillStep
  BY <1>3, WalkTableStep, StartFillStep, FillTableStep
<1>4. CASE Return \/ UNCHANGED vars
  <2>1. UNCHANGED <<sizes, sizeToCount, n, j, cur, data, i>>
    BY <1>4 DEF Return, vars, dataVars, histVars, pctVars
  <2>2. \/ phase = "fill" /\ phase' = "done" /\ j > Len(pctls)
        \/ phase' = phase
    BY <1>4 DEF Return, vars
  <2>3. /\ \A p, s : Suffices(p, s)' <=> Suffices(p, s)
        /\ \A p : NearestRank(p)' = NearestRank(p)
    BY <2>1, TableFrame
  <2>4. Before' = Before
    BY <2>1 DEF Before
  <2>5. n = Total(DOMAIN sizeToCount) => n' = Total(DOMAIN sizeToCount)'
    BY <2>1, Zenon DEF Total
  <2>6. cur = Total(Before) => cur' = Total(Before)'
    BY <2>1, <2>4, Zenon DEF Total
  <2>7. (Filled => Filled') /\ \A p : Shown(p) => Shown(p)'
    BY <2>1, <2>3 DEF Filled, Shown
  <2>8. CASE phase' = phase
    BY <2>1, <2>3, <2>4, <2>5, <2>6, <2>7, <2>8 DEF TableInv, Early
  <2>9. CASE phase = "fill" /\ phase' = "done" /\ j > Len(pctls)
    <3>1. j' = Len(pctls) + 1
      BY <2>1, <2>9, PctlsAssumption, SMTT(30) DEF TypeInv
    <3> QED BY <2>1, <2>3, <2>5, <2>7, <2>9, <3>1 DEF TableInv, Early
  <2> QED BY <2>2, <2>8, <2>9
<1> QED BY <1>1, <1>2, <1>3, <1>4 DEF Next

----------------------------------------------------------------------------
(* In every state of the rendering, for any data, the histogram holds the   *)
(* counts of the sizes dealt with, each in its row, and every line of the   *)
(* table that is filled suffices for its threshold.                         *)
THEOREM TextInductive == Spec => []TextInv
<1>1. TextInv /\ [Next]_vars => TextInv'
  BY TypeStep, HistogramStep, TableStep DEF TextInv
<1> QED BY <1>1, InitTextInv, PTL DEF Spec

(* The rows of the histogram, in text and in JSON, divide the sizes among   *)
(* them, however many buckets and however close the sizes.                  *)
THEOREM RowsPartition == Spec => []RowsPartitionTheSizes
<1>1. TextInv => RowsPartitionTheSizes
  BY TextInvGivesRows DEF TextInv
<1> QED BY <1>1, TextInductive, PTL

(* No line of the percentile table understates, and the lines ascend.       *)
THEOREM NeverTooSmall == Spec => []NeverUnderstates
<1>1. TextInv => NeverUnderstates
  <2> SUFFICES ASSUME TextInv, Done
               PROVE  /\ \A p \in 1..Len(pctls) :
                           data[p] \in DOMAIN sizeToCount /\ AtMost(data[p]) * 100 >= pctls[p] * n
                      /\ \A p, q \in 1..Len(pctls) : p < q => data[p] <= data[q]
    BY DEF NeverUnderstates
  <2>1. Filled /\ j = Len(pctls) + 1 /\ Len(pctls) \in Nat
    BY PctlsAssumption DEF TextInv, TableInv, Done
  <2> QED BY <2>1 DEF Filled, Suffices
<1> QED BY <1>1, TextInductive, PTL

(* A line of the table shows its nearest rank unless an earlier line does:  *)
(* the walk gives a size to one threshold at most, and drops no size that   *)
(* is the answer for one.                                                   *)
THEOREM ExactTable == Spec => []ExactUnlessTaken
<1>1. TextInv => ExactUnlessTaken
  <2> SUFFICES ASSUME TextInv, Done, NEW p \in 1..Len(pctls)
               PROVE  data[p] = NearestRank(p) \/ \E q \in 1..(p - 1) : data[q] = NearestRank(p)
    BY DEF ExactUnlessTaken
  <2>1. PICK q \in 1..p : data[q] = NearestRank(p)
    BY DEF TextInv, TableInv, Done, Shown
  <2>2. q = p \/ q \in 1..(p - 1)
    <3>1. Len(pctls) \in Nat
      BY PctlsAssumption
    <3> QED BY <3>1
  <2> QED BY <2>1, <2>2
<1> QED BY <1>1, TextInductive, PTL
=============================================================================
