----------------------------- MODULE ReportProofs -----------------------------
(***************************************************************************)
(* Theorems about Report that hold for any set of streams and modes.       *)
(***************************************************************************)
EXTENDS Report, SequenceLemmas

(* How far the stream has come: batches the feeder has received, handed to  *)
(* the reporter and recorded, and batches the reporter has counted.         *)
Received == Len(input) - Len(datac)
Handed == Received - (IF feeder = "send" THEN 1 ELSE 0)
Recorded == Received - (IF feeder \in {"send", "record"} THEN 1 ELSE 0)
Counted == Handed - (IF reporter \in {"lock", "count"} THEN 1 ELSE 0)

Keys(stream, b) == FlattenSeq(SubSeq(stream, 1, b))

(* The batches are where the program counters say.                          *)
QueueInv ==
  /\ Received \in 0..Len(input)
  /\ \A i \in 1..Len(datac) : datac[i] = input[Received + i]
  /\ feeder \in {"send", "record"} => Received >= 1 /\ data = input[Received]
  /\ reporter \in {"lock", "count"} => Handed >= 1 /\ res = input[Handed] /\ res # <<>>
  /\ reporter = "lock" => next = 1
  /\ feeder = "closed" => datac = <<>>
  /\ metas = Keys(input, Recorded)

(* Who may hold the lock, and how far each goroutine is when another one    *)
(* has come to some point.                                                  *)
LockInv ==
  /\ countLock = "reporter" <=> reporter \in {"count", "printing"}
  /\ countLock = "refresher" <=> refresher = "rendering"
  /\ countLock = "main" => main = "printing"
  /\ main = "run" => reporter = "idle"
  /\ main \in {"overview", "printing", "done"} => reporter = "done"
  /\ results = "closed" <=> feeder = "closed"
  /\ reporter \in {"final", "printing", "stop", "done"} => results = "closed"

(* The parts of the statistics that grow key by key.                        *)
Tallies(st, slice, counts, keys) ==
  /\ st.Total = FoldLeft(+, 0, keys)
  /\ keys = <<>> => st.Smallest = MaxInt32 /\ st.Largest = -1
  /\ keys # <<>> =>
       /\ st.Smallest \in ToSet(keys) /\ st.Largest \in ToSet(keys)
       /\ \A s \in ToSet(keys) : st.Smallest <= s /\ s <= st.Largest
  /\ ToSet(slice) = ToSet(keys) /\ Len(slice) = Cardinality(ToSet(keys))
  /\ DOMAIN counts = ToSet(keys)
  /\ \A s \in ToSet(keys) : counts[s] = Occurrences(keys, s)

(* Outside "count" the statistics are those of whole batches; inside, Count *)
(* is ahead by the batch and the rest by the keys already seen.             *)
StatsInv ==
  LET keys == Keys(input, Counted) IN
    IF reporter = "count"
    THEN /\ stats.Count = Len(keys) + Len(res)
         /\ Tallies(stats, sizes, sizeToCount, keys \o SubSeq(res, 1, next - 1))
    ELSE /\ stats.Count = Len(keys)
         /\ keys # <<>> => stats.Average = stats.Total \div stats.Count
         /\ Tallies(stats, sizes, sizeToCount, keys)

ReportInv == TypeOK /\ QueueInv /\ LockInv /\ StatsInv

----------------------------------------------------------------------------
(* One key more occurs once more.                                           *)
LEMMA OccurrencesAppend ==
  ASSUME NEW keys \in Seq(Nat), NEW k \in Nat, NEW s
  PROVE  /\ Occurrences(keys, s) \in Nat
         /\ s \notin ToSet(keys) => Occurrences(keys, s) = 0
         /\ Occurrences(Append(keys, k), s) = Occurrences(keys, s) + (IF s = k THEN 1 ELSE 0)
<1> DEFINE more == Append(keys, k)
           n == Len(keys)
           At(t, m) == {i \in 1..m : t[i] = s}
<1>1. n \in Nat /\ Len(more) = n + 1 /\ more[n + 1] = k /\ \A i \in 1..n : more[i] = keys[i]
  BY AppendFacts
<1> HIDE DEF more
<1>2. IsFiniteSet(At(keys, n)) /\ Cardinality(At(keys, n)) \in Nat
  <2>1. IsFiniteSet(1..n)
    BY <1>1, FS_Interval
  <2>2. At(keys, n) \subseteq 1..n
    OBVIOUS
  <2> QED BY <2>1, <2>2, FS_Subset, FS_CardinalityType
<1>3. Occurrences(keys, s) = Cardinality(At(keys, n))
  BY DEF Occurrences
<1>4. Occurrences(more, s) = Cardinality(At(more, n + 1))
  BY <1>1 DEF Occurrences
<1>5. s \notin ToSet(keys) => Occurrences(keys, s) = 0
  <2> SUFFICES ASSUME s \notin ToSet(keys) PROVE Occurrences(keys, s) = 0
    OBVIOUS
  <2>1. At(keys, n) = {}
    BY DEF ToSet
  <2> QED BY <1>3, <2>1, FS_EmptySet
<1>6. Occurrences(keys, s) \in Nat
  BY <1>2, <1>3, Zenon
<1>7. CASE s = k
  <2>1. At(more, n + 1) = At(keys, n) \union {n + 1} /\ n + 1 \notin At(keys, n)
    BY <1>1, <1>7
  <2>2. Cardinality(At(more, n + 1)) = Cardinality(At(keys, n)) + 1
    BY <1>2, <2>1, FS_AddElement
  <2>3. Occurrences(more, s) = Occurrences(keys, s) + 1
    BY <1>3, <1>4, <2>2, Zenon
  <2>4. Occurrences(more, s) = Occurrences(keys, s) + (IF s = k THEN 1 ELSE 0)
    BY <1>7, <2>3
  <2> QED BY <1>5, <1>6, <2>4, Zenon DEF more
<1>8. CASE s # k
  <2>1. At(more, n + 1) = At(keys, n)
    BY <1>1, <1>8
  <2>2. Occurrences(more, s) = Occurrences(keys, s)
    BY <1>3, <1>4, <2>1, Zenon
  <2>3. Occurrences(more, s) = Occurrences(keys, s) + (IF s = k THEN 1 ELSE 0)
    BY <1>8, <1>6, <2>2
  <2> QED BY <1>5, <1>6, <2>3, Zenon DEF more
<1> QED BY <1>7, <1>8

(* What CountKey makes of the tallies.                                      *)
KeyAdded(k, st, slice, counts, st2, slice2, counts2) ==
  /\ st2.Smallest = Smaller(st.Smallest, k) /\ st2.Largest = Larger(st.Largest, k)
  /\ st2.Total = st.Total + k
  /\ slice2 = IF k \in DOMAIN counts THEN slice ELSE Append(slice, k)
  /\ counts2 = [t \in DOMAIN counts \union {k} |->
                  (IF t \in DOMAIN counts THEN counts[t] ELSE 0) + (IF t = k THEN 1 ELSE 0)]

(* One call of CountKey keeps the tallies exact: they describe the keys     *)
(* counted before and the new one.                                          *)
LEMMA TalliesAppend ==
  ASSUME NEW keys \in Seq(Nat), NEW k \in Nat, k <= MaxInt32,
         NEW st, NEW slice \in Seq(Nat), NEW counts,
         st.Smallest \in Nat, st.Largest \in Int, Tallies(st, slice, counts, keys),
         NEW st2, NEW slice2, NEW counts2,
         KeyAdded(k, st, slice, counts, st2, slice2, counts2)
  PROVE  Tallies(st2, slice2, counts2, Append(keys, k))
<1>0. /\ st2.Smallest = Smaller(st.Smallest, k) /\ st2.Largest = Larger(st.Largest, k)
      /\ st2.Total = st.Total + k
      /\ slice2 = IF k \in DOMAIN counts THEN slice ELSE Append(slice, k)
      /\ counts2 = [t \in DOMAIN counts \union {k} |->
                      (IF t \in DOMAIN counts THEN counts[t] ELSE 0) + (IF t = k THEN 1 ELSE 0)]
  BY DEF KeyAdded
<1> DEFINE more == Append(keys, k)
<1>1. more \in Seq(Nat) /\ more # <<>> /\ ToSet(more) = ToSet(keys) \union {k}
  <2>1. more \in Seq(Nat) /\ more # <<>>
    BY AppendFacts, SMTT(30)
  <2>2. ToSet(more) = ToSet(keys) \union {k}
    BY SetOfAppend
  <2> QED BY <2>1, <2>2
<1>2. /\ ToSet(keys) \subseteq Nat /\ IsFiniteSet(ToSet(keys))
      /\ Cardinality(ToSet(keys)) \in Nat
      /\ (ToSet(keys) = {} <=> keys = <<>>)
  BY SetOfSequence
<1>3. st2.Total = FoldLeft(+, 0, more)
  <2>1. FoldLeft(+, 0, more) = FoldLeft(+, 0, keys) + k
    BY SumAppend
  <2>2. st.Total = FoldLeft(+, 0, keys)
    BY Zenon DEF Tallies
  <2> QED BY <1>0, <2>1, <2>2, Zenon
<1>4. /\ st2.Smallest \in ToSet(more) /\ st2.Largest \in ToSet(more)
      /\ \A s \in ToSet(more) : st2.Smallest <= s /\ s <= st2.Largest
  <2> HIDE DEF more
  <2>1. CASE keys = <<>>
    <3>1. st.Smallest = MaxInt32 /\ st.Largest = -1 /\ ToSet(more) = {k}
      BY <1>1, <1>2, <2>1 DEF Tallies
    <3>2. st2.Smallest = k /\ st2.Largest = k
      BY <1>0, <3>1 DEF Smaller, Larger, MaxInt32
    <3> QED BY <3>1, <3>2
  <2>2. CASE keys # <<>>
    <3>1. /\ st.Smallest \in ToSet(keys) /\ st.Largest \in ToSet(keys)
          /\ \A s \in ToSet(keys) : st.Smallest <= s /\ s <= st.Largest
      BY <2>2 DEF Tallies
    <3> QED BY <1>0, <1>1, <1>2, <3>1, SMTT(30) DEF Smaller, Larger
  <2> QED BY <2>1, <2>2
<1>5. ToSet(slice2) = ToSet(more) /\ Len(slice2) = Cardinality(ToSet(more))
  <2>1. DOMAIN counts = ToSet(keys) /\ ToSet(slice) = ToSet(keys) /\ Len(slice) = Cardinality(ToSet(keys))
    BY DEF Tallies
  <2>2. CASE k \in ToSet(keys)
    <3>1. slice2 = slice /\ ToSet(more) = ToSet(keys)
      BY <1>0, <1>1, <2>1, <2>2
    <3> QED BY <2>1, <3>1, Zenon
  <2>3. CASE k \notin ToSet(keys)
    <3>1. slice2 = Append(slice, k)
      BY <1>0, <2>1, <2>3
    <3>2. ToSet(slice2) = ToSet(slice) \union {k} /\ Len(slice2) = Len(slice) + 1
      <4>1. ToSet(Append(slice, k)) = ToSet(slice) \union {k}
        BY SetOfAppend
      <4>2. Len(Append(slice, k)) = Len(slice) + 1
        BY AppendFacts
      <4> QED BY <3>1, <4>1, <4>2, Zenon
    <3>3. Cardinality(ToSet(keys) \union {k}) = Cardinality(ToSet(keys)) + 1
      BY <1>2, <2>3, FS_AddElement
    <3> QED BY <1>1, <2>1, <3>2, <3>3, Zenon
  <2> QED BY <2>2, <2>3
<1>6. DOMAIN counts2 = ToSet(more) /\ \A s \in ToSet(more) : counts2[s] = Occurrences(more, s)
  <2>1. DOMAIN counts = ToSet(keys) /\ \A s \in ToSet(keys) : counts[s] = Occurrences(keys, s)
    BY DEF Tallies
  <2>2. DOMAIN counts2 = ToSet(more)
    BY <1>0, <1>1, <2>1
  <2>3. ASSUME NEW s \in ToSet(more) PROVE counts2[s] = Occurrences(more, s)
    <3>1. counts2[s] = (IF s \in ToSet(keys) THEN counts[s] ELSE 0) + (IF s = k THEN 1 ELSE 0)
      BY <1>0, <1>1, <2>1, <2>3
    <3>2. (IF s \in ToSet(keys) THEN counts[s] ELSE 0) = Occurrences(keys, s)
      BY <2>1, OccurrencesAppend
    <3>3. Occurrences(more, s) = Occurrences(keys, s) + (IF s = k THEN 1 ELSE 0)
      BY OccurrencesAppend
    <3> QED BY <3>1, <3>2, <3>3, Zenon
  <2> QED BY <2>2, <2>3
<1> HIDE DEF more
<1>7. Tallies(st2, slice2, counts2, more)
  BY <1>1, <1>3, <1>4, <1>5, <1>6, Zenon DEF Tallies
<1> QED BY <1>7 DEF more

(* The statistics of no key at all.                                         *)
LEMMA TalliesEmpty ==
  ASSUME NEW st, st.Total = 0, st.Smallest = MaxInt32, st.Largest = -1
  PROVE  Tallies(st, <<>>, NoSizes, <<>>)
<1>1. <<>> \in Seq(Nat) /\ Len(<<>>) = 0
  OBVIOUS
<1>2. ToSet(<<>>) = {} /\ Cardinality(ToSet(<<>>)) = 0
  BY <1>1, SetOfSequence, FS_EmptySet
<1>3. DOMAIN NoSizes = {}
  BY DEF NoSizes
<1> QED BY <1>1, <1>2, <1>3, SumEmpty, Zenon DEF Tallies

(* Sorting the slice of sizes moves its elements and neither adds nor drops *)
(* one.                                                                     *)
LEMMA SortedFacts ==
  ASSUME NEW s \in Seq(Nat), NEW t \in Sorted(s)
  PROVE  t \in Seq(Nat) /\ Len(t) = Len(s) /\ ToSet(t) = ToSet(s)
<1> DEFINE n == Len(s)
<1>1. n \in Nat /\ DOMAIN s = 1..n /\ \A i \in 1..n : s[i] \in Nat
  OBVIOUS
<1>2. PICK p \in SetToSeqs(1..n) : t = [i \in 1..n |-> s[p[i]]]
  BY <1>1 DEF Sorted
<1>3. p \in [1..n -> 1..n] /\ \A k \in 1..n : \E i \in 1..n : p[i] = k
  BY <1>1, <1>2, PermutationFacts
<1> HIDE DEF n
<1>4. t \in [1..n -> Nat]
  BY <1>1, <1>2, <1>3
<1>5. t \in Seq(Nat) /\ Len(t) = n /\ DOMAIN t = 1..n
  BY <1>1, <1>4
<1>6. ASSUME NEW i \in 1..n PROVE t[i] \in ToSet(s)
  BY <1>1, <1>2, <1>3 DEF ToSet
<1>7. ASSUME NEW k \in 1..n PROVE s[k] \in ToSet(t)
  <2>1. PICK i \in 1..n : p[i] = k
    BY <1>3
  <2>2. t[i] = s[k]
    BY <1>2, <2>1
  <2> QED BY <1>5, <2>2 DEF ToSet
<1>8. ToSet(t) = ToSet(s)
  BY <1>1, <1>5, <1>6, <1>7 DEF ToSet
<1> QED BY <1>5, <1>8 DEF n

(* The keys of the first batches, one batch at a time.                      *)
LEMMA KeysFacts ==
  ASSUME TypeOK, NEW b \in 0..Len(input)
  PROVE  /\ Keys(input, b) \in Seq(Nat)
         /\ b < Len(input) => Keys(input, b + 1) = Keys(input, b) \o input[b + 1]
<1>1. input \in Seq(Seq(Nat))
  BY InputsAssumption DEF TypeOK
<1>2. SubSeq(input, 1, b) \in Seq(Seq(Nat))
  BY <1>1
<1>3. Keys(input, b) \in Seq(Nat)
  BY <1>2, FlattenType DEF Keys
<1>4. ASSUME b < Len(input) PROVE Keys(input, b + 1) = Keys(input, b) \o input[b + 1]
  <2>1. b \in 0..(Len(input) - 1)
    BY <1>1, <1>4
  <2> QED BY <1>1, <2>1, FlattenPrefix DEF Keys
<1> QED BY <1>3, <1>4

----------------------------------------------------------------------------
USE DEF feederVars, statsVars, reporterVars, vars

(* Locks and program counters.                                              *)
LEMMA LockStep ==
  ASSUME TypeOK, LockInv, [Next]_vars
  PROVE  LockInv'
<1> USE DEF LockInv
<1>1. CASE FeederReceive
  BY <1>1 DEF FeederReceive, ResultsAfterLoop
<1>2. CASE FeederRecord
  BY <1>2 DEF FeederRecord
<1>3. CASE HandOver
  BY <1>3 DEF HandOver
<1>4. CASE LockStats
  BY <1>4 DEF LockStats, LockFree
<1>5. CASE CountKey
  BY <1>5 DEF CountKey
<1>6. CASE UnlockStats
  BY <1>6 DEF UnlockStats
<1>7. CASE ProcessingEnds
  BY <1>7 DEF ProcessingEnds
<1>8. CASE FinalString
  BY <1>8 DEF FinalString, LockFree
<1>9. CASE FinalPrinted
  BY <1>9 DEF FinalPrinted
<1>10. CASE RunReturns
  BY <1>10 DEF RunReturns
<1>11. CASE RefresherCheck
  BY <1>11 DEF RefresherCheck
<1>12. CASE RefresherCount
  BY <1>12 DEF RefresherCount
<1>13. CASE RefresherString
  BY <1>13 DEF RefresherString, LockFree
<1>14. CASE RefresherFlush
  BY <1>14 DEF RefresherFlush
<1>15. CASE StartRun
  BY <1>15 DEF StartRun
<1>16. CASE RunDone
  BY <1>16 DEF RunDone, RunFinished
<1>17. CASE PrintReport
  BY <1>17 DEF PrintReport, LockFree
<1>18. CASE MainEnds
  BY <1>18 DEF MainEnds
<1>19. CASE UNCHANGED vars
  BY <1>19
<1> QED BY <1>1, <1>2, <1>3, <1>4, <1>5, <1>6, <1>7, <1>8, <1>9, <1>10, <1>11, <1>12,
           <1>13, <1>14, <1>15, <1>16, <1>17, <1>18, <1>19
        DEF Next, Feeder, Reporter, Refresher, Main, Terminated

(* What a batch of the stream is.                                           *)
LEMMA StreamFacts ==
  ASSUME TypeOK
  PROVE  /\ input \in Seq(Seq(Nat)) /\ Len(input) \in Nat /\ Len(datac) \in Nat
         /\ \A b \in 1..Len(input) : input[b] \in Seq(Nat)
         /\ SubSeq(input, 1, 0) = <<>> /\ Keys(input, 0) = <<>>
<1>1. input \in Seq(Seq(Nat))
  BY InputsAssumption DEF TypeOK
<1>2. SubSeq(input, 1, 0) = <<>>
  BY <1>1, SubSeqEmpty
<1>3. Keys(input, 0) = <<>>
  BY <1>2 DEF Keys, FlattenSeq
<1> QED BY <1>1, <1>2, <1>3 DEF TypeOK

(* Where the batches are.                                                   *)
LEMMA QueueStep ==
  ASSUME TypeOK, QueueInv, LockInv, [Next]_vars
  PROVE  QueueInv'
<1>0. /\ input \in Seq(Seq(Nat)) /\ Len(input) \in Nat /\ Len(datac) \in Nat
      /\ datac \in Seq(Seq(Nat))
      /\ \A b \in 1..Len(input) : input[b] \in Seq(Nat)
  BY StreamFacts DEF TypeOK
<1>1. CASE FeederReceive
  <2>1. CASE datac = <<>>
    <3>1. UNCHANGED <<input, datac, data, metas, reporter, res, next>> /\ feeder' = "closed"
      BY <1>1, <2>1 DEF FeederReceive
    <3>2. Received' = Received /\ Handed' = Handed /\ Recorded' = Recorded
      BY <1>1, <3>1 DEF FeederReceive, Received, Handed, Recorded
    <3> QED BY <2>1, <3>1, <3>2 DEF QueueInv
  <2>2. CASE datac # <<>>
    <3>1. /\ UNCHANGED <<input, metas, reporter, res, next>>
          /\ feeder = "receive" /\ feeder' = "send"
          /\ data' = Head(datac) /\ datac' = Tail(datac)
      BY <1>1, <2>2 DEF FeederReceive
    <3>2. /\ Len(datac) >= 1 /\ data' = datac[1] /\ Len(datac') = Len(datac) - 1
          /\ \A i \in 1..Len(datac') : datac'[i] = datac[i + 1]
      BY <1>0, <2>2, <3>1
    <3>3. Received' = Received + 1 /\ Handed' = Handed /\ Recorded' = Recorded
      <4>1. Len(input') = Len(input) /\ Len(datac') = Len(datac) - 1
        BY <3>1, <3>2
      <4>3. Received' = Received + 1
        BY <1>0, <4>1 DEF Received
      <4>2. Received \in Int
        BY <1>0 DEF Received
      <4> QED BY <3>1, <4>2, <4>3 DEF Handed, Recorded
    <3>4. Received \in 0..Len(input) /\ Received' \in 1..Len(input)
      BY <1>0, <3>2, <3>3 DEF QueueInv, Received
    <3>5. data' = input[Received']
      BY <1>0, <3>2, <3>3 DEF QueueInv
    <3>6. ASSUME NEW i \in 1..Len(datac') PROVE datac'[i] = input[Received' + i]
      <4>1. i + 1 \in 1..Len(datac)
        BY <1>0, <3>2
      <4>2. datac'[i] = datac[i + 1] /\ datac[i + 1] = input[Received + (i + 1)]
        BY <3>2, <4>1 DEF QueueInv
      <4>3. Received + (i + 1) = Received' + i
        BY <3>3, <3>4
      <4> QED BY <4>2, <4>3, Zenon
    <3> QED BY <3>1, <3>3, <3>4, <3>5, <3>6 DEF QueueInv
  <2> QED BY <2>1, <2>2
<1>2. CASE FeederRecord
  <2>1. /\ UNCHANGED <<input, datac, data, reporter, res, next>>
        /\ feeder = "record" /\ feeder' = "receive" /\ metas' = metas \o data
    BY <1>2 DEF FeederRecord
  <2>2. Received' = Received /\ Handed' = Handed /\ Recorded = Received - 1 /\ Recorded' = Received
    BY <2>1 DEF Received, Handed, Recorded
  <2>3. Recorded \in 0..Len(input) /\ Recorded < Len(input) /\ Recorded + 1 = Received /\ data = input[Received]
    BY <1>0, <2>1, <2>2 DEF QueueInv
  <2>4. metas' = Keys(input, Recorded')
    <3>1. Keys(input, Recorded + 1) = Keys(input, Recorded) \o input[Recorded + 1]
      BY <2>3, KeysFacts
    <3>2. metas = Keys(input, Recorded)
      BY DEF QueueInv
    <3> QED BY <2>1, <2>2, <2>3, <3>1, <3>2, Zenon
  <2> QED BY <2>1, <2>2, <2>4 DEF QueueInv
<1>3. CASE HandOver
  <2>1. /\ UNCHANGED <<input, datac, data, metas>>
        /\ feeder = "send" /\ feeder' = "record" /\ reporter = "range"
        /\ res' = data /\ next' = 1 /\ reporter' \in {"range", "lock"}
        /\ reporter' = "lock" => data # <<>>
    BY <1>3 DEF HandOver
  <2>2. Received' = Received /\ Handed' = Received /\ Recorded' = Recorded
    BY <1>0, <2>1 DEF QueueInv, Received, Handed, Recorded
  <2> QED BY <2>1, <2>2 DEF QueueInv
<1> DEFINE Same == /\ UNCHANGED <<input, feederVars, res>>
                   /\ reporter' \in {"lock", "count"} => reporter \in {"lock", "count"}
                   /\ reporter' = "lock" => reporter = "lock" /\ next' = next
<1>4. ASSUME Same PROVE QueueInv'
  <2>1. Received' = Received /\ Handed' = Handed /\ Recorded' = Recorded
    BY <1>4 DEF Received, Handed, Recorded
  <2> QED BY <1>4, <2>1 DEF QueueInv
<1>5. CASE LockStats \/ CountKey \/ UnlockStats \/ ProcessingEnds
  BY <1>4, <1>5 DEF LockStats, CountKey, UnlockStats, ProcessingEnds
<1>6. CASE FinalString \/ FinalPrinted \/ RunReturns
  BY <1>4, <1>6 DEF FinalString, FinalPrinted, RunReturns
<1>7. CASE Refresher
  BY <1>4, <1>7 DEF Refresher, RefresherCheck, RefresherCount, RefresherString, RefresherFlush
<1>8. CASE Main
  BY <1>4, <1>8 DEF Main, StartRun, RunDone, PrintReport, MainEnds
<1>9. CASE UNCHANGED vars
  BY <1>4, <1>9
<1> QED BY <1>1, <1>2, <1>3, <1>5, <1>6, <1>7, <1>8, <1>9 DEF Next, Feeder, Reporter, Terminated

(* A step that leaves the statistics and what has been counted alone.       *)
LEMMA StatsKept ==
  ASSUME StatsInv, UNCHANGED <<input, statsVars>>, Counted' = Counted,
         reporter' = "count" <=> reporter = "count",
         reporter = "count" => UNCHANGED <<res, next>>
  PROVE  StatsInv'
<1>1. CASE reporter = "count"
  BY <1>1 DEF StatsInv
<1>2. CASE reporter # "count"
  BY <1>2 DEF StatsInv
<1> QED BY <1>1, <1>2

(* Sorting the slice of sizes keeps the tallies.                            *)
LEMMA StatsSorted ==
  ASSUME TypeOK, StatsInv, UNCHANGED <<input, stats, sizeToCount>>, sizes' \in Sorted(sizes),
         Counted' = Counted, reporter # "count", reporter' # "count"
  PROVE  StatsInv'
<1>1. sizes \in Seq(Nat)
  BY DEF TypeOK
<1>2. Len(sizes') = Len(sizes) /\ ToSet(sizes') = ToSet(sizes)
  BY <1>1, SortedFacts
<1>3. ASSUME Tallies(stats, sizes, sizeToCount, Keys(input, Counted))
      PROVE  Tallies(stats, sizes', sizeToCount, Keys(input, Counted))
  BY <1>2, <1>3, Zenon DEF Tallies
<1> QED BY <1>3 DEF StatsInv

(* While the reporter holds a batch, the keys counted so far and that batch *)
(* are the next stretch of the input.                                       *)
LEMMA CountedFacts ==
  ASSUME TypeOK, QueueInv
  PROVE  /\ Counted \in 0..Len(input) /\ Keys(input, Counted) \in Seq(Nat)
         /\ reporter \in {"lock", "count"} =>
              /\ Counted + 1 = Handed /\ res = input[Counted + 1] /\ Counted < Len(input)
              /\ Keys(input, Counted + 1) = Keys(input, Counted) \o res
              /\ Len(res) \in Nat \ {0} /\ \A i \in 1..Len(res) : res[i] \in Nat
<1>1. /\ Received \in 0..Len(input) /\ Len(input) \in Nat
      /\ feeder \in {"send", "record"} => Received >= 1
      /\ reporter \in {"lock", "count"} => Handed >= 1 /\ res = input[Handed] /\ res # <<>>
  BY StreamFacts DEF QueueInv
<1>2. Counted \in 0..Len(input)
  BY <1>1 DEF Counted, Handed
<1>3. Keys(input, Counted) \in Seq(Nat)
  BY <1>2, KeysFacts
<1>4. ASSUME reporter \in {"lock", "count"}
      PROVE  Counted + 1 = Handed /\ res = input[Counted + 1] /\ Counted < Len(input)
  BY <1>1, <1>4 DEF Counted, Handed
<1>5. ASSUME reporter \in {"lock", "count"}
      PROVE  Keys(input, Counted + 1) = Keys(input, Counted) \o res
  BY <1>2, <1>4, <1>5, KeysFacts
<1>6. ASSUME reporter \in {"lock", "count"}
      PROVE  Len(res) \in Nat \ {0} /\ \A i \in 1..Len(res) : res[i] \in Nat
  <2>1. res \in Seq(Nat) /\ res # <<>>
    BY <1>1, <1>6 DEF TypeOK
  <2> QED BY <2>1
<1> QED BY <1>2, <1>3, <1>4, <1>5, <1>6

(* Every step keeps the tallies equal to those of the batches counted so    *)
(* far.                                                                     *)
LEMMA StatsStep ==
  ASSUME TypeOK, QueueInv, LockInv, StatsInv, [Next]_vars
  PROVE  StatsInv'
<1>0. /\ Counted \in 0..Len(input) /\ Keys(input, Counted) \in Seq(Nat) /\ Received \in Int
      /\ input \in Seq(Seq(Nat)) /\ Len(input) \in Nat /\ Len(datac) \in Nat
      /\ datac \in Seq(Seq(Nat))
  BY CountedFacts, StreamFacts DEF TypeOK, QueueInv
<1>1. CASE FeederReceive
  <2>1. /\ UNCHANGED <<input, statsVars, reporter, res, next>> /\ feeder = "receive"
        /\ \/ datac' = datac /\ feeder' = "closed"
           \/ datac # <<>> /\ datac' = Tail(datac) /\ feeder' = "send"
    BY <1>1 DEF FeederReceive
  <2>2. Counted' = Counted
    <3>1. CASE datac' = datac /\ feeder' = "closed"
      BY <2>1, <3>1 DEF Counted, Handed, Received
    <3>2. CASE datac # <<>> /\ datac' = Tail(datac) /\ feeder' = "send"
      <4>1. Len(datac') = Len(datac) - 1
        BY <1>0, <3>2
      <4>2. Received' = Received + 1
        BY <1>0, <2>1, <4>1 DEF Received
      <4> QED BY <1>0, <2>1, <3>2, <4>2 DEF Counted, Handed
    <3> QED BY <2>1, <3>1, <3>2
  <2> QED BY <2>1, <2>2, StatsKept
<1>2. CASE FeederRecord
  <2>1. /\ UNCHANGED <<input, datac, statsVars, reporter, res, next>>
        /\ feeder = "record" /\ feeder' = "receive"
    BY <1>2 DEF FeederRecord
  <2>2. Counted' = Counted
    BY <2>1 DEF Counted, Handed, Received
  <2> QED BY <2>1, <2>2, StatsKept
<1>3. CASE HandOver
  <2>1. /\ UNCHANGED <<input, datac, statsVars>>
        /\ feeder = "send" /\ feeder' = "record" /\ reporter = "range"
        /\ reporter' = IF data = <<>> THEN "range" ELSE "lock"
    BY <1>3 DEF HandOver
  <2>2. CASE data # <<>>
    <3>1. Counted' = Counted
      BY <1>0, <2>1, <2>2 DEF Counted, Handed, Received
    <3> QED BY <2>1, <2>2, <3>1, StatsKept
  <2>3. CASE data = <<>>
    <3>1. Counted' = Counted + 1 /\ Counted + 1 = Received
      BY <1>0, <2>1, <2>3 DEF Counted, Handed, Received
    <3>2. Received <= Len(input) /\ data = input[Received]
      BY <1>0, <2>1 DEF QueueInv
    <3>3. Keys(input, Counted + 1) = Keys(input, Counted) \o <<>>
      <4>1. Counted < Len(input) /\ input[Counted + 1] = <<>>
        BY <1>0, <2>3, <3>1, <3>2
      <4>2. Keys(input, Counted + 1) = Keys(input, Counted) \o input[Counted + 1]
        BY <1>0, <4>1, KeysFacts
      <4> QED BY <4>1, <4>2, Zenon
    <3>4. Keys(input, Counted') = Keys(input, Counted)
      BY <1>0, <3>1, <3>3, ConcatEmptySeq
    <3> QED BY <2>1, <2>3, <3>4 DEF StatsInv
  <2> QED BY <2>2, <2>3
<1>4. CASE LockStats
  <2>1. /\ UNCHANGED <<input, datac, feeder, sizes, sizeToCount, res, next>>
        /\ reporter = "lock" /\ reporter' = "count"
        /\ stats' = [stats EXCEPT !.Count = @ + Len(res)]
    BY <1>4 DEF LockStats
  <2>2. Counted' = Counted
    BY <2>1 DEF Counted, Handed, Received
  <2>3. /\ stats'.Count = stats.Count + Len(res) /\ stats'.Total = stats.Total
        /\ stats'.Smallest = stats.Smallest /\ stats'.Largest = stats.Largest
    BY <2>1 DEF TypeOK
  <2>4. next = 1 /\ res \in Seq(Nat)
    BY <2>1 DEF QueueInv, TypeOK
  <2>5. Keys(input, Counted) \o SubSeq(res, 1, next - 1) = Keys(input, Counted)
    <3>1. SubSeq(res, 1, next - 1) = <<>>
      BY <2>4, SubSeqEmpty
    <3> QED BY <1>0, <3>1, ConcatEmptySeq
  <2>6. stats.Count = Len(Keys(input, Counted))
        /\ Tallies(stats, sizes, sizeToCount, Keys(input, Counted))
    BY <2>1 DEF StatsInv
  <2>7. Tallies(stats', sizes, sizeToCount, Keys(input, Counted))
    BY <2>3, <2>6, Zenon DEF Tallies
  <2> QED BY <2>1, <2>2, <2>3, <2>5, <2>6, <2>7 DEF StatsInv
<1>5. CASE CountKey
  <2> DEFINE k == res[next]
             seen == Keys(input, Counted) \o SubSeq(res, 1, next - 1)
  <2>1. /\ UNCHANGED <<input, datac, feeder, res, reporter>>
        /\ reporter = "count" /\ next <= Len(res) /\ next' = next + 1
        /\ stats' = [stats EXCEPT !.Smallest = Smaller(@, k), !.Largest = Larger(@, k),
                                  !.Total = @ + k]
        /\ sizes' = IF k \in DOMAIN sizeToCount THEN sizes ELSE Append(sizes, k)
        /\ sizeToCount' = [t \in DOMAIN sizeToCount \union {k} |->
                             (IF t \in DOMAIN sizeToCount THEN sizeToCount[t] ELSE 0)
                               + (IF t = k THEN 1 ELSE 0)]
    BY <1>5 DEF CountKey
  <2>2. Counted' = Counted
    BY <2>1 DEF Counted, Handed, Received
  <2>3. next \in 1..Len(res) /\ res \in Seq(Nat) /\ k \in Nat /\ next' - 1 = next
    <3>1. res \in Seq(Nat) /\ next \in 1..(Len(res) + 1)
      BY DEF TypeOK
    <3>2. Len(res) \in Nat
      BY <3>1
    <3>3. next \in 1..Len(res) /\ next' - 1 = next
      BY <2>1, <3>1, <3>2
    <3> QED BY <3>1, <3>3
  <2>4. k <= MaxInt32
    <3>1. res = input[Counted + 1] /\ Counted < Len(input)
      BY <2>1, CountedFacts
    <3>2. Counted + 1 \in 1..Len(input) /\ DOMAIN input = 1..Len(input)
      BY <1>0, <3>1
    <3>3. DOMAIN res = 1..Len(res) /\ input \in Inputs
      BY <2>3 DEF TypeOK
    <3> QED BY <2>3, <3>1, <3>2, <3>3, SizesAssumption
  <2>5. seen \in Seq(Nat) /\ Keys(input, Counted) \o SubSeq(res, 1, next) = Append(seen, k)
    BY <1>0, <2>3, CountedPrefix
  <2>6. stats.Count = Len(Keys(input, Counted)) + Len(res) /\ Tallies(stats, sizes, sizeToCount, seen)
    BY <2>1 DEF StatsInv
  <2>7. /\ stats'.Count = stats.Count /\ stats'.Total = stats.Total + k
        /\ stats'.Smallest = Smaller(stats.Smallest, k) /\ stats'.Largest = Larger(stats.Largest, k)
        /\ stats.Smallest \in Nat /\ stats.Largest \in Int /\ sizes \in Seq(Nat)
    <3> HIDE DEF k
    <3> QED BY <2>1 DEF TypeOK
  <2>8. Tallies(stats', sizes', sizeToCount', Append(seen, k))
    <3>1. KeyAdded(k, stats, sizes, sizeToCount, stats', sizes', sizeToCount')
      BY <2>1, <2>7, Zenon DEF KeyAdded
    <3> HIDE DEF k, seen
    <3> QED BY <2>3, <2>4, <2>5, <2>6, <2>7, <3>1, TalliesAppend
  <2>9. Tallies(stats', sizes', sizeToCount', Keys(input, Counted) \o SubSeq(res, 1, next' - 1))
    <3> HIDE DEF k, seen
    <3>1. Keys(input, Counted) \o SubSeq(res, 1, next' - 1) = Append(seen, k)
      BY <2>3, <2>5
    <3> QED BY <2>8, <3>1, Zenon
  <2> HIDE DEF k, seen
  <2> QED BY <2>1, <2>2, <2>6, <2>7, <2>9 DEF StatsInv
<1>6. CASE UnlockStats
  <2>1. /\ UNCHANGED <<input, datac, feeder, sizes, sizeToCount, res, next>>
        /\ reporter = "count" /\ next > Len(res) /\ reporter' = "range"
        /\ stats' = [stats EXCEPT !.Average = stats.Total \div stats.Count]
    BY <1>6 DEF UnlockStats
  <2>2. Counted' = Counted + 1
    BY <1>0, <2>1 DEF Counted, Handed, Received
  <2>3. res \in Seq(Nat) /\ next - 1 = Len(res)
    <3>1. res \in Seq(Nat) /\ next \in 1..(Len(res) + 1)
      BY DEF TypeOK
    <3>2. Len(res) \in Nat
      BY <3>1
    <3> QED BY <2>1, <3>1, <3>2
  <2>4. SubSeq(res, 1, next - 1) = res
    BY <2>3, SubSeqFull
  <2>5. /\ stats.Count = Len(Keys(input, Counted)) + Len(res)
        /\ Tallies(stats, sizes, sizeToCount, Keys(input, Counted) \o res)
    BY <2>1, <2>4 DEF StatsInv
  <2>6. Keys(input, Counted + 1) = Keys(input, Counted) \o res
    BY <2>1, CountedFacts
  <2>7. Len(Keys(input, Counted) \o res) = Len(Keys(input, Counted)) + Len(res)
    BY <1>0, <2>3, ConcatProperties
  <2>8. /\ stats'.Count = stats.Count /\ stats'.Total = stats.Total
        /\ stats'.Smallest = stats.Smallest /\ stats'.Largest = stats.Largest
        /\ stats'.Average = stats.Total \div stats.Count
    BY <2>1 DEF TypeOK
  <2>9. Tallies(stats', sizes, sizeToCount, Keys(input, Counted + 1))
    BY <2>5, <2>6, <2>8, Zenon DEF Tallies
  <2> QED BY <2>1, <2>2, <2>5, <2>6, <2>7, <2>8, <2>9 DEF StatsInv
<1>7. CASE ProcessingEnds
  <2>1. /\ UNCHANGED <<input, datac, feeder, statsVars>>
        /\ reporter = "range" /\ reporter' \in {"final", "stop"}
    BY <1>7 DEF ProcessingEnds
  <2>2. Counted' = Counted
    BY <2>1 DEF Counted, Handed, Received
  <2> QED BY <2>1, <2>2, StatsKept
<1>8. CASE FinalString
  <2>1. /\ UNCHANGED <<input, datac, feeder, stats, sizeToCount>> /\ sizes' \in Sorted(sizes)
        /\ reporter = "final" /\ reporter' = "printing"
    BY <1>8 DEF FinalString
  <2>2. Counted' = Counted
    BY <2>1 DEF Counted, Handed, Received
  <2> QED BY <2>1, <2>2, StatsSorted
<1>9. CASE FinalPrinted \/ RunReturns
  <2>1. /\ UNCHANGED <<input, datac, feeder, statsVars>>
        /\ reporter \in {"printing", "stop"} /\ reporter' \in {"stop", "done"}
    BY <1>9 DEF FinalPrinted, RunReturns
  <2>2. Counted' = Counted
    BY <2>1 DEF Counted, Handed, Received
  <2> QED BY <2>1, <2>2, StatsKept
<1>10. CASE RefresherString
  <2>1. /\ UNCHANGED <<input, datac, feeder, stats, sizeToCount, reporter>> /\ sizes' \in Sorted(sizes)
        /\ reporter # "count"
    BY <1>10 DEF RefresherString, LockFree, LockInv
  <2>2. Counted' = Counted
    BY <2>1 DEF Counted, Handed, Received
  <2> QED BY <2>1, <2>2, StatsSorted
<1>11. CASE PrintReport
  <2>1. /\ UNCHANGED <<input, datac, feeder, stats, sizeToCount, reporter>>
        /\ sizes' = sizes \/ sizes' \in Sorted(sizes)
        /\ main = "overview" /\ UNCHANGED <<res, next>>
    BY <1>11 DEF PrintReport
  <2>2. reporter = "done"
    BY <2>1 DEF LockInv
  <2>3. Counted' = Counted
    BY <2>1 DEF Counted, Handed, Received
  <2> QED BY <2>1, <2>2, <2>3, StatsSorted, StatsKept
<1>12. CASE RefresherCheck \/ RefresherCount \/ RefresherFlush \/ StartRun \/ RunDone \/ MainEnds
             \/ UNCHANGED vars
  <2>1. /\ UNCHANGED <<input, datac, feeder, statsVars, res, next>>
        /\ \/ reporter' = reporter
           \/ main = "run" /\ reporter' = "range"
    BY <1>12 DEF RefresherCheck, RefresherCount, RefresherFlush, StartRun, RunDone, MainEnds
  <2>2. reporter' # reporter => reporter = "idle" /\ reporter' = "range"
    BY <2>1 DEF LockInv
  <2>3. Counted' = Counted
    BY <2>1, <2>2 DEF Counted, Handed, Received
  <2> QED BY <2>1, <2>2, <2>3, StatsKept
<1> QED BY <1>1, <1>2, <1>3, <1>4, <1>5, <1>6, <1>7, <1>8, <1>9, <1>10, <1>11, <1>12
        DEF Next, Feeder, Reporter, Refresher, Main, Terminated

(* Dividing a natural number by a positive one gives a natural number.      *)
LEMMA QuotientType ==
  ASSUME NEW a \in Nat, NEW b \in Nat \ {0}
  PROVE  a \div b \in Nat
OBVIOUS

(* Types.                                                                   *)
LEMMA TypeStep ==
  ASSUME TypeOK, QueueInv, LockInv, StatsInv, [Next]_vars
  PROVE  TypeOK'
<1> USE DEF TypeOK
<1>1. CASE FeederReceive
  <2>1. CASE datac = <<>>
    BY <1>1, <2>1 DEF FeederReceive, ResultsAfterLoop
  <2>2. CASE datac # <<>>
    <3>1. Head(datac) \in Seq(Nat) /\ Tail(datac) \in Seq(Seq(Nat))
      BY <2>2
    <3>2. /\ data' = Head(datac) /\ datac' = Tail(datac) /\ feeder' = "send"
          /\ UNCHANGED <<results, input, mode, metas, statsVars, reporter, res, next,
                        processOver, countLock, refresher, main>>
      BY <1>1, <2>2, Zenon DEF FeederReceive
    <3>3. data' \in Seq(Nat) /\ datac' \in Seq(Seq(Nat))
      BY <3>1, <3>2, Zenon
    <3> QED BY <3>2, <3>3 DEF statsVars
  <2> QED BY <2>1, <2>2
<1>2. CASE FeederRecord
  <2>1. metas \o data \in Seq(Nat)
    OBVIOUS
  <2> QED BY <1>2, <2>1 DEF FeederRecord
<1>3. CASE HandOver
  <2>1. Len(data) \in Nat
    OBVIOUS
  <2>2. next' \in 1..(Len(res') + 1)
    BY <1>3, <2>1 DEF HandOver
  <2> QED BY <1>3, <2>2 DEF HandOver
<1>4. CASE LockStats
  <2> DEFINE n == stats.Count + Len(res)
  <2>1. n \in Nat /\ stats' = [stats EXCEPT !.Count = n]
    <3>1. Len(res) \in Nat
      OBVIOUS
    <3> QED BY <1>4, <3>1 DEF LockStats
  <2> HIDE DEF n
  <2>2. stats' \in [Count : Nat, Total : Nat, Smallest : Nat, Largest : Int, Average : Nat]
    BY <2>1
  <2> QED BY <1>4, <2>2 DEF LockStats
<1>5. CASE CountKey
  <2> DEFINE k == res[next]
  <2>1. next \in 1..Len(res) /\ next + 1 \in 1..(Len(res) + 1)
    <3>1. res \in Seq(Nat) /\ next \in 1..(Len(res) + 1) /\ next <= Len(res)
      BY <1>5 DEF CountKey
    <3>2. Len(res) \in Nat
      BY <3>1
    <3> QED BY <3>1, <3>2
  <2>2. k \in Nat
    BY <2>1, SMTT(30)
  <2> HIDE DEF k
  <2>3. stats' = [stats EXCEPT !.Smallest = Smaller(@, k), !.Largest = Larger(@, k),
                               !.Total = @ + k]
    BY <1>5 DEF CountKey, k
  <2>4. stats' \in [Count : Nat, Total : Nat, Smallest : Nat, Largest : Int, Average : Nat]
    <3> DEFINE small == Smaller(stats.Smallest, k)
               large == Larger(stats.Largest, k)
               total == stats.Total + k
    <3>1. small \in Nat /\ large \in Int /\ total \in Nat
      BY <2>2 DEF Smaller, Larger
    <3>2. stats' = [stats EXCEPT !.Smallest = small, !.Largest = large, !.Total = total]
      BY <2>3
    <3> HIDE DEF small, large, total
    <3> QED BY <3>1, <3>2
  <2>5. sizes' = (IF k \in DOMAIN sizeToCount THEN sizes ELSE Append(sizes, k))
    BY <1>5 DEF CountKey, k
  <2>6. sizes' \in Seq(Nat)
    BY <2>2, <2>5
  <2>7. sizeToCount' = [t \in DOMAIN sizeToCount \union {k} |->
                          (IF t \in DOMAIN sizeToCount THEN sizeToCount[t] ELSE 0)
                            + (IF t = k THEN 1 ELSE 0)]
    BY <1>5 DEF CountKey, k
  <2>8. DOMAIN sizeToCount' \subseteq Nat /\ \A s \in DOMAIN sizeToCount' : sizeToCount'[s] \in Nat
    BY <2>2, <2>7, SMTT(30)
  <2> QED BY <1>5, <2>1, <2>4, <2>6, <2>8, ZenonT(30) DEF CountKey
<1>6. CASE UnlockStats
  <2>1. reporter = "count" /\ stats' = [stats EXCEPT !.Average = stats.Total \div stats.Count]
    BY <1>6 DEF UnlockStats
  <2>2. stats.Count = Len(Keys(input, Counted)) + Len(res) /\ Len(res) \in Nat \ {0}
        /\ Keys(input, Counted) \in Seq(Nat)
    BY <2>1, CountedFacts DEF StatsInv
  <2>3. stats.Count \in Nat \ {0} /\ stats.Total \in Nat
    <3>1. Len(Keys(input, Counted)) \in Nat
      BY <2>2
    <3> QED BY <2>2, <3>1
  <2>4. stats.Total \div stats.Count \in Nat
    BY <2>3, QuotientType, Zenon
  <2>5. stats' \in [Count : Nat, Total : Nat, Smallest : Nat, Largest : Int, Average : Nat]
    BY <2>1, <2>4
  <2> QED BY <1>6, <2>5 DEF UnlockStats
<1>7. CASE ProcessingEnds
  BY <1>7 DEF ProcessingEnds
<1>8. CASE FinalString
  <2>1. sizes' \in Seq(Nat)
    BY <1>8, SortedFacts DEF FinalString
  <2> QED BY <1>8, <2>1 DEF FinalString
<1>9. CASE FinalPrinted
  BY <1>9 DEF FinalPrinted
<1>10. CASE RunReturns
  BY <1>10 DEF RunReturns
<1>11. CASE RefresherCheck
  BY <1>11 DEF RefresherCheck
<1>12. CASE RefresherCount
  BY <1>12 DEF RefresherCount
<1>13. CASE RefresherString
  <2>1. sizes' \in Seq(Nat)
    BY <1>13, SortedFacts DEF RefresherString
  <2> QED BY <1>13, <2>1 DEF RefresherString
<1>14. CASE RefresherFlush
  BY <1>14 DEF RefresherFlush
<1>15. CASE StartRun
  BY <1>15 DEF StartRun
<1>16. CASE RunDone
  BY <1>16 DEF RunDone
<1>17. CASE PrintReport
  <2>1. sizes' \in Seq(Nat)
    BY <1>17, SortedFacts DEF PrintReport
  <2>2. countLock' \in {"free", "reporter", "refresher", "main"}
    BY <1>17 DEF PrintReport
  <2> QED BY <1>17, <2>1, <2>2 DEF PrintReport
<1>18. CASE MainEnds
  BY <1>18 DEF MainEnds
<1>19. CASE UNCHANGED vars
  BY <1>19
<1> QED BY <1>1, <1>2, <1>3, <1>4, <1>5, <1>6, <1>7, <1>8, <1>9, <1>10, <1>11, <1>12,
           <1>13, <1>14, <1>15, <1>16, <1>17, <1>18, <1>19
        DEF Next, Feeder, Reporter, Refresher, Main, Terminated

(* The start.                                                               *)
LEMMA InitStep ==
  ASSUME Init
  PROVE  ReportInv
<1>1. input \in Seq(Seq(Nat))
  BY InputsAssumption DEF Init
<1>2. Len(input) \in Nat /\ \A n \in 1..0 : FALSE
  BY <1>1
<1>3. TypeOK
  <2>1. next \in 1..(Len(res) + 1)
    BY DEF Init
  <2>2. stats \in [Count : Nat, Total : Nat, Smallest : Nat, Largest : Int, Average : Nat]
    BY DEF Init, MaxInt32
  <2>3. DOMAIN sizeToCount \subseteq Nat /\ \A s \in DOMAIN sizeToCount : sizeToCount[s] \in Nat
    BY DEF Init, NoSizes
  <2>4. refresher \in {"off", "check", "count", "string", "rendering"}
    BY DEF Init
  <2>5. /\ input \in Inputs /\ mode \in Modes
        /\ datac \in Seq(Seq(Nat)) /\ data \in Seq(Nat) /\ metas \in Seq(Nat)
        /\ res \in Seq(Nat) /\ sizes \in Seq(Nat)
    BY <1>1 DEF Init
  <2> QED BY <2>1, <2>2, <2>3, <2>4, <2>5 DEF Init, TypeOK
<1>4. Received = 0 /\ Handed = 0 /\ Recorded = 0 /\ Counted = 0
  <2>1. datac = input /\ feeder = "receive" /\ reporter = "idle"
    BY DEF Init
  <2>2. Received = 0
    BY <1>2, <2>1 DEF Received
  <2>3. Handed = Received - 0 /\ Recorded = Received - 0
    BY <2>1 DEF Handed, Recorded
  <2>4. Counted = Handed - 0
    BY <2>1 DEF Counted
  <2> QED BY <2>2, <2>3, <2>4
<1>5. Keys(input, 0) = <<>>
  BY <1>3, StreamFacts
<1>6. QueueInv
  BY <1>2, <1>4, <1>5 DEF Init, QueueInv
<1>7. LockInv
  BY DEF Init, LockInv
<1>8. Tallies(stats, sizes, sizeToCount, <<>>)
  BY TalliesEmpty DEF Init
<1>9. StatsInv
  <2>1. reporter # "count" /\ stats.Count = 0 /\ Len(<<>>) = 0
    BY DEF Init
  <2> QED BY <1>4, <1>5, <1>8, <2>1 DEF StatsInv
<1> QED BY <1>3, <1>6, <1>7, <1>9 DEF ReportInv

(* In every state of the report the batches, the lock and the statistics    *)
(* are as the invariant says, for every stream and every mode.              *)
THEOREM ReportInductive == Spec => []ReportInv
<1>1. Init => ReportInv
  BY InitStep
<1>2. ReportInv /\ [Next]_vars => ReportInv'
  <2> SUFFICES ASSUME ReportInv, [Next]_vars PROVE ReportInv'
    OBVIOUS
  <2>1. TypeOK /\ QueueInv /\ LockInv /\ StatsInv
    BY DEF ReportInv
  <2> QED BY <2>1, TypeStep, QueueStep, LockStep, StatsStep DEF ReportInv
<1> QED BY <1>1, <1>2, PTL DEF Spec

(* Every value stays in its type; in particular the average is never taken  *)
(* of no key.                                                               *)
THEOREM ReportTypeCorrect == Spec => []TypeOK
<1>1. ReportInv => TypeOK
  BY DEF ReportInv
<1> QED BY <1>1, ReportInductive, PTL

(* The tallies, the number of keys and the average are what StatsAreOf      *)
(* asks for.                                                                *)
LEMMA TalliesAreStats ==
  ASSUME NEW keys \in Seq(Nat), stats.Count = Len(keys),
         keys # <<>> => stats.Average = stats.Total \div stats.Count,
         Tallies(stats, sizes, sizeToCount, keys)
  PROVE  StatsAreOf(keys)
<1>1. ASSUME keys # <<>> PROVE stats.Smallest = Min(ToSet(keys)) /\ stats.Largest = Max(ToSet(keys))
  <2>1. /\ stats.Smallest \in ToSet(keys) /\ stats.Largest \in ToSet(keys)
        /\ \A s \in ToSet(keys) : stats.Smallest <= s /\ s <= stats.Largest
    BY <1>1 DEF Tallies
  <2>2. ToSet(keys) \in SUBSET Int
    BY SetOfSequence
  <2>3. Min(ToSet(keys)) = stats.Smallest
    BY <2>1, <2>2, MinIs
  <2>4. Max(ToSet(keys)) = stats.Largest
    BY <2>1, <2>2, MaxIs
  <2> QED BY <2>3, <2>4
<1> QED BY <1>1, Zenon DEF StatsAreOf, Tallies

(* Whoever renders holds the lock, or comes after the reporter, so that no  *)
(* batch is being counted: what it shows are whole batches.                 *)
THEOREM RendersWholeBatches == Spec => []RenderShowsWholeBatches
<1>1. ReportInv => RenderShowsWholeBatches
  <2> SUFFICES ASSUME ReportInv, Rendering
               PROVE  \E b \in 0..Len(input) : StatsAreOf(FlattenSeq(SubSeq(input, 1, b)))
    BY DEF RenderShowsWholeBatches
  <2>1. TypeOK /\ QueueInv /\ LockInv /\ StatsInv
    BY DEF ReportInv
  <2>2. reporter # "count"
    BY <2>1 DEF Rendering, LockInv
  <2>3. Counted \in 0..Len(input) /\ Keys(input, Counted) \in Seq(Nat)
    BY <2>1, CountedFacts
  <2>4. StatsAreOf(Keys(input, Counted))
    BY <2>1, <2>2, <2>3, TalliesAreStats DEF StatsInv
  <2> QED BY <2>3, <2>4 DEF Keys
<1> QED BY <1>1, ReportInductive, PTL

(* Once main goes on after Run, the feeder has recorded and the reporter    *)
(* has counted the whole stream.                                            *)
THEOREM OverviewAgrees == Spec => []OverviewAgreesWithReport
<1>1. ReportInv => OverviewAgreesWithReport
  <2> SUFFICES ASSUME ReportInv, main \in {"overview", "printing", "done"}
               PROVE  metas = FlattenSeq(input) /\ StatsAreOf(metas)
    BY DEF OverviewAgreesWithReport
  <2>1. TypeOK /\ QueueInv /\ LockInv /\ StatsInv
    BY DEF ReportInv
  <2>2. reporter = "done" /\ feeder = "closed" /\ datac = <<>>
    BY <2>1 DEF LockInv, QueueInv
  <2>3. input \in Seq(Seq(Nat)) /\ Len(input) \in Nat
    BY <2>1, StreamFacts
  <2>4. Recorded = Len(input) /\ Counted = Len(input)
    BY <2>2, <2>3 DEF Recorded, Counted, Handed, Received
  <2>5. Keys(input, Len(input)) = FlattenSeq(input)
    BY <2>3, SubSeqFull DEF Keys
  <2>6. metas = FlattenSeq(input)
    BY <2>1, <2>4, <2>5 DEF QueueInv
  <2>7. FlattenSeq(input) \in Seq(Nat)
    BY <2>3, FlattenType
  <2>8. StatsAreOf(FlattenSeq(input))
    BY <2>1, <2>2, <2>4, <2>5, <2>7, TalliesAreStats DEF StatsInv
  <2> QED BY <2>6, <2>8
<1> QED BY <1>1, ReportInductive, PTL
===============================================================================
