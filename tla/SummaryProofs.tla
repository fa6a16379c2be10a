----------------------------- MODULE SummaryProofs -----------------------------
(***************************************************************************)
(* Theorems about Summary that hold for any stores, prefixes, filters and  *)
(* settings: what is selected, what the rows add up to, which groups are   *)
(* shown, that the Overview of the same records agrees with the rows, and  *)
(* what its verdicts rest on.                                              *)
(***************************************************************************)
EXTENDS Summary, SequenceLemmas

MetaRecord ==
  [Key : Seq(Seq(STRING)), KeySizeBytes : Nat, ValueSizeBytes : Int, KvSizeBytes : Int,
   CreateRevision : Nat, ModRevision : Nat \ {0}, Version : Nat \ {0}, Lease : Nat,
   RevCount : Int, TombstoneCount : Int]

(* A source has the sizes of all its records or of none, and likewise the   *)
(* counts of revisions.                                                     *)
Fits(m) ==
  /\ IF source.form = "keysOnly" THEN m.KvSizeBytes = absent ELSE m.KvSizeBytes \in Nat
  /\ IF source.form = "snapshot"
       THEN m.RevCount \in Nat \ {0} /\ m.TombstoneCount \in Nat
       ELSE m.RevCount = absent /\ m.TombstoneCount = absent

MetaInv ==
  /\ metas \in Seq(MetaRecord)
  /\ \A i \in 1..Len(metas) : Fits(metas[i])

(* The records that reach Filter, from the first n key-values.              *)
LineOf(kv) ==
  IF source.form = "snapshot" THEN SnapshotKVToMeta(kv) ELSE KVToMeta(kv, source.form = "keysOnly")

MetaOf(kv) == [LineOf(kv) EXCEPT !.Key = KeyInSource(kv)]

Arrives(kv) == KeyInSource(kv) \in prefix /\ (source.online => ~Reject(filter, kv))

Arrived(n) ==
  FlattenSeq([i \in 1..n |-> IF Arrives(store[i]) THEN <<MetaOf(store[i])>> ELSE <<>>])

(* The arguments with which the command goes on.                            *)
Accepted == cfg.SortBy \in summarySortKeys /\ CheckFilterCombination(keysOnlyFlag, filter)

CollectInv ==
  /\ store \in Seq(KeyValue)
  /\ phase \in {"start", "read"} => metas = <<>> /\ pos = 1
  /\ phase \notin {"start", "exited"} => Accepted
  /\ phase = "scan" => source.online /\ metas = Arrived(pos - 1)
  /\ phase = "read" => ~source.online
  /\ phase = "filter" => metas = Arrived(Len(store))
  /\ phase \in {"group", "done"} => KeysOf(metas) = KeysAskedFor

(* What a record adds to a column of its group.                             *)
summed == {"Count", "TotalSize", "KeyLeasedCount", "RevCount"}

Part(m, field) ==
  CASE field = "Count" -> 1
    [] field = "TotalSize" -> Larger(m.KvSizeBytes, 0)
    [] field = "KeyLeasedCount" -> One(m.Lease # 0)
    [] OTHER -> Larger(m.RevCount, 0)

GroupStats ==
  [Count : Nat, TotalSize : Nat, HasSize : BOOLEAN, MaxSize : Nat, MaxVersion : Nat,
   LatestModRevision : Nat, CreatedCount : Nat, ModifiedCount : Nat, KeyLeasedCount : Nat,
   leases : SUBSET Nat, MaxLease : Nat, RevCount : Nat, TombstoneCount : Nat]

Consistent(gs) ==
  /\ IF source.form = "keysOnly"
       THEN ~gs.HasSize /\ gs.TotalSize = 0 /\ gs.MaxSize = 0
       ELSE gs.HasSize
  /\ IF source.form = "snapshot"
       THEN gs.RevCount > 0
       ELSE gs.RevCount = 0 /\ gs.TombstoneCount = 0

IsGroup(gs) ==
  gs \in GroupStats /\ IsFiniteSet(gs.leases) /\ gs.Count \in 1..(pos - 1) /\ Consistent(gs)

GroupTotal(field) ==
  SumFunctionOnSet([g \in DOMAIN groups |-> groups[g][field]], DOMAIN groups)

PartTotal(field) == Total([i \in 1..(pos - 1) |-> Part(metas[i], field)])

(* The groups add up to the records grouped so far.                         *)
GroupInv ==
  /\ phase \notin {"group", "done"} => groups = NoCounts
  /\ phase \in {"group", "done"} =>
       /\ pos \in 1..(Len(metas) + 1)
       /\ IsFiniteSet(DOMAIN groups) /\ (DOMAIN groups = {} <=> pos = 1)
       /\ \A g \in DOMAIN groups : IsGroup(groups[g])
       /\ \A field \in summed : GroupTotal(field) = PartTotal(field)

ResultInv ==
  /\ phase # "done" => result = <<>>
  /\ phase = "done" =>
       pos = Len(metas) + 1 /\ \E order \in Sorted(DOMAIN groups) : result = Cut(order)

SummaryInv == TypeOK /\ MetaInv /\ CollectInv /\ GroupInv /\ ResultInv

----------------------------------------------------------------------------
(* The arguments.                                                           *)
LEMMA ArgumentFacts ==
  ASSUME TypeOK
  PROVE  /\ filter.Attribute \in {"none", "key", "value", "kv"}
         /\ filter.Min \in Int /\ filter.Max \in Int
         /\ cfg.Top \in Int /\ Top \in Nat \ {0}
         /\ cfg.MinCreateRevision \in Int /\ cfg.MaxCreateRevision \in Int
         /\ cfg.MinModRevision \in Int /\ cfg.MaxModRevision \in Int
         /\ source.form \in {"full", "keysOnly", "snapshot"}
         /\ source.form = "snapshot" => ~source.online
<1>1. filter \in FilterArgs /\ cfg \in Configs /\ source \in Sources
  BY DEF TypeOK
<1>2. Top \in Nat \ {0}
  BY <1>1, SummaryAssumption DEF Top
<1>3. \A f \in FilterArgs :
        f.Attribute \in {"none", "key", "value", "kv"} /\ f.Min \in Int /\ f.Max \in Int
  BY SummaryAssumption
<1>4. \A x \in {cfg.MinCreateRevision, cfg.MaxCreateRevision,
             cfg.MinModRevision, cfg.MaxModRevision} : x \in Int
  BY <1>1, SummaryAssumption, Zenon
<1>5. cfg.Top \in Int
  BY <1>1, SummaryAssumption, Zenon
<1>6. source.form \in {"full", "keysOnly", "snapshot"}
  BY <1>1 DEF Sources
<1>7. source.form = "snapshot" => ~source.online
  <2>1. CASE source \in [online : BOOLEAN, form : {"full", "keysOnly"}]
    <3>1. source.form \in {"full", "keysOnly"}
      BY <2>1
    <3> QED BY <3>1
  <2>2. CASE source \in {[online |-> FALSE, form |-> "snapshot"]}
    BY <2>2
  <2> QED BY <1>1, <2>1, <2>2 DEF Sources
<1> QED BY <1>1, <1>2, <1>3, <1>4, <1>5, <1>6, <1>7

(* A record keeps its type when one of the pointers is set.                 *)
LEMMA PointerSet ==
  ASSUME NEW r \in MetaRecord, NEW x \in Int
  PROVE  /\ [r EXCEPT !.ValueSizeBytes = x] \in MetaRecord
         /\ [r EXCEPT !.KvSizeBytes = x] \in MetaRecord
         /\ [r EXCEPT !.RevCount = x] \in MetaRecord
         /\ [r EXCEPT !.TombstoneCount = x] \in MetaRecord
<1>1. [r EXCEPT !.ValueSizeBytes = x] \in MetaRecord
  BY DEF MetaRecord
<1>2. [r EXCEPT !.KvSizeBytes = x] \in MetaRecord
  BY DEF MetaRecord
<1>3. [r EXCEPT !.RevCount = x] \in MetaRecord
  BY DEF MetaRecord
<1>4. [r EXCEPT !.TombstoneCount = x] \in MetaRecord
  BY DEF MetaRecord
<1> QED BY <1>1, <1>2, <1>3, <1>4

(* What a key-value becomes before it is written.                           *)
LEMMA LineFacts ==
  ASSUME TypeOK, NEW kv \in KeyValue
  PROVE  /\ LineOf(kv) \in MetaRecord /\ Fits(LineOf(kv))
         /\ LineOf(kv).Key = kv.Key /\ LineOf(kv).KeySizeBytes = kv.keySize
         /\ LineOf(kv).ValueSizeBytes =
              IF source.form = "keysOnly" THEN absent ELSE kv.valueSize
         /\ LineOf(kv).KvSizeBytes =
              IF source.form = "keysOnly" THEN absent ELSE kv.keySize + kv.valueSize
<1> DEFINE w == WithoutSizes(kv)
           m == [w EXCEPT !.ValueSizeBytes = kv.valueSize,
                          !.KvSizeBytes = kv.keySize + kv.valueSize]
<1>1. w \in MetaRecord /\ w.Key = kv.Key /\ w.KeySizeBytes = kv.keySize
      /\ w.ValueSizeBytes = absent /\ w.KvSizeBytes = absent
      /\ w.RevCount = absent /\ w.TombstoneCount = absent
  BY DEF WithoutSizes, KeyValue, Path, MetaRecord, absent
<1>2. /\ kv.keySize \in Nat /\ kv.valueSize \in Nat
      /\ kv.RevCount \in Nat \ {0} /\ kv.TombstoneCount \in Nat
  BY DEF KeyValue
<1>8. kv.valueSize \in Int /\ kv.RevCount \in Int /\ kv.TombstoneCount \in Int
  BY <1>2
<1> HIDE DEF w
<1>3. m \in MetaRecord /\ m.Key = kv.Key /\ m.KeySizeBytes = kv.keySize
      /\ m.ValueSizeBytes = kv.valueSize /\ m.KvSizeBytes = kv.keySize + kv.valueSize
      /\ m.RevCount = absent /\ m.TombstoneCount = absent
  <2>1. PICK size \in Nat : size = kv.keySize + kv.valueSize
    BY <1>2
  <2>2. m = [[w EXCEPT !.ValueSizeBytes = kv.valueSize] EXCEPT !.KvSizeBytes = size]
    BY <2>1
  <2> DEFINE u == [w EXCEPT !.ValueSizeBytes = kv.valueSize]
  <2>3. u \in MetaRecord
    BY <1>1, <1>8, PointerSet
  <2>4. u.Key = kv.Key /\ u.KeySizeBytes = kv.keySize
        /\ u.ValueSizeBytes = kv.valueSize /\ u.RevCount = absent /\ u.TombstoneCount = absent
    BY <1>1 DEF MetaRecord
  <2> HIDE DEF u
  <2> DEFINE v == [u EXCEPT !.KvSizeBytes = size]
  <2>5. v \in MetaRecord
    <3>1. size \in Int
      OBVIOUS
    <3> QED BY <2>3, <3>1, PointerSet
  <2>6. v.Key = kv.Key /\ v.KeySizeBytes = kv.keySize /\ v.KvSizeBytes = size
        /\ v.ValueSizeBytes = kv.valueSize /\ v.RevCount = absent /\ v.TombstoneCount = absent
    BY <2>3, <2>4 DEF MetaRecord
  <2>7. m = v
    BY <2>2 DEF u
  <2> QED BY <2>1, <2>5, <2>6, <2>7, Zenon
<1> HIDE DEF m
<1>4. KVToMeta(kv, TRUE) = w /\ KVToMeta(kv, FALSE) = m
  BY DEF KVToMeta, w, m
<1>5. CASE source.form = "keysOnly"
  <2>1. LineOf(kv) = w
    BY <1>4, <1>5 DEF LineOf
  <2> QED BY <1>1, <1>5, <2>1 DEF Fits
<1>6. CASE source.form = "full"
  <2>1. LineOf(kv) = m
    <3>1. (source.form = "keysOnly") = FALSE
      BY <1>6
    <3> QED BY <1>4, <1>6, <3>1 DEF LineOf
  <2> QED BY <1>2, <1>3, <1>6, <2>1 DEF Fits
<1>7. CASE source.form = "snapshot"
  <2> DEFINE q == [m EXCEPT !.RevCount = kv.RevCount, !.TombstoneCount = kv.TombstoneCount]
  <2>1. LineOf(kv) = q
    BY <1>4, <1>7 DEF LineOf, SnapshotKVToMeta
  <2>2. q \in MetaRecord /\ q.Key = kv.Key /\ q.KeySizeBytes = kv.keySize
        /\ q.ValueSizeBytes = kv.valueSize /\ q.KvSizeBytes = kv.keySize + kv.valueSize
        /\ q.RevCount = kv.RevCount /\ q.TombstoneCount = kv.TombstoneCount
    <3> DEFINE u == [m EXCEPT !.RevCount = kv.RevCount]
    <3>1. u \in MetaRecord
      BY <1>3, <1>8, PointerSet
    <3>2. u.Key = kv.Key /\ u.KeySizeBytes = kv.keySize /\ u.ValueSizeBytes = kv.valueSize
          /\ u.KvSizeBytes = m.KvSizeBytes /\ u.RevCount = kv.RevCount
      BY <1>3 DEF MetaRecord
    <3> HIDE DEF u
    <3> DEFINE v == [u EXCEPT !.TombstoneCount = kv.TombstoneCount]
    <3>3. v \in MetaRecord
      BY <1>8, <3>1, PointerSet
    <3>4. v.Key = kv.Key /\ v.KeySizeBytes = kv.keySize /\ v.ValueSizeBytes = kv.valueSize
          /\ v.KvSizeBytes = m.KvSizeBytes /\ v.RevCount = kv.RevCount
          /\ v.TombstoneCount = kv.TombstoneCount
      BY <3>1, <3>2 DEF MetaRecord
    <3>5. q = v
      BY DEF u
    <3> HIDE DEF v, q
    <3> QED BY <1>3, <3>3, <3>4, <3>5, Zenon
  <2> HIDE DEF q
  <2> QED BY <1>2, <1>7, <2>1, <2>2 DEF Fits
<1> QED BY <1>5, <1>6, <1>7, ArgumentFacts

(* What a key-value becomes when it has arrived: the same, but for the key.  *)
LEMMA MetaFacts ==
  ASSUME TypeOK, NEW kv \in KeyValue
  PROVE  /\ MetaOf(kv) \in MetaRecord /\ Fits(MetaOf(kv))
         /\ KeyInSource(kv) \in Path
         /\ MetaOf(kv).Key = KeyInSource(kv) /\ MetaOf(kv).KeySizeBytes = kv.keySize
         /\ MetaOf(kv).ValueSizeBytes =
              IF source.form = "keysOnly" THEN absent ELSE kv.valueSize
         /\ MetaOf(kv).KvSizeBytes =
              IF source.form = "keysOnly" THEN absent ELSE kv.keySize + kv.valueSize
         /\ source.online => MetaOf(kv) = LineOf(kv)
         /\ ~source.online => MetaOf(kv) = Unmarshal(LineOf(kv))
<1>1. KeyInSource(kv) \in Path
  BY DEF KeyInSource, KeyValue
<1> DEFINE r == LineOf(kv)
           k == KeyInSource(kv)
<1>2. /\ r \in MetaRecord /\ Fits(r) /\ r.Key = kv.Key /\ r.KeySizeBytes = kv.keySize
      /\ r.ValueSizeBytes = IF source.form = "keysOnly" THEN absent ELSE kv.valueSize
      /\ r.KvSizeBytes = IF source.form = "keysOnly" THEN absent ELSE kv.keySize + kv.valueSize
  BY LineFacts
<1>3. MetaOf(kv) = [r EXCEPT !.Key = k]
  BY DEF MetaOf
<1> HIDE DEF r, k
<1> DEFINE m == [r EXCEPT !.Key = k]
<1>4. /\ m \in MetaRecord /\ m.Key = k /\ m.KeySizeBytes = r.KeySizeBytes
      /\ m.ValueSizeBytes = r.ValueSizeBytes /\ m.KvSizeBytes = r.KvSizeBytes
      /\ m.RevCount = r.RevCount /\ m.TombstoneCount = r.TombstoneCount
      /\ k = r.Key => m = r
  <2>1. k \in Seq(Seq(STRING))
    BY <1>1 DEF k, Path
  <2> HIDE DEF k
  <2> QED BY <1>2, <2>1 DEF MetaRecord
<1> HIDE DEF m
<1>5. Fits(m)
  BY <1>2, <1>4 DEF Fits
<1>6. source.online => k = r.Key
  BY <1>2 DEF KeyInSource, k
<1>7. ~source.online => MetaOf(kv) = Unmarshal(LineOf(kv))
  <2>1. ~source.online => k = JSONKey[r.Key]
    BY <1>2 DEF KeyInSource, k
  <2> QED BY <1>3, <2>1 DEF Unmarshal, r
<1>8. MetaOf(kv) = m
  BY <1>3 DEF m
<1> QED BY <1>1, <1>2, <1>4, <1>5, <1>6, <1>7, <1>8 DEF r, k

(* The filters on the way and the filter on records are one selection.      *)
LEMMA OneSelection ==
  ASSUME TypeOK, CheckFilterCombination(keysOnlyFlag, filter), NEW kv \in KeyValue
  PROVE  Arrives(kv) /\ ~RejectMeta(filter, MetaOf(kv)) <=> Asked(kv)
<1>1. kv.keySize \in Nat /\ kv.valueSize \in Nat
  BY DEF KeyValue
<1> DEFINE m == MetaOf(kv)
<1>2. /\ m.KeySizeBytes = kv.keySize
      /\ m.ValueSizeBytes = IF source.form = "keysOnly" THEN absent ELSE kv.valueSize
      /\ m.KvSizeBytes = IF source.form = "keysOnly" THEN absent ELSE kv.keySize + kv.valueSize
  BY MetaFacts
<1> HIDE DEF m
<1>3. absent = -1
  BY DEF absent
<1>4. ~(source.online /\ source.form = "keysOnly" /\ filter.Attribute \in {"value", "kv"})
  BY DEF CheckFilterCombination, keysOnlyFlag
<1> DEFINE Out(size) == ~NoFilter(filter) /\ outOfRange(size, filter.Min, filter.Max)
<1>5. ASSUME NEW size \in Nat PROVE Out(size) <=> filter.Attribute # "none" /\ ~Within(size)
  BY <1>5, ArgumentFacts DEF NoFilter, outOfRange, Within
<1> HIDE DEF Out
<1>6. CASE filter.Attribute = "none"
  <2>1. NoFilter(filter)
    BY <1>6 DEF NoFilter
  <2> QED BY <1>6, <2>1 DEF Arrives, Reject, RejectMeta, Asked
<1>7. CASE filter.Attribute = "key"
  <2>1. Reject(filter, kv) <=> Out(kv.keySize)
    BY <1>7 DEF Reject, Out
  <2>2. RejectMeta(filter, m) <=> Out(kv.keySize)
    BY <1>1, <1>2, <1>3, <1>7 DEF RejectMeta, Out
  <2>3. Out(kv.keySize) <=> ~Within(kv.keySize)
    BY <1>1, <1>5, <1>7
  <2> QED BY <1>7, <2>1, <2>2, <2>3 DEF Arrives, Asked, m
<1>8. CASE filter.Attribute = "value"
  <2>1. Reject(filter, kv) <=> Out(kv.valueSize)
    BY <1>8 DEF Reject, Out
  <2>2. RejectMeta(filter, m) <=> source.form # "keysOnly" /\ Out(kv.valueSize)
    BY <1>1, <1>2, <1>3, <1>8 DEF RejectMeta, Out
  <2>3. Out(kv.valueSize) <=> ~Within(kv.valueSize)
    BY <1>1, <1>5, <1>8
  <2> QED BY <1>4, <1>8, <2>1, <2>2, <2>3 DEF Arrives, Asked, m
<1>9. CASE filter.Attribute = "kv"
  <2>1. Reject(filter, kv) <=> Out(kv.keySize + kv.valueSize)
    BY <1>9 DEF Reject, Out
  <2>2. RejectMeta(filter, m) <=> source.form # "keysOnly" /\ Out(kv.keySize + kv.valueSize)
    BY <1>1, <1>2, <1>3, <1>9 DEF RejectMeta, Out
  <2>3. Out(kv.keySize + kv.valueSize) <=> ~Within(kv.keySize + kv.valueSize)
    BY <1>1, <1>5, <1>9
  <2> QED BY <1>4, <1>9, <2>1, <2>2, <2>3 DEF Arrives, Asked, m
<1> QED BY <1>6, <1>7, <1>8, <1>9, ArgumentFacts

----------------------------------------------------------------------------
(* The records of the first key-values, as a loop with at most one record   *)
(* for each.                                                                *)
Offered == [i \in 1..Len(store) |-> IF Arrives(store[i]) THEN <<MetaOf(store[i])>> ELSE <<>>]

FitRecord == {m \in MetaRecord : Fits(m)}

(* The loop over the key-values makes at most one record of each, and a     *)
(* record that fits the source.                                             *)
LEMMA OfferedFacts ==
  ASSUME TypeOK, store \in Seq(KeyValue)
  PROVE  /\ Len(store) \in Nat
         /\ Offered \in Seq(Seq(FitRecord)) /\ Offered \in Seq(Seq(MetaRecord))
         /\ Len(Offered) = Len(store)
         /\ \A i \in 1..Len(store) :
              /\ store[i] \in KeyValue /\ Len(Offered[i]) <= 1
              /\ Offered[i] = IF Arrives(store[i]) THEN <<MetaOf(store[i])>> ELSE <<>>
<1>1. Len(store) \in Nat /\ \A i \in 1..Len(store) : store[i] \in KeyValue
  OBVIOUS
<1>2. ASSUME NEW i \in 1..Len(store) PROVE MetaOf(store[i]) \in FitRecord
  BY <1>1, MetaFacts DEF FitRecord
<1>3. Offered \in [1..Len(store) -> Seq(FitRecord)]
  <2>1. \A i \in 1..Len(store) :
          (IF Arrives(store[i]) THEN <<MetaOf(store[i])>> ELSE <<>>) \in Seq(FitRecord)
    BY <1>2
  <2> QED BY <2>1 DEF Offered
<1>4. Offered \in Seq(Seq(FitRecord)) /\ Len(Offered) = Len(store)
  BY <1>1, <1>3
<1>5. Seq(FitRecord) \subseteq Seq(MetaRecord)
  BY DEF FitRecord
<1>6. Offered \in Seq(Seq(MetaRecord))
  BY <1>1, <1>3, <1>5
<1>7. \A i \in 1..Len(store) :
        /\ Len(Offered[i]) <= 1
        /\ Offered[i] = IF Arrives(store[i]) THEN <<MetaOf(store[i])>> ELSE <<>>
  BY DEF Offered
<1> QED BY <1>1, <1>4, <1>6, <1>7

(* What has arrived after n key-values is what the loop made of them.       *)
LEMMA ArrivedFacts ==
  ASSUME TypeOK, store \in Seq(KeyValue), NEW n \in 0..Len(store)
  PROVE  /\ Arrived(n) = FlattenSeq(SubSeq(Offered, 1, n))
         /\ Arrived(n) \in Seq(FitRecord) /\ Len(Arrived(n)) <= n
<1>1. Offered \in Seq(Seq(FitRecord)) /\ Len(Offered) = Len(store) /\ Len(store) \in Nat
  BY OfferedFacts
<1> DEFINE s == SubSeq(Offered, 1, n)
<1>2. s = [i \in 1..n |-> Offered[i]] /\ s \in Seq(Seq(FitRecord)) /\ Len(s) = n
  BY <1>1, PrefixIs
<1>3. [i \in 1..n |-> IF Arrives(store[i]) THEN <<MetaOf(store[i])>> ELSE <<>>]
        = [i \in 1..n |-> Offered[i]]
  BY <1>1 DEF Offered
<1>4. \A i \in 1..n : Len(s[i]) <= 1
  <2> SUFFICES ASSUME NEW i \in 1..n PROVE Len(s[i]) <= 1
    OBVIOUS
  <2>1. i \in 1..Len(store) /\ s[i] = Offered[i]
    BY <1>1, <1>2
  <2>2. Len(Offered[i]) <= 1
    BY <2>1, OfferedFacts
  <2> QED BY <2>1, <2>2
<1> HIDE DEF s
<1>5. FlattenSeq(s) \in Seq(FitRecord) /\ Len(FlattenSeq(s)) <= Len(s)
  BY <1>2, <1>4, FlattenType, OptionsLength
<1>6. Arrived(n) = FlattenSeq(s)
  BY <1>2, <1>3, Zenon DEF Arrived
<1> QED BY <1>2, <1>5, <1>6 DEF s

(* One more key-value.                                                      *)
LEMMA ArrivedNext ==
  ASSUME TypeOK, store \in Seq(KeyValue), NEW n \in 1..Len(store)
  PROVE  Arrived(n) = IF Arrives(store[n])
                        THEN Append(Arrived(n - 1), MetaOf(store[n]))
                        ELSE Arrived(n - 1)
<1>1. Offered \in Seq(Seq(FitRecord)) /\ Len(Offered) = Len(store) /\ Len(store) \in Nat
      /\ n - 1 \in 0..Len(store) /\ n \in 0..Len(store) /\ n - 1 \in 0..(Len(Offered) - 1)
      /\ (n - 1) + 1 = n
  BY OfferedFacts
<1>2. FlattenSeq(SubSeq(Offered, 1, (n - 1) + 1))
        = FlattenSeq(SubSeq(Offered, 1, n - 1)) \o Offered[(n - 1) + 1]
  BY <1>1, FlattenPrefix
<1>3. Arrived(n) = FlattenSeq(SubSeq(Offered, 1, n))
      /\ Arrived(n - 1) = FlattenSeq(SubSeq(Offered, 1, n - 1))
      /\ Arrived(n - 1) \in Seq(FitRecord)
  BY <1>1, ArrivedFacts
<1>4. Arrived(n) = Arrived(n - 1) \o Offered[n]
  BY <1>1, <1>2, <1>3
<1>5. CASE Arrives(store[n])
  <2>1. Offered[n] = <<MetaOf(store[n])>> /\ MetaOf(store[n]) \in FitRecord
    BY <1>5, OfferedFacts, MetaFacts DEF FitRecord
  <2> QED BY <1>3, <1>4, <1>5, <2>1, AppendIsConcat
<1>6. CASE ~Arrives(store[n])
  <2>1. Offered[n] = <<>>
    BY <1>6, OfferedFacts
  <2> QED BY <1>3, <1>4, <1>6, <2>1, ConcatEmptySeq
<1> QED BY <1>5, <1>6

(* The file holds the same records.                                         *)
LEMMA ArrivedOffline ==
  ASSUME TypeOK, store \in Seq(KeyValue), ~source.online
  PROVE  FilterMetasByPrefix([i \in DOMAIN File |-> Unmarshal(File[i])], prefix)
           = Arrived(Len(store))
<1> DEFINE f == [i \in DOMAIN File |-> Unmarshal(File[i])]
<1>1. Len(store) \in Nat /\ DOMAIN File = 1..Len(store) /\ DOMAIN f = 1..Len(store)
  BY DEF File
<1>2. ASSUME NEW i \in 1..Len(store)
      PROVE  /\ f[i] = MetaOf(store[i])
             /\ f[i].Key \in prefix <=> Arrives(store[i])
  <2>1. f[i] = Unmarshal(LineOf(store[i]))
    BY <1>1 DEF File, LineOf
  <2>2. MetaOf(store[i]).Key = KeyInSource(store[i])
        /\ MetaOf(store[i]) = Unmarshal(LineOf(store[i]))
    BY OfferedFacts, MetaFacts
  <2> QED BY <2>1, <2>2 DEF Arrives
<1> HIDE DEF f
<1> DEFINE a == [i \in DOMAIN f |-> IF f[i].Key \in prefix THEN <<f[i]>> ELSE <<>>]
           b == [i \in 1..Len(store) |-> IF Arrives(store[i]) THEN <<MetaOf(store[i])>> ELSE <<>>]
<1>3. a = b
  BY <1>1, <1>2
<1> QED BY <1>3, Zenon DEF FilterMetasByPrefix, Arrived, f

(* What Filter leaves are the records of the keys that were asked for.      *)
LEMMA FilteredFacts ==
  ASSUME TypeOK, store \in Seq(KeyValue), CheckFilterCombination(keysOnlyFlag, filter),
         metas = Arrived(Len(store))
  PROVE  LET kept == FilterMetas(metas, filter) IN
           /\ kept \in Seq(FitRecord) /\ Len(kept) <= Len(store)
           /\ KeysOf(kept) = KeysAskedFor
<1> DEFINE h == [m \in FitRecord |-> IF RejectMeta(filter, m) THEN <<>> ELSE <<m>>]
           k == [m \in FitRecord |-> <<m.Key>>]
           t == Chained(Offered, h)
           kept == FilterMetas(metas, filter)
<1>1. /\ Offered \in Seq(Seq(FitRecord)) /\ Len(Offered) = Len(store) /\ Len(store) \in Nat
      /\ \A i \in 1..Len(store) :
           /\ store[i] \in KeyValue /\ Len(Offered[i]) <= 1
           /\ Offered[i] = IF Arrives(store[i]) THEN <<MetaOf(store[i])>> ELSE <<>>
  BY OfferedFacts
<1>2. metas = FlattenSeq(Offered) /\ metas \in Seq(FitRecord)
  <2>1. Len(store) \in 0..Len(store)
    BY <1>1
  <2>2. SubSeq(Offered, 1, Len(store)) = Offered
    BY <1>1, SubSeqFull
  <2> QED BY <2>1, <2>2, ArrivedFacts
<1>3. h \in [FitRecord -> Seq(FitRecord)] /\ k \in [FitRecord -> Seq(Path)]
  <2>1. \A m \in FitRecord : m.Key \in Path
    BY DEF FitRecord, MetaRecord, Path
  <2> QED BY <2>1
<1>4. kept = FlattenSeq(Through(metas, h))
  <2>1. DOMAIN metas = 1..Len(metas) /\ \A j \in 1..Len(metas) : metas[j] \in FitRecord
    BY <1>2
  <2>2. Through(metas, h)
          = [i \in DOMAIN metas |-> IF RejectMeta(filter, metas[i]) THEN <<>> ELSE <<metas[i]>>]
    BY <2>1 DEF Through
  <2> QED BY <2>2, Zenon DEF FilterMetas
<1>5. FlattenSeq(Through(metas, h)) = FlattenSeq(t)
  <2>1. \A i \in 1..Len(Offered) : Len(Offered[i]) <= 1
    BY <1>1
  <2>2. h \in [FitRecord -> Seq(FitRecord)]
    BY <1>3
  <2> HIDE DEF h
  <2>3. FlattenSeq(Through(FlattenSeq(Offered), h)) = FlattenSeq(Chained(Offered, h))
    BY <1>1, <2>1, <2>2, LoopOverLoop
  <2> QED BY <1>2, <2>3
<1>6. ASSUME NEW i \in 1..Len(store)
      PROVE  t[i] = IF Asked(store[i]) THEN <<MetaOf(store[i])>> ELSE <<>>
  <2>1. t[i] = IF Offered[i] = <<>> THEN <<>> ELSE h[Offered[i][1]]
    BY <1>1 DEF Chained
  <2>2. Arrives(store[i]) /\ ~RejectMeta(filter, MetaOf(store[i])) <=> Asked(store[i])
    BY <1>1, OneSelection
  <2>3. MetaOf(store[i]) \in FitRecord
    BY <1>1, MetaFacts DEF FitRecord
  <2>4. CASE Arrives(store[i])
    <3>1. Offered[i] = <<MetaOf(store[i])>>
      BY <1>1, <2>4
    <3>2. t[i] = h[MetaOf(store[i])]
      BY <2>1, <3>1
    <3> QED BY <2>2, <2>3, <2>4, <3>2
  <2>5. CASE ~Arrives(store[i])
    BY <1>1, <2>1, <2>2, <2>5
  <2> QED BY <2>4, <2>5
<1>7. t \in Seq(Seq(FitRecord)) /\ Len(t) = Len(store)
  <2>1. t = [i \in 1..Len(store) |-> IF Asked(store[i]) THEN <<MetaOf(store[i])>> ELSE <<>>]
    <3>1. t = [i \in 1..Len(store) |-> t[i]]
      BY <1>1 DEF Chained
    <3> HIDE DEF t
    <3> QED BY <1>6, <3>1
  <2>2. \A i \in 1..Len(store) :
          (IF Asked(store[i]) THEN <<MetaOf(store[i])>> ELSE <<>>) \in Seq(FitRecord)
    <3>1. \A i \in 1..Len(store) : MetaOf(store[i]) \in FitRecord
      BY <1>1, MetaFacts DEF FitRecord
    <3> QED BY <3>1
  <2> HIDE DEF t
  <2> QED BY <1>1, <2>1, <2>2
<1>8. \A i \in 1..Len(t) : Len(t[i]) <= 1
  <2> HIDE DEF t
  <2> SUFFICES ASSUME NEW i \in 1..Len(t) PROVE Len(t[i]) <= 1
    OBVIOUS
  <2>1. t[i] = IF Asked(store[i]) THEN <<MetaOf(store[i])>> ELSE <<>>
    BY <1>6, <1>7
  <2>2. CASE Asked(store[i])
    <3> DEFINE m == MetaOf(store[i])
    <3>1. t[i] = <<m>>
      BY <2>1, <2>2
    <3> HIDE DEF m
    <3> QED BY <3>1
  <2>3. CASE ~Asked(store[i])
    BY <2>1, <2>3
  <2> QED BY <2>2, <2>3
<1>9. kept = FlattenSeq(t)
  BY <1>4, <1>5, Zenon
<1> HIDE DEF t, h, kept
<1>10. kept \in Seq(FitRecord) /\ Len(kept) <= Len(store)
  BY <1>7, <1>8, <1>9, FlattenType, OptionsLength
<1>11. KeysOf(kept) \in Seq(Path) /\ Len(KeysOf(kept)) = Len(kept)
       /\ \A i \in 1..Len(kept) : kept[i] \in FitRecord /\ KeysOf(kept)[i] = kept[i].Key
  <2>1. \A i \in 1..Len(kept) : kept[i] \in FitRecord /\ kept[i].Key \in Path
    BY <1>10 DEF FitRecord, MetaRecord, Path
  <2> QED BY <1>10, <2>1 DEF KeysOf
<1>12. FlattenSeq([i \in 1..Len(KeysOf(kept)) |-> <<KeysOf(kept)[i]>>]) = KeysOf(kept)
  BY <1>11, FlattenSingletons
<1>13. [i \in 1..Len(KeysOf(kept)) |-> <<KeysOf(kept)[i]>>] = Through(kept, k)
  BY <1>11 DEF Through
<1>14. FlattenSeq(Through(kept, k)) = FlattenSeq(Chained(t, k))
  <2> HIDE DEF k
  <2> QED BY <1>3, <1>7, <1>8, <1>9, LoopOverLoop
<1>15. Chained(t, k)
         = [i \in DOMAIN store |-> IF Asked(store[i]) THEN <<KeyInSource(store[i])>> ELSE <<>>]
  <2>1. ASSUME NEW i \in 1..Len(store)
        PROVE  (IF t[i] = <<>> THEN <<>> ELSE k[t[i][1]])
                 = IF Asked(store[i]) THEN <<KeyInSource(store[i])>> ELSE <<>>
    <3>1. MetaOf(store[i]) \in FitRecord /\ MetaOf(store[i]).Key = KeyInSource(store[i])
      BY <1>1, MetaFacts DEF FitRecord
    <3>2. CASE Asked(store[i])
      <4>1. t[i] = <<MetaOf(store[i])>>
        BY <1>6, <3>2
      <4>2. t[i] # <<>> /\ t[i][1] = MetaOf(store[i])
        BY <4>1
      <4>3. k[MetaOf(store[i])] = <<KeyInSource(store[i])>>
        BY <3>1
      <4> HIDE DEF k
      <4> QED BY <3>2, <4>2, <4>3, Zenon
    <3>3. CASE ~Asked(store[i])
      BY <1>6, <3>3
    <3> QED BY <3>2, <3>3
  <2>2. DOMAIN store = 1..Len(store)
    OBVIOUS
  <2> HIDE DEF k
  <2> QED BY <1>7, <2>1, <2>2 DEF Chained
<1>16. KeysOf(kept) = KeysAskedFor
  BY <1>12, <1>13, <1>14, <1>15, Zenon DEF KeysAskedFor
<1> QED BY <1>10, <1>16 DEF kept

----------------------------------------------------------------------------
(* One record more in a group.                                              *)
Mergeable(gs) ==
  gs \in GroupStats /\ IsFiniteSet(gs.leases) /\ (gs = newGroup \/ Consistent(gs))

(* A group before its first record: nothing has been counted.               *)
LEMMA NewGroupFacts ==
  /\ newGroup \in GroupStats /\ IsFiniteSet(newGroup.leases) /\ newGroup.Count = 0
  /\ \A field \in summed : newGroup[field] = 0
<1>1. newGroup \in GroupStats
  BY DEF newGroup, GroupStats
<1>2. newGroup.leases = {} /\ newGroup.Count = 0
  BY DEF newGroup
<1>3. \A field \in summed : newGroup[field] = 0
  BY DEF newGroup, summed
<1> QED BY <1>1, <1>2, <1>3, FS_EmptySet

(* The larger of two numbers.                                               *)
LEMMA LargerFacts ==
  ASSUME NEW a \in Int, NEW b \in Int
  PROVE  /\ Larger(a, b) \in Int /\ Larger(a, b) >= a /\ Larger(a, b) >= b
         /\ Larger(a, b) = a \/ Larger(a, b) = b
         /\ b \in Nat => Larger(a, b) \in Nat
         /\ a \in Nat => Larger(a, b) \in Nat
BY DEF Larger

(* A group with one record more is a group that fits the source, and each   *)
(* column that is summed has grown by what the record has.                  *)
LEMMA GroupedFacts ==
  ASSUME TypeOK, NEW m \in MetaRecord, Fits(m), NEW gs, Mergeable(gs)
  PROVE  /\ Grouped(gs, m) \in GroupStats /\ IsFiniteSet(Grouped(gs, m).leases)
         /\ Consistent(Grouped(gs, m)) /\ Grouped(gs, m).Count = gs.Count + 1
         /\ \A field \in summed :
              /\ Part(m, field) \in Nat /\ gs[field] \in Nat
              /\ Grouped(gs, m)[field] = gs[field] + Part(m, field)
<1> DEFINE q == Grouped(gs, m)
<1>1. /\ gs.Count \in Nat /\ gs.TotalSize \in Nat /\ gs.HasSize \in BOOLEAN /\ gs.MaxSize \in Nat
      /\ gs.MaxVersion \in Nat /\ gs.LatestModRevision \in Nat /\ gs.CreatedCount \in Nat
      /\ gs.ModifiedCount \in Nat /\ gs.KeyLeasedCount \in Nat /\ gs.leases \in SUBSET Nat
      /\ gs.MaxLease \in Nat /\ gs.RevCount \in Nat /\ gs.TombstoneCount \in Nat
  BY DEF Mergeable, GroupStats
<1>2. /\ m.KvSizeBytes \in Int /\ m.Version \in Nat /\ m.ModRevision \in Nat
      /\ m.CreateRevision \in Nat /\ m.Lease \in Nat /\ m.RevCount \in Int
      /\ m.TombstoneCount \in Int
  BY DEF MetaRecord
<1>3. \A b : One(b) \in Nat
  BY DEF One
<1>4. /\ q.Count = gs.Count + 1
      /\ q.TotalSize = gs.TotalSize + Larger(m.KvSizeBytes, 0)
      /\ q.MaxSize = Larger(gs.MaxSize, m.KvSizeBytes)
      /\ q.KeyLeasedCount = gs.KeyLeasedCount + One(m.Lease # 0)
      /\ q.RevCount = gs.RevCount + Larger(m.RevCount, 0)
      /\ q.TombstoneCount = gs.TombstoneCount + Larger(m.TombstoneCount, 0)
      /\ q.leases = gs.leases \union ({m.Lease} \ {0})
      /\ q.HasSize = (gs.HasSize \/ m.KvSizeBytes >= 0)
  BY DEF Grouped
<1>5. /\ Larger(m.KvSizeBytes, 0) \in Nat /\ Larger(gs.MaxSize, m.KvSizeBytes) \in Nat
      /\ Larger(m.RevCount, 0) \in Nat /\ Larger(m.TombstoneCount, 0) \in Nat
      /\ Larger(gs.MaxVersion, m.Version) \in Nat /\ Larger(gs.MaxLease, m.Lease) \in Nat
      /\ Larger(gs.LatestModRevision, m.ModRevision) \in Nat
  <2>1. \A a, b \in Int : (a \in Nat \/ b \in Nat) => Larger(a, b) \in Nat
    BY LargerFacts
  <2>2. /\ 0 \in Nat /\ 0 \in Int
        /\ gs.MaxSize \in Int /\ gs.MaxVersion \in Int /\ m.Version \in Int
        /\ gs.MaxLease \in Int /\ m.Lease \in Int /\ gs.LatestModRevision \in Int
        /\ m.ModRevision \in Int
    BY <1>1, <1>2
  <2> QED BY <1>1, <1>2, <2>1, <2>2, Zenon
<1>6. q \in GroupStats
  <2>1. PICK c \in Nat : c = gs.CreatedCount
           + One(inRange(m.CreateRevision, cfg.MinCreateRevision, cfg.MaxCreateRevision))
    BY <1>1, <1>3
  <2>2. PICK d \in Nat : d = gs.ModifiedCount
           + One(inRange(m.ModRevision, cfg.MinModRevision, cfg.MaxModRevision))
    BY <1>1, <1>3
  <2>3. PICK e \in Nat : e = gs.KeyLeasedCount + One(m.Lease # 0)
    BY <1>1, <1>3
  <2>4. PICK f \in Nat : f = gs.TotalSize + Larger(m.KvSizeBytes, 0)
    BY <1>1, <1>5
  <2>5. PICK r \in Nat : r = gs.RevCount + Larger(m.RevCount, 0)
    BY <1>1, <1>5
  <2>6. PICK t \in Nat : t = gs.TombstoneCount + Larger(m.TombstoneCount, 0)
    BY <1>1, <1>5
  <2>7. PICK n \in Nat : n = gs.Count + 1
    BY <1>1
  <2>8. PICK l \in SUBSET Nat : l = gs.leases \union ({m.Lease} \ {0})
    BY <1>1, <1>2
  <2>9. PICK b \in BOOLEAN : b = (gs.HasSize \/ m.KvSizeBytes >= 0)
    OBVIOUS
  <2>10. q = [Count |-> n, TotalSize |-> f, HasSize |-> b,
              MaxSize |-> Larger(gs.MaxSize, m.KvSizeBytes),
              MaxVersion |-> Larger(gs.MaxVersion, m.Version),
              LatestModRevision |-> Larger(gs.LatestModRevision, m.ModRevision),
              CreatedCount |-> c, ModifiedCount |-> d, KeyLeasedCount |-> e, leases |-> l,
              MaxLease |-> Larger(gs.MaxLease, m.Lease), RevCount |-> r, TombstoneCount |-> t]
    BY <2>1, <2>2, <2>3, <2>4, <2>5, <2>6, <2>7, <2>8, <2>9, Zenon DEF Grouped
  <2> HIDE DEF q
  <2> QED BY <1>5, <2>10 DEF GroupStats
<1> HIDE DEF q
<1>7. IsFiniteSet(q.leases)
  <2>1. IsFiniteSet({m.Lease} \ {0})
    BY FS_Singleton, FS_Subset
  <2>2. IsFiniteSet(gs.leases)
    BY DEF Mergeable
  <2>3. IsFiniteSet(gs.leases \union ({m.Lease} \ {0}))
    BY <2>1, <2>2, FS_Union
  <2>4. q.leases = gs.leases \union ({m.Lease} \ {0})
    BY <1>4, Zenon
  <2> QED BY <2>3, <2>4, Zenon
<1>8. Consistent(q)
  <2>1. m.KvSizeBytes = -1 =>
           Larger(m.KvSizeBytes, 0) = 0 /\ Larger(gs.MaxSize, m.KvSizeBytes) = gs.MaxSize
    BY <1>1 DEF Larger
  <2>2. m.RevCount > 0 => Larger(m.RevCount, 0) > 0
    BY <1>2, LargerFacts
  <2>3. /\ m.RevCount = -1 => Larger(m.RevCount, 0) = 0
        /\ m.TombstoneCount = -1 => Larger(m.TombstoneCount, 0) = 0
    BY DEF Larger
  <2>4. gs = newGroup => /\ gs.HasSize = FALSE /\ gs.TotalSize = 0 /\ gs.MaxSize = 0
                         /\ gs.RevCount = 0 /\ gs.TombstoneCount = 0
    BY DEF newGroup
  <2>5. IF source.form = "keysOnly"
          THEN ~q.HasSize /\ q.TotalSize = 0 /\ q.MaxSize = 0
          ELSE q.HasSize
    <3>1. CASE source.form = "keysOnly"
      <4>1. m.KvSizeBytes = -1
        BY <3>1 DEF Fits, absent
      <4>2. ~gs.HasSize /\ gs.TotalSize = 0 /\ gs.MaxSize = 0
        BY <2>4, <3>1 DEF Mergeable, Consistent
      <4>3. ~(m.KvSizeBytes >= 0)
        BY <4>1
      <4>4. ~q.HasSize
        BY <1>4, <4>2, <4>3, Zenon
      <4>5. q.TotalSize = 0 + 0 /\ q.MaxSize = 0
        BY <1>4, <2>1, <4>1, <4>2, Zenon
      <4> QED BY <3>1, <4>4, <4>5
    <3>2. CASE source.form # "keysOnly"
      <4>1. m.KvSizeBytes >= 0
        BY <3>2 DEF Fits
      <4>2. q.HasSize
        BY <1>4, <4>1, Zenon
      <4> QED BY <3>2, <4>2
    <3> QED BY <3>1, <3>2
  <2>6. IF source.form = "snapshot"
          THEN q.RevCount > 0
          ELSE q.RevCount = 0 /\ q.TombstoneCount = 0
    <3>1. CASE source.form = "snapshot"
      <4>1. m.RevCount > 0
        BY <3>1 DEF Fits
      <4> QED BY <1>1, <1>4, <1>5, <2>2, <3>1, <4>1
    <3>2. CASE source.form # "snapshot"
      <4>1. m.RevCount = -1 /\ m.TombstoneCount = -1
        BY <3>2 DEF Fits, absent
      <4>2. gs.RevCount = 0 /\ gs.TombstoneCount = 0
        BY <2>4, <3>2 DEF Mergeable, Consistent
      <4> QED BY <1>4, <2>3, <3>2, <4>1, <4>2
    <3> QED BY <3>1, <3>2
  <2> QED BY <2>5, <2>6 DEF Consistent
<1>9. ASSUME NEW field \in summed
      PROVE  Part(m, field) \in Nat /\ gs[field] \in Nat /\ q[field] = gs[field] + Part(m, field)
  <2>1. CASE field = "Count"
    BY <1>1, <1>4, <2>1 DEF Part
  <2>2. CASE field = "TotalSize"
    BY <1>1, <1>4, <1>5, <2>2 DEF Part
  <2>3. CASE field = "KeyLeasedCount"
    BY <1>1, <1>3, <1>4, <2>3 DEF Part
  <2>4. CASE field = "RevCount"
    BY <1>1, <1>4, <1>5, <2>4 DEF Part
  <2> QED BY <2>1, <2>2, <2>3, <2>4 DEF summed
<1> QED BY <1>4, <1>6, <1>7, <1>8, <1>9 DEF q

(* What is known of Total.                                                  *)
LEMMA TotalFacts ==
  /\ Total(<<>>) = 0
  /\ \A s \in Seq(Nat) : Total(s) \in Nat
  /\ \A s, t \in Seq(Nat) : Total(s \o t) = Total(s) + Total(t)
<1>1. Total(<<>>) = 0
  BY SumEmpty, Zenon DEF Total
<1>2. ASSUME NEW s \in Seq(Nat) PROVE Total(s) \in Nat
  BY SumType, Zenon DEF Total
<1>3. ASSUME NEW s \in Seq(Nat), NEW t \in Seq(Nat) PROVE Total(s \o t) = Total(s) + Total(t)
  BY SumConcat, Zenon DEF Total
<1> QED BY <1>1, <1>2, <1>3

(* Grouping adds to each total what the record has.                         *)
LEMMA TotalsGrow ==
  ASSUME TypeOK, MetaInv, NEW field \in summed, pos \in 1..Len(metas),
         IsFiniteSet(DOMAIN groups),
         \A h \in DOMAIN groups : groups[h][field] \in Nat,
         \A i \in 1..pos : Part(metas[i], field) \in Nat,
         GroupTotal(field) = PartTotal(field),
         NEW g, NEW before, before = GroupSoFar(g)[field],
         NEW m \in Nat, m = Part(metas[pos], field),
         NEW b, b[g] = before + m, \A h \in DOMAIN groups : h # g => b[h] = groups[h][field]
  PROVE  SumFunctionOnSet(b, DOMAIN groups \union {g})
           = Total([i \in 1..pos |-> Part(metas[i], field)])
<1> DEFINE D == DOMAIN groups
           a == [h \in D |-> groups[h][field]]
           p == [i \in 1..pos |-> Part(metas[i], field)]
<1>1. pos - 1 \in Nat /\ (pos - 1) + 1 = pos /\ \A i \in 1..pos : p[i] \in Nat
  BY DEF MetaInv
<1>2. (g \in D => before = a[g]) /\ (g \notin D => before = 0)
  BY NewGroupFacts DEF GroupSoFar
<1>3. SumFunctionOnSet(b, D \union {g}) = SumFunctionOnSet(a, D) + m
  <2>1. \A y \in D : a[y] \in Nat
    OBVIOUS
  <2>2. \A y \in D : y # g => b[y] = a[y]
    OBVIOUS
  <2>3. IsFiniteSet(D)
    OBVIOUS
  <2> HIDE DEF a, D
  <2> QED BY <1>2, <2>1, <2>2, <2>3, SumGrows
<1>4. SumFunctionOnSet(a, D) = Total([i \in 1..(pos - 1) |-> Part(metas[i], field)])
  BY Zenon DEF GroupTotal, PartTotal
<1>5. [i \in 1..(pos - 1) |-> Part(metas[i], field)] = [i \in 1..(pos - 1) |-> p[i]]
  BY <1>1
<1>6. Total([i \in 1..((pos - 1) + 1) |-> p[i]])
        = Total([i \in 1..(pos - 1) |-> p[i]]) + p[(pos - 1) + 1]
  <2> HIDE DEF p
  <2> QED BY <1>1, SumNext, Zenon DEF Total
<1>7. [i \in 1..((pos - 1) + 1) |-> p[i]] = [i \in 1..pos |-> Part(metas[i], field)]
      /\ p[(pos - 1) + 1] = m
  BY <1>1
<1>8. Total([i \in 1..pos |-> Part(metas[i], field)])
        = Total([i \in 1..(pos - 1) |-> Part(metas[i], field)]) + m
  BY <1>5, <1>6, <1>7, Zenon
<1> QED BY <1>3, <1>4, <1>8, Zenon

----------------------------------------------------------------------------
(* The arguments stay, and what depends on nothing else.                    *)
LEMMA InputsKept ==
  ASSUME inputVars' = inputVars
  PROVE  /\ store' = store /\ source' = source /\ prefix' = prefix /\ filter' = filter
         /\ cfg' = cfg /\ Top' = Top /\ keysOnlyFlag' = keysOnlyFlag
         /\ KeysAskedFor' = KeysAskedFor /\ (Accepted' <=> Accepted)
<1>1. store' = store /\ source' = source /\ prefix' = prefix /\ filter' = filter /\ cfg' = cfg
  BY DEF inputVars
<1> QED BY <1>1 DEF Top, keysOnlyFlag, KeysAskedFor, Asked, KeyInSource, Within, Accepted

(* The same key-values make the same records.                               *)
LEMMA ArrivedKept ==
  ASSUME inputVars' = inputVars
  PROVE  /\ Arrived(Len(store))' = Arrived(Len(store))
         /\ Arrived(pos - 1)' = Arrived(pos' - 1)
<1>1. store' = store /\ source' = source /\ prefix' = prefix /\ filter' = filter
  BY InputsKept
<1> QED BY <1>1 DEF Arrived, Arrives, MetaOf, LineOf, KeyInSource

(* The records collected so far are still as the source makes them.         *)
LEMMA MetaKept ==
  ASSUME MetaInv, inputVars' = inputVars, metas' = metas
  PROVE  MetaInv'
BY InputsKept DEF MetaInv, Fits

(* Nothing is grouped and nothing printed until the records are filtered.   *)
LEMMA NothingYet ==
  ASSUME SummaryInv, groups' = groups, result' = result,
         phase \notin {"group", "done"}, phase' \notin {"group", "done"}
  PROVE  GroupInv' /\ ResultInv'
BY DEF SummaryInv, GroupInv, ResultInv

(* The type while nothing is grouped.                                       *)
LEMMA TypeYet ==
  ASSUME SummaryInv, inputVars' = inputVars, groups' = groups, result' = result,
         phase \notin {"group", "done"},
         pos' \in 1..(Len(store) + 1), metas' \in Seq(FitRecord), Len(metas') <= Len(store),
         phase' \in {"start", "scan", "read", "filter", "group", "exited"}
  PROVE  TypeOK' /\ MetaInv'
<1>1. /\ store' = store /\ source' = source /\ prefix' = prefix /\ filter' = filter /\ cfg' = cfg
      /\ Top' = Top
  BY InputsKept
<1>2. TypeOK /\ groups = NoCounts /\ result = <<>>
  BY DEF SummaryInv, GroupInv, ResultInv
<1>3. \A i \in 1..Len(metas') : metas'[i] \in MetaRecord /\ Fits(metas'[i])
  BY DEF FitRecord
<1>4. metas' \in Seq(MetaRecord)
  <2>1. FitRecord \subseteq MetaRecord
    BY DEF FitRecord
  <2> HIDE DEF FitRecord
  <2> QED BY <1>3, <2>1
<1>5. MetaInv'
  BY <1>1, <1>3, <1>4 DEF MetaInv, Fits
<1>6. \A i \in 1..Len(metas') :
        metas'[i].Version \in Nat \ {0} /\ metas'[i].ModRevision \in Nat \ {0}
  BY <1>3 DEF MetaRecord
<1>7. DOMAIN groups' = {}
  BY <1>2 DEF NoCounts
<1>8. Len(result') <= Top' + 1
  BY <1>1, <1>2, ArgumentFacts
<1>9. TypeOK'
  BY <1>1, <1>2, <1>6, <1>7, <1>8 DEF TypeOK
<1> QED BY <1>5, <1>9

(* Before the first key-value there is no record.                           *)
LEMMA NoRecords == ASSUME SummaryInv PROVE Arrived(0) = <<>>
<1>1. [i \in 1..0 |-> IF Arrives(store[i]) THEN <<MetaOf(store[i])>> ELSE <<>>] = <<>>
  OBVIOUS
<1>2. FlattenSeq(<<>>) = <<>>
  BY DEF FlattenSeq
<1> QED BY <1>1, <1>2 DEF Arrived

(* The records collected are records that fit the source.                   *)
LEMMA MetasFit == ASSUME MetaInv PROVE metas \in Seq(FitRecord)
<1>1. Len(metas) \in Nat /\ \A i \in 1..Len(metas) : metas[i] \in FitRecord
  BY DEF MetaInv, FitRecord
<1>2. metas = [i \in 1..Len(metas) |-> metas[i]]
  BY DEF MetaInv
<1> QED BY <1>1, <1>2

(* Start lets only known settings through, to the scan or to the file.      *)
LEMMA StartKeeps == ASSUME SummaryInv, Start PROVE SummaryInv'
<1>1. /\ phase = "start" /\ inputVars' = inputVars /\ pos' = pos /\ metas' = metas
      /\ groups' = groups /\ result' = result
  BY DEF Start
<1>2. phase' = IF cfg.SortBy \in summarySortKeys /\ CheckFilterCombination(keysOnlyFlag, filter)
                 THEN IF source.online THEN "scan" ELSE "read"
                 ELSE "exited"
  BY DEF Start
<1>3. /\ phase' \in {"exited", "scan", "read"}
      /\ phase' # "exited" => Accepted
      /\ phase' = "scan" => source.online
      /\ phase' = "read" => ~source.online
  BY <1>2 DEF Accepted
<1>4. store \in Seq(KeyValue) /\ metas = <<>> /\ pos = 1 /\ TypeOK /\ MetaInv
  BY <1>1 DEF SummaryInv, CollectInv
<1>5. TypeOK' /\ MetaInv'
  BY <1>1, <1>3, <1>4, MetasFit, TypeYet DEF TypeOK
<1>6. CollectInv'
  <2>1. metas' = Arrived(pos - 1)'
    BY <1>1, <1>4, ArrivedKept, NoRecords
  <2> QED BY <1>1, <1>3, <1>4, <2>1, InputsKept DEF CollectInv
<1>7. GroupInv' /\ ResultInv'
  BY <1>1, <1>3, NothingYet
<1> QED BY <1>5, <1>6, <1>7 DEF SummaryInv

(* The scan goes on by one key-value: what it has collected is what has     *)
(* arrived.                                                                 *)
LEMMA ScanKeyKeeps == ASSUME SummaryInv, ScanKey PROVE SummaryInv'
<1> DEFINE kv == store[pos]
<1>1. /\ phase = "scan" /\ phase' = "scan" /\ inputVars' = inputVars
      /\ pos <= Len(store) /\ pos' = pos + 1 /\ groups' = groups /\ result' = result
      /\ metas' = IF kv.Key \in prefix /\ ~Reject(filter, kv)
                    THEN Append(metas, KVToMeta(kv, keysOnlyFlag))
                    ELSE metas
  BY DEF ScanKey
<1>2. /\ store \in Seq(KeyValue) /\ TypeOK /\ source.online /\ metas = Arrived(pos - 1)
      /\ Accepted /\ pos \in 1..(Len(store) + 1)
  BY <1>1 DEF SummaryInv, CollectInv, TypeOK
<1>3. Len(store) \in Nat /\ pos \in 1..Len(store) /\ pos - 1 \in 0..Len(store)
      /\ pos' - 1 = pos /\ pos \in 0..Len(store)
  BY <1>1, <1>2
<1>4. Arrives(kv) <=> kv.Key \in prefix /\ ~Reject(filter, kv)
  BY <1>2 DEF Arrives, KeyInSource
<1>5. MetaOf(kv) = KVToMeta(kv, keysOnlyFlag)
  <2>1. kv \in KeyValue
    BY <1>2, <1>3
  <2>2. MetaOf(kv) = LineOf(kv)
    BY <1>2, <2>1, MetaFacts
  <2> QED BY <1>2, <2>2, ArgumentFacts DEF LineOf, keysOnlyFlag, KVToMeta
<1>6. metas' = Arrived(pos)
  <2>1. Arrived(pos) = IF Arrives(kv) THEN Append(Arrived(pos - 1), MetaOf(kv))
                       ELSE Arrived(pos - 1)
    BY <1>2, <1>3, ArrivedNext
  <2> HIDE DEF kv
  <2> QED BY <1>1, <1>2, <1>4, <1>5, <2>1, Zenon
<1>7. metas' \in Seq(FitRecord) /\ Len(metas') <= Len(store)
  BY <1>2, <1>3, <1>6, ArrivedFacts
<1>8. TypeOK' /\ MetaInv'
  BY <1>1, <1>3, <1>7, TypeYet
<1>9. CollectInv'
  <2>1. metas' = Arrived(pos - 1)'
    BY <1>1, <1>3, <1>6, ArrivedKept
  <2> QED BY <1>1, <1>2, <2>1, InputsKept DEF CollectInv
<1>10. GroupInv' /\ ResultInv'
  BY <1>1, NothingYet
<1> QED BY <1>8, <1>9, <1>10 DEF SummaryInv

(* The scan has seen every key-value.                                       *)
LEMMA ScanEndsKeeps == ASSUME SummaryInv, ScanEnds PROVE SummaryInv'
<1>1. /\ phase = "scan" /\ phase' = "filter" /\ inputVars' = inputVars
      /\ pos > Len(store) /\ pos' = pos /\ metas' = metas /\ groups' = groups /\ result' = result
  BY DEF ScanEnds
<1>2. /\ store \in Seq(KeyValue) /\ TypeOK /\ MetaInv /\ metas = Arrived(pos - 1)
      /\ Accepted /\ pos \in 1..(Len(store) + 1)
      /\ Len(metas) <= Len(store)
  BY <1>1 DEF SummaryInv, CollectInv, TypeOK
<1>3. pos - 1 = Len(store)
  BY <1>1, <1>2
<1>4. TypeOK' /\ MetaInv'
  BY <1>1, <1>2, MetasFit, TypeYet
<1>5. CollectInv'
  <2>1. metas' = Arrived(Len(store))'
    BY <1>1, <1>2, <1>3, ArrivedKept
  <2> QED BY <1>1, <1>2, <2>1, InputsKept DEF CollectInv
<1>6. GroupInv' /\ ResultInv'
  BY <1>1, NothingYet
<1> QED BY <1>4, <1>5, <1>6 DEF SummaryInv

(* The file gives what a scan of the same key-values would give.            *)
LEMMA ReadJSONLKeeps == ASSUME SummaryInv, ReadJSONL PROVE SummaryInv'
<1>1. /\ phase = "read" /\ phase' = "filter" /\ inputVars' = inputVars /\ pos' = pos
      /\ metas' = FilterMetasByPrefix([i \in DOMAIN File |-> Unmarshal(File[i])], prefix)
      /\ groups' = groups /\ result' = result
  BY DEF ReadJSONL
<1>2. /\ store \in Seq(KeyValue) /\ TypeOK /\ ~source.online /\ pos \in 1..(Len(store) + 1)
      /\ Accepted
  BY <1>1 DEF SummaryInv, CollectInv, TypeOK
<1>3. metas' = Arrived(Len(store))
  BY <1>1, <1>2, ArrivedOffline
<1>4. metas' \in Seq(FitRecord) /\ Len(metas') <= Len(store)
  <2>1. Len(store) \in 0..Len(store)
    BY <1>2
  <2> QED BY <1>2, <1>3, <2>1, ArrivedFacts
<1>5. TypeOK' /\ MetaInv'
  BY <1>1, <1>2, <1>4, TypeYet
<1>6. CollectInv'
  <2>1. metas' = Arrived(Len(store))'
    BY <1>1, <1>3, ArrivedKept
  <2> QED BY <1>1, <1>2, <2>1, InputsKept DEF CollectInv
<1>7. GroupInv' /\ ResultInv'
  BY <1>1, NothingYet
<1> QED BY <1>5, <1>6, <1>7 DEF SummaryInv

(* A file that cannot be read ends the command.                             *)
LEMMA ReadFailsKeeps == ASSUME SummaryInv, ReadFails PROVE SummaryInv'
<1>1. /\ phase = "read" /\ phase' = "exited" /\ inputVars' = inputVars /\ pos' = pos
      /\ metas' = metas /\ groups' = groups /\ result' = result
  BY DEF ReadFails
<1>2. /\ store \in Seq(KeyValue) /\ MetaInv /\ pos \in 1..(Len(store) + 1)
      /\ Len(metas) <= Len(store)
  BY DEF SummaryInv, CollectInv, TypeOK
<1>3. TypeOK' /\ MetaInv'
  BY <1>1, <1>2, MetasFit, TypeYet
<1>4. CollectInv'
  BY <1>1, <1>2, InputsKept DEF CollectInv
<1>5. GroupInv' /\ ResultInv'
  BY <1>1, NothingYet
<1> QED BY <1>3, <1>4, <1>5 DEF SummaryInv

(* Filter leaves the records of the keys that were asked for, and no group. *)
LEMMA FilterKeeps == ASSUME SummaryInv, Filter PROVE SummaryInv'
<1>1. /\ phase = "filter" /\ phase' = "group" /\ inputVars' = inputVars /\ pos' = 1
      /\ metas' = FilterMetas(metas, filter) /\ groups' = groups /\ result' = result
  BY DEF Filter
<1>2. /\ store \in Seq(KeyValue) /\ TypeOK /\ metas = Arrived(Len(store))
      /\ Accepted
      /\ groups = NoCounts /\ result = <<>>
  BY <1>1 DEF SummaryInv, CollectInv, GroupInv, ResultInv
<1>3. /\ metas' \in Seq(FitRecord) /\ Len(metas') <= Len(store)
      /\ KeysOf(metas') = KeysAskedFor
  BY <1>1, <1>2, FilteredFacts DEF Accepted
<1>4. pos' \in 1..(Len(store) + 1)
  BY <1>1, <1>2
<1>5. TypeOK' /\ MetaInv'
  BY <1>1, <1>3, <1>4, TypeYet
<1>6. CollectInv'
  <2>1. KeysOf(metas)' = KeysAskedFor'
    BY <1>1, <1>3, InputsKept DEF KeysOf
  <2> QED BY <1>1, <1>2, <2>1, InputsKept DEF CollectInv
<1>7. GroupInv'
  <2>1. DOMAIN groups' = {} /\ IsFiniteSet(DOMAIN groups')
    BY <1>1, <1>2, FS_EmptySet DEF NoCounts
  <2>2. pos' \in 1..(Len(metas') + 1) /\ pos' - 1 = 0
    BY <1>1, <1>3
  <2>3. ASSUME NEW field \in summed PROVE GroupTotal(field)' = PartTotal(field)'
    <3>1. GroupTotal(field)' = 0
      BY <2>1, SetSumEmpty DEF GroupTotal
    <3>2. [i \in 1..(pos' - 1) |-> Part(metas'[i], field)] = <<>>
      BY <2>2
    <3>3. PartTotal(field)' = Total([i \in 1..(pos' - 1) |-> Part(metas'[i], field)])
      BY DEF PartTotal
    <3> QED BY <3>1, <3>2, <3>3, TotalFacts
  <2> QED BY <1>1, <2>1, <2>2, <2>3 DEF GroupInv
<1>8. ResultInv'
  BY <1>1, <1>2 DEF ResultInv
<1> QED BY <1>5, <1>6, <1>7, <1>8 DEF SummaryInv

(* What a record adds to a column is a natural number.                      *)
LEMMA PartFacts ==
  ASSUME TypeOK, NEW m \in MetaRecord, Fits(m), NEW field \in summed
  PROVE  Part(m, field) \in Nat
<1>1. Mergeable(newGroup)
  BY NewGroupFacts DEF Mergeable
<1> QED BY <1>1, GroupedFacts

(* The group of the record is still a group, and so are the others.         *)
LEMMA GroupKeyKeeps == ASSUME SummaryInv, GroupKey PROVE SummaryInv'
<1> DEFINE m == metas[pos]
           g == GroupOf(m)
           D == DOMAIN groups
           x == Grouped(GroupSoFar(g), m)
<1>1. /\ phase = "group" /\ phase' = "group" /\ inputVars' = inputVars /\ metas' = metas
      /\ pos <= Len(metas) /\ pos' = pos + 1 /\ result' = result
      /\ groups' = [h \in D \union {g} |-> IF h = g THEN x ELSE groups[h]]
  BY DEF GroupKey
<1>2. /\ store \in Seq(KeyValue) /\ TypeOK /\ MetaInv /\ KeysOf(metas) = KeysAskedFor
      /\ Accepted /\ result = <<>>
  BY <1>1 DEF SummaryInv, CollectInv, ResultInv
<1>3. /\ pos \in 1..(Len(metas) + 1) /\ IsFiniteSet(D) /\ (D = {} <=> pos = 1)
      /\ \A h \in D : IsGroup(groups[h])
      /\ \A field \in summed : GroupTotal(field) = PartTotal(field)
  BY <1>1 DEF SummaryInv, GroupInv
<1>4. /\ Len(metas) \in Nat /\ Len(store) \in Nat /\ Len(metas) <= Len(store)
      /\ pos \in 1..Len(metas)
  BY <1>1, <1>2, <1>3 DEF MetaInv, TypeOK
<1>5. \A i \in 1..Len(metas) : metas[i] \in MetaRecord /\ Fits(metas[i])
  BY <1>2 DEF MetaInv
<1>6. m \in MetaRecord /\ Fits(m)
  BY <1>4, <1>5
<1> HIDE DEF m, g
<1>7. Mergeable(GroupSoFar(g)) /\ GroupSoFar(g).Count \in 0..(pos - 1)
  <2>1. CASE g \in D
    <3>1. GroupSoFar(g) = groups[g] /\ IsGroup(groups[g])
      BY <1>3, <2>1 DEF GroupSoFar
    <3>2. groups[g].Count \in 1..(pos - 1)
      BY <3>1 DEF IsGroup
    <3> QED BY <1>4, <3>1, <3>2 DEF IsGroup, Mergeable
  <2>2. CASE g \notin D
    <3>1. GroupSoFar(g) = newGroup
      BY <2>2 DEF GroupSoFar
    <3> QED BY <1>4, <3>1, NewGroupFacts DEF Mergeable
  <2> QED BY <2>1, <2>2
<1>8. /\ x \in GroupStats /\ IsFiniteSet(x.leases) /\ Consistent(x)
      /\ x.Count = GroupSoFar(g).Count + 1
      /\ \A field \in summed :
           Part(m, field) \in Nat /\ x[field] = GroupSoFar(g)[field] + Part(m, field)
  <2> HIDE DEF x
  <2> QED BY <1>2, <1>6, <1>7, GroupedFacts DEF x
<1> HIDE DEF x
<1>9. x.Count \in 1..pos
  BY <1>4, <1>7, <1>8
<1>10. /\ DOMAIN groups' = D \union {g}
       /\ groups'[g] = x /\ \A h \in D : h # g => groups'[h] = groups[h]
  BY <1>1
<1>11. pos' - 1 = pos /\ pos' \in 1..(Len(metas) + 1) /\ pos' \in 1..(Len(store) + 1)
       /\ pos' # 1 /\ 1..(pos - 1) \subseteq 1..pos
  BY <1>1, <1>4
<1>12. ASSUME NEW h \in D \union {g}
       PROVE  /\ groups'[h] \in GroupStats /\ IsFiniteSet(groups'[h].leases)
              /\ groups'[h].Count \in 1..pos /\ Consistent(groups'[h])
  <2>1. CASE h = g
    <3>1. groups'[h] = x
      BY <1>10, <2>1
    <3> QED BY <1>8, <1>9, <3>1
  <2>2. CASE h # g
    <3>1. groups'[h] = groups[h] /\ IsGroup(groups[h])
      BY <1>3, <1>10, <2>2
    <3> QED BY <1>11, <3>1 DEF IsGroup
  <2> QED BY <2>1, <2>2
<1>13. \A h \in DOMAIN groups' : IsGroup(groups[h])'
  <2>1. source' = source
    BY <1>1, InputsKept
  <2>2. ASSUME NEW h \in DOMAIN groups' PROVE IsGroup(groups[h])'
    <3>1. h \in D \union {g}
      BY <1>10
    <3>2. groups'[h].Count \in 1..(pos' - 1)
      BY <1>11, <1>12, <3>1
    <3>3. Consistent(groups'[h])
      BY <1>12, <3>1
    <3>4. Consistent(groups[h])'
      BY <2>1, <3>3 DEF Consistent
    <3>5. groups'[h] \in GroupStats /\ IsFiniteSet(groups'[h].leases)
      BY <1>12, <3>1
    <3> QED BY <3>2, <3>4, <3>5 DEF IsGroup
  <2> QED BY <2>2
<1>14. ASSUME NEW field \in summed PROVE GroupTotal(field)' = PartTotal(field)'
  <2>1. \A h \in D : groups[h][field] \in Nat
    <3> SUFFICES ASSUME NEW h \in D PROVE groups[h][field] \in Nat
      OBVIOUS
    <3>1. groups[h] \in GroupStats
      BY <1>3 DEF IsGroup
    <3> QED BY <3>1 DEF GroupStats, summed
  <2>2. \A i \in 1..pos : Part(metas[i], field) \in Nat
    <3> SUFFICES ASSUME NEW i \in 1..pos PROVE Part(metas[i], field) \in Nat
      OBVIOUS
    <3>1. i \in 1..Len(metas)
      BY <1>4
    <3> QED BY <1>2, <1>5, <3>1, PartFacts
  <2> DEFINE b == [h \in D \union {g} |-> groups'[h][field]]
  <2>3. b[g] = GroupSoFar(g)[field] + Part(m, field) /\ Part(m, field) \in Nat
    <3>1. b[g] = x[field]
      BY <1>10
    <3> QED BY <1>8, <3>1, Zenon
  <2>8. \A h \in D : h # g => b[h] = groups[h][field]
    BY <1>10
  <2>4. GroupTotal(field) = PartTotal(field)
    BY <1>3
  <2>5. SumFunctionOnSet(b, D \union {g}) = Total([i \in 1..pos |-> Part(metas[i], field)])
    <3> HIDE DEF b
    <3> QED BY <1>2, <1>3, <1>4, <2>1, <2>2, <2>3, <2>4, <2>8, TotalsGrow DEF m
  <2>6. GroupTotal(field)'
          = SumFunctionOnSet([h \in D \union {g} |-> groups'[h][field]], D \union {g})
    BY <1>10, Zenon DEF GroupTotal
  <2>7. PartTotal(field)' = Total([i \in 1..pos |-> Part(metas[i], field)])
    BY <1>1, <1>11 DEF PartTotal, Part
  <2> QED BY <2>5, <2>6, <2>7, Zenon
<1>15. GroupInv'
  <2>1. IsFiniteSet(DOMAIN groups') /\ DOMAIN groups' # {}
    BY <1>3, <1>10, FS_AddElement
  <2>2. pos' \in 1..(Len(metas') + 1)
    BY <1>1, <1>11
  <2> QED BY <1>1, <1>11, <1>13, <1>14, <2>1, <2>2 DEF GroupInv
<1>16. TypeOK'
  <2>1. \A h \in DOMAIN groups' : groups'[h].Count \in 1..Len(metas')
    <3> SUFFICES ASSUME NEW h \in DOMAIN groups' PROVE groups'[h].Count \in 1..Len(metas')
      OBVIOUS
    <3>1. groups'[h].Count \in 1..pos
      BY <1>10, <1>12
    <3> QED BY <1>1, <1>4, <3>1
  <2> QED BY <1>1, <1>2, <1>4, <1>11, <2>1, InputsKept DEF TypeOK
<1>17. CollectInv'
  <2>1. KeysOf(metas)' = KeysOf(metas)
    BY <1>1 DEF KeysOf
  <2> QED BY <1>1, <1>2, <2>1, InputsKept DEF CollectInv
<1> QED BY <1>1, <1>2, <1>15, <1>16, <1>17, MetaKept DEF SummaryInv, ResultInv

----------------------------------------------------------------------------
(* The rows: the first groups of an order, and behind them the row of       *)
(* others.                                                                  *)
LEMMA CutFacts ==
  ASSUME TypeOK, IsFiniteSet(DOMAIN groups), NEW order \in SetToSeqs(DOMAIN groups)
  PROVE  /\ Len(order) \in Nat
         /\ Top < Len(order) =>
              /\ Len(Cut(order)) = Top + 1 /\ Cut(order)[Top + 1] = Others(Dropped(order))
              /\ \A r \in 1..Top : Cut(order)[r] = Row(order[r])
         /\ ~(Top < Len(order)) => Cut(order) = [r \in 1..Len(order) |-> Row(order[r])]
         /\ Len(Cut(order)) \in 0..(Top + 1) /\ DOMAIN Cut(order) = 1..Len(Cut(order))
<1> DEFINE rows == [r \in 1..Len(order) |-> Row(order[r])]
           last == Others(Dropped(order))
           S == {Row(order[r]) : r \in 1..Len(order)} \union {last}
<1>1. Len(order) \in Nat /\ Top \in Nat \ {0}
  BY OrderFacts, ArgumentFacts
<1>2. rows \in Seq(S) /\ Len(rows) = Len(order) /\ last \in S
      /\ \A r \in 1..Len(order) : rows[r] = Row(order[r])
  <2> HIDE DEF last
  <2> QED BY <1>1
<1>3. Cut(order) = IF Top < Len(order) THEN Append(SubSeq(rows, 1, Top), last) ELSE rows
  BY DEF Cut
<1> HIDE DEF rows, last, S
<1>4. CASE Top < Len(order)
  <2>1. Top \in 0..Len(rows)
    BY <1>1, <1>2, <1>4
  <2> DEFINE firstRows == SubSeq(rows, 1, Top)
  <2>2. firstRows \in Seq(S) /\ Len(firstRows) = Top /\ firstRows = [i \in 1..Top |-> rows[i]]
    BY <1>2, <2>1, PrefixIs
  <2> HIDE DEF firstRows
  <2>3. /\ Len(Append(firstRows, last)) = Top + 1 /\ Append(firstRows, last)[Top + 1] = last
        /\ \A i \in 1..Top : Append(firstRows, last)[i] = firstRows[i]
        /\ DOMAIN Append(firstRows, last) = 1..(Top + 1)
    BY <1>1, <1>2, <2>2
  <2>4. Cut(order) = Append(firstRows, last)
    BY <1>3, <1>4 DEF firstRows
  <2>5. \A r \in 1..Top : firstRows[r] = Row(order[r])
    BY <1>1, <1>2, <1>4, <2>2
  <2> QED BY <1>1, <1>4, <2>3, <2>4, <2>5 DEF last
<1>5. CASE ~(Top < Len(order))
  <2>1. Cut(order) = rows
    BY <1>3, <1>5
  <2>2. Len(Cut(order)) \in 0..(Top + 1) /\ DOMAIN Cut(order) = 1..Len(Cut(order))
    BY <1>1, <1>2, <1>5, <2>1
  <2> QED BY <1>1, <1>5, <2>1, <2>2 DEF rows
<1> QED BY <1>4, <1>5

(* The orders are those of the column that --sort names.                    *)
LEMMA SortedIs ==
  ASSUME NEW S
  PROVE  Sorted(S) = {s \in SetToSeqs(S) : \A a, b \in 1..Len(s) :
                        a < b => SortValue(groups[s[a]]) >= SortValue(groups[s[b]])}
BY DEF Sorted, Descending

(* The orders and the rows depend on the groups and the settings alone.     *)
LEMMA CutKept ==
  ASSUME groups' = groups, cfg' = cfg
  PROVE  /\ \A S : Sorted(S)' = Sorted(S)
         /\ \A order : Cut(order)' = Cut(order)
<1>1. \A S : Sorted(S)' = Sorted(S)
  BY DEF Sorted, Descending, SortValue, Column, AvgSize
<1>2. Top' = Top
  BY DEF Top
<1>3. ASSUME NEW order PROVE Cut(order)' = Cut(order)
  <2>1. [r \in 1..Len(order) |-> Row(order[r])]' = [r \in 1..Len(order) |-> Row(order[r])]
    BY DEF Row
  <2>2. Others(Dropped(order))' = Others(Dropped(order))
    BY <1>2 DEF Others, Dropped, Sum
  <2> QED BY <1>2, <2>1, <2>2 DEF Cut
<1> QED BY <1>1, <1>3

(* The rows are a cut of the groups, all of which have been counted.        *)
LEMMA SortAndCutKeeps == ASSUME SummaryInv, SortAndCut PROVE SummaryInv'
<1>1. /\ phase = "group" /\ phase' = "done" /\ inputVars' = inputVars /\ pos' = pos
      /\ pos > Len(metas) /\ metas' = metas /\ groups' = groups
  BY DEF SortAndCut
<1>2. PICK order \in Sorted(DOMAIN groups) : result' = Cut(order)
  BY DEF SortAndCut
<1>3. /\ store \in Seq(KeyValue) /\ TypeOK /\ MetaInv /\ KeysOf(metas) = KeysAskedFor
      /\ Accepted
      /\ pos \in 1..(Len(metas) + 1) /\ IsFiniteSet(DOMAIN groups)
      /\ cfg' = cfg /\ Top' = Top /\ source' = source
  BY <1>1, InputsKept DEF SummaryInv, CollectInv, GroupInv
<1>4. pos = Len(metas) + 1
  BY <1>1, <1>3 DEF MetaInv
<1>5. Len(result') \in 0..(Top + 1)
  <2>1. order \in SetToSeqs(DOMAIN groups)
    BY SortedIs
  <2> QED BY <1>2, <1>3, <2>1, CutFacts
<1>6. TypeOK'
  <2>1. Len(result') <= Top' + 1
    BY <1>3, <1>5, ArgumentFacts
  <2> QED BY <1>1, <1>3, <2>1, InputsKept DEF TypeOK
<1>7. CollectInv'
  <2>1. KeysOf(metas)' = KeysOf(metas)
    BY <1>1 DEF KeysOf
  <2> QED BY <1>1, <1>3, <2>1, InputsKept DEF CollectInv
<1>8. GroupInv'
  <2>1. \A field : GroupTotal(field)' = GroupTotal(field) /\ PartTotal(field)' = PartTotal(field)
    BY <1>1 DEF GroupTotal, PartTotal, Part
  <2>2. \A g : IsGroup(groups[g])' <=> IsGroup(groups[g])
    BY <1>1, <1>3 DEF IsGroup, Consistent
  <2> QED BY <1>1, <2>1, <2>2 DEF SummaryInv, GroupInv
<1>9. ResultInv'
  <2>1. order \in Sorted(DOMAIN groups)' /\ result' = Cut(order)'
    BY <1>1, <1>2, <1>3, CutKept
  <2> QED BY <1>1, <1>4, <2>1 DEF ResultInv
<1> QED BY <1>1, <1>3, <1>6, <1>7, <1>8, <1>9, MetaKept DEF SummaryInv

(* The initial state.                                                       *)
LEMMA InitFacts == ASSUME Init PROVE SummaryInv
<1>1. /\ source \in Sources /\ prefix \in PrefixArgs /\ filter \in FilterArgs /\ cfg \in Configs
      /\ pos = 1 /\ metas = <<>> /\ groups = NoCounts /\ result = <<>> /\ phase = "start"
  BY DEF Init
<1>2. store \in Seq(KeyValue)
  <2>1. PICK s \in Stores :
          store \in IF source.form = "snapshot" THEN SetToSeqs(ToSet(s)) ELSE {s}
    BY DEF Init
  <2>2. s \in Seq(KeyValue)
    BY SummaryAssumption
  <2>3. ToSet(s) \subseteq KeyValue /\ IsFiniteSet(ToSet(s))
    BY <2>2, SetOfSequence
  <2>4. CASE source.form = "snapshot"
    <3>1. store \in SetToSeqs(ToSet(s))
      BY <2>1, <2>4
    <3> DEFINE D == ToSet(s)
    <3>2. IsFiniteSet(D) /\ store \in SetToSeqs(D) /\ D \subseteq KeyValue
      BY <2>3, <3>1
    <3> HIDE DEF D
    <3>3. store \in Seq(D)
      BY <3>2, OrderFacts
    <3> QED BY <3>2, <3>3
  <2>5. CASE source.form # "snapshot"
    BY <2>1, <2>2, <2>5
  <2> QED BY <2>4, <2>5
<1>3. DOMAIN groups = {}
  BY <1>1 DEF NoCounts
<1>4. Top \in Nat \ {0}
  <2>1. cfg.Top \in Int
    BY <1>1, SummaryAssumption, Zenon
  <2> QED BY <2>1 DEF Top
<1>5. TypeOK
  <2>1. pos \in 1..(Len(store) + 1) /\ Len(metas) <= Len(store)
    BY <1>1, <1>2
  <2>2. Len(result) <= Top + 1 /\ Len(metas) = 0
    BY <1>1, <1>4
  <2> QED BY <1>1, <1>3, <2>1, <2>2 DEF TypeOK
<1>6. MetaInv
  BY <1>1 DEF MetaInv
<1>7. CollectInv
  BY <1>1, <1>2 DEF CollectInv
<1>8. GroupInv /\ ResultInv
  BY <1>1 DEF GroupInv, ResultInv
<1> QED BY <1>5, <1>6, <1>7, <1>8 DEF SummaryInv

(* A state that did not change.                                             *)
LEMMA StutterKeeps == ASSUME SummaryInv, vars' = vars PROVE SummaryInv'
<1>1. /\ inputVars' = inputVars /\ pos' = pos /\ metas' = metas /\ groups' = groups
      /\ result' = result /\ phase' = phase
  BY DEF vars
<1>2. /\ store' = store /\ source' = source /\ prefix' = prefix /\ filter' = filter
      /\ cfg' = cfg /\ Top' = Top /\ keysOnlyFlag' = keysOnlyFlag
      /\ KeysAskedFor' = KeysAskedFor /\ (Accepted' <=> Accepted)
  BY <1>1, InputsKept
<1>3. TypeOK'
  BY <1>1, <1>2 DEF SummaryInv, TypeOK
<1>4. MetaInv'
  BY <1>1, MetaKept DEF SummaryInv
<1>5. CollectInv'
  <2>1. KeysOf(metas)' = KeysOf(metas)
    BY <1>1 DEF KeysOf
  <2>2. Arrived(Len(store))' = Arrived(Len(store)) /\ Arrived(pos - 1)' = Arrived(pos - 1)
    BY <1>1, ArrivedKept
  <2> QED BY <1>1, <1>2, <2>1, <2>2 DEF SummaryInv, CollectInv
<1>6. GroupInv'
  <2>1. \A field : GroupTotal(field)' = GroupTotal(field) /\ PartTotal(field)' = PartTotal(field)
    BY <1>1 DEF GroupTotal, PartTotal, Part
  <2>2. \A g : IsGroup(groups[g])' <=> IsGroup(groups[g])
    BY <1>1, <1>2 DEF IsGroup, Consistent
  <2> QED BY <1>1, <2>1, <2>2 DEF SummaryInv, GroupInv
<1>7. ResultInv'
  <2>1. \A S : Sorted(S)' = Sorted(S)
    BY <1>1, <1>2, CutKept
  <2>2. \A order : Cut(order)' = Cut(order)
    BY <1>1, <1>2, CutKept
  <2>3. phase = "done" => \E order \in Sorted(DOMAIN groups)' : result' = Cut(order)'
    <3> SUFFICES ASSUME phase = "done"
                 PROVE  \E order \in Sorted(DOMAIN groups)' : result' = Cut(order)'
      OBVIOUS
    <3>1. PICK order \in Sorted(DOMAIN groups) : result = Cut(order)
      BY DEF SummaryInv, ResultInv
    <3>2. order \in Sorted(DOMAIN groups)' /\ result' = Cut(order)'
      BY <1>1, <2>1, <2>2, <3>1
    <3> QED BY <3>2
  <2>4. /\ phase # "done" => result = <<>>
        /\ phase = "done" => pos = Len(metas) + 1
    BY DEF SummaryInv, ResultInv
  <2> QED BY <1>1, <2>3, <2>4 DEF ResultInv
<1> QED BY <1>3, <1>4, <1>5, <1>6, <1>7 DEF SummaryInv

(* The invariant holds in every reachable state: what is collected follows  *)
(* the source, the groups add up to the records grouped so far, and the     *)
(* rows are a cut of the groups in an order that --sort allows.             *)
THEOREM SummaryInductive == Spec => []SummaryInv
<1>1. Init => SummaryInv
  BY InitFacts
<1>2. SummaryInv /\ [Next]_vars => SummaryInv'
  <2> SUFFICES ASSUME SummaryInv, [Next]_vars PROVE SummaryInv'
    OBVIOUS
  <2>1. CASE Start
    BY <2>1, StartKeeps
  <2>2. CASE ScanKey
    BY <2>2, ScanKeyKeeps
  <2>3. CASE ScanEnds
    BY <2>3, ScanEndsKeeps
  <2>4. CASE ReadJSONL
    BY <2>4, ReadJSONLKeeps
  <2>5. CASE ReadFails
    BY <2>5, ReadFailsKeeps
  <2>6. CASE Filter
    BY <2>6, FilterKeeps
  <2>7. CASE GroupKey
    BY <2>7, GroupKeyKeeps
  <2>8. CASE SortAndCut
    BY <2>8, SortAndCutKeeps
  <2>9. CASE Terminated
    BY <2>9, StutterKeeps DEF Terminated
  <2>10. CASE UNCHANGED vars
    BY <2>10, StutterKeeps
  <2> QED BY <2>1, <2>2, <2>3, <2>4, <2>5, <2>6, <2>7, <2>8, <2>9, <2>10 DEF Next
<1> QED BY <1>1, <1>2, PTL DEF Spec

(* The records and the groups have the types of the code.                   *)
THEOREM SummaryTypeCorrect == Spec => []TypeOK
<1>1. SummaryInv => TypeOK
  BY DEF SummaryInv
<1> QED BY <1>1, SummaryInductive, PTL

(* Online or offline, full, keys only or from a snapshot: what is grouped   *)
(* are the records of the keys that were asked for, each once and in the    *)
(* order of the source, under the keys that the source has; whatever keys   *)
(* the lines of a file give back.                                           *)
THEOREM GroupedAsAsked == Spec => []SourcesAgree
<1>1. SummaryInv => SourcesAgree
  BY DEF SummaryInv, CollectInv, SourcesAgree
<1> QED BY <1>1, SummaryInductive, PTL

----------------------------------------------------------------------------
(* The columns.                                                             *)
statNames ==
  {"Count", "TotalSize", "HasSize", "MaxSize", "MaxVersion", "LatestModRevision",
   "CreatedCount", "ModifiedCount", "KeyLeasedCount", "leases", "MaxLease", "RevCount",
   "TombstoneCount"}

(* Dividing natural numbers.                                                *)
LEMMA Quotient == ASSUME NEW a \in Nat, NEW b \in Nat \ {0} PROVE a \div b \in Nat /\ 0 \div b = 0
OBVIOUS

(* Every column of a group has a number, which is zero where the source has *)
(* no sizes, or no counts of revisions.                                     *)
LEMMA ColumnFacts ==
  ASSUME NEW gs, IsGroup(gs), pos \in Nat, NEW name \in columns
  PROVE  /\ Column(gs, name) \in Nat
         /\ source.form = "keysOnly" /\ name \in sizeColumns => Column(gs, name) = 0
         /\ source.form # "snapshot" /\ name \in revColumns => Column(gs, name) = 0
<1>1. gs \in GroupStats /\ IsFiniteSet(gs.leases) /\ gs.Count \in Nat \ {0} /\ Consistent(gs)
  BY DEF IsGroup
<1>2. CASE name = "AvgSize"
  <2>1. Column(gs, name) = IF gs.HasSize THEN gs.TotalSize \div gs.Count ELSE 0
    BY <1>2 DEF Column, AvgSize
  <2>2. gs.TotalSize \in Nat
    BY <1>1 DEF GroupStats
  <2>3. gs.TotalSize \div gs.Count \in Nat
    BY <1>1, <2>2, Quotient
  <2>4. Column(gs, name) \in Nat
    BY <2>1, <2>3
  <2>5. source.form = "keysOnly" => Column(gs, name) = 0
    BY <1>1, <2>1 DEF Consistent
  <2>6. name \notin revColumns
    BY <1>2 DEF revColumns
  <2> QED BY <2>4, <2>5, <2>6
<1>3. CASE name = "DistinctLeaseCount"
  <2>1. Column(gs, name) = Cardinality(gs.leases)
    BY <1>3 DEF Column
  <2>2. name \notin revColumns /\ name \notin sizeColumns
    BY <1>3 DEF revColumns, sizeColumns
  <2> QED BY <1>1, <2>1, <2>2, FS_CardinalityType
<1>4. CASE name \notin {"AvgSize", "DistinctLeaseCount"}
  <2>1. Column(gs, name) = gs[name]
    BY <1>4 DEF Column
  <2>2. name \in {"Count", "TotalSize", "MaxSize", "MaxVersion", "LatestModRevision",
                  "CreatedCount", "ModifiedCount", "KeyLeasedCount", "MaxLease", "RevCount",
                  "TombstoneCount"}
    BY <1>4 DEF columns, additive, summarySortKeys, sizeColumns, revColumns
  <2>3. gs[name] \in Nat
    BY <1>1, <2>2 DEF GroupStats
  <2>4. source.form = "keysOnly" /\ name \in sizeColumns => gs[name] = 0
    BY <1>1, <1>4 DEF Consistent, sizeColumns
  <2>5. source.form # "snapshot" /\ name \in revColumns => gs[name] = 0
    BY <1>1 DEF Consistent, revColumns
  <2> QED BY <2>1, <2>3, <2>4, <2>5
<1> QED BY <1>2, <1>3, <1>4

(* The row of a group shows the columns of the group.                       *)
LEMMA RowFacts ==
  ASSUME NEW g, groups[g] \in GroupStats
  PROVE  /\ Row(g).OthersCount = 0 /\ Row(g).Group = g /\ Row(g).HasSize = groups[g].HasSize
         /\ \A name \in columns : Column(Row(g), name) = Column(groups[g], name)
<1>1. DOMAIN groups[g] = statNames
  BY DEF GroupStats, statNames
<1>2. Row(g).OthersCount = 0
  BY DEF Row
<1>3. Row(g).Group = g
  BY DEF Row
<1>4. ASSUME NEW name \in statNames PROVE Row(g)[name] = groups[g][name]
  <2>1. name # "Group" /\ name # "OthersCount"
    BY DEF statNames
  <2> QED BY <1>1, <2>1 DEF Row
<1>5. ASSUME NEW name \in columns PROVE Column(Row(g), name) = Column(groups[g], name)
  <2> DEFINE row == Row(g)
  <2>1. row.HasSize = groups[g].HasSize /\ row.TotalSize = groups[g].TotalSize
        /\ row.Count = groups[g].Count /\ row.leases = groups[g].leases
    BY <1>4 DEF statNames
  <2>2. name \notin {"AvgSize", "DistinctLeaseCount"} => row[name] = groups[g][name]
    BY <1>4 DEF columns, additive, summarySortKeys, sizeColumns, revColumns, statNames
  <2> HIDE DEF row
  <2>3. CASE name = "AvgSize"
    BY <2>1, <2>3 DEF Column, AvgSize, row
  <2>4. CASE name = "DistinctLeaseCount"
    BY <2>1, <2>4 DEF Column, row
  <2>5. CASE name \notin {"AvgSize", "DistinctLeaseCount"}
    BY <2>2, <2>5 DEF Column, row
  <2> QED BY <2>3, <2>4, <2>5
<1>6. Row(g).HasSize = groups[g].HasSize
  BY <1>4 DEF statNames
<1> QED BY <1>2, <1>3, <1>5, <1>6

(* The row of others shows the sums of what was cut off.                    *)
LEMMA OthersFacts ==
  ASSUME NEW dropped
  PROVE  /\ Others(dropped).OthersCount = Len(dropped)
         /\ \A name \in additive : Others(dropped)[name] = Sum(dropped, name)
BY DEF Others, additive, revColumns

(* A finished summary: the order of the groups, the first Top of them in    *)
(* rows of their own.                                                       *)
Cutting(order) ==
  /\ order \in SetToSeqs(DOMAIN groups) /\ result = Cut(order)
  /\ \A a, b \in 1..Len(order) :
       a < b => SortValue(groups[order[a]]) >= SortValue(groups[order[b]])

(* What is known of a finished summary.                                     *)
LEMMA DoneFacts ==
  ASSUME SummaryInv, phase = "done"
  PROVE  /\ \E order : Cutting(order)
         /\ TypeOK /\ IsFiniteSet(DOMAIN groups) /\ \A g \in DOMAIN groups : IsGroup(groups[g])
         /\ pos = Len(metas) + 1 /\ Len(metas) \in Nat /\ cfg.SortBy \in summarySortKeys
<1>1. PICK order \in Sorted(DOMAIN groups) : result = Cut(order)
  BY DEF SummaryInv, ResultInv
<1>2. Cutting(order)
  BY <1>1, SortedIs DEF Cutting
<1>3. /\ TypeOK /\ IsFiniteSet(DOMAIN groups) /\ \A g \in DOMAIN groups : IsGroup(groups[g])
  BY DEF SummaryInv, GroupInv
<1>4. pos = Len(metas) + 1 /\ Len(metas) \in Nat /\ cfg.SortBy \in summarySortKeys
  BY DEF SummaryInv, ResultInv, MetaInv, CollectInv, Accepted
<1> QED BY <1>2, <1>3, <1>4

(* Each row is that of one of the first Top groups of the order, or the row *)
(* of others behind them.                                                   *)
LEMMA RowsOf ==
  ASSUME SummaryInv, phase = "done", NEW order, Cutting(order)
  PROVE  /\ Len(order) \in Nat /\ order \in Seq(DOMAIN groups)
         /\ \A r \in 1..Len(result) :
              \/ r \in 1..Len(order) /\ r <= Top /\ result[r] = Row(order[r])
                   /\ order[r] \in DOMAIN groups /\ result[r].OthersCount = 0
              \/ r = Top + 1 /\ Top < Len(order) /\ result[r] = Others(Dropped(order))
         /\ \A r \in 1..Len(order) : r <= Top => r \in 1..Len(result) /\ result[r] = Row(order[r])
         /\ Len(result) = IF Top < Len(order) THEN Top + 1 ELSE Len(order)
         /\ Top \in Nat \ {0} /\ DOMAIN result = 1..Len(result)
<1>1. /\ TypeOK /\ IsFiniteSet(DOMAIN groups) /\ order \in SetToSeqs(DOMAIN groups)
      /\ result = Cut(order) /\ \A g \in DOMAIN groups : IsGroup(groups[g])
  BY DoneFacts DEF Cutting
<1>2. Len(order) \in Nat /\ order \in Seq(DOMAIN groups) /\ Top \in Nat \ {0}
  BY <1>1, OrderFacts, ArgumentFacts
<1>3. /\ Top < Len(order) =>
           /\ Len(result) = Top + 1 /\ result[Top + 1] = Others(Dropped(order))
           /\ \A r \in 1..Top : result[r] = Row(order[r])
      /\ ~(Top < Len(order)) => result = [r \in 1..Len(order) |-> Row(order[r])]
      /\ DOMAIN result = 1..Len(result)
  BY <1>1, CutFacts
<1>4. \A r \in 1..Len(order) : order[r] \in DOMAIN groups /\ Row(order[r]).OthersCount = 0
  <2> SUFFICES ASSUME NEW r \in 1..Len(order)
               PROVE  order[r] \in DOMAIN groups /\ Row(order[r]).OthersCount = 0
    OBVIOUS
  <2>1. order[r] \in DOMAIN groups
    BY <1>2
  <2>2. groups[order[r]] \in GroupStats
    BY <1>1, <2>1 DEF IsGroup
  <2> QED BY <2>1, <2>2, RowFacts
<1>5. CASE Top < Len(order)
  BY <1>2, <1>3, <1>4, <1>5
<1>6. CASE ~(Top < Len(order))
  <2>1. Len(result) = Len(order) /\ \A r \in 1..Len(order) : result[r] = Row(order[r])
    BY <1>2, <1>3, <1>6
  <2> QED BY <1>2, <1>4, <1>6, <2>1
<1> QED BY <1>5, <1>6

(* What was cut off.                                                        *)
LEMMA DroppedFacts ==
  ASSUME SummaryInv, phase = "done", NEW order, Cutting(order), Top < Len(order)
  PROVE  /\ Len(Dropped(order)) = Len(order) - Top /\ Len(order) - Top \in Nat \ {0}
         /\ DOMAIN Dropped(order) = 1..(Len(order) - Top)
         /\ \A i \in 1..(Len(order) - Top) :
              Top + i \in 1..Len(order) /\ Dropped(order)[i] = order[Top + i]
<1>1. Len(order) \in Nat /\ order \in Seq(DOMAIN groups) /\ Top \in Nat \ {0}
  BY RowsOf
<1> DEFINE D == DOMAIN groups
           u == SubSeq(order, Top + 1, Len(order))
<1>2. order \in Seq(D)
  BY <1>1
<1> HIDE DEF D
<1>3. /\ u \in Seq(D) /\ Len(u) = Len(order) - Top
      /\ \A i \in 1..(Len(order) - Top) : u[i] = order[Top + i]
  BY <1>1, <1>2
<1>4. \A i \in 1..(Len(order) - Top) : Top + i \in 1..Len(order)
  BY <1>1
<1>5. Len(order) - Top \in Nat \ {0}
  BY <1>1
<1>6. DOMAIN u = 1..(Len(order) - Top)
  BY <1>3, <1>5
<1>7. Dropped(order) = u
  BY DEF Dropped
<1> QED BY <1>3, <1>4, <1>5, <1>6, <1>7

(* The rows of groups are the first ones.                                   *)
LEMMA TopRowsAre ==
  ASSUME SummaryInv, phase = "done", NEW order, Cutting(order)
  PROVE  TopRows = {r \in 1..Len(order) : r <= Top}
<1>1. /\ Len(order) \in Nat /\ Top \in Nat \ {0}
      /\ \A r \in 1..Len(result) :
           \/ r \in 1..Len(order) /\ r <= Top /\ result[r].OthersCount = 0
           \/ r = Top + 1 /\ Top < Len(order) /\ result[r] = Others(Dropped(order))
      /\ \A r \in 1..Len(order) : r <= Top => r \in 1..Len(result)
      /\ Len(result) = IF Top < Len(order) THEN Top + 1 ELSE Len(order)
  BY RowsOf
<1>2. Top < Len(order) => Others(Dropped(order)).OthersCount # 0
  BY OthersFacts, DroppedFacts
<1>3. ASSUME NEW r \in 1..Len(result) PROVE result[r].OthersCount = 0 <=> r <= Top
  BY <1>1, <1>2
<1> QED BY <1>1, <1>3 DEF TopRows

(* No group that was cut off ranks above one that is shown.                 *)
THEOREM TopRowsAreRight == Spec => []TopRowsAreTheLargest
<1>1. SummaryInv => TopRowsAreTheLargest
  <2> SUFFICES ASSUME SummaryInv, phase = "done", NEW g \in DOMAIN groups, NEW r \in TopRows
               PROVE  \/ SortValue(groups[g]) <= SortValue(groups[result[r].Group])
                      \/ \E q \in TopRows : q < r /\ result[q].Group = g
    BY DEF TopRowsAreTheLargest
  <2>1. PICK order : Cutting(order)
    BY DoneFacts
  <2>2. /\ IsFiniteSet(DOMAIN groups) /\ \A h \in DOMAIN groups : IsGroup(groups[h])
        /\ pos \in Nat /\ cfg.SortBy \in columns
    BY DoneFacts DEF columns
  <2>3. ASSUME NEW h \in DOMAIN groups PROVE SortValue(groups[h]) \in Nat
    BY <2>2, ColumnFacts DEF SortValue
  <2>4. PICK k \in 1..Len(order) : order[k] = g
    BY <2>1, <2>2, OrderFacts DEF Cutting
  <2>5. r \in 1..Len(order) /\ r <= Top
    BY <2>1, TopRowsAre
  <2>6. Len(order) \in Nat /\ Top \in Nat
    BY <2>1, RowsOf
  <2>7. ASSUME NEW q \in 1..Len(order), q <= Top
        PROVE  q \in TopRows /\ result[q].Group = order[q] /\ order[q] \in DOMAIN groups
    <3>1. result[q] = Row(order[q]) /\ order[q] \in DOMAIN groups
      BY <2>1, <2>7, RowsOf
    <3>2. groups[order[q]] \in GroupStats
      BY <2>2, <3>1 DEF IsGroup
    <3>3. Row(order[q]).Group = order[q]
      BY <3>2, RowFacts
    <3>4. q \in TopRows
      BY <2>1, <2>7, TopRowsAre
    <3> QED BY <3>1, <3>3, <3>4
  <2>8. result[r].Group = order[r] /\ order[r] \in DOMAIN groups
    BY <2>5, <2>7
  <2>9. SortValue(groups[g]) \in Nat /\ SortValue(groups[order[r]]) \in Nat
    BY <2>3, <2>8
  <2>10. CASE k < r
    <3>1. k <= Top
      BY <2>5, <2>6, <2>10
    <3>2. k \in TopRows /\ result[k].Group = g
      BY <2>4, <2>7, <3>1
    <3> QED BY <2>10, <3>2
  <2>11. CASE k = r
    <3>1. SortValue(groups[g]) <= SortValue(groups[order[r]])
      BY <2>4, <2>9, <2>11
    <3> QED BY <2>8, <3>1
  <2>12. CASE r < k
    <3>1. SortValue(groups[order[r]]) >= SortValue(groups[order[k]])
      BY <2>1, <2>5, <2>12 DEF Cutting
    <3>2. SortValue(groups[g]) <= SortValue(groups[order[r]])
      BY <2>4, <2>9, <3>1
    <3> QED BY <2>8, <3>2
  <2> QED BY <2>5, <2>6, <2>10, <2>11, <2>12
<1> QED BY <1>1, SummaryInductive, PTL

----------------------------------------------------------------------------
(* The sums over the rows.                                                  *)
LEMMA AdditiveFacts ==
  ASSUME NEW name \in additive
  PROVE  name \in columns /\ (\A row : Column(row, name) = row[name]) /\ name # "HasSize"
<1>1. name \in columns /\ name \notin {"AvgSize", "DistinctLeaseCount", "HasSize"}
  BY DEF columns, additive, revColumns
<1> QED BY <1>1 DEF Column

(* What a group adds to a column that adds up.                              *)
LEMMA GroupValue ==
  ASSUME SummaryInv, phase = "done", NEW g \in DOMAIN groups, NEW name \in additive
  PROVE  /\ groups[g][name] \in Nat
         /\ source.form = "keysOnly" /\ name \in sizeColumns => groups[g][name] = 0
         /\ source.form # "snapshot" /\ name \in revColumns => groups[g][name] = 0
         /\ Row(g)[name] = groups[g][name]
<1>1. IsGroup(groups[g]) /\ pos \in Nat /\ groups[g] \in GroupStats
  BY DoneFacts DEF IsGroup
<1>2. /\ name \in columns /\ Column(groups[g], name) = groups[g][name]
      /\ Column(Row(g), name) = Row(g)[name]
  BY AdditiveFacts
<1>3. Column(Row(g), name) = Column(groups[g], name)
  BY <1>1, <1>2, RowFacts
<1> QED BY <1>1, <1>2, <1>3, ColumnFacts

(* The row of others has the sums of what was cut off; they are zero where  *)
(* the source has no sizes, or no counts of revisions.                      *)
LEMMA DroppedSum ==
  ASSUME SummaryInv, phase = "done", NEW order, Cutting(order), Top < Len(order),
         NEW name \in additive
  PROVE  /\ Sum(Dropped(order), name)
              = Total([i \in 1..(Len(order) - Top) |-> groups[order[Top + i]][name]])
         /\ Sum(Dropped(order), name) \in Nat
         /\ source.form = "keysOnly" /\ name \in sizeColumns => Sum(Dropped(order), name) = 0
         /\ source.form # "snapshot" /\ name \in revColumns => Sum(Dropped(order), name) = 0
<1> DEFINE k == Len(order) - Top
           w == [i \in 1..k |-> groups[order[Top + i]][name]]
<1>1. /\ k \in Nat \ {0} /\ DOMAIN Dropped(order) = 1..k
      /\ \A i \in 1..k : Top + i \in 1..Len(order) /\ Dropped(order)[i] = order[Top + i]
  BY DroppedFacts
<1>2. order \in Seq(DOMAIN groups)
  BY RowsOf
<1>3. ASSUME NEW i \in 1..k PROVE order[Top + i] \in DOMAIN groups
  BY <1>1, <1>2
<1> HIDE DEF k
<1>4. [i \in DOMAIN Dropped(order) |-> groups[Dropped(order)[i]][name]] = w
  BY <1>1
<1>5. Sum(Dropped(order), name) = Total(w)
  BY <1>4, Zenon DEF Sum
<1>6. ASSUME NEW i \in 1..k
      PROVE  /\ w[i] \in Nat
             /\ source.form = "keysOnly" /\ name \in sizeColumns => w[i] = 0
             /\ source.form # "snapshot" /\ name \in revColumns => w[i] = 0
  BY <1>3, GroupValue
<1>7. w \in Seq(Nat)
  BY <1>1, <1>6
<1>8. (\A i \in 1..k : w[i] = 0) => Total(w) = 0
  <2> SUFFICES ASSUME \A i \in 1..k : w[i] = 0 PROVE Total(w) = 0
    OBVIOUS
  <2>1. w = [i \in 1..k |-> 0]
    OBVIOUS
  <2>2. k \in Nat
    BY <1>1
  <2> HIDE DEF w
  <2> QED BY <2>1, <2>2, SumOfZeros, Zenon DEF Total
<1>9. Total(w) \in Nat
  <2> HIDE DEF w
  <2> QED BY <1>7, TotalFacts
<1> HIDE DEF w
<1>10. source.form = "keysOnly" /\ name \in sizeColumns => Total(w) = 0
  BY <1>6, <1>8
<1>11. source.form # "snapshot" /\ name \in revColumns => Total(w) = 0
  BY <1>6, <1>8
<1> QED BY <1>5, <1>9, <1>10, <1>11, Zenon DEF w, k

(* The rows add up to the groups, the row of others included.               *)
LEMMA RowsTotal ==
  ASSUME SummaryInv, phase = "done", NEW name \in additive
  PROVE  SumOf(result, name) = GroupTotal(name)
<1>1. PICK order : Cutting(order)
  BY DoneFacts
<1> DEFINE a == [g \in DOMAIN groups |-> groups[g][name]]
           n == Len(order)
           p == [r \in 1..n |-> a[order[r]]]
           u == [r \in 1..Len(result) |-> result[r][name]]
<1>2. /\ n \in Nat /\ order \in Seq(DOMAIN groups) /\ Top \in Nat \ {0}
      /\ IsFiniteSet(DOMAIN groups) /\ order \in SetToSeqs(DOMAIN groups)
      /\ DOMAIN result = 1..Len(result)
      /\ Len(result) = IF Top < n THEN Top + 1 ELSE n
      /\ \A r \in 1..n : r <= Top => result[r] = Row(order[r])
  BY <1>1, RowsOf, DoneFacts DEF Cutting
<1>3. \A r \in 1..n : order[r] \in DOMAIN groups
  BY <1>2
<1>4. ASSUME NEW r \in 1..n PROVE p[r] = groups[order[r]][name] /\ p[r] \in Nat
  BY <1>3, GroupValue
<1>5. SumOf(result, name) = Total(u)
  BY <1>2, Zenon DEF SumOf
<1>6. Total(p) = GroupTotal(name)
  <2> DEFINE D == DOMAIN groups
  <2>1. \A g \in D : a[g] \in Nat
    BY GroupValue
  <2>2. IsFiniteSet(D) /\ order \in SetToSeqs(D)
    BY <1>2
  <2>3. GroupTotal(name) = SumFunctionOnSet(a, D)
    BY Zenon DEF GroupTotal
  <2> HIDE DEF D, a
  <2>4. FoldLeft(+, 0, [i \in 1..Len(order) |-> a[order[i]]]) = SumFunctionOnSet(a, D)
    BY <2>1, <2>2, SumOverOrder
  <2> QED BY <2>3, <2>4, Zenon DEF Total
<1>7. ASSUME NEW r \in 1..n, r <= Top PROVE r \in 1..Len(result) /\ u[r] = p[r]
  <2>1. r \in 1..Len(result)
    BY <1>2, <1>7
  <2>2. result[r][name] = groups[order[r]][name]
    BY <1>2, <1>3, <1>7, GroupValue
  <2> QED BY <1>4, <2>1, <2>2
<1>8. CASE ~(Top < n)
  <2>1. Len(result) = n /\ \A r \in 1..n : r <= Top
    BY <1>2, <1>8
  <2>2. \A r \in 1..n : u[r] = p[r]
    BY <1>7, <2>1
  <2>3. u = p
    BY <2>1, <2>2
  <2> QED BY <1>5, <1>6, <2>3, Zenon
<1>9. CASE Top < n
  <2> DEFINE v == [r \in 1..Top |-> p[r]]
             w == [i \in 1..(n - Top) |-> p[Top + i]]
  <2>1. Len(result) = Top + 1 /\ Top \in Nat /\ Top \in 0..n
    BY <1>2, <1>9
  <2>2. result[Top + 1] = Others(Dropped(order))
    <3>1. Top + 1 \in 1..Len(result)
      BY <2>1
    <3>2. ~(Top + 1 <= Top)
      BY <2>1
    <3> QED BY <1>1, <3>1, <3>2, RowsOf
  <2>3. u[Top + 1] = Sum(Dropped(order), name)
    <3>1. Others(Dropped(order))[name] = Sum(Dropped(order), name)
      BY OthersFacts
    <3>2. Top + 1 \in 1..Len(result)
      BY <2>1
    <3> QED BY <2>2, <3>1, <3>2
  <2>4. Sum(Dropped(order), name) = Total(w)
    <3>1. [i \in 1..(Len(order) - Top) |-> groups[order[Top + i]][name]] = w
      <4>1. \A i \in 1..(n - Top) : Top + i \in 1..n
        BY <1>2, <2>1
      <4>2. \A i \in 1..(n - Top) : p[Top + i] = groups[order[Top + i]][name]
        BY <1>4, <4>1
      <4> HIDE DEF p
      <4> QED BY <4>2
    <3>2. Sum(Dropped(order), name)
            = Total([i \in 1..(Len(order) - Top) |-> groups[order[Top + i]][name]])
      BY <1>1, <1>9, DroppedSum
    <3> QED BY <3>1, <3>2, Zenon
  <2>5. Sum(Dropped(order), name) \in Nat
    BY <1>1, <1>9, DroppedSum
  <2>6. Total(p) = Total(v) + Total(w)
    <3>1. \A i \in 1..n : p[i] \in Nat
      BY <1>4
    <3>2. p = [i \in 1..n |-> p[i]]
      OBVIOUS
    <3>3. n \in Nat
      BY <1>2
    <3> HIDE DEF p, n
    <3>4. FoldLeft(+, 0, [i \in 1..n |-> p[i]])
            = FoldLeft(+, 0, [i \in 1..Top |-> p[i]])
                + FoldLeft(+, 0, [i \in 1..(n - Top) |-> p[Top + i]])
      BY <2>1, <3>1, <3>3, SumSplit
    <3> QED BY <3>2, <3>4, Zenon DEF Total
  <2>7. Total(u) = Total(v) + u[Top + 1]
    <3>1. \A r \in 1..Top : r \in 1..n /\ u[r] = p[r]
      <4>1. \A r \in 1..Top : r \in 1..n /\ r <= Top
        BY <1>2, <2>1
      <4> QED BY <1>7, <4>1
    <3>2. \A r \in 1..(Top + 1) : u[r] \in Nat
      <4> SUFFICES ASSUME NEW r \in 1..(Top + 1) PROVE u[r] \in Nat
        OBVIOUS
      <4>1. r \in 1..Top \/ r = Top + 1
        BY <2>1
      <4> HIDE DEF u, p
      <4> QED BY <1>4, <2>3, <2>5, <3>1, <4>1
    <3>3. u = [r \in 1..(Top + 1) |-> u[r]]
      BY <2>1
    <3>4. v = [r \in 1..Top |-> u[r]]
      <4> HIDE DEF u, p
      <4> QED BY <3>1
    <3> HIDE DEF u, v
    <3>5. FoldLeft(+, 0, [i \in 1..(Top + 1) |-> u[i]])
            = FoldLeft(+, 0, [i \in 1..Top |-> u[i]]) + u[Top + 1]
      BY <2>1, <3>2, SumNext
    <3> QED BY <3>3, <3>4, <3>5, Zenon DEF Total
  <2> QED BY <1>5, <1>6, <2>3, <2>4, <2>6, <2>7, Zenon
<1> QED BY <1>8, <1>9

(* A record is in one group, and adds to it what it has.                    *)
LEMMA RowsTotalMetas ==
  ASSUME SummaryInv, phase = "done"
  PROVE  /\ SumOf(result, "Count") = Len(metas)
         /\ SumOf(result, "TotalSize") = MetaSum("KvSizeBytes")
         /\ SumOf(result, "RevCount") = MetaSum("RevCount")
         /\ SumOf(result, "KeyLeasedCount")
              = Cardinality({i \in 1..Len(metas) : metas[i].Lease # 0})
<1>1. /\ pos = Len(metas) + 1 /\ Len(metas) \in Nat /\ pos - 1 = Len(metas)
      /\ DOMAIN metas = 1..Len(metas)
  BY DoneFacts DEF SummaryInv, MetaInv
<1>2. ASSUME NEW name \in summed
      PROVE  SumOf(result, name) = Total([i \in 1..Len(metas) |-> Part(metas[i], name)])
  <2>1. name \in additive
    BY DEF summed, additive, revColumns
  <2>2. GroupTotal(name) = PartTotal(name)
    BY DEF SummaryInv, GroupInv
  <2>3. PartTotal(name) = Total([i \in 1..Len(metas) |-> Part(metas[i], name)])
    BY <1>1, Zenon DEF PartTotal
  <2> QED BY <2>1, <2>2, <2>3, RowsTotal
<1>3. SumOf(result, "Count") = Len(metas)
  <2> DEFINE n == Len(metas)
             R == 1..n
  <2>1. [i \in 1..n |-> Part(metas[i], "Count")] = [i \in 1..n |-> IF i \in R THEN 1 ELSE 0]
    BY DEF Part
  <2>2. {i \in 1..n : i \in R} = 1..n
    OBVIOUS
  <2>3. n \in Nat
    BY <1>1
  <2> HIDE DEF n, R
  <2>4. FoldLeft(+, 0, [i \in 1..n |-> IF i \in R THEN 1 ELSE 0])
          = Cardinality({i \in 1..n : i \in R})
    BY <2>3, SumOfOnes
  <2>5. Cardinality(1..n) = n
    BY <2>3, FS_Interval
  <2>6. SumOf(result, "Count") = Total([i \in 1..n |-> Part(metas[i], "Count")])
    BY <1>2 DEF summed, n
  <2> QED BY <2>1, <2>2, <2>4, <2>5, <2>6, Zenon DEF Total, n
<1>4. SumOf(result, "TotalSize") = MetaSum("KvSizeBytes")
  <2>1. [i \in 1..Len(metas) |-> Part(metas[i], "TotalSize")]
          = [i \in DOMAIN metas |-> Larger(metas[i]["KvSizeBytes"], 0)]
    BY <1>1 DEF Part
  <2>2. SumOf(result, "TotalSize") = Total([i \in 1..Len(metas) |-> Part(metas[i], "TotalSize")])
    BY <1>2 DEF summed
  <2> QED BY <2>1, <2>2, Zenon DEF MetaSum
<1>5. SumOf(result, "RevCount") = MetaSum("RevCount")
  <2>1. [i \in 1..Len(metas) |-> Part(metas[i], "RevCount")]
          = [i \in DOMAIN metas |-> Larger(metas[i]["RevCount"], 0)]
    BY <1>1 DEF Part
  <2>2. SumOf(result, "RevCount") = Total([i \in 1..Len(metas) |-> Part(metas[i], "RevCount")])
    BY <1>2 DEF summed
  <2> QED BY <2>1, <2>2, Zenon DEF MetaSum
<1>6. SumOf(result, "KeyLeasedCount") = Cardinality({i \in 1..Len(metas) : metas[i].Lease # 0})
  <2> DEFINE n == Len(metas)
             R == {i \in 1..n : metas[i].Lease # 0}
  <2>1. [i \in 1..n |-> Part(metas[i], "KeyLeasedCount")]
          = [i \in 1..n |-> IF i \in R THEN 1 ELSE 0]
    BY DEF Part, One
  <2>2. {i \in 1..n : i \in R} = R
    OBVIOUS
  <2>3. n \in Nat
    BY <1>1
  <2>6. SumOf(result, "KeyLeasedCount")
          = Total([i \in 1..n |-> Part(metas[i], "KeyLeasedCount")])
    BY <1>2 DEF summed
  <2> HIDE DEF n, R
  <2>4. FoldLeft(+, 0, [i \in 1..n |-> IF i \in R THEN 1 ELSE 0])
          = Cardinality({i \in 1..n : i \in R})
    BY <2>3, SumOfOnes
  <2> QED BY <2>1, <2>2, <2>4, <2>6, Zenon DEF Total, n, R
<1> QED BY <1>3, <1>4, <1>5, <1>6

(* Sizes and revision counts are those of the records: all have them or     *)
(* none.                                                                    *)
LEMMA KnownFacts ==
  ASSUME SummaryInv, phase = "done"
  PROVE  /\ (result # <<>> <=> metas # <<>>)
         /\ hasSize = Known("KvSizeBytes") /\ hasRevCount = Known("RevCount")
         /\ result # <<>> /\ ~hasSize => source.form = "keysOnly"
         /\ result # <<>> /\ ~hasRevCount => source.form # "snapshot"
<1>1. PICK order : Cutting(order)
  BY DoneFacts
<1>2. /\ Len(order) \in Nat /\ order \in Seq(DOMAIN groups)
      /\ \A r \in 1..Len(order) : r <= Top => r \in 1..Len(result) /\ result[r] = Row(order[r])
      /\ Len(result) = IF Top < Len(order) THEN Top + 1 ELSE Len(order)
      /\ Top \in Nat \ {0} /\ DOMAIN result = 1..Len(result)
      /\ \A r \in 1..Len(result) :
              \/ r \in 1..Len(order) /\ r <= Top /\ result[r] = Row(order[r])
                   /\ order[r] \in DOMAIN groups
              \/ r = Top + 1 /\ Top < Len(order) /\ result[r] = Others(Dropped(order))
  BY <1>1, RowsOf
<1>3. /\ IsFiniteSet(DOMAIN groups) /\ order \in SetToSeqs(DOMAIN groups)
      /\ pos = Len(metas) + 1 /\ Len(metas) \in Nat
      /\ \A g \in DOMAIN groups : IsGroup(groups[g])
  BY <1>1, DoneFacts DEF Cutting
<1>4. Len(order) = 0 <=> Len(metas) = 0
  <2>1. DOMAIN groups = {} <=> pos = 1
    BY DEF SummaryInv, GroupInv
  <2>2. Len(order) = 0 <=> DOMAIN groups = {}
    <3>1. \A x \in DOMAIN groups : \E i \in 1..Len(order) : order[i] = x
      BY <1>3, OrderFacts
    <3>2. \A i \in 1..Len(order) : order[i] \in DOMAIN groups
      BY <1>2
    <3> DEFINE n == Len(order)
    <3>3. n \in Nat
      BY <1>2
    <3> HIDE DEF n
    <3>4. n = 0 <=> 1..n = {}
      BY <3>3
    <3> QED BY <3>1, <3>2, <3>4 DEF n
  <2> QED BY <1>3, <2>1, <2>2
<1>5. /\ result # <<>> <=> Len(order) > 0
      /\ metas # <<>> <=> Len(metas) > 0
  <2>1. result # <<>> <=> Len(result) > 0
    BY <1>2
  <2>2. metas # <<>> <=> Len(metas) > 0
    BY DEF SummaryInv, MetaInv
  <2> QED BY <1>2, <2>1, <2>2
<1>6. CASE result = <<>>
  <2>1. Len(metas) = 0 /\ metas = <<>>
    BY <1>2, <1>3, <1>4, <1>5, <1>6
  <2>2. ~hasSize /\ ~Known("KvSizeBytes") /\ ~Known("RevCount")
    BY <1>6, <2>1 DEF hasSize, Known
  <2>3. ~hasRevCount
    BY <1>6 DEF hasRevCount
  <2>4. (hasSize = Known("KvSizeBytes")) /\ (hasRevCount = Known("RevCount"))
    BY <2>2, <2>3, Zenon DEF hasSize, hasRevCount, Known
  <2> QED BY <1>6, <2>1, <2>4
<1>7. CASE result # <<>>
  <2>1. /\ 1 \in 1..Len(order) /\ 1 <= Top /\ 1 \in 1..Len(metas)
    BY <1>2, <1>3, <1>4, <1>5, <1>7
  <2>2. result[1] = Row(order[1]) /\ order[1] \in DOMAIN groups /\ 1 \in 1..Len(result)
    BY <1>2, <2>1
  <2> DEFINE gs == groups[order[1]]
  <2>3. gs \in GroupStats /\ Consistent(gs)
    BY <1>3, <2>2 DEF IsGroup
  <2>4. result[1].HasSize = gs.HasSize /\ gs.HasSize \in BOOLEAN
    BY <2>2, <2>3, RowFacts DEF GroupStats
  <2>5. result[1].RevCount = gs.RevCount
    <3>1. Row(order[1])["RevCount"] = gs["RevCount"]
      BY <2>2, GroupValue DEF additive, revColumns
    <3> QED BY <2>2, <3>1
  <2>6. \A i \in 1..Len(metas) : Fits(metas[i])
    BY DEF SummaryInv, MetaInv
  <2>7. hasSize <=> source.form # "keysOnly"
    <3>1. gs.HasSize <=> source.form # "keysOnly"
      BY <2>3 DEF Consistent
    <3>2. hasSize <=> result[1].HasSize
      BY <1>7 DEF hasSize
    <3> QED BY <2>4, <3>1, <3>2
  <2>8. Known("KvSizeBytes") <=> source.form # "keysOnly"
    <3>1. CASE source.form = "keysOnly"
      BY <2>6, <3>1 DEF Known, Fits
    <3>2. CASE source.form # "keysOnly"
      <4>1. metas[1].KvSizeBytes \in Nat
        BY <2>1, <2>6, <3>2 DEF Fits
      <4>2. metas[1]["KvSizeBytes"] # absent
        BY <4>1 DEF absent
      <4> QED BY <2>1, <3>2, <4>2 DEF Known
    <3> QED BY <3>1, <3>2
  <2>9. Known("RevCount") <=> source.form = "snapshot"
    <3>1. CASE source.form # "snapshot"
      BY <2>6, <3>1 DEF Known, Fits
    <3>2. CASE source.form = "snapshot"
      <4>1. metas[1].RevCount \in Nat
        BY <2>1, <2>6, <3>2 DEF Fits
      <4>2. metas[1]["RevCount"] # absent
        BY <4>1 DEF absent
      <4> QED BY <2>1, <3>2, <4>2 DEF Known
    <3> QED BY <3>1, <3>2
  <2>10. hasRevCount <=> source.form = "snapshot"
    <3>1. CASE source.form = "snapshot"
      <4>1. result[1].RevCount > 0
        BY <2>3, <2>5, <3>1 DEF Consistent
      <4> QED BY <2>2, <3>1, <4>1 DEF hasRevCount
    <3>2. CASE source.form # "snapshot"
      <4>1. ASSUME NEW r \in 1..Len(result)
            PROVE  result[r]["RevCount"] = 0 /\ result[r]["TombstoneCount"] = 0
        <5>1. "RevCount" \in additive /\ "TombstoneCount" \in additive
              /\ "RevCount" \in revColumns /\ "TombstoneCount" \in revColumns
          BY DEF additive, revColumns
        <5>2. CASE result[r] = Row(order[r]) /\ order[r] \in DOMAIN groups
          BY <3>2, <5>1, <5>2, GroupValue
        <5>3. CASE Top < Len(order) /\ result[r] = Others(Dropped(order))
          <6>1. /\ Sum(Dropped(order), "RevCount") = 0
                /\ Sum(Dropped(order), "TombstoneCount") = 0
            BY <1>1, <3>2, <5>1, <5>3, DroppedSum
          <6> QED BY <5>1, <5>3, <6>1, OthersFacts
        <5> QED BY <1>2, <5>2, <5>3
      <4> QED BY <3>2, <4>1 DEF hasRevCount
    <3> QED BY <3>1, <3>2
  <2>11. (hasSize = Known("KvSizeBytes")) /\ (hasRevCount = Known("RevCount"))
    <3>1. (hasSize <=> Known("KvSizeBytes")) /\ (hasRevCount <=> Known("RevCount"))
      BY <2>7, <2>8, <2>9, <2>10
    <3>2. hasSize \in BOOLEAN
      BY <1>7, <2>4 DEF hasSize
    <3>3. /\ Known("KvSizeBytes") \in BOOLEAN
          /\ hasRevCount \in BOOLEAN /\ Known("RevCount") \in BOOLEAN
      BY Zenon DEF Known, hasRevCount
    <3> QED BY <3>1, <3>2, <3>3
  <2>12. result # <<>> <=> metas # <<>>
    BY <1>5, <1>7, <2>1
  <2> QED BY <2>7, <2>10, <2>11, <2>12
<1> QED BY <1>6, <1>7

(* A column of a row that means something is a number, and it is zero where *)
(* the text has a dash for a size or a revision count.                      *)
LEMMA ShownColumn ==
  ASSUME SummaryInv, phase = "done", NEW r \in 1..Len(result), NEW name \in columns,
         Meaningful(result[r], name)
  PROVE  /\ Column(result[r], name) \in Nat
         /\ name \in sizeColumns /\ ~hasSize => Column(result[r], name) = 0
         /\ name \in revColumns /\ ~hasRevCount => Column(result[r], name) = 0
<1>1. PICK order : Cutting(order)
  BY DoneFacts
<1>2. \/ r \in 1..Len(order) /\ r <= Top /\ result[r] = Row(order[r])
           /\ order[r] \in DOMAIN groups
      \/ r = Top + 1 /\ Top < Len(order) /\ result[r] = Others(Dropped(order))
  BY <1>1, RowsOf
<1>3. (~hasSize => source.form = "keysOnly") /\ (~hasRevCount => source.form # "snapshot")
  <2>1. DOMAIN result = 1..Len(result)
    BY <1>1, RowsOf
  <2>2. result # <<>>
    BY <2>1
  <2> QED BY <2>2, KnownFacts
<1>4. CASE result[r] = Row(order[r]) /\ order[r] \in DOMAIN groups
  <2> DEFINE gs == groups[order[r]]
  <2>1. IsGroup(gs) /\ gs \in GroupStats /\ pos \in Nat
    BY <1>4, DoneFacts DEF IsGroup
  <2>2. Column(result[r], name) = Column(gs, name)
    BY <1>4, <2>1, RowFacts
  <2> HIDE DEF gs
  <2>3. /\ Column(gs, name) \in Nat
        /\ source.form = "keysOnly" /\ name \in sizeColumns => Column(gs, name) = 0
        /\ source.form # "snapshot" /\ name \in revColumns => Column(gs, name) = 0
    BY <2>1, ColumnFacts
  <2> QED BY <1>3, <2>2, <2>3
<1>5. CASE Top < Len(order) /\ result[r] = Others(Dropped(order))
  <2>1. IsOthers(result[r])
    <3>1. Others(Dropped(order)).OthersCount = Len(Dropped(order))
      BY OthersFacts
    <3>2. Len(Dropped(order)) = Len(order) - Top /\ Len(order) - Top \in Nat \ {0}
      BY <1>1, <1>5, DroppedFacts
    <3> QED BY <1>5, <3>1, <3>2 DEF IsOthers
  <2>2. name \in additive
    BY <2>1 DEF Meaningful
  <2>3. Column(result[r], name) = result[r][name]
    BY <2>2, AdditiveFacts
  <2>4. result[r][name] = Sum(Dropped(order), name)
    BY <1>5, <2>2, OthersFacts
  <2>5. /\ Sum(Dropped(order), name) \in Nat
        /\ source.form = "keysOnly" /\ name \in sizeColumns => Sum(Dropped(order), name) = 0
        /\ source.form # "snapshot" /\ name \in revColumns => Sum(Dropped(order), name) = 0
    BY <1>1, <1>5, <2>2, DroppedSum
  <2> QED BY <1>3, <2>3, <2>4, <2>5
<1> QED BY <1>2, <1>4, <1>5

(* The header counts every group, whether it has a row or not.              *)
LEMMA HeaderCounts ==
  ASSUME SummaryInv, phase = "done"
  PROVE  shown + others = Cardinality(DOMAIN groups)
<1>1. PICK order : Cutting(order)
  BY DoneFacts
<1>2. /\ Len(order) \in Nat /\ Top \in Nat \ {0} /\ DOMAIN result = 1..Len(result)
      /\ Len(result) = IF Top < Len(order) THEN Top + 1 ELSE Len(order)
      /\ \A r \in 1..Len(result) :
              \/ r <= Top /\ result[r].OthersCount = 0
              \/ r = Top + 1 /\ Top < Len(order) /\ result[r] = Others(Dropped(order))
  BY <1>1, RowsOf
<1>3. Len(order) = Cardinality(DOMAIN groups)
  BY <1>1, DoneFacts, OrderFacts DEF Cutting
<1>4. Last(result) = result[Len(result)]
  BY DEF Last
<1>5. CASE Top < Len(order)
  <2>1. Len(result) = Top + 1 /\ Len(result) \in 1..Len(result) /\ result # <<>>
    BY <1>2, <1>5
  <2>2. result[Len(result)] = Others(Dropped(order))
    BY <1>2, <2>1
  <2>3. Others(Dropped(order)).OthersCount = Len(order) - Top
    BY <1>1, <1>5, OthersFacts, DroppedFacts
  <2>4. others = Len(order) - Top
    BY <1>4, <2>1, <2>2, <2>3 DEF others
  <2>5. shown = Top
    BY <1>2, <1>5, <2>1, <2>4 DEF shown
  <2> QED BY <1>2, <1>3, <2>4, <2>5
<1>6. CASE ~(Top < Len(order))
  <2>1. Len(result) = Len(order)
    BY <1>2, <1>6
  <2>2. others = 0
    <3>1. CASE result = <<>>
      BY <3>1 DEF others
    <3>2. CASE result # <<>>
      <4>1. Len(result) \in 1..Len(result)
        BY <1>2, <2>1, <3>2
      <4>2. result[Len(result)].OthersCount = 0
        BY <1>2, <1>6, <4>1
      <4> QED BY <1>4, <3>2, <4>2 DEF others
    <3> QED BY <3>1, <3>2
  <2>3. shown = Len(result)
    BY <2>2 DEF shown
  <2> QED BY <1>2, <1>3, <2>1, <2>2, <2>3
<1> QED BY <1>5, <1>6

(* The JSON output has the sums that the rows have.                         *)
LEMMA PrintedSum ==
  ASSUME SummaryInv, phase = "done", NEW name \in additive
  PROVE  SumOf(printSummaryJSON.rows, name) = SumOf(result, name)
<1>1. PICK order : Cutting(order)
  BY DoneFacts
<1>2. DOMAIN result = 1..Len(result)
  BY <1>1, RowsOf
<1> DEFINE rows == printSummaryJSON.rows
<1>3. /\ DOMAIN rows = 1..Len(result)
      /\ \A r \in 1..Len(result) : \A c \in columns :
           rows[r][c] = IF Meaningful(result[r], c) THEN Column(result[r], c) ELSE 0
  BY DEF printSummaryJSON
<1> HIDE DEF rows
<1>4. ASSUME NEW r \in 1..Len(result) PROVE rows[r][name] = result[r][name]
  <2>1. name \in columns /\ Column(result[r], name) = result[r][name]
    BY AdditiveFacts
  <2>2. Meaningful(result[r], name)
    BY DEF Meaningful
  <2> QED BY <1>3, <2>1, <2>2
<1>5. [r \in DOMAIN rows |-> rows[r][name]] = [r \in DOMAIN result |-> result[r][name]]
  BY <1>2, <1>3, <1>4
<1> QED BY <1>5, Zenon DEF SumOf, rows

(* The rows account for every key once, the percentages are shares of all,  *)
(* the header counts all groups, and the text and the JSON output agree.    *)
THEOREM RowsAccount == Spec => []RowsAccountForAllKeys
<1>1. SummaryInv => RowsAccountForAllKeys
  <2> SUFFICES ASSUME SummaryInv, phase = "done" PROVE RowsAccountForAllKeys
    BY DEF RowsAccountForAllKeys
  <2> DEFINE text == printSummaryText
             json == printSummaryJSON
             Printed(name) == SumOf(json.rows, name)
  <2>1. /\ SumOf(result, "Count") = Len(metas)
        /\ SumOf(result, "TotalSize") = MetaSum("KvSizeBytes")
        /\ SumOf(result, "RevCount") = MetaSum("RevCount")
        /\ SumOf(result, "KeyLeasedCount")
             = Cardinality({i \in 1..Len(metas) : metas[i].Lease # 0})
    BY RowsTotalMetas
  <2>2. \A name \in additive : Printed(name) = SumOf(result, name)
    BY PrintedSum
  <2>3. "Count" \in additive /\ "TotalSize" \in additive /\ "RevCount" \in additive
        /\ "KeyLeasedCount" \in additive
    BY DEF additive, revColumns
  <2>4. /\ Printed("Count") = Len(metas)
        /\ Printed("TotalSize") = MetaSum("KvSizeBytes")
        /\ Printed("RevCount") = MetaSum("RevCount")
        /\ Printed("KeyLeasedCount") = Cardinality({i \in 1..Len(metas) : metas[i].Lease # 0})
    <3> HIDE DEF Printed
    <3> QED BY <2>1, <2>2, <2>3, Zenon
  <2>5. text.totalGroups = Cardinality(DOMAIN groups)
    <3>1. text.totalGroups = shown + others
      BY DEF printSummaryText
    <3> QED BY <3>1, HeaderCounts
  <2>6. hasSize = Known("KvSizeBytes") /\ hasRevCount = Known("RevCount")
    BY KnownFacts
  <2>7. ASSUME NEW r \in 1..Len(result), NEW name \in columns
        PROVE  json.rows[r][name] = Larger(text.rows[r][name], 0)
    <3>1. json.rows[r][name]
            = IF Meaningful(result[r], name) THEN Column(result[r], name) ELSE 0
      BY DEF printSummaryJSON
    <3>2. text.rows[r][name] = TextColumn(result[r], name)
      BY DEF printSummaryText
    <3>3. Larger(dash, 0) = 0
      BY DEF Larger, dash
    <3>4. CASE ~Meaningful(result[r], name)
      <4>1. TextColumn(result[r], name) = dash
        BY <3>4 DEF TextColumn
      <4> QED BY <3>1, <3>2, <3>3, <3>4, <4>1
    <3>5. CASE Meaningful(result[r], name)
      <4>1. /\ Column(result[r], name) \in Nat
            /\ name \in sizeColumns /\ ~hasSize => Column(result[r], name) = 0
            /\ name \in revColumns /\ ~hasRevCount => Column(result[r], name) = 0
        BY <3>5, ShownColumn
      <4>2. Larger(Column(result[r], name), 0) = Column(result[r], name)
        BY <4>1 DEF Larger
      <4>3. CASE (name \in sizeColumns => hasSize) /\ (name \in revColumns => hasRevCount)
        <5>1. TextColumn(result[r], name) = Column(result[r], name)
          BY <3>5, <4>3 DEF TextColumn
        <5> QED BY <3>1, <3>2, <3>5, <4>2, <5>1
      <4>4. CASE ~((name \in sizeColumns => hasSize) /\ (name \in revColumns => hasRevCount))
        <5>1. TextColumn(result[r], name) = dash
          BY <4>4 DEF TextColumn
        <5>2. Column(result[r], name) = 0
          BY <4>1, <4>4
        <5> QED BY <3>1, <3>2, <3>3, <3>5, <5>1, <5>2
      <4> QED BY <4>3, <4>4
    <3> QED BY <3>4, <3>5
  <2>8. ASSUME NEW r \in 1..Len(result), percentStr(result[r]) # <<>>
        PROVE  percentStr(result[r])[2] = CASE cfg.SortBy = "Count" -> Len(metas)
                                            [] OTHER -> MetaSum("KvSizeBytes")
    <3>1. cfg.SortBy \in {"Count", "TotalSize"}
      BY <2>8 DEF percentStr
    <3>2. percentStr(result[r])[2] = SumOf(result, cfg.SortBy)
      BY <2>8 DEF percentStr, RowSum
    <3>3. CASE cfg.SortBy = "Count"
      BY <2>1, <3>2, <3>3
    <3>4. CASE cfg.SortBy = "TotalSize"
      BY <2>1, <3>2, <3>4
    <3> QED BY <3>1, <3>3, <3>4
  <2> HIDE DEF text, json, Printed
  <2>9. \A r \in 1..Len(result) :
          /\ \A name \in columns : json.rows[r][name] = Larger(text.rows[r][name], 0)
          /\ percentStr(result[r]) # <<>> =>
               percentStr(result[r])[2] = CASE cfg.SortBy = "Count" -> Len(metas)
                                            [] OTHER -> MetaSum("KvSizeBytes")
    BY <2>7, <2>8, Zenon
  <2> QED BY <2>4, <2>5, <2>6, <2>9, Zenon DEF RowsAccountForAllKeys, text, json, Printed
<1> QED BY <1>1, SummaryInductive, PTL

----------------------------------------------------------------------------
(* Distribute: the same records, collected one by one.                      *)

(* The recursive definition behind Collected has a solution.                *)
LEMMA CollectedExists ==
  ASSUME NEW s, NEW m \in Nat
  PROVE  \E f : f = [T \in SUBSET (1..m) |->
                       IF T = {} THEN start ELSE AddMeta(f[T \ {Max(T)}], s[Max(T)])]
<1> DEFINE Value(f, T) == IF T = {} THEN start ELSE AddMeta(f[T \ {Max(T)}], s[Max(T)])
           Solution(f, n) == \A T \in SUBSET (1..n) : f[T] = Value(f, T)
           U == {n \in Nat : \E f : Solution(f, n)}
<1>1. 0 \in U
  <2> DEFINE g == [T \in SUBSET (1..0) |-> start]
  <2>1. ASSUME NEW T \in SUBSET (1..0) PROVE T = {}
    OBVIOUS
  <2>2. Solution(g, 0)
    BY <2>1
  <2> HIDE DEF g, Solution
  <2> QED BY <2>2
<1>2. ASSUME NEW n \in Nat, n \in U PROVE n + 1 \in U
  <2>1. PICK g : Solution(g, n)
    <3> HIDE DEF Solution
    <3> QED BY <1>2
  <2> DEFINE h == [T \in SUBSET (1..(n+1)) |-> IF T \in SUBSET (1..n) THEN g[T] ELSE Value(g, T)]
  <2>2. ASSUME NEW T \in SUBSET (1..n) PROVE T \in SUBSET (1..(n+1)) /\ h[T] = g[T]
    <3>1. T \in SUBSET (1..(n+1))
      OBVIOUS
    <3> HIDE DEF Value
    <3> QED BY <3>1
  <2>3. Solution(h, n+1)
    <3> SUFFICES ASSUME NEW T \in SUBSET (1..(n+1)) PROVE h[T] = Value(h, T)
      OBVIOUS
    <3>1. CASE T \notin SUBSET (1..n)
      <4>1. n + 1 \in T /\ T # {}
        BY <3>1
      <4>2. Max(T) = n + 1
        BY <4>1, MaxOfPrefix
      <4>3. T \ {Max(T)} \in SUBSET (1..n)
        BY <4>2
      <4>4. h[T \ {Max(T)}] = g[T \ {Max(T)}]
        BY <2>2, <4>3
      <4>5. h[T] = Value(g, T)
        <5> HIDE DEF Value
        <5> QED BY <3>1
      <4> HIDE DEF h
      <4> QED BY <4>1, <4>4, <4>5, Zenon
    <3>2. CASE T \in SUBSET (1..n) /\ T # {}
      <4>2. T \ {Max(T)} \in SUBSET (1..n)
        BY <3>2
      <4>3. h[T] = g[T] /\ h[T \ {Max(T)}] = g[T \ {Max(T)}]
        BY <2>2, <3>2, <4>2
      <4>4. g[T] = Value(g, T)
        <5> HIDE DEF Value
        <5> QED BY <2>1, <3>2
      <4> HIDE DEF h
      <4> QED BY <3>2, <4>3, <4>4, Zenon
    <3>3. CASE T = {}
      <4>1. T \in SUBSET (1..n)
        BY <3>3
      <4>2. h[T] = g[T]
        BY <2>2, <4>1
      <4>3. g[T] = Value(g, T)
        <5> HIDE DEF Value
        <5> QED BY <2>1, <4>1
      <4> HIDE DEF h
      <4> QED BY <3>3, <4>2, <4>3, Zenon
    <3> QED BY <3>1, <3>2, <3>3
  <2> HIDE DEF h, Solution
  <2> QED BY <2>3
<1>3. m \in U
  <2> HIDE DEF U
  <2> QED BY <1>1, <1>2, SetInduction
<1>4. PICK f : Solution(f, m)
  <2> HIDE DEF Solution
  <2> QED BY <1>3
<1> DEFINE g == [T \in SUBSET (1..m) |-> f[T]]
<1>5. ASSUME NEW T \in SUBSET (1..m) PROVE f[T] = Value(g, T)
  <2>1. T \ {Max(T)} \in SUBSET (1..m)
    OBVIOUS
  <2>2. g[T \ {Max(T)}] = f[T \ {Max(T)}]
    BY <2>1
  <2>3. f[T] = Value(f, T)
    <3> HIDE DEF Value
    <3> QED BY <1>4
  <2> HIDE DEF g
  <2> QED BY <2>2, <2>3, Zenon
<1>6. g = [T \in SUBSET (1..m) |-> Value(g, T)]
  <2>1. g = [T \in SUBSET (1..m) |-> f[T]]
    OBVIOUS
  <2> HIDE DEF g, Value
  <2> QED BY <1>5, <2>1
<1> HIDE DEF g
<1> QED BY <1>6

(* Records are collected one after the other.                               *)
LEMMA CollectedEquation ==
  ASSUME NEW S, NEW s \in Seq(S)
  PROVE  \E f : /\ Collected(s) = f[Len(s)] /\ f[0] = start
                /\ \A n \in 0..(Len(s) - 1) : f[n + 1] = AddMeta(f[n], s[n + 1])
<1> DEFINE P(f) == f = [T \in SUBSET (1..Len(s)) |->
                         IF T = {} THEN start ELSE AddMeta(f[T \ {Max(T)}], s[Max(T)])]
<1>1. Len(s) \in Nat /\ DOMAIN s = 1..Len(s)
  OBVIOUS
<1>2. \E f : P(f)
  BY <1>1, CollectedExists
<1>3. P(CHOOSE f : P(f))
  BY <1>2, Zenon
<1>4. Collected(s) = (CHOOSE f : P(f))[1..Len(s)]
  BY <1>1, Zenon DEF Collected, FoldLeft, MapThenFoldSet
<1>5. PICK g : P(g) /\ Collected(s) = g[1..Len(s)]
  BY <1>3, <1>4, Zenon
<1>6. ASSUME NEW T \in SUBSET (1..Len(s))
      PROVE  g[T] = IF T = {} THEN start ELSE AddMeta(g[T \ {Max(T)}], s[Max(T)])
  <2>1. P(g)
    BY <1>5
  <2> QED BY <2>1, Zenon
<1> DEFINE f == [n \in 0..Len(s) |-> g[1..n]]
<1>7. f[0] = start
  <2>1. f[0] = g[1..0] /\ 1..0 = {}
    BY <1>1
  <2>2. {} \in SUBSET (1..Len(s))
    OBVIOUS
  <2> HIDE DEF f
  <2> QED BY <1>6, <2>1, <2>2, Zenon
<1>8. ASSUME NEW n \in 0..(Len(s) - 1) PROVE f[n + 1] = AddMeta(f[n], s[n + 1])
  <2>1. f[n + 1] = g[1..(n + 1)] /\ f[n] = g[1..n]
    BY <1>1
  <2>2. 1..(n + 1) \in SUBSET (1..Len(s)) /\ 1..(n + 1) # {}
    <3>1. n + 1 \in 1..Len(s)
      BY <1>1
    <3>2. \A i \in 1..(n + 1) : i \in 1..Len(s)
      BY <1>1
    <3>3. n + 1 \in 1..(n + 1)
      BY <1>1
    <3> QED BY <3>2, <3>3, Zenon
  <2>3. Max(1..(n + 1)) = n + 1
    BY MaxOfPrefix
  <2>4. (1..(n + 1)) \ {n + 1} = 1..n
    OBVIOUS
  <2> HIDE DEF f
  <2> QED BY <1>6, <2>1, <2>2, <2>3, <2>4, Zenon
<1>9. Collected(s) = f[Len(s)]
  <2>1. f[Len(s)] = g[1..Len(s)]
    BY <1>1
  <2> HIDE DEF f
  <2> QED BY <1>5, <2>1, Zenon
<1> HIDE DEF f
<1> QED BY <1>7, <1>8, <1>9, Zenon

----------------------------------------------------------------------------
(* Counting by label.                                                       *)

(* Counting by label: how often each label occurs at the first n places,    *)
(* those outside P left out.                                                *)
Places(n, P) == {i \in 1..n : i \in P}
Labels(n, label, P) == {label[i] : i \in Places(n, P)}
Labelled(n, label, P, v) == {i \in Places(n, P) : label[i] = v}
TallyOf(n, label, P) == [v \in Labels(n, label, P) |-> Cardinality(Labelled(n, label, P, v))]

(* The places are finitely many, and one more at most comes with n + 1.     *)
LEMMA PlacesFacts ==
  ASSUME NEW n \in Nat, NEW P
  PROVE  /\ IsFiniteSet(Places(n, P)) /\ Cardinality(Places(n, P)) \in Nat
         /\ Places(0, P) = {} /\ n + 1 \notin Places(n, P)
         /\ n + 1 \in P => Places(n + 1, P) = Places(n, P) \union {n + 1}
         /\ n + 1 \notin P => Places(n + 1, P) = Places(n, P)
<1>1. IsFiniteSet(1..n)
  BY FS_Interval
<1>2. IsFiniteSet(Places(n, P))
  BY <1>1, FS_Subset DEF Places
<1>3. Cardinality(Places(n, P)) \in Nat
  BY <1>2, FS_CardinalityType
<1>4. /\ Places(0, P) = {} /\ n + 1 \notin Places(n, P)
      /\ n + 1 \in P => Places(n + 1, P) = Places(n, P) \union {n + 1}
      /\ n + 1 \notin P => Places(n + 1, P) = Places(n, P)
  BY DEF Places
<1> QED BY <1>2, <1>3, <1>4

(* What a tally holds.                                                      *)
LEMMA TallyFacts ==
  ASSUME NEW n \in Nat, NEW label, NEW P
  PROVE  /\ DOMAIN TallyOf(n, label, P) = Labels(n, label, P)
         /\ IsFiniteSet(DOMAIN TallyOf(n, label, P))
         /\ \A v \in DOMAIN TallyOf(n, label, P) :
              /\ TallyOf(n, label, P)[v] = Cardinality(Labelled(n, label, P, v))
              /\ TallyOf(n, label, P)[v] \in Nat
<1> DEFINE S == Places(n, P)
           D == Labels(n, label, P)
<1>1. DOMAIN TallyOf(n, label, P) = D
  BY DEF TallyOf
<1>2. IsFiniteSet(S)
  BY PlacesFacts
<1>3. IsFiniteSet(D)
  <2> DEFINE f == [i \in S |-> label[i]]
  <2>1. f \in Surjection(S, D)
    BY DEF Surjection, Labels
  <2> HIDE DEF S, D, f
  <2> QED BY <1>2, <2>1, FS_Surjection
<1>4. \A v \in D : TallyOf(n, label, P)[v] = Cardinality(Labelled(n, label, P, v))
  BY DEF TallyOf
<1>5. ASSUME NEW v PROVE Cardinality(Labelled(n, label, P, v)) \in Nat
  <2>1. IsFiniteSet(Labelled(n, label, P, v))
    BY <1>2, FS_Subset DEF Labelled
  <2> QED BY <2>1, FS_CardinalityType
<1> QED BY <1>1, <1>3, <1>4, <1>5

(* Nothing counted.                                                         *)
LEMMA TallyEmpty == ASSUME NEW label, NEW P PROVE TallyOf(0, label, P) = NoCounts
<1>1. Places(0, P) = {}
  BY PlacesFacts
<1> QED BY <1>1 DEF TallyOf, Labels, NoCounts

(* AddCount counts one more.                                                *)
LEMMA TallyNext ==
  ASSUME NEW n \in Nat, NEW label, NEW P
  PROVE  /\ n + 1 \in P => TallyOf(n + 1, label, P) = AddCount(TallyOf(n, label, P), label[n + 1])
         /\ n + 1 \notin P => TallyOf(n + 1, label, P) = TallyOf(n, label, P)
<1> DEFINE S == Places(n, P)
           R == Places(n + 1, P)
           k == label[n + 1]
           t == TallyOf(n, label, P)
<1>1. /\ IsFiniteSet(S) /\ n + 1 \notin S
      /\ n + 1 \in P => R = S \union {n + 1}
      /\ n + 1 \notin P => R = S
  BY PlacesFacts
<1>2. CASE n + 1 \notin P
  BY <1>1, <1>2 DEF TallyOf, Labels, Labelled
<1>3. CASE n + 1 \in P
  <2> DEFINE D == Labels(n, label, P)
  <2>1. DOMAIN t = D /\ \A v \in D : t[v] = Cardinality(Labelled(n, label, P, v)) /\ t[v] \in Nat
    BY TallyFacts
  <2>2. R = S \union {n + 1}
    BY <1>1, <1>3
  <2> HIDE DEF S, R, t
  <2>3. Labels(n + 1, label, P) = D \union {k}
    BY <2>2 DEF Labels, R, S
  <2>4. ASSUME NEW v \in D \union {k}
        PROVE  Cardinality(Labelled(n + 1, label, P, v))
                 = (IF v \in D THEN t[v] ELSE 0) + (IF v = k THEN 1 ELSE 0)
    <3> DEFINE A == Labelled(n, label, P, v)
               B == Labelled(n + 1, label, P, v)
    <3>1. IsFiniteSet(A) /\ n + 1 \notin A
      BY <1>1, FS_Subset DEF Labelled, S
    <3>2. Cardinality(A) = IF v \in D THEN t[v] ELSE 0
      <4>1. CASE v \in D
        BY <2>1, <4>1
      <4>2. CASE v \notin D
        <5>1. A = {}
          BY <4>2 DEF Labelled, Labels
        <5> QED BY <4>2, <5>1, FS_EmptySet
      <4> QED BY <4>1, <4>2
    <3>3. v = k => B = A \union {n + 1}
      BY <2>2 DEF Labelled, R, S
    <3>4. v # k => B = A
      BY <2>2 DEF Labelled, R, S
    <3> HIDE DEF A, B
    <3>5. Cardinality(A \union {n + 1}) = Cardinality(A) + 1 /\ Cardinality(A) \in Nat
      BY <3>1, FS_AddElement, FS_CardinalityType
    <3>6. CASE v = k
      <4>1. Cardinality(B) = Cardinality(A) + 1
        BY <3>3, <3>5, <3>6
      <4> HIDE DEF D
      <4> QED BY <3>2, <3>6, <4>1 DEF B
    <3>7. CASE v # k
      <4>1. Cardinality(B) = Cardinality(A) /\ Cardinality(A) + 0 = Cardinality(A)
        BY <3>4, <3>5, <3>7
      <4> HIDE DEF D
      <4> QED BY <3>2, <3>7, <4>1, Zenon DEF B
    <3> QED BY <3>6, <3>7
  <2>5. TallyOf(n + 1, label, P) = [v \in D \union {k} |-> Cardinality(Labelled(n + 1, label, P, v))]
    BY <2>3 DEF TallyOf
  <2>6. AddCount(t, k) = [v \in D \union {k} |-> (IF v \in D THEN t[v] ELSE 0) + (IF v = k THEN 1 ELSE 0)]
    BY <2>1 DEF AddCount
  <2> HIDE DEF D, k
  <2>7. TallyOf(n + 1, label, P) = AddCount(t, k)
    BY <2>4, <2>5, <2>6
  <2> QED BY <1>3, <2>7 DEF t, k
<1> QED BY <1>2, <1>3

(* The tally of everything sums up to the number of places.                 *)
LEMMA TallySum ==
  ASSUME NEW n \in Nat, NEW label, NEW P
  PROVE  SumFunctionOnSet(TallyOf(n, label, P), DOMAIN TallyOf(n, label, P))
           = Cardinality(Places(n, P))
<1> DEFINE t(m) == TallyOf(m, label, P)
           SumTo(m) == SumFunctionOnSet(t(m), DOMAIN t(m))
           U == {m \in Nat : SumTo(m) = Cardinality(Places(m, P))}
<1>1. 0 \in U
  <2>1. t(0) = NoCounts /\ Places(0, P) = {}
    BY TallyEmpty, PlacesFacts
  <2>2. DOMAIN t(0) = {}
    BY <2>1 DEF NoCounts
  <2>3. SumFunctionOnSet(t(0), {}) = 0 /\ Cardinality({}) = 0
    BY SetSumEmpty, FS_EmptySet
  <2> HIDE DEF t
  <2> QED BY <2>1, <2>2, <2>3
<1>2. ASSUME NEW m \in Nat, m \in U PROVE m + 1 \in U
  <2>1. SumTo(m) = Cardinality(Places(m, P))
    BY <1>2
  <2>2. CASE m + 1 \notin P
    <3>1. t(m + 1) = t(m) /\ Places(m + 1, P) = Places(m, P)
      BY <2>2, TallyNext, PlacesFacts
    <3> HIDE DEF t
    <3> QED BY <2>1, <3>1
  <2>3. CASE m + 1 \in P
    <3> DEFINE k == label[m + 1]
               D == DOMAIN t(m)
               b == AddCount(t(m), k)
    <3>1. IsFiniteSet(D) /\ \A v \in D : t(m)[v] \in Nat
      BY TallyFacts
    <3>2. t(m + 1) = b
      BY <2>3, TallyNext
    <3>3. Cardinality(Places(m + 1, P)) = Cardinality(Places(m, P)) + 1
      <4>1. /\ Places(m + 1, P) = Places(m, P) \union {m + 1} /\ m + 1 \notin Places(m, P)
            /\ IsFiniteSet(Places(m, P))
        BY <2>3, PlacesFacts
      <4> QED BY <4>1, FS_AddElement
    <3>4. DOMAIN b = D \union {k}
      BY DEF AddCount
    <3> DEFINE before == IF k \in D THEN t(m)[k] ELSE 0
    <3>5. b[k] = before + 1
      BY DEF AddCount
    <3>6. \A v \in D : v # k => b[v] = t(m)[v]
      <4> SUFFICES ASSUME NEW v \in D, v # k PROVE b[v] = t(m)[v]
        OBVIOUS
      <4>1. b[v] = t(m)[v] + 0
        BY DEF AddCount
      <4>2. t(m)[v] \in Nat
        BY <3>1
      <4> HIDE DEF b, t
      <4> QED BY <4>1, <4>2
    <3>7. (k \in D => before = t(m)[k]) /\ (k \notin D => before = 0)
      OBVIOUS
    <3> DEFINE a == t(m)
    <3>8. /\ IsFiniteSet(D) /\ (\A v \in D : a[v] \in Nat) /\ (\A v \in D : v # k => b[v] = a[v])
          /\ (k \in D => before = a[k])
      BY <3>1, <3>6, <3>7
    <3> HIDE DEF before, D, a, b, k
    <3>9. SumFunctionOnSet(b, D \union {k}) = SumFunctionOnSet(a, D) + 1
      <4>1. PICK one \in Nat : one = 1
        OBVIOUS
      <4>2. b[k] = before + one /\ (k \notin D => before = 0)
        BY <3>5, <3>7, <4>1
      <4>3. SumFunctionOnSet(b, D \union {k}) = SumFunctionOnSet(a, D) + one
        BY <3>8, <4>2, SumGrows
      <4> QED BY <4>1, <4>3
    <3>10. SumTo(m) = SumFunctionOnSet(a, D)
      BY DEF a, D
    <3>11. SumTo(m + 1) = SumFunctionOnSet(b, D \union {k})
      <4> HIDE DEF t
      <4> QED BY <3>2, <3>4
    <3> HIDE DEF SumTo
    <3>12. SumTo(m + 1) = Cardinality(Places(m + 1, P))
      BY <2>1, <3>3, <3>9, <3>10, <3>11
    <3> QED BY <3>12
  <2> QED BY <2>2, <2>3
<1>3. n \in U
  <2> HIDE DEF U
  <2> QED BY <1>1, <1>2, SetInduction
<1> QED BY <1>3

(* The tally of some labels sums up to the number of places that have them. *)
LEMMA TallyPart ==
  ASSUME NEW n \in Nat, NEW label, NEW P, NEW V \in SUBSET (DOMAIN TallyOf(n, label, P))
  PROVE  SumFunctionOnSet(TallyOf(n, label, P), V)
           = Cardinality({i \in Places(n, P) : label[i] \in V})
<1> DEFINE Q == {i \in Places(n, P) : label[i] \in V}
           a == TallyOf(n, label, P)
           b == TallyOf(n, label, Q)
<1>1. /\ DOMAIN a = Labels(n, label, P) /\ IsFiniteSet(DOMAIN a)
      /\ \A v \in DOMAIN a : a[v] = Cardinality(Labelled(n, label, P, v)) /\ a[v] \in Nat
  BY TallyFacts
<1>2. /\ DOMAIN b = Labels(n, label, Q)
      /\ \A v \in DOMAIN b : b[v] = Cardinality(Labelled(n, label, Q, v))
  <2> HIDE DEF Q
  <2> QED BY TallyFacts
<1>3. Places(n, Q) = Q
  BY DEF Places
<1>4. DOMAIN b = V
  <2>1. V \subseteq DOMAIN a
    OBVIOUS
  <2>2. Labels(n, label, Q) = V
    <3>1. V \subseteq Labels(n, label, P)
      BY <1>1, <2>1
    <3> HIDE DEF a, b
    <3> QED BY <1>3, <3>1 DEF Labels
  <2> HIDE DEF a, b
  <2> QED BY <1>2, <2>2
<1>5. ASSUME NEW v \in V PROVE b[v] = a[v] /\ a[v] \in Nat
  <2>1. Labelled(n, label, Q, v) = Labelled(n, label, P, v) /\ v \in DOMAIN a
    BY <1>3 DEF Labelled
  <2> HIDE DEF a, b, Q
  <2> QED BY <1>1, <1>2, <1>3, <1>4, <2>1
<1>6. SumFunctionOnSet(b, DOMAIN b) = Cardinality(Places(n, Q))
  BY TallySum
<1>7. IsFiniteSet(V)
  <2>1. V \subseteq DOMAIN a
    OBVIOUS
  <2> HIDE DEF a
  <2> QED BY <1>1, <2>1, FS_Subset
<1> HIDE DEF a, b, Q
<1>8. SumFunctionOnSet(a, V) = SumFunctionOnSet(b, V)
  BY <1>5, <1>7, SetSumSame
<1> QED BY <1>3, <1>4, <1>6, <1>8 DEF a, Q

----------------------------------------------------------------------------
(* What is collected from the records.                                      *)

kvSizes == [i \in 1..Len(metas) |-> metas[i].KvSizeBytes]
Sized == {i \in 1..Len(metas) : metas[i].KvSizeBytes >= 0}
topLevels == [i \in 1..Len(metas) |-> GroupPrefix(metas[i].Key, 2)]

(* What ComputeGlobalStats has collected from the first n records.          *)
CollectedUpTo(g, n) ==
  /\ g.TotalKeys = n
  /\ g.kv.total = Total([i \in 1..n |-> Larger(metas[i]["KvSizeBytes"], 0)])
  /\ g.kv.sizeToCount = TallyOf(n, kvSizes, Sized)
  /\ g.HistoryRevisionsTotal = Total([i \in 1..n |-> Larger(metas[i]["RevCount"], 0)])
  /\ g.VersionBuckets \in [1..6 -> Nat] /\ SumFunctionOnSet(g.VersionBuckets, 1..6) = n
  /\ g.prefixCount = TallyOf(n, topLevels, Nat)

(* The buckets of versions are finitely many.                               *)
LEMMA OneToSixFinite == IsFiniteSet(1..6)
<1>1. PICK one \in Int : one = 1
  OBVIOUS
<1>2. PICK six \in Int : six = 6
  OBVIOUS
<1>3. IsFiniteSet(one..six)
  BY FS_Interval
<1> QED BY <1>1, <1>2, <1>3

(* A version falls into one of the six buckets.                             *)
LEMMA VersionBucketFacts == ASSUME NEW v PROVE VersionBucket(v) \in 1..6
<1> DEFINE S == {b \in 1..6 : b = 6 \/ v <= <<1, 10, 100, 1000, 10000>>[b]}
<1>1. 6 \in S /\ S \in SUBSET (1..6)
  OBVIOUS
<1>2. VersionBucket(v) = Min(S)
  BY DEF VersionBucket
<1> HIDE DEF S
<1>3. IsFiniteSet(S) /\ S \in SUBSET Int /\ S # {}
  <2>1. PICK D : D = 1..6
    OBVIOUS
  <2>2. IsFiniteSet(D)
    BY <2>1, OneToSixFinite
  <2>3. S \subseteq D
    BY <1>1, <2>1
  <2>4. IsFiniteSet(S)
    BY <2>2, <2>3, FS_Subset
  <2> QED BY <1>1, <2>4
<1>4. Min(S) \in S
  BY <1>3, FiniteMinFacts
<1> QED BY <1>1, <1>2, <1>4

(* A total over the records up to n, and over one more.                     *)
LEMMA MetaTotalNext ==
  ASSUME MetaInv, NEW field \in {"KvSizeBytes", "RevCount"}, NEW n \in 0..(Len(metas) - 1)
  PROVE  /\ Total([i \in 1..n |-> Larger(metas[i][field], 0)]) \in Nat
         /\ Total([i \in 1..(n + 1) |-> Larger(metas[i][field], 0)])
              = Total([i \in 1..n |-> Larger(metas[i][field], 0)]) + Larger(metas[n + 1][field], 0)
         /\ Larger(metas[n + 1][field], 0) \in Nat
<1> DEFINE p == [i \in 1..Len(metas) |-> Larger(metas[i][field], 0)]
<1>1. Len(metas) \in Nat /\ n \in Nat /\ n + 1 \in 1..Len(metas)
      /\ \A i \in 1..(n + 1) : i \in 1..Len(metas)
  BY DEF MetaInv
<1>2. ASSUME NEW i \in 1..Len(metas) PROVE Larger(metas[i][field], 0) \in Nat
  <2>1. metas[i] \in MetaRecord
    BY DEF MetaInv
  <2>2. metas[i][field] \in Int
    BY <2>1 DEF MetaRecord
  <2> QED BY <2>2 DEF Larger
<1>3. /\ [i \in 1..n |-> Larger(metas[i][field], 0)] = [i \in 1..n |-> p[i]]
      /\ [i \in 1..(n + 1) |-> Larger(metas[i][field], 0)] = [i \in 1..(n + 1) |-> p[i]]
      /\ p[n + 1] = Larger(metas[n + 1][field], 0)
  BY <1>1
<1>4. \A i \in 1..(n + 1) : p[i] \in Nat
  BY <1>1, <1>2
<1> HIDE DEF p
<1>5. FoldLeft(+, 0, [i \in 1..(n + 1) |-> p[i]]) = FoldLeft(+, 0, [i \in 1..n |-> p[i]]) + p[n + 1]
  BY <1>1, <1>4, SumNext
<1>6. Total([i \in 1..n |-> p[i]]) \in Nat
  <2>1. [i \in 1..n |-> p[i]] \in Seq(Nat)
    BY <1>1, <1>4
  <2> QED BY <2>1, TotalFacts
<1>7. Total([i \in 1..n |-> Larger(metas[i][field], 0)]) \in Nat
  BY <1>3, <1>6, Zenon
<1>8. Total([i \in 1..(n + 1) |-> Larger(metas[i][field], 0)])
        = Total([i \in 1..n |-> Larger(metas[i][field], 0)]) + Larger(metas[n + 1][field], 0)
  BY <1>3, <1>5, Zenon DEF Total
<1> QED BY <1>1, <1>2, <1>7, <1>8, Zenon

(* Nothing collected.                                                       *)
LEMMA NothingCollected == CollectedUpTo(start, 0)
<1>1. Total(<<>>) = 0
  BY TotalFacts
<1>2. ASSUME NEW field PROVE [i \in 1..0 |-> Larger(metas[i][field], 0)] = <<>>
  OBVIOUS
<1>3. Total([i \in 1..0 |-> Larger(metas[i]["KvSizeBytes"], 0)]) = 0
  <2>1. [i \in 1..0 |-> Larger(metas[i]["KvSizeBytes"], 0)] = <<>>
    BY <1>2
  <2> QED BY <1>1, <2>1, Zenon
<1>4. Total([i \in 1..0 |-> Larger(metas[i]["RevCount"], 0)]) = 0
  <2>1. [i \in 1..0 |-> Larger(metas[i]["RevCount"], 0)] = <<>>
    BY <1>2
  <2> QED BY <1>1, <2>1, Zenon
<1>5. start.TotalKeys = 0 /\ start.HistoryRevisionsTotal = 0 /\ start.prefixCount = NoCounts
      /\ start.kv = newSizeAccum /\ start.VersionBuckets = [b \in 1..6 |-> 0]
  BY DEF start
<1>6. newSizeAccum.total = 0 /\ newSizeAccum.sizeToCount = NoCounts
  BY DEF newSizeAccum
<1>7. TallyOf(0, kvSizes, Sized) = NoCounts /\ TallyOf(0, topLevels, Nat) = NoCounts
  BY TallyEmpty
<1>8. SumFunctionOnSet([b \in 1..6 |-> 0], 1..6) = 0
  <2> DEFINE a == [b \in 1..6 |-> 0]
  <2>1. \A b \in 1..6 : a[b] = 0
    OBVIOUS
  <2> HIDE DEF a
  <2>3. SumFunctionOnSet(a, 1..6) = 0
    <3> DEFINE U == {n \in Nat : n <= 6 => SumFunctionOnSet(a, 1..n) = 0}
    <3>1. 0 \in U
      <4>1. 1..0 = {}
        OBVIOUS
      <4>2. SumFunctionOnSet(a, 1..0) = 0
        BY <4>1, SetSumEmpty
      <4> QED BY <4>2
    <3>2. ASSUME NEW n \in Nat, n \in U PROVE n + 1 \in U
      <4> SUFFICES ASSUME n + 1 <= 6 PROVE SumFunctionOnSet(a, 1..(n + 1)) = 0
        OBVIOUS
      <4>1. SumFunctionOnSet(a, 1..n) = 0
        BY <3>2
      <4> DEFINE S == 1..n
                 x == n + 1
      <4>2. 1..(n + 1) = S \union {x} /\ x \notin S /\ IsFiniteSet(S)
        <5>1. IsFiniteSet(1..n)
          BY FS_Interval
        <5>2. 1..(n + 1) = S \union {x} /\ x \notin S
          OBVIOUS
        <5> QED BY <5>1, <5>2
      <4>3. (\A y \in S : a[y] \in Nat) /\ a[x] = 0 /\ a[x] \in Nat
        BY <2>1
      <4> HIDE DEF S, x
      <4>4. SumFunctionOnSet(a, S \union {x}) = a[x] + SumFunctionOnSet(a, S)
        BY <4>2, <4>3, SetSumAdd
      <4>5. SumFunctionOnSet(a, S) = 0
        BY <4>1 DEF S
      <4>6. a[x] + SumFunctionOnSet(a, S) = 0
        BY <4>3, <4>5
      <4> QED BY <4>2, <4>4, <4>6, Zenon
    <3>3. 6 \in U
      <4> HIDE DEF U
      <4> QED BY <3>1, <3>2, SetInduction
    <3> QED BY <3>3
  <2> QED BY <2>3 DEF a
<1> QED BY <1>3, <1>4, <1>5, <1>6, <1>7, <1>8 DEF CollectedUpTo

(* One record more.                                                         *)
LEMMA CollectsNext ==
  ASSUME MetaInv, NEW n \in 0..(Len(metas) - 1), NEW g, CollectedUpTo(g, n)
  PROVE  CollectedUpTo(AddMeta(g, metas[n + 1]), n + 1)
<1> DEFINE m == metas[n + 1]
           h == AddMeta(g, m)
           size == m["KvSizeBytes"]
<1>1. n \in Nat /\ n + 1 \in 1..Len(metas) /\ Len(metas) \in Nat
  BY DEF MetaInv
<1>2. m \in MetaRecord
  BY <1>1 DEF MetaInv
<1>3. size \in Int /\ m.KvSizeBytes = size
  BY <1>2 DEF MetaRecord
<1>4. /\ h.TotalKeys = g.TotalKeys + 1
      /\ h.kv = AddSize(g.kv, size)
      /\ h.HistoryRevisionsTotal = g.HistoryRevisionsTotal + Larger(m["RevCount"], 0)
      /\ h.VersionBuckets = [g.VersionBuckets EXCEPT ![VersionBucket(m.Version)] = @ + 1]
      /\ h.prefixCount = AddCount(g.prefixCount, GroupPrefix(m.Key, 2))
  BY DEF AddMeta
<1> HIDE DEF h
<1>5. /\ size < 0 => h.kv = g.kv
      /\ ~(size < 0) => /\ h.kv.total = g.kv.total + size
                        /\ h.kv.sizeToCount = AddCount(g.kv.sizeToCount, size)
  BY <1>4 DEF AddSize
<1> HIDE DEF m, size
<1>6. h.TotalKeys = n + 1
  BY <1>4 DEF CollectedUpTo
<1>7. h.kv.total = Total([i \in 1..(n + 1) |-> Larger(metas[i]["KvSizeBytes"], 0)])
  <2> DEFINE t == Total([i \in 1..n |-> Larger(metas[i]["KvSizeBytes"], 0)])
             u == Total([i \in 1..(n + 1) |-> Larger(metas[i]["KvSizeBytes"], 0)])
  <2>1. t \in Nat /\ u = t + Larger(size, 0)
    BY MetaTotalNext, Zenon DEF m, size
  <2>2. g.kv.total = t
    BY Zenon DEF CollectedUpTo
  <2> HIDE DEF t, u
  <2>3. h.kv.total = u
    <3>1. CASE size < 0
      <4>1. Larger(size, 0) = 0 /\ h.kv = g.kv
        BY <1>3, <1>5, <3>1 DEF Larger
      <4> QED BY <2>1, <2>2, <4>1
    <3>2. CASE ~(size < 0)
      <4>1. Larger(size, 0) = size
        BY <1>3, <3>2 DEF Larger
      <4> QED BY <1>5, <2>1, <2>2, <3>2, <4>1
    <3> QED BY <3>1, <3>2
  <2> QED BY <2>3 DEF u
<1>8. h.kv.sizeToCount = TallyOf(n + 1, kvSizes, Sized)
  <2>1. kvSizes[n + 1] = size
    BY <1>1 DEF kvSizes, size, m
  <2>2. n + 1 \in Sized <=> ~(size < 0)
    BY <1>1, <1>3 DEF Sized, size, m
  <2>3. g.kv.sizeToCount = TallyOf(n, kvSizes, Sized)
    BY Zenon DEF CollectedUpTo
  <2>4. CASE size < 0
    <3>1. TallyOf(n + 1, kvSizes, Sized) = TallyOf(n, kvSizes, Sized)
      BY <1>1, <2>2, <2>4, TallyNext
    <3> QED BY <1>5, <2>3, <2>4, <3>1
  <2>5. CASE ~(size < 0)
    <3>1. TallyOf(n + 1, kvSizes, Sized) = AddCount(TallyOf(n, kvSizes, Sized), kvSizes[n + 1])
      BY <1>1, <2>2, <2>5, TallyNext
    <3> QED BY <1>5, <2>1, <2>3, <2>5, <3>1
  <2> QED BY <2>4, <2>5
<1>9. h.HistoryRevisionsTotal = Total([i \in 1..(n + 1) |-> Larger(metas[i]["RevCount"], 0)])
  <2>1. Total([i \in 1..(n + 1) |-> Larger(metas[i]["RevCount"], 0)])
          = Total([i \in 1..n |-> Larger(metas[i]["RevCount"], 0)]) + Larger(metas[n + 1]["RevCount"], 0)
    BY MetaTotalNext
  <2>2. g.HistoryRevisionsTotal = Total([i \in 1..n |-> Larger(metas[i]["RevCount"], 0)])
    BY Zenon DEF CollectedUpTo
  <2> QED BY <1>4, <2>1, <2>2, Zenon DEF m
<1>10. h.VersionBuckets \in [1..6 -> Nat] /\ SumFunctionOnSet(h.VersionBuckets, 1..6) = n + 1
  <2> DEFINE D == 1..6
             a == g.VersionBuckets
             b == h.VersionBuckets
             k == VersionBucket(m.Version)
  <2>1. a \in [1..6 -> Nat] /\ SumFunctionOnSet(a, D) = n
    BY DEF CollectedUpTo
  <2>2. k \in D
    BY VersionBucketFacts
  <2>3. b = [a EXCEPT ![k] = @ + 1]
    BY <1>4
  <2>4. IsFiniteSet(D) /\ D \union {k} = D
    BY <2>2, OneToSixFinite
  <2>x. a \in [D -> Nat]
    BY <2>1
  <2> HIDE DEF a, b, k, D
  <2>5. b \in [D -> Nat]
    BY <2>x, <2>2, <2>3
  <2>6. PICK one \in Nat : one = 1
    OBVIOUS
  <2>7. PICK before : before = a[k]
    OBVIOUS
  <2>8. b[k] = before + one /\ \A y \in D : y # k => b[y] = a[y]
    BY <2>x, <2>2, <2>3, <2>6, <2>7
  <2>9. (\A y \in D : a[y] \in Nat) /\ (k \notin D => before = 0)
    BY <2>x, <2>2
  <2>10. SumFunctionOnSet(b, D \union {k}) = SumFunctionOnSet(a, D) + one
    BY <2>4, <2>7, <2>8, <2>9, SumGrows
  <2>11. SumFunctionOnSet(b, D) = n + 1
    BY <2>1, <2>4, <2>6, <2>10, Zenon
  <2> QED BY <2>5, <2>11 DEF b, D
<1>11. h.prefixCount = TallyOf(n + 1, topLevels, Nat)
  <2>1. topLevels[n + 1] = GroupPrefix(m.Key, 2)
    BY <1>1 DEF topLevels, m
  <2>2. TallyOf(n + 1, topLevels, Nat) = AddCount(TallyOf(n, topLevels, Nat), topLevels[n + 1])
    <3>1. n + 1 \in Nat
      BY <1>1
    <3> QED BY <1>1, <3>1, TallyNext
  <2> QED BY <1>4, <2>1, <2>2 DEF CollectedUpTo
<1>12. CollectedUpTo(h, n + 1)
  BY <1>6, <1>7, <1>8, <1>9, <1>10, <1>11, Zenon DEF CollectedUpTo
<1> QED BY <1>12 DEF h, m

(* All the records.                                                         *)
LEMMA CollectsAll ==
  ASSUME MetaInv
  PROVE  CollectedUpTo(Collected(metas), Len(metas))
<1>1. metas \in Seq(MetaRecord) /\ Len(metas) \in Nat
  BY DEF MetaInv
<1>2. PICK f : /\ Collected(metas) = f[Len(metas)] /\ f[0] = start
               /\ \A n \in 0..(Len(metas) - 1) : f[n + 1] = AddMeta(f[n], metas[n + 1])
  BY <1>1, CollectedEquation
<1> DEFINE U == {n \in Nat : n <= Len(metas) => CollectedUpTo(f[n], n)}
<1>3. 0 \in U
  BY <1>2, NothingCollected
<1>4. ASSUME NEW n \in Nat, n \in U PROVE n + 1 \in U
  <2> SUFFICES ASSUME n + 1 <= Len(metas) PROVE CollectedUpTo(f[n + 1], n + 1)
    OBVIOUS
  <2>1. n \in 0..(Len(metas) - 1) /\ CollectedUpTo(f[n], n)
    BY <1>1, <1>4
  <2>2. f[n + 1] = AddMeta(f[n], metas[n + 1])
    BY <1>2, <2>1
  <2>3. CollectedUpTo(AddMeta(f[n], metas[n + 1]), n + 1)
    BY <2>1, CollectsNext
  <2> QED BY <2>2, <2>3
<1>5. Len(metas) \in U
  <2> HIDE DEF U
  <2> QED BY <1>1, <1>3, <1>4, SetInduction
<1> QED BY <1>1, <1>2, <1>5

----------------------------------------------------------------------------
(* Every group counts its records.                                          *)

(* The groups of the records, and the counts of the groups.                 *)
groupNames == [i \in 1..Len(metas) |-> GroupOf(metas[i])]
groupCounts == [g \in DOMAIN groups |-> groups[g].Count]

(* Each group counts the records that were grouped so far and belong to it. *)
TallyInv ==
  phase \in {"group", "done"} => groupCounts = TallyOf(pos - 1, groupNames, Nat)

(* Before the first record there is no group.                               *)
LEMMA FilterTallies == ASSUME SummaryInv, Filter PROVE TallyInv'
<1>1. phase = "filter" /\ pos' = 1 /\ groups' = groups
  BY DEF Filter
<1>2. groups = NoCounts
  BY <1>1 DEF SummaryInv, GroupInv
<1>3. DOMAIN groups' = {}
  BY <1>1, <1>2 DEF NoCounts
<1>4. groupCounts' = NoCounts
  BY <1>3 DEF groupCounts, NoCounts
<1>5. PICK label : label = groupNames'
  OBVIOUS
<1>6. TallyOf(0, label, Nat) = NoCounts
  BY TallyEmpty
<1>7. PICK zero : zero = 0
  OBVIOUS
<1>8. pos' - 1 = zero
  BY <1>1, <1>7
<1>9. TallyOf(zero, label, Nat) = NoCounts
  BY <1>6, <1>7
<1>10. TallyOf(pos - 1, groupNames, Nat)' = TallyOf(pos' - 1, groupNames', Nat)
  BY Zenon DEF TallyOf, Labels, Labelled, Places
<1>11. TallyOf(pos' - 1, groupNames', Nat) = NoCounts
  BY <1>5, <1>8, <1>9, Zenon
<1> QED BY <1>4, <1>10, <1>11, Zenon DEF TallyInv

(* A record is counted in its group and in no other.                        *)
LEMMA GroupKeyTallies == ASSUME SummaryInv, TallyInv, GroupKey PROVE TallyInv'
<1> DEFINE m == metas[pos]
           g == GroupOf(m)
           D == DOMAIN groups
           x == Grouped(GroupSoFar(g), m)
<1>1. /\ phase = "group" /\ inputVars' = inputVars /\ metas' = metas
      /\ pos <= Len(metas) /\ pos' = pos + 1
      /\ groups' = [h \in D \union {g} |-> IF h = g THEN x ELSE groups[h]]
  BY DEF GroupKey
<1>2. /\ pos \in Nat \ {0} /\ Len(metas) \in Nat /\ pos \in 1..Len(metas)
      /\ groupCounts = TallyOf(pos - 1, groupNames, Nat)
  BY <1>1 DEF SummaryInv, GroupInv, MetaInv, TallyInv
<1>3. x.Count = GroupSoFar(g).Count + 1
  BY DEF Grouped
<1>4. GroupSoFar(g).Count = IF g \in D THEN groups[g].Count ELSE 0
  BY DEF GroupSoFar, newGroup
<1>5. groupNames[pos] = g
  BY <1>2 DEF groupNames
<1>6. DOMAIN groupCounts = D /\ \A h \in D : groupCounts[h] = groups[h].Count /\ groups[h].Count \in Nat
  <2>1. \A h \in D : groups[h].Count \in Nat
    <3> SUFFICES ASSUME NEW h \in D PROVE groups[h].Count \in Nat
      OBVIOUS
    <3>1. IsGroup(groups[h])
      BY <1>1 DEF SummaryInv, GroupInv
    <3> QED BY <3>1 DEF IsGroup, GroupStats
  <2> QED BY <2>1 DEF groupCounts
<1> HIDE DEF m, g, x, D
<1>7. groupCounts' = [h \in D \union {g} |-> IF h = g THEN x.Count ELSE groups[h].Count]
  <2>1. DOMAIN groups' = D \union {g}
        /\ \A h \in D \union {g} : groups'[h] = IF h = g THEN x ELSE groups[h]
    BY <1>1
  <2>2. \A h \in D \union {g} : groups'[h].Count = IF h = g THEN x.Count ELSE groups[h].Count
    BY <2>1
  <2>3. groupCounts' = [h \in D \union {g} |-> groups'[h].Count]
    BY <2>1 DEF groupCounts
  <2> QED BY <2>2, <2>3
<1>8. AddCount(groupCounts, g) = [h \in D \union {g} |-> IF h = g THEN x.Count ELSE groups[h].Count]
  <2>1. \A h \in D \union {g} :
          (IF h \in D THEN groupCounts[h] ELSE 0) + (IF h = g THEN 1 ELSE 0)
            = IF h = g THEN x.Count ELSE groups[h].Count
    <3> SUFFICES ASSUME NEW h \in D \union {g}
                 PROVE  (IF h \in D THEN groupCounts[h] ELSE 0) + (IF h = g THEN 1 ELSE 0)
                          = IF h = g THEN x.Count ELSE groups[h].Count
      OBVIOUS
    <3>1. CASE h = g
      BY <1>3, <1>4, <1>6, <3>1
    <3>2. CASE h # g
      BY <1>6, <3>2
    <3> QED BY <3>1, <3>2
  <2>2. AddCount(groupCounts, g)
          = [h \in D \union {g} |->
               (IF h \in D THEN groupCounts[h] ELSE 0) + (IF h = g THEN 1 ELSE 0)]
    BY <1>6 DEF AddCount
  <2> QED BY <2>1, <2>2
<1>9. PICK k \in Nat : k = pos - 1
  BY <1>2
<1>10. k + 1 = pos /\ k + 1 \in Nat
  BY <1>2, <1>9
<1>11. TallyOf(k + 1, groupNames, Nat) = AddCount(TallyOf(k, groupNames, Nat), groupNames[k + 1])
  BY <1>10, TallyNext
<1>12. TallyOf(pos, groupNames, Nat) = AddCount(groupCounts, g)
  BY <1>2, <1>5, <1>9, <1>10, <1>11, Zenon
<1>13. groupNames' = groupNames
  <2>1. cfg' = cfg
    BY <1>1, InputsKept
  <2>2. GroupDepth' = GroupDepth
    BY <2>1 DEF GroupDepth
  <2> QED BY <1>1, <2>1, <2>2 DEF groupNames, GroupOf
<1>14. pos' - 1 = pos
  BY <1>1, <1>2
<1>15. TallyOf(pos - 1, groupNames, Nat)' = TallyOf(pos' - 1, groupNames', Nat)
  BY Zenon DEF TallyOf, Labels, Labelled, Places
<1>16. TallyOf(pos' - 1, groupNames', Nat) = TallyOf(pos, groupNames, Nat)
  BY <1>13, <1>14, Zenon
<1> QED BY <1>7, <1>8, <1>12, <1>15, <1>16, Zenon DEF TallyInv

(* Nothing is counted when nothing is grouped.                              *)
LEMMA TallyKept ==
  ASSUME TallyInv, cfg' = cfg, metas' = metas, groups' = groups, pos' = pos,
         phase' \in {"group", "done"} => phase \in {"group", "done"}
  PROVE  TallyInv'
<1>1. GroupDepth' = GroupDepth
  BY DEF GroupDepth
<1>2. groupNames' = groupNames /\ groupCounts' = groupCounts
  BY <1>1 DEF groupNames, groupCounts, GroupOf
<1>3. TallyOf(pos - 1, groupNames, Nat)' = TallyOf(pos - 1, groupNames, Nat)
  BY <1>2 DEF TallyOf, Labels, Labelled, Places
<1> QED BY <1>2, <1>3 DEF TallyInv

(* Every group counts the records that belong to it.                        *)
THEOREM GroupsCountTheirRecords == Spec => [](SummaryInv /\ TallyInv)
<1>1. Init => TallyInv
  BY DEF Init, TallyInv
<1>2. SummaryInv /\ TallyInv /\ [Next]_vars => TallyInv'
  <2> SUFFICES ASSUME SummaryInv, TallyInv, [Next]_vars PROVE TallyInv'
    OBVIOUS
  <2>1. CASE Filter
    BY <2>1, FilterTallies
  <2>2. CASE GroupKey
    BY <2>2, GroupKeyTallies
  <2>3. CASE SortAndCut
    <3>1. phase = "group" /\ inputVars' = inputVars /\ pos' = pos /\ metas' = metas /\ groups' = groups
      BY <2>3 DEF SortAndCut
    <3> QED BY <3>1, InputsKept, TallyKept
  <2>4. CASE Terminated \/ UNCHANGED vars
    <3>1. inputVars' = inputVars /\ pos' = pos /\ metas' = metas /\ groups' = groups /\ phase' = phase
      BY <2>4 DEF Terminated, vars
    <3> QED BY <3>1, InputsKept, TallyKept
  <2>5. CASE Start \/ ScanKey \/ ScanEnds \/ ReadJSONL \/ ReadFails
    <3>1. phase' \notin {"group", "done"}
      BY <2>5 DEF Start, ScanKey, ScanEnds, ReadJSONL, ReadFails
    <3> QED BY <3>1 DEF TallyInv
  <2> QED BY <2>1, <2>2, <2>3, <2>4, <2>5 DEF Next
<1> QED BY <1>1, <1>2, SummaryInductive, PTL DEF Spec

----------------------------------------------------------------------------
(* The order of equal counts does not show.                                 *)

(* Each sequence of distinct elements is an order of the set of them.       *)
LEMMA OrderOfItself ==
  ASSUME NEW D, NEW s \in Seq(D), \A i, j \in 1..Len(s) : s[i] = s[j] => i = j
  PROVE  s \in SetToSeqs(ToSet(s)) /\ IsFiniteSet(ToSet(s)) /\ ToSet(s) \subseteq D
<1> DEFINE T == ToSet(s)
<1>1. IsFiniteSet(T) /\ T \subseteq D
  BY SetOfSequence
<1>2. Len(s) \in Nat /\ T = {s[i] : i \in 1..Len(s)}
  BY DEF ToSet
<1>3. s \in [1..Len(s) -> T] /\ \A x \in T : \E i \in 1..Len(s) : s[i] = x
  BY <1>2
<1> HIDE DEF T
<1>4. s \in Seq(T)
  BY <1>2, <1>3
<1>5. Len(s) = Cardinality(T)
  BY <1>1, <1>3, <1>4, DistinctFacts
<1>6. s \in SetToSeqs(T)
  <2> DEFINE n == Cardinality(T)
  <2>1. s \in [1..n -> T] /\ \A i, j \in 1..n : i # j => s[i] # s[j]
    BY <1>3, <1>5
  <2> QED BY <2>1 DEF SetToSeqs
<1> QED BY <1>1, <1>6 DEF T

(* No place of one descending order has less than the same place of another.*)
LEMMA DescendingBelow ==
  ASSUME NEW D, IsFiniteSet(D), NEW count, \A x \in D : count[x] \in Nat,
         NEW s \in SetToSeqs(D), NEW t \in SetToSeqs(D),
         \A a, b \in 1..Len(s) : a < b => count[s[a]] >= count[s[b]],
         \A a, b \in 1..Len(t) : a < b => count[t[a]] >= count[t[b]],
         NEW i \in 1..Len(s)
  PROVE  Len(t) = Len(s) /\ count[t[i]] >= count[s[i]]
<1>1. /\ s \in Seq(D) /\ Len(s) = Cardinality(D) /\ t \in Seq(D) /\ Len(t) = Cardinality(D)
      /\ Len(s) \in Nat
      /\ \A a, b \in 1..Len(s) : s[a] = s[b] => a = b
      /\ \A x \in D : \E a \in 1..Len(t) : t[a] = x
  BY OrderFacts
<1>2. /\ \A a \in 1..Len(s) : s[a] \in D /\ t[a] \in D /\ count[s[a]] \in Nat /\ count[t[a]] \in Nat
      /\ i \in Nat /\ i <= Len(s) /\ i >= 1
  BY <1>1
<1>s. Len(t) = Len(s) /\ count[s[i]] \in Nat /\ count[t[i]] \in Nat
  BY <1>1, <1>2
<1>n. Len(s) \in Nat /\ i \in Nat /\ i <= Len(s) /\ i >= 1 /\ t \in Seq(D)
  BY <1>1, <1>2
<1> SUFFICES ASSUME count[t[i]] < count[s[i]] PROVE FALSE
  <2>1. PICK x \in Nat : x = count[s[i]]
    BY <1>s
  <2>2. PICK y \in Nat : y = count[t[i]]
    BY <1>s
  <2>3. ~(y < x) => y >= x
    OBVIOUS
  <2> QED BY <1>s, <2>1, <2>2, <2>3, Zenon
<1> DEFINE u == SubSeq(t, 1, i - 1)
           v == SubSeq(s, 1, i)
<1>3. /\ u \in Seq(D) /\ Len(u) = i - 1 /\ \A a \in 1..(i - 1) : u[a] = t[a]
      /\ v \in Seq(D) /\ Len(v) = i /\ \A a \in 1..i : v[a] = s[a]
  <2>1. t \in Seq(D) /\ i - 1 \in Nat /\ i - 1 <= Len(t) /\ \A a \in 1..(i - 1) : a \in 1..Len(t)
    <3>1. PICK n \in Nat : n = Len(s)
      BY <1>n
    <3>2. i - 1 \in Nat /\ i - 1 <= n /\ \A a \in 1..(i - 1) : a \in 1..n
      BY <1>n, <3>1
    <3> QED BY <1>s, <1>n, <3>1, <3>2
  <2>2. u \in Seq(D) /\ Len(u) = i - 1 /\ \A a \in 1..(i - 1) : u[a] = t[a]
    BY <2>1
  <2>3. s \in Seq(D) /\ i \in Nat /\ i <= Len(s)
    BY <1>1, <1>2
  <2>4. v \in Seq(D) /\ Len(v) = i /\ \A a \in 1..i : v[a] = s[a]
    BY <2>3
  <2> QED BY <2>2, <2>4
<1> HIDE DEF u, v
<1> DEFINE R == ToSet(u)
<1>4. IsFiniteSet(R) /\ Cardinality(R) \in Nat /\ Cardinality(R) <= i - 1
  BY <1>3, SetOfSequence
<1>5. ASSUME NEW a \in 1..i PROVE v[a] \in R
  <2>1. v[a] = s[a] /\ a \in 1..Len(s) /\ s[a] \in D
    BY <1>2, <1>3
  <2>2. PICK b \in 1..Len(t) : t[b] = s[a]
    BY <1>1, <2>1
  <2>3. count[s[a]] >= count[s[i]]
    <3>1. a = i \/ a < i
      BY <1>2
    <3> QED BY <1>2, <2>1, <3>1
  <2>4. b < i
    <3> SUFFICES ASSUME b >= i PROVE FALSE
      BY <1>1, <1>2
    <3>1. b = i \/ i < b
      BY <1>1, <1>2
    <3>2. b \in 1..Len(t) /\ i \in 1..Len(t) /\ b \in 1..Len(s)
      BY <1>s
    <3>3. count[t[b]] \in Nat
      BY <1>2, <3>2
    <3>4. count[t[i]] >= count[t[b]]
      <4>1. CASE b = i
        BY <1>s, <4>1
      <4>2. CASE i < b
        BY <3>2, <4>2
      <4> QED BY <3>1, <4>1, <4>2
    <3>5. count[t[b]] = count[s[a]]
      BY <2>2
    <3> QED BY <1>s, <2>3, <3>3, <3>4, <3>5
  <2>5. b \in 1..(i - 1) /\ b \in DOMAIN u
    BY <1>1, <1>2, <1>3, <2>4
  <2>6. u[b] = v[a]
    BY <1>3, <2>1, <2>2, <2>5
  <2> QED BY <2>5, <2>6 DEF ToSet
<1>6. v \in Seq(R) /\ \A a, b \in 1..Len(v) : v[a] = v[b] => a = b
  <2> HIDE DEF R
  <2>1. v \in Seq(R)
    BY <1>2, <1>3, <1>5
  <2>2. ASSUME NEW a \in 1..Len(v), NEW b \in 1..Len(v), v[a] = v[b] PROVE a = b
    <3>1. a \in 1..i /\ b \in 1..i
      BY <1>3
    <3>2. a \in 1..Len(s) /\ b \in 1..Len(s)
      BY <1>n, <3>1
    <3>3. s[a] = s[b]
      BY <1>3, <2>2, <3>1
    <3> QED BY <1>1, <3>2, <3>3
  <2> QED BY <2>1, <2>2
<1>7. Len(v) <= Cardinality(R)
  <2> HIDE DEF R
  <2>1. Len(v) \in 0..Cardinality(R)
    BY <1>4, <1>6, DistinctFacts
  <2> QED BY <1>4, <2>1
<1> QED BY <1>2, <1>3, <1>4, <1>7

(* However the sort leaves equal counts, the counts come out the same.      *)
LEMMA DescendingSame ==
  ASSUME NEW D, IsFiniteSet(D), NEW count, \A x \in D : count[x] \in Nat,
         NEW s \in SetToSeqs(D), NEW t \in SetToSeqs(D),
         \A a, b \in 1..Len(s) : a < b => count[s[a]] >= count[s[b]],
         \A a, b \in 1..Len(t) : a < b => count[t[a]] >= count[t[b]]
  PROVE  Len(t) = Len(s) /\ \A i \in 1..Len(s) : count[t[i]] = count[s[i]]
<1>1. /\ Len(s) = Cardinality(D) /\ Len(t) = Cardinality(D) /\ s \in Seq(D) /\ t \in Seq(D)
  BY OrderFacts
<1>2. ASSUME NEW i \in 1..Len(s) PROVE count[t[i]] = count[s[i]]
  <2>1. count[t[i]] >= count[s[i]]
    BY DescendingBelow
  <2>2. count[s[i]] >= count[t[i]]
    BY <1>1, DescendingBelow
  <2>3. count[t[i]] \in Nat /\ count[s[i]] \in Nat
    BY <1>1
  <2> QED BY <2>1, <2>2, <2>3
<1> QED BY <1>1, <1>2

(* What is shown of the top prefixes in a given order: the counts of the    *)
(* first topN, and behind them the sum of all others.                       *)
LEMMA OverviewRows ==
  ASSUME NEW D, IsFiniteSet(D), NEW count, DOMAIN count = D, \A x \in D : count[x] \in Nat,
         NEW s \in SetToSeqs(D)
  PROVE  /\ Len(s) \in Nat
         /\ Len(s) <= topN =>
              /\ Len(Rows(s, count)) = Len(s)
              /\ \A r \in 1..Len(s) : Rows(s, count)[r].Count = count[s[r]]
         /\ ~(Len(s) <= topN) =>
              /\ Len(Rows(s, count)) = topN + 1
              /\ \A r \in 1..topN : Rows(s, count)[r].Count = count[s[r]]
              /\ Rows(s, count)[topN + 1].Count
                   = Total([i \in 1..(Len(s) - topN) |-> count[s[topN + i]]])
<1>1. /\ s \in Seq(D) /\ Len(s) \in Nat /\ \A i, j \in 1..Len(s) : s[i] = s[j] => i = j
      /\ \A i \in 1..Len(s) : s[i] \in D /\ count[s[i]] \in Nat
  <2>1. s \in Seq(D) /\ \A i, j \in 1..Len(s) : s[i] = s[j] => i = j
    BY OrderFacts
  <2> QED BY <2>1
<1>2. topN \in Nat
  BY TopNAssumption
<1> DEFINE k == IF Len(s) <= topN THEN Len(s) ELSE topN
           front == SubSeq(s, 1, k)
           top == [r \in 1..Len(front) |-> [Prefix |-> front[r], Count |-> count[front[r]]]]
           rest == SumFunction(count) - SumFunctionOnSet(count, ToSet(front))
<1>3. Min({topN, Len(s)}) = k
  <2>1. PICK S : S = {topN, Len(s)}
    OBVIOUS
  <2>2. S \in SUBSET Int /\ k \in S /\ \A x \in S : k <= x
    BY <1>1, <1>2, <2>1
  <2> HIDE DEF k
  <2>3. Min(S) = k
    BY <2>2, MinIs
  <2> QED BY <2>1, <2>3
<1>4. k \in Nat /\ k \in 0..Len(s) /\ (Len(s) <= topN => k = Len(s)) /\ (~(Len(s) <= topN) => k = topN)
  BY <1>1, <1>2
<1>5. Rows(s, count) = IF Len(s) <= topN THEN top ELSE Append(top, [Prefix |-> "others", Count |-> rest])
  <2>1. Rows(s, count) =
          IF Len(s) <= topN
            THEN [r \in 1..Len(SubSeq(s, 1, Min({topN, Len(s)}))) |->
                    [Prefix |-> SubSeq(s, 1, Min({topN, Len(s)}))[r],
                     Count |-> count[SubSeq(s, 1, Min({topN, Len(s)}))[r]]]]
            ELSE Append([r \in 1..Len(SubSeq(s, 1, Min({topN, Len(s)}))) |->
                           [Prefix |-> SubSeq(s, 1, Min({topN, Len(s)}))[r],
                            Count |-> count[SubSeq(s, 1, Min({topN, Len(s)}))[r]]]],
                        [Prefix |-> "others",
                         Count |-> SumFunction(count)
                           - SumFunctionOnSet(count, ToSet(SubSeq(s, 1, Min({topN, Len(s)}))))])
    BY Zenon DEF Rows
  <2> HIDE DEF k
  <2> QED BY <1>3, <2>1, Zenon
<1> HIDE DEF k
<1>6. front \in Seq(D) /\ Len(front) = k /\ \A r \in 1..k : front[r] = s[r] /\ r \in 1..Len(s)
  BY <1>1, <1>4
<1> HIDE DEF front
<1>7. Len(top) = k /\ \A r \in 1..k : top[r].Count = count[s[r]]
  BY <1>4, <1>6
<1>8. ASSUME ~(Len(s) <= topN)
      PROVE  rest = Total([i \in 1..(Len(s) - topN) |-> count[s[topN + i]]])
  <2> DEFINE p == [i \in 1..Len(s) |-> count[s[i]]]
             T == ToSet(front)
  <2>1. front \in SetToSeqs(T) /\ IsFiniteSet(T) /\ T \subseteq D
    <3>1. \A i, j \in 1..Len(front) : front[i] = front[j] => i = j
      BY <1>1, <1>6
    <3> QED BY <1>6, <3>1, OrderOfItself
  <2> HIDE DEF T
  <2>2. Total([i \in 1..Len(front) |-> count[front[i]]]) = SumFunctionOnSet(count, T)
    <3>1. FoldLeft(+, 0, [i \in 1..Len(front) |-> count[front[i]]]) = SumFunctionOnSet(count, T)
      BY <2>1, SumOverOrder
    <3> QED BY <3>1, Zenon DEF Total
  <2>3. Total([i \in 1..Len(s) |-> count[s[i]]]) = SumFunctionOnSet(count, D)
    <3>1. FoldLeft(+, 0, [i \in 1..Len(s) |-> count[s[i]]]) = SumFunctionOnSet(count, D)
      BY SumOverOrder
    <3> QED BY <3>1, Zenon DEF Total
  <2>4. SumFunction(count) = SumFunctionOnSet(count, D)
    BY Zenon DEF SumFunction
  <2>5. p = [i \in 1..Len(s) |-> p[i]] /\ \A i \in 1..Len(s) : p[i] = count[s[i]] /\ p[i] \in Nat
    BY <1>1
  <2>6. [i \in 1..k |-> p[i]] = [i \in 1..Len(front) |-> count[front[i]]]
    BY <1>6
  <2>7. [i \in 1..(Len(s) - k) |-> p[k + i]] = [i \in 1..(Len(s) - k) |-> count[s[k + i]]]
    BY <1>1, <1>4
  <2>8. p = [i \in 1..Len(s) |-> count[s[i]]]
    OBVIOUS
  <2> HIDE DEF p
  <2>9. FoldLeft(+, 0, [i \in 1..Len(s) |-> p[i]])
          = FoldLeft(+, 0, [i \in 1..k |-> p[i]]) + FoldLeft(+, 0, [i \in 1..(Len(s) - k) |-> p[k + i]])
    <3>1. PICK n : n = Len(s)
      OBVIOUS
    <3>2. n \in Nat /\ k \in 0..n /\ \A i \in 1..n : p[i] \in Nat
      BY <1>1, <1>4, <2>5, <3>1
    <3>3. FoldLeft(+, 0, [i \in 1..n |-> p[i]])
            = FoldLeft(+, 0, [i \in 1..k |-> p[i]]) + FoldLeft(+, 0, [i \in 1..(n - k) |-> p[k + i]])
      BY <3>2, SumSplit
    <3> QED BY <3>1, <3>3, Zenon
  <2>10. Total(p) = Total([i \in 1..k |-> p[i]]) + Total([i \in 1..(Len(s) - k) |-> p[k + i]])
    BY <2>5, <2>9, Zenon DEF Total
  <2>11. PICK a : a = Total([i \in 1..k |-> p[i]])
    OBVIOUS
  <2>12. PICK b : b = Total([i \in 1..(Len(s) - k) |-> p[k + i]])
    OBVIOUS
  <2>13. a \in Nat /\ b \in Nat
    <3>1. [i \in 1..k |-> p[i]] \in Seq(Nat) /\ [i \in 1..(Len(s) - k) |-> p[k + i]] \in Seq(Nat)
      <4>1. k \in Nat /\ Len(s) - k \in Nat
            /\ (\A i \in 1..k : i \in 1..Len(s)) /\ \A i \in 1..(Len(s) - k) : k + i \in 1..Len(s)
        BY <1>1, <1>4
      <4>2. (\A i \in 1..k : p[i] \in Nat) /\ \A i \in 1..(Len(s) - k) : p[k + i] \in Nat
        BY <2>5, <4>1
      <4> QED BY <4>1, <4>2
    <3> QED BY <2>11, <2>12, <3>1, TotalFacts
  <2>14. SumFunction(count) = a + b /\ SumFunctionOnSet(count, ToSet(front)) = a
    <3>1. SumFunction(count) = a + b
      BY <2>3, <2>4, <2>8, <2>10, <2>11, <2>12, Zenon
    <3>2. SumFunctionOnSet(count, T) = a
      BY <2>2, <2>6, <2>11, Zenon
    <3> QED BY <3>1, <3>2 DEF T
  <2>15. rest = b
    <3>1. PICK total : total = SumFunction(count)
      OBVIOUS
    <3>2. PICK part : part = SumFunctionOnSet(count, ToSet(front))
      OBVIOUS
    <3>3. total - part = b
      BY <2>13, <2>14, <3>1, <3>2
    <3> QED BY <3>1, <3>2, <3>3, Zenon
  <2>16. k = topN
    BY <1>4, <1>8
  <2> QED BY <2>7, <2>12, <2>15, <2>16, Zenon
<1> HIDE DEF top, rest
<1>9. CASE Len(s) <= topN
  BY <1>1, <1>4, <1>5, <1>7, <1>9
<1>10. CASE ~(Len(s) <= topN)
  <2> DEFINE last == [Prefix |-> "others", Count |-> rest]
  <2>1. Rows(s, count) = Append(top, last) /\ last.Count = rest /\ k = topN
    BY <1>4, <1>5, <1>10
  <2>2. PICK T : top \in Seq(T)
    <3>1. PICK T : T = {[Prefix |-> front[r], Count |-> count[front[r]]] : r \in 1..Len(front)}
      OBVIOUS
    <3>2. \A r \in 1..Len(front) : [Prefix |-> front[r], Count |-> count[front[r]]] \in T
      BY <3>1
    <3>3. Len(front) \in Nat
      BY <1>4, <1>6
    <3>4. top \in Seq(T)
      BY <3>2, <3>3 DEF top
    <3> QED BY <3>4
  <2> HIDE DEF last
  <2>3. /\ Len(Append(top, last)) = k + 1 /\ Append(top, last)[k + 1] = last
        /\ \A r \in 1..k : Append(top, last)[r] = top[r]
    BY <1>4, <1>7, <2>2
  <2> QED BY <1>1, <1>2, <1>7, <1>8, <1>10, <2>1, <2>3
<1> QED BY <1>9, <1>10

----------------------------------------------------------------------------
(* The Overview beside the summary.                                         *)

(* An order of the prefixes by their counts, largest first.                 *)
ByCount(s, count) ==
  /\ s \in SetToSeqs(DOMAIN count)
  /\ \A a, b \in 1..Len(s) : a < b => count[s[a]] >= count[s[b]]

(* What an Overview consists of.                                            *)
LEMMA OverviewIs ==
  ASSUME MetaInv, NEW o \in ComputeGlobalStats(metas)
  PROVE  /\ metas # <<>> /\ o.stats = Collected(metas)
         /\ o.Diagnosis = Diagnosis(o.stats, o.TopPrefixes)
         /\ o.stats.prefixCount = TallyOf(Len(metas), topLevels, Nat)
         /\ IsFiniteSet(DOMAIN o.stats.prefixCount)
         /\ \A x \in DOMAIN o.stats.prefixCount : o.stats.prefixCount[x] \in Nat
         /\ \E s : ByCount(s, o.stats.prefixCount) /\ o.TopPrefixes = Rows(s, o.stats.prefixCount)
<1> DEFINE g == Collected(metas)
<1>1. PICK top \in (IF metas = <<>> THEN {} ELSE topPrefixes(g.prefixCount)) :
        o = [stats |-> g, TopPrefixes |-> top, Diagnosis |-> Diagnosis(g, top)]
  BY Zenon DEF ComputeGlobalStats
<1> HIDE DEF g
<1>2. metas # <<>> /\ top \in topPrefixes(g.prefixCount)
  BY <1>1
<1>3. o.stats = g /\ o.TopPrefixes = top /\ o.Diagnosis = Diagnosis(g, top)
  BY <1>1
<1>4. PICK count : count = g.prefixCount
  OBVIOUS
<1>5. PICK s : ByCount(s, count) /\ top = Rows(s, count)
  <2>1. top \in topPrefixes(count)
    BY <1>2, <1>4, Zenon
  <2>2. PICK s \in SetToSeqs(DOMAIN count) :
          /\ \A a, b \in 1..Len(s) : a < b => count[s[a]] >= count[s[b]]
          /\ top = Rows(s, count)
    BY <2>1 DEF topPrefixes, Descending
  <2> QED BY <2>2, Zenon DEF ByCount
<1>7. count = TallyOf(Len(metas), topLevels, Nat)
  BY <1>4, CollectsAll, Zenon DEF CollectedUpTo, g
<1>8. Len(metas) \in Nat
  BY DEF MetaInv
<1>9. IsFiniteSet(DOMAIN count) /\ \A x \in DOMAIN count : count[x] \in Nat
  <2>1. PICK n \in Nat : n = Len(metas)
    BY <1>8
  <2>2. count = TallyOf(n, topLevels, Nat)
    BY <1>7, <2>1, Zenon
  <2>3. IsFiniteSet(DOMAIN TallyOf(n, topLevels, Nat))
        /\ \A x \in DOMAIN TallyOf(n, topLevels, Nat) : TallyOf(n, topLevels, Nat)[x] \in Nat
    BY TallyFacts
  <2> QED BY <2>2, <2>3, Zenon
<1>10. o.stats.prefixCount = count
  BY <1>3, <1>4, Zenon
<1>11. \E t : ByCount(t, count) /\ o.TopPrefixes = Rows(t, count)
  BY <1>3, <1>5, Zenon
<1> QED BY <1>2, <1>3, <1>7, <1>9, <1>10, <1>11, Zenon DEF g

(* With the settings of the Overview, the groups of the summary are the top *)
(* prefixes and the sort is the same.                                       *)
LEMMA SamePrefixes ==
  ASSUME SummaryInv, TallyInv, phase = "done", SameSettings
  PROVE  groupCounts = TallyOf(Len(metas), topLevels, Nat)
<1>1. pos = Len(metas) + 1 /\ Len(metas) \in Nat
  BY DoneFacts
<1>2. GroupDepth = 2 /\ ~cfg.StripSuffix
  BY DEF SameSettings
<1>3. \A m : GroupOf(m) = GroupPrefix(m.Key, 2)
  BY <1>2 DEF GroupOf, StripLastSegmentSuffix
<1>4. groupNames = topLevels
  BY <1>3 DEF groupNames, topLevels
<1>5. pos - 1 = Len(metas)
  BY <1>1
<1> QED BY <1>4, <1>5, Zenon DEF TallyInv

(* The top prefixes have the counts of the rows, in the order of the rows.  *)
LEMMA SameRows ==
  ASSUME SummaryInv, TallyInv, phase = "done", SameSettings, NEW o \in ComputeGlobalStats(metas)
  PROVE  [r \in 1..Len(o.TopPrefixes) |-> o.TopPrefixes[r].Count]
           = [r \in 1..Len(result) |-> result[r].Count]
<1> DEFINE count == o.stats.prefixCount
           D == DOMAIN groups
<1>1. MetaInv
  BY DEF SummaryInv
<1>2. PICK s : ByCount(s, count) /\ o.TopPrefixes = Rows(s, count)
  BY <1>1, OverviewIs
<1>3. IsFiniteSet(DOMAIN count) /\ \A x \in DOMAIN count : count[x] \in Nat
  BY <1>1, OverviewIs
<1>4. count = groupCounts
  BY <1>1, OverviewIs, SamePrefixes, Zenon
<1>5. DOMAIN count = D /\ \A g \in D : count[g] = groups[g].Count
  BY <1>4 DEF groupCounts
<1> HIDE DEF count
<1>6. PICK order : Cutting(order)
  BY DoneFacts
<1>7. /\ Len(order) \in Nat /\ order \in Seq(D) /\ DOMAIN result = 1..Len(result)
      /\ \A r \in 1..Len(order) : r <= Top => result[r] = Row(order[r])
      /\ Len(result) = IF Top < Len(order) THEN Top + 1 ELSE Len(order)
      /\ Top < Len(order) => result[Top + 1] = Others(Dropped(order))
      /\ Top = topN /\ topN \in Nat
  <2>1. Top = topN /\ topN \in Nat
    BY TopNAssumption DEF SameSettings
  <2>2. \A r \in 1..Len(result) :
              \/ r \in 1..Len(order) /\ r <= Top /\ result[r] = Row(order[r])
                   /\ order[r] \in DOMAIN groups /\ result[r].OthersCount = 0
              \/ r = Top + 1 /\ Top < Len(order) /\ result[r] = Others(Dropped(order))
    BY <1>6, RowsOf
  <2>3. Len(order) \in Nat /\ order \in Seq(D) /\ DOMAIN result = 1..Len(result)
        /\ (\A r \in 1..Len(order) : r <= Top => result[r] = Row(order[r]))
        /\ Len(result) = IF Top < Len(order) THEN Top + 1 ELSE Len(order)
    BY <1>6, RowsOf
  <2>4. Top < Len(order) => result[Top + 1] = Others(Dropped(order))
    <3> SUFFICES ASSUME Top < Len(order) PROVE result[Top + 1] = Others(Dropped(order))
      OBVIOUS
    <3>1. Top + 1 \in 1..Len(result) /\ ~(Top + 1 <= Top)
      BY <2>1, <2>3
    <3> QED BY <2>2, <3>1
  <2> QED BY <2>1, <2>3, <2>4
<1>8. /\ order \in SetToSeqs(DOMAIN count)
      /\ \A a, b \in 1..Len(order) : a < b => count[order[a]] >= count[order[b]]
  <2>1. order \in SetToSeqs(D)
    BY <1>6 DEF Cutting
  <2>2. \A gs : SortValue(gs) = gs["Count"]
    BY DEF SortValue, Column, SameSettings
  <2>3. ASSUME NEW a \in 1..Len(order), NEW b \in 1..Len(order), a < b
        PROVE  count[order[a]] >= count[order[b]]
    <3>1. order[a] \in D /\ order[b] \in D
      BY <1>7
    <3>2. SortValue(groups[order[a]]) >= SortValue(groups[order[b]])
      BY <1>6, <2>3 DEF Cutting
    <3> QED BY <1>5, <2>2, <3>1, <3>2
  <2> QED BY <1>5, <2>1, <2>3
<1>9. Len(order) = Len(s) /\ \A i \in 1..Len(s) : count[order[i]] = count[s[i]]
  <2> DEFINE E == DOMAIN count
  <2>1. /\ IsFiniteSet(E) /\ s \in SetToSeqs(E) /\ order \in SetToSeqs(E)
        /\ \A x \in E : count[x] \in Nat
        /\ \A a, b \in 1..Len(s) : a < b => count[s[a]] >= count[s[b]]
    BY <1>2, <1>3, <1>8 DEF ByCount
  <2> HIDE DEF E
  <2> QED BY <1>8, <2>1, DescendingSame
<1>10. ASSUME NEW i \in 1..Len(s)
       PROVE  count[s[i]] = groups[order[i]].Count
  <2>1. order[i] \in D
    BY <1>7, <1>9
  <2> QED BY <1>5, <1>9, <2>1
<1>11. \A i \in 1..Len(s) : Row(order[i]).Count = groups[order[i]].Count
  <2> SUFFICES ASSUME NEW i \in 1..Len(s) PROVE Row(order[i]).Count = groups[order[i]].Count
    OBVIOUS
  <2>1. order[i] \in DOMAIN groups
    BY <1>7, <1>9
  <2>2. "Count" \in additive
    BY DEF additive
  <2>3. Row(order[i])["Count"] = groups[order[i]]["Count"]
    BY <2>1, <2>2, GroupValue
  <2> QED BY <2>3
<1> DEFINE R == Rows(s, count)
<1>12. /\ Len(s) <= topN =>
              /\ Len(R) = Len(s)
              /\ \A r \in 1..Len(s) : R[r].Count = count[s[r]]
       /\ ~(Len(s) <= topN) =>
              /\ Len(R) = topN + 1
              /\ \A r \in 1..topN : R[r].Count = count[s[r]]
              /\ R[topN + 1].Count
                   = Total([i \in 1..(Len(s) - topN) |-> count[s[topN + i]]])
  <2>1. s \in SetToSeqs(DOMAIN count)
    BY <1>2 DEF ByCount
  <2> QED BY <1>3, <2>1, OverviewRows
<1> HIDE DEF R
<1>13. Len(R) = Len(result) /\ \A r \in 1..Len(result) : R[r].Count = result[r].Count
  <2>1. CASE Len(s) <= topN
    <3>1. Len(R) = Len(s) /\ Len(result) = Len(s)
      BY <1>7, <1>9, <1>12, <2>1
    <3>2. ASSUME NEW r \in 1..Len(s) PROVE R[r].Count = result[r].Count
      <4>1. r <= Top /\ r \in 1..Len(order)
        BY <1>7, <1>9, <2>1
      <4>2. result[r] = Row(order[r])
        BY <1>7, <4>1
      <4> QED BY <1>10, <1>11, <1>12, <2>1, <4>2
    <3> QED BY <3>1, <3>2
  <2>2. CASE ~(Len(s) <= topN)
    <3>1. Len(R) = topN + 1 /\ Len(result) = topN + 1 /\ Top < Len(order)
      BY <1>7, <1>9, <1>12, <2>2
    <3>2. ASSUME NEW r \in 1..topN PROVE R[r].Count = result[r].Count
      <4>1. r <= Top /\ r \in 1..Len(order) /\ r \in 1..Len(s)
        BY <1>7, <1>9, <2>2
      <4>2. result[r] = Row(order[r])
        BY <1>7, <4>1
      <4> QED BY <1>10, <1>11, <1>12, <2>2, <4>1, <4>2
    <3>3. R[topN + 1].Count = result[topN + 1].Count
      <4>1. result[topN + 1] = Others(Dropped(order))
        BY <1>7, <3>1
      <4>2. "Count" \in additive
        BY DEF additive
      <4>3. Others(Dropped(order))["Count"] = Sum(Dropped(order), "Count")
        BY <4>2, OthersFacts
      <4>4. Sum(Dropped(order), "Count")
              = Total([i \in 1..(Len(order) - Top) |-> groups[order[Top + i]]["Count"]])
        BY <1>6, <3>1, <4>2, DroppedSum
      <4>5. R[topN + 1].Count = Total([i \in 1..(Len(s) - topN) |-> count[s[topN + i]]])
        BY <1>12, <2>2
      <4>6. [i \in 1..(Len(s) - topN) |-> count[s[topN + i]]]
              = [i \in 1..(Len(order) - Top) |-> groups[order[Top + i]]["Count"]]
        <5>1. Len(s) \in Nat /\ Len(order) = Len(s) /\ Top = topN /\ topN \in Nat
          BY <1>7, <1>9
        <5>2. ASSUME NEW i \in 1..(Len(s) - topN)
              PROVE  count[s[topN + i]] = groups[order[Top + i]]["Count"]
          <6>1. topN + i \in 1..Len(s)
            BY <5>1
          <6> QED BY <1>10, <5>1, <6>1
        <5> QED BY <5>1, <5>2
      <4>7. R[topN + 1].Count = Others(Dropped(order))["Count"]
        BY <4>3, <4>4, <4>5, <4>6, Zenon
      <4> QED BY <4>1, <4>7
    <3> QED BY <1>7, <3>1, <3>2, <3>3
  <2> QED BY <2>1, <2>2
<1>14. o.TopPrefixes = R
  BY <1>2 DEF R
<1> QED BY <1>13, <1>14

(* `distribute` and `summary` add up the same records alike, and with the   *)
(* settings of the Overview the rows of a summary are its top prefixes,     *)
(* whatever order equal counts are left in.                                 *)
THEOREM SameStory == Spec => []OverviewAgreesWithSummary
<1>1. SummaryInv /\ TallyInv => OverviewAgreesWithSummary
  <2> SUFFICES ASSUME SummaryInv, TallyInv, phase = "done", NEW o \in ComputeGlobalStats(metas)
               PROVE  /\ o.stats.kv.total = RowSum("TotalSize")
                      /\ o.stats.HistoryRevisionsTotal = RowSum("RevCount")
                      /\ SumFunction(o.stats.VersionBuckets) = RowSum("Count")
                      /\ SameSettings => [r \in 1..Len(o.TopPrefixes) |-> o.TopPrefixes[r].Count]
                                           = [r \in 1..Len(result) |-> result[r].Count]
    BY DEF OverviewAgreesWithSummary
  <2> DEFINE g == o.stats
  <2>1. MetaInv /\ Len(metas) \in Nat /\ DOMAIN metas = 1..Len(metas)
    BY DEF SummaryInv, MetaInv
  <2>2. g = Collected(metas)
    BY <2>1, OverviewIs
  <2>3. CollectedUpTo(g, Len(metas))
    BY <2>1, <2>2, CollectsAll
  <2> HIDE DEF g
  <2>4. /\ SumOf(result, "Count") = Len(metas)
        /\ SumOf(result, "TotalSize") = MetaSum("KvSizeBytes")
        /\ SumOf(result, "RevCount") = MetaSum("RevCount")
    BY RowsTotalMetas
  <2>5. g.kv.total = RowSum("TotalSize") /\ g.HistoryRevisionsTotal = RowSum("RevCount")
    <3>1. MetaSum("KvSizeBytes") = Total([i \in 1..Len(metas) |-> Larger(metas[i]["KvSizeBytes"], 0)])
          /\ MetaSum("RevCount") = Total([i \in 1..Len(metas) |-> Larger(metas[i]["RevCount"], 0)])
      BY <2>1, Zenon DEF MetaSum
    <3> QED BY <2>3, <2>4, <3>1, Zenon DEF CollectedUpTo, RowSum
  <2>6. SumFunction(g.VersionBuckets) = RowSum("Count")
    <3>1. PICK b : b = g.VersionBuckets
      OBVIOUS
    <3>2. b \in [1..6 -> Nat] /\ SumFunctionOnSet(b, 1..6) = Len(metas)
      BY <2>3, <3>1, Zenon DEF CollectedUpTo
    <3>3. DOMAIN b = 1..6
      BY <3>2
    <3>4. SumFunction(b) = Len(metas)
      BY <3>2, <3>3, Zenon DEF SumFunction
    <3> QED BY <2>4, <3>1, <3>4, Zenon DEF RowSum
  <2> QED BY <2>5, <2>6, SameRows DEF g
<1> QED BY <1>1, GroupsCountTheirRecords, PTL

----------------------------------------------------------------------------
(* The percentiles.                                                         *)

(* f is the walk through the first m sizes of s.                            *)
WalksThrough(f, s, c, total, m) ==
  f = [T \in SUBSET (1..m) |->
         IF T = {} THEN walkStart
                   ELSE PercentileStep(f[T \ {Max(T)}], s[Max(T)], c[s[Max(T)]], total)]

(* The recursive definition behind Walk has a solution.                *)
LEMMA WalkExists ==
  ASSUME NEW s, NEW c, NEW total, NEW m \in Nat
  PROVE  \E f : WalksThrough(f, s, c, total, m)
<1> DEFINE Value(f, T) == IF T = {} THEN walkStart ELSE PercentileStep(f[T \ {Max(T)}], s[Max(T)], c[s[Max(T)]], total)
           Solution(f, n) == \A T \in SUBSET (1..n) : f[T] = Value(f, T)
           U == {n \in Nat : \E f : Solution(f, n)}
<1>1. 0 \in U
  <2> DEFINE g == [T \in SUBSET (1..0) |-> walkStart]
  <2>1. ASSUME NEW T \in SUBSET (1..0) PROVE T = {}
    OBVIOUS
  <2>2. Solution(g, 0)
    BY <2>1
  <2> HIDE DEF g, Solution
  <2> QED BY <2>2
<1>2. ASSUME NEW n \in Nat, n \in U PROVE n + 1 \in U
  <2>1. PICK g : Solution(g, n)
    <3> HIDE DEF Solution
    <3> QED BY <1>2
  <2> DEFINE h == [T \in SUBSET (1..(n+1)) |-> IF T \in SUBSET (1..n) THEN g[T] ELSE Value(g, T)]
  <2>2. ASSUME NEW T \in SUBSET (1..n) PROVE T \in SUBSET (1..(n+1)) /\ h[T] = g[T]
    <3>1. T \in SUBSET (1..(n+1))
      OBVIOUS
    <3> HIDE DEF Value
    <3> QED BY <3>1
  <2>3. Solution(h, n+1)
    <3> SUFFICES ASSUME NEW T \in SUBSET (1..(n+1)) PROVE h[T] = Value(h, T)
      OBVIOUS
    <3>1. CASE T \notin SUBSET (1..n)
      <4>1. n + 1 \in T /\ T # {}
        BY <3>1
      <4>2. Max(T) = n + 1
        BY <4>1, MaxOfPrefix
      <4>3. T \ {Max(T)} \in SUBSET (1..n)
        BY <4>2
      <4>4. h[T \ {Max(T)}] = g[T \ {Max(T)}]
        BY <2>2, <4>3
      <4>5. h[T] = Value(g, T)
        <5> HIDE DEF Value
        <5> QED BY <3>1
      <4> HIDE DEF h
      <4> QED BY <4>1, <4>4, <4>5, Zenon
    <3>2. CASE T \in SUBSET (1..n) /\ T # {}
      <4>2. T \ {Max(T)} \in SUBSET (1..n)
        BY <3>2
      <4>3. h[T] = g[T] /\ h[T \ {Max(T)}] = g[T \ {Max(T)}]
        BY <2>2, <3>2, <4>2
      <4>4. g[T] = Value(g, T)
        <5> HIDE DEF Value
        <5> QED BY <2>1, <3>2
      <4> HIDE DEF h
      <4> QED BY <3>2, <4>3, <4>4, Zenon
    <3>3. CASE T = {}
      <4>1. T \in SUBSET (1..n)
        BY <3>3
      <4>2. h[T] = g[T]
        BY <2>2, <4>1
      <4>3. g[T] = Value(g, T)
        <5> HIDE DEF Value
        <5> QED BY <2>1, <4>1
      <4> HIDE DEF h
      <4> QED BY <3>3, <4>2, <4>3, Zenon
    <3> QED BY <3>1, <3>2, <3>3
  <2> HIDE DEF h, Solution
  <2> QED BY <2>3
<1>3. m \in U
  <2> HIDE DEF U
  <2> QED BY <1>1, <1>2, SetInduction
<1>4. PICK f : Solution(f, m)
  <2> HIDE DEF Solution
  <2> QED BY <1>3
<1> DEFINE g == [T \in SUBSET (1..m) |-> f[T]]
<1>5. ASSUME NEW T \in SUBSET (1..m) PROVE f[T] = Value(g, T)
  <2>1. T \ {Max(T)} \in SUBSET (1..m)
    OBVIOUS
  <2>2. g[T \ {Max(T)}] = f[T \ {Max(T)}]
    BY <2>1
  <2>3. f[T] = Value(f, T)
    <3> HIDE DEF Value
    <3> QED BY <1>4
  <2> HIDE DEF g
  <2> QED BY <2>2, <2>3, Zenon
<1>6. g = [T \in SUBSET (1..m) |-> Value(g, T)]
  <2>1. g = [T \in SUBSET (1..m) |-> f[T]]
    OBVIOUS
  <2> HIDE DEF g, Value
  <2> QED BY <1>5, <2>1
<1> HIDE DEF g
<1>7. WalksThrough(g, s, c, total, m)
  BY <1>6, Zenon DEF WalksThrough
<1> QED BY <1>7

(* The sizes are walked through one by one.                                 *)
LEMMA WalkEquation ==
  ASSUME NEW S, NEW s \in Seq(S), NEW c, NEW total
  PROVE  \E f : /\ Walk(c, total, s) = f[Len(s)] /\ f[0] = walkStart
                /\ \A n \in 0..(Len(s) - 1) : f[n + 1] = PercentileStep(f[n], s[n + 1], c[s[n + 1]], total)
<1> DEFINE P(f) == f = [T \in SUBSET (1..Len(s)) |->
                         IF T = {} THEN walkStart ELSE PercentileStep(f[T \ {Max(T)}], s[Max(T)], c[s[Max(T)]], total)]
<1>1. Len(s) \in Nat /\ DOMAIN s = 1..Len(s)
  OBVIOUS
<1>2. \E f : P(f)
  <2>1. \E f : WalksThrough(f, s, c, total, Len(s))
    BY <1>1, WalkExists
  <2> QED BY <2>1, Zenon DEF WalksThrough
<1>3. P(CHOOSE f : P(f))
  BY <1>2, Zenon
<1>4. Walk(c, total, s) = (CHOOSE f : P(f))[1..Len(s)]
  BY <1>1, Zenon DEF Walk, FoldLeft, MapThenFoldSet
<1>5. PICK g : P(g) /\ Walk(c, total, s) = g[1..Len(s)]
  BY <1>3, <1>4, Zenon
<1>6. ASSUME NEW T \in SUBSET (1..Len(s))
      PROVE  g[T] = IF T = {} THEN walkStart ELSE PercentileStep(g[T \ {Max(T)}], s[Max(T)], c[s[Max(T)]], total)
  <2>1. P(g)
    BY <1>5
  <2> QED BY <2>1, Zenon
<1> DEFINE f == [n \in 0..Len(s) |-> g[1..n]]
<1>7. f[0] = walkStart
  <2>1. f[0] = g[1..0] /\ 1..0 = {}
    BY <1>1
  <2>2. {} \in SUBSET (1..Len(s))
    OBVIOUS
  <2> HIDE DEF f
  <2> QED BY <1>6, <2>1, <2>2, Zenon
<1>8. ASSUME NEW n \in 0..(Len(s) - 1) PROVE f[n + 1] = PercentileStep(f[n], s[n + 1], c[s[n + 1]], total)
  <2>1. f[n + 1] = g[1..(n + 1)] /\ f[n] = g[1..n]
    BY <1>1
  <2>2. 1..(n + 1) \in SUBSET (1..Len(s)) /\ 1..(n + 1) # {}
    <3>1. n + 1 \in 1..Len(s)
      BY <1>1
    <3>2. \A i \in 1..(n + 1) : i \in 1..Len(s)
      BY <1>1
    <3>3. n + 1 \in 1..(n + 1)
      BY <1>1
    <3> QED BY <3>2, <3>3, Zenon
  <2>3. Max(1..(n + 1)) = n + 1
    BY MaxOfPrefix
  <2>4. (1..(n + 1)) \ {n + 1} = 1..n
    OBVIOUS
  <2> HIDE DEF f
  <2> QED BY <1>6, <2>1, <2>2, <2>3, <2>4, Zenon
<1>9. Walk(c, total, s) = f[Len(s)]
  <2>1. f[Len(s)] = g[1..Len(s)]
    BY <1>1
  <2> HIDE DEF f
  <2> QED BY <1>5, <2>1, Zenon
<1> HIDE DEF f
<1> QED BY <1>7, <1>8, <1>9, Zenon

(* The sizes up to x, and the first k sizes of an order.                    *)
UpTo(D, x) == {y \in D : y <= x}
FirstOf(t, k) == {t[i] : i \in 1..k}

(* x is a size that, with the smaller ones, has `part` percent of all keys. *)
Covers(counts, x, part) ==
  /\ x \in DOMAIN counts
  /\ SumFunctionOnSet(counts, UpTo(DOMAIN counts, x)) * 100 >= part * SumFunction(counts)

Ascending(t) == \A i, j \in 1..Len(t) : i < j => t[i] < t[j]

(* Counts of sizes.                                                         *)
SizeCounts(counts) ==
  /\ IsFiniteSet(DOMAIN counts) /\ DOMAIN counts \subseteq Nat
  /\ \A x \in DOMAIN counts : counts[x] \in Nat

WalkState == [j : 1..8, cur : Nat, data : [1..7 -> Nat]]

(* The walk after k sizes: the percentiles passed so far are covered.       *)
Walked(st, counts, t, k) ==
  /\ st \in WalkState
  /\ st.cur = SumFunctionOnSet(counts, FirstOf(t, k))
  /\ \A p \in 1..7 : p < st.j => Covers(counts, st.data[p], pctls[p])

(* The thresholds of the percentiles.                                       *)
LEMMA ThresholdFacts == Len(pctls) = 7 /\ \A p \in 1..7 : pctls[p] \in 1..99
<1>1. pctls = <<10, 25, 50, 75, 90, 95, 99>>
  BY DEF pctls
<1>2. \A p \in 1..7 : p = 1 \/ p = 2 \/ p = 3 \/ p = 4 \/ p = 5 \/ p = 6 \/ p = 7
  OBVIOUS
<1> QED BY <1>1, <1>2

(* A finite set of natural numbers can be put in order, and InOrder does.   *)
LEMMA InOrderFacts ==
  ASSUME NEW D \in SUBSET Nat, IsFiniteSet(D)
  PROVE  InOrder(D) \in SetToSeqs(D) /\ Ascending(InOrder(D))
<1> DEFINE V == {x + 1 : x \in D}
<1>1. V \in SUBSET (Nat \ {0})
  OBVIOUS
<1> DEFINE up == [x \in D |-> x + 1]
<1>2. IsFiniteSet(V) /\ Cardinality(V) = Cardinality(D)
  <2>1. up \in Surjection(D, V) /\ up \in Injection(D, V)
    <3>1. up \in [D -> V] /\ \A x \in D : up[x] = x + 1
      OBVIOUS
    <3>2. \A y \in V : \E x \in D : up[x] = y
      BY <3>1
    <3>3. \A x, y \in D : up[x] = up[y] => x = y
      BY <3>1
    <3> HIDE DEF up, V
    <3> QED BY <3>1, <3>2, <3>3 DEF Surjection, Injection, IsInjective
  <2> HIDE DEF up, V
  <2> QED BY <2>1, FS_Surjection
<1> HIDE DEF V
<1>3. PICK u \in SetToSeqs(V) : \A i, j \in 1..Len(u) : i < j => u[i] < u[j]
  BY <1>1, <1>2, EnumerationExists
<1>4. /\ u \in Seq(V) /\ u \in [1..Cardinality(V) -> V] /\ Len(u) = Cardinality(V)
      /\ Cardinality(V) \in Nat
  BY <1>2, OrderFacts
<1>5. \A i \in 1..Len(u) : u[i] - 1 \in D /\ u[i] \in Nat
  <2>1. \A x \in V : x - 1 \in D /\ x \in Nat
    BY DEF V
  <2> QED BY <1>4, <2>1
<1> DEFINE n == Cardinality(D)
           t == [i \in 1..n |-> u[i] - 1]
<1>6. n \in Nat /\ Len(u) = n
  BY <1>2, <1>4
<1>7. t \in [1..n -> D] /\ Len(t) = n
  BY <1>5, <1>6
<1>8. \A i, j \in 1..n : i < j => t[i] < t[j]
  <2> SUFFICES ASSUME NEW i \in 1..n, NEW j \in 1..n, i < j PROVE t[i] < t[j]
    OBVIOUS
  <2>1. u[i] < u[j] /\ u[i] \in Nat /\ u[j] \in Nat
    BY <1>3, <1>5, <1>6
  <2> QED BY <2>1
<1>9. \A i \in 1..n : t[i] \in Nat
  BY <1>7
<1> HIDE DEF t, n
<1>10. \A i, j \in 1..n : i # j => t[i] # t[j]
  <2> SUFFICES ASSUME NEW i \in 1..n, NEW j \in 1..n, i # j PROVE t[i] # t[j]
    OBVIOUS
  <2>1. i < j \/ j < i
    BY <1>6
  <2>2. t[i] < t[j] \/ t[j] < t[i]
    BY <1>8, <2>1
  <2> QED BY <1>9, <2>2
<1>11. t \in SetToSeqs(D)
  BY <1>7, <1>10 DEF SetToSeqs, n
<1>12. \E s \in SetToSeqs(D) : \A i, j \in 1..Len(s) : i < j => s[i] < s[j]
  BY <1>7, <1>8, <1>11
<1>13. /\ InOrder(D) \in SetToSeqs(D)
       /\ \A i, j \in 1..Len(InOrder(D)) : i < j => InOrder(D)[i] < InOrder(D)[j]
  BY <1>12, Zenon DEF InOrder
<1> QED BY <1>13, Zenon DEF Ascending

(* In an ascending order the first k sizes are those up to the k-th.        *)
LEMMA FirstAreUpTo ==
  ASSUME NEW D \in SUBSET Nat, IsFiniteSet(D), NEW t \in SetToSeqs(D), Ascending(t),
         NEW k \in 1..Len(t)
  PROVE  FirstOf(t, k) = UpTo(D, t[k])
<1>1. /\ t \in Seq(D) /\ Len(t) \in Nat /\ \A x \in D : \E i \in 1..Len(t) : t[i] = x
  BY OrderFacts
<1>2. \A i \in 1..Len(t) : t[i] \in D /\ t[i] \in Nat
  <2>1. \A i \in 1..Len(t) : t[i] \in D
    BY <1>1
  <2> QED BY <2>1
<1>3. k \in Nat /\ k <= Len(t) /\ \A i \in 1..k : i \in 1..Len(t) /\ (i = k \/ i < k)
  BY <1>1
<1>4. ASSUME NEW i \in 1..k PROVE t[i] \in UpTo(D, t[k])
  <2>1. t[i] <= t[k]
    BY <1>2, <1>3 DEF Ascending
  <2> QED BY <1>2, <1>3, <2>1 DEF UpTo
<1>5. ASSUME NEW x \in UpTo(D, t[k]) PROVE x \in FirstOf(t, k)
  <2>1. x \in D /\ x <= t[k] /\ x \in Nat
    BY DEF UpTo
  <2>2. PICK i \in 1..Len(t) : t[i] = x
    BY <1>1, <2>1
  <2>3. ~(k < i)
    BY <1>2, <2>1, <2>2 DEF Ascending
  <2>4. i \in 1..k
    BY <1>1, <1>3, <2>3
  <2> QED BY <2>2, <2>4 DEF FirstOf
<1> QED BY <1>4, <1>5 DEF FirstOf

(* One size more.                                                           *)
LEMMA WalkKeeps ==
  ASSUME NEW counts, SizeCounts(counts), NEW t \in SetToSeqs(DOMAIN counts), Ascending(t),
         NEW k \in 0..(Len(t) - 1), NEW st, Walked(st, counts, t, k),
         SumFunction(counts) \in Nat
  PROVE  Walked(PercentileStep(st, t[k + 1], counts[t[k + 1]], SumFunction(counts)), counts, t, k + 1)
<1> DEFINE D == DOMAIN counts
           x == t[k + 1]
           n == SumFunction(counts)
           new == PercentileStep(st, x, counts[x], n)
<1>1. /\ IsFiniteSet(D) /\ D \in SUBSET Nat /\ t \in SetToSeqs(D)
      /\ \A y \in D : counts[y] \in Nat
  BY DEF SizeCounts
<1> HIDE DEF D
<1>2. /\ t \in Seq(D) /\ Len(t) \in Nat
      /\ \A i, j \in 1..Len(t) : t[i] = t[j] => i = j
  BY <1>1, OrderFacts
<1>3. k \in Nat /\ k + 1 \in 1..Len(t) /\ \A i \in 1..k : i \in 1..Len(t) /\ i # k + 1
  BY <1>2
<1>4. x \in D /\ x \in Nat /\ counts[x] \in Nat
  <2>1. x \in D
    BY <1>2, <1>3
  <2> HIDE DEF x
  <2> QED BY <1>1, <2>1
<1>5. /\ st \in WalkState /\ st.cur = SumFunctionOnSet(counts, FirstOf(t, k))
      /\ \A p \in 1..7 : p < st.j => Covers(counts, st.data[p], pctls[p])
  BY DEF Walked
<1>6. SumFunctionOnSet(counts, FirstOf(t, k + 1)) = st.cur + counts[x]
  <2> DEFINE S == FirstOf(t, k)
  <2>1. S \subseteq D /\ x \notin S /\ FirstOf(t, k + 1) = S \union {x}
    <3>1. S \subseteq D
      BY <1>2, <1>3 DEF FirstOf
    <3>2. x \notin S
      BY <1>2, <1>3 DEF FirstOf
    <3>3. \A i \in 1..(k + 1) : i \in 1..k \/ i = k + 1
      BY <1>3
    <3>4. FirstOf(t, k + 1) = S \union {x}
      BY <1>3, <3>3 DEF FirstOf
    <3> QED BY <3>1, <3>2, <3>4
  <2> HIDE DEF S
  <2>2. IsFiniteSet(S) /\ \A y \in S : counts[y] \in Nat
    BY <1>1, <2>1, FS_Subset
  <2>3. SumFunctionOnSet(counts, S \union {x}) = counts[x] + SumFunctionOnSet(counts, S)
    BY <1>4, <2>1, <2>2, SetSumAdd
  <2>4. SumFunctionOnSet(counts, S) = st.cur /\ st.cur \in Nat
    BY <1>5 DEF S, WalkState
  <2>5. counts[x] + SumFunctionOnSet(counts, S) = st.cur + counts[x]
    BY <1>4, <2>4
  <2> QED BY <2>1, <2>3, <2>5, Zenon
<1>7. FirstOf(t, k + 1) = UpTo(D, x)
  BY <1>1, <1>3, FirstAreUpTo
<1>8. SumFunctionOnSet(counts, UpTo(D, x)) = st.cur + counts[x]
  BY <1>6, <1>7, Zenon
<1>9. Len(pctls) = 7 /\ \A p \in 1..7 : pctls[p] \in 1..99
  BY ThresholdFacts
<1>10. st.j \in 1..8 /\ st.cur \in Nat /\ st.data \in [1..7 -> Nat]
  BY <1>5 DEF WalkState
<1>j. PICK j \in 1..8 : j = st.j
  BY <1>10
<1>k. PICK cur \in Nat : cur = st.cur
  BY <1>10
<1>m. PICK c \in Nat : c = counts[x]
  BY <1>4
<1> DEFINE passed == st.j <= 7 /\ (st.cur + counts[x]) * 100 >= pctls[st.j] * n
<1>11. new = IF passed
               THEN [j |-> st.j + 1, cur |-> st.cur + counts[x], data |-> [st.data EXCEPT ![st.j] = x]]
               ELSE [st EXCEPT !.cur = st.cur + counts[x]]
  BY <1>9 DEF PercentileStep
<1> HIDE DEF x, n, new
<1>c. st.cur + counts[x] \in Nat
  <2>1. cur + c \in Nat
    OBVIOUS
  <2> QED BY <1>k, <1>m, <2>1, Zenon
<1>12. new.cur = SumFunctionOnSet(counts, FirstOf(t, k + 1))
  <2>1. new.cur = st.cur + counts[x]
    BY <1>5, <1>11 DEF WalkState
  <2> QED BY <1>6, <2>1, Zenon DEF x
<1>13. CASE passed
  <2>1. /\ new.j = st.j + 1 /\ new.data = [st.data EXCEPT ![st.j] = x]
        /\ new = [j |-> st.j + 1, cur |-> st.cur + counts[x], data |-> [st.data EXCEPT ![st.j] = x]]
    BY <1>11, <1>13
  <2>j. st.j <= 7 /\ new.j = st.j + 1
    BY <1>13, <2>1, Zenon
  <2>2. st.j \in 1..7 /\ st.j + 1 \in 1..8
    <3>1. j <= 7
      BY <1>j, <2>j, Zenon
    <3>2. j \in 1..7 /\ j + 1 \in 1..8
      BY <3>1
    <3> QED BY <1>j, <3>2, Zenon
  <2>3. [st.data EXCEPT ![st.j] = x] \in [1..7 -> Nat]
    BY <1>4, <1>10
  <2>4. new \in WalkState
    BY <1>c, <2>1, <2>2, <2>3 DEF WalkState
  <2>5. ASSUME NEW p \in 1..7, p < new.j PROVE Covers(counts, new.data[p], pctls[p])
    <3>1. CASE p = st.j
      <4>1. new.data[p] = x
        BY <1>10, <2>1, <2>2, <3>1
      <4>2. (st.cur + counts[x]) * 100 >= pctls[p] * n
        BY <1>13, <3>1
      <4>3. Covers(counts, x, pctls[p])
        BY <1>4, <1>8, <4>2 DEF Covers, D, n
      <4> QED BY <4>1, <4>3
    <3>2. CASE p # st.j
      <4>1. p < st.j
        <5>1. p < st.j + 1
          BY <2>5, <2>j, Zenon
        <5>2. p < j + 1 /\ p # j
          BY <1>j, <3>2, <5>1, Zenon
        <5>3. p < j
          BY <5>2
        <5> QED BY <1>j, <5>3, Zenon
      <4>2. new.data[p] = st.data[p]
        BY <1>10, <2>1, <2>2, <3>2
      <4> QED BY <1>5, <4>1, <4>2
    <3> QED BY <3>1, <3>2
  <2> QED BY <1>12, <2>4, <2>5 DEF Walked, new, n, x
<1>14. CASE ~passed
  <2>1. new = [st EXCEPT !.cur = st.cur + counts[x]]
    BY <1>11, <1>14
  <2>2. new \in WalkState /\ new.j = st.j /\ new.data = st.data
    BY <1>c, <1>5, <2>1 DEF WalkState
  <2> QED BY <1>5, <1>12, <2>2 DEF Walked, new, n, x
<1> QED BY <1>13, <1>14

(* Each percentile is a size that covers its share of the keys.             *)
LEMMA PercentilesCover ==
  ASSUME NEW counts, SizeCounts(counts), DOMAIN counts # {}, NEW p \in 1..7
  PROVE  Covers(counts, percentiles(counts)[p], pctls[p])
<1> DEFINE D == DOMAIN counts
           t == InOrder(D)
           n == SumFunction(counts)
           st == Walk(counts, n, t)
<1>1. IsFiniteSet(D) /\ D \in SUBSET Nat /\ D # {} /\ \A x \in D : counts[x] \in Nat
  BY DEF SizeCounts
<1>2. n = SumFunctionOnSet(counts, D)
  BY Zenon DEF SumFunction
<1>3. n \in Nat
  <2> HIDE DEF D, n
  <2> QED BY <1>1, <1>2, SetSumType
<1>4. t \in SetToSeqs(D) /\ Ascending(t)
  <2> HIDE DEF D
  <2> QED BY <1>1, InOrderFacts
<1>5. percentiles(counts) = [q \in 1..Len(pctls) |-> IF q >= st.j THEN Last(t) ELSE st.data[q]]
  BY Zenon DEF percentiles
<1>6. percentiles(counts)[p] = IF p >= st.j THEN Last(t) ELSE st.data[p]
  <2> HIDE DEF st, t
  <2> QED BY <1>5, ThresholdFacts
<1> HIDE DEF t
<1>7. t \in Seq(D) /\ Len(t) \in Nat /\ ToSet(t) = D /\ Len(t) = Cardinality(D)
  <2> HIDE DEF D
  <2> QED BY <1>1, <1>4, OrderFacts
<1>8. PICK f : /\ st = f[Len(t)] /\ f[0] = walkStart
               /\ \A k \in 0..(Len(t) - 1) : f[k + 1] = PercentileStep(f[k], t[k + 1], counts[t[k + 1]], n)
  <2> HIDE DEF D, n
  <2> QED BY <1>7, WalkEquation
<1> HIDE DEF st
<1> DEFINE U == {k \in Nat : k <= Len(t) => Walked(f[k], counts, t, k)}
<1>9. 0 \in U
  <2>1. walkStart \in WalkState /\ walkStart.cur = 0 /\ walkStart.j = 1
    BY ThresholdFacts DEF walkStart, WalkState
  <2>2. FirstOf(t, 0) = {}
    BY DEF FirstOf
  <2>3. SumFunctionOnSet(counts, FirstOf(t, 0)) = 0
    BY <2>2, SetSumEmpty
  <2>4. Walked(walkStart, counts, t, 0)
    BY <2>1, <2>3 DEF Walked
  <2> QED BY <1>8, <2>4
<1>10. ASSUME NEW k \in Nat, k \in U PROVE k + 1 \in U
  <2> SUFFICES ASSUME k + 1 <= Len(t) PROVE Walked(f[k + 1], counts, t, k + 1)
    OBVIOUS
  <2>1. k \in 0..(Len(t) - 1) /\ Walked(f[k], counts, t, k)
    BY <1>7, <1>10
  <2>2. f[k + 1] = PercentileStep(f[k], t[k + 1], counts[t[k + 1]], SumFunction(counts))
    BY <1>8, <2>1
  <2>3. Walked(PercentileStep(f[k], t[k + 1], counts[t[k + 1]], SumFunction(counts)), counts, t, k + 1)
    BY <1>3, <1>4, <2>1, WalkKeeps
  <2> QED BY <2>2, <2>3, Zenon
<1>11. Walked(st, counts, t, Len(t))
  <2>1. Len(t) \in U
    <3> HIDE DEF U
    <3> QED BY <1>7, <1>9, <1>10, SetInduction
  <2> QED BY <1>7, <1>8, <2>1
<1>12. CASE p >= st.j
  <2>1. Len(t) \in 1..Len(t)
    <3>1. t # <<>>
      BY <1>1, <1>7 DEF ToSet
    <3> QED BY <1>7, <3>1
  <2>2. Last(t) = t[Len(t)]
    BY DEF Last
  <2>3. FirstOf(t, Len(t)) = UpTo(D, t[Len(t)])
    <3> HIDE DEF D
    <3> QED BY <1>1, <1>4, <2>1, FirstAreUpTo
  <2>4. FirstOf(t, Len(t)) = D
    BY <1>7 DEF FirstOf, ToSet
  <2>5. SumFunctionOnSet(counts, UpTo(D, Last(t))) = n
    BY <1>2, <2>2, <2>3, <2>4, Zenon
  <2>6. Last(t) \in D
    BY <1>7, <2>1, <2>2
  <2>7. n * 100 >= pctls[p] * n
    <3>1. PICK q \in 1..99 : q = pctls[p]
      BY ThresholdFacts
    <3> HIDE DEF n
    <3>2. n * 100 >= q * n
      <4>1. n * 100 - q * n = n * (100 - q)
        BY <1>3
      <4>2. n * (100 - q) \in Nat
        BY <1>3
      <4> QED BY <1>3, <4>1, <4>2
    <3> QED BY <3>1, <3>2
  <2>8. Covers(counts, Last(t), pctls[p])
    BY <2>5, <2>6, <2>7 DEF Covers
  <2> QED BY <1>6, <1>12, <2>8
<1>13. CASE ~(p >= st.j)
  <2>1. st.j \in 1..8
    BY <1>11 DEF Walked, WalkState
  <2>2. p < st.j
    BY <1>13, <2>1
  <2>3. Covers(counts, st.data[p], pctls[p])
    BY <1>11, <2>2 DEF Walked
  <2> QED BY <1>6, <1>13, <2>3
<1> QED BY <1>12, <1>13

----------------------------------------------------------------------------
(* The verdicts.                                                            *)

(* The verdict about the counts reads nothing but the counts, which are the *)
(* same in every order.                                                     *)
LEMMA SameCountVerdict ==
  ASSUME NEW count, IsFiniteSet(DOMAIN count), DOMAIN count # {},
         \A x \in DOMAIN count : count[x] \in Nat,
         NEW s, ByCount(s, count), NEW t, ByCount(t, count), NEW total
  PROVE  CountVerdict(Rows(s, count), total) = CountVerdict(Rows(t, count), total)
<1> DEFINE D == DOMAIN count
           R == Rows(s, count)
           Q == Rows(t, count)
<1>1. /\ IsFiniteSet(D) /\ D # {} /\ \A x \in D : count[x] \in Nat
      /\ s \in SetToSeqs(D) /\ t \in SetToSeqs(D)
      /\ \A a, b \in 1..Len(s) : a < b => count[s[a]] >= count[s[b]]
      /\ \A a, b \in 1..Len(t) : a < b => count[t[a]] >= count[t[b]]
  BY DEF ByCount
<1>2. Len(t) = Len(s) /\ \A i \in 1..Len(s) : count[t[i]] = count[s[i]]
  <2> HIDE DEF D
  <2> QED BY <1>1, DescendingSame
<1>3. Len(s) \in Nat \ {0}
  <2>1. Len(s) \in Nat /\ \A x \in D : \E i \in 1..Len(s) : s[i] = x
    <3> HIDE DEF D
    <3> QED BY <1>1, OrderFacts
  <2> QED BY <1>1, <2>1
<1>4. topN \in Nat /\ topN >= 3
  BY TopNAssumption
<1>5. /\ Len(s) <= topN =>
              /\ Len(R) = Len(s)
              /\ \A r \in 1..Len(s) : R[r].Count = count[s[r]]
      /\ ~(Len(s) <= topN) =>
              /\ Len(R) = topN + 1
              /\ \A r \in 1..topN : R[r].Count = count[s[r]]
              /\ R[topN + 1].Count = Total([i \in 1..(Len(s) - topN) |-> count[s[topN + i]]])
  BY <1>1, OverviewRows
<1>6. /\ Len(t) <= topN =>
              /\ Len(Q) = Len(t)
              /\ \A r \in 1..Len(t) : Q[r].Count = count[t[r]]
      /\ ~(Len(t) <= topN) =>
              /\ Len(Q) = topN + 1
              /\ \A r \in 1..topN : Q[r].Count = count[t[r]]
              /\ Q[topN + 1].Count = Total([i \in 1..(Len(t) - topN) |-> count[t[topN + i]]])
  BY <1>1, OverviewRows
<1> HIDE DEF R, Q, D
<1>7. Len(R) = Len(Q) /\ Len(R) \in Nat \ {0} /\ \A r \in 1..Len(R) : R[r].Count = Q[r].Count
  <2>1. CASE Len(s) <= topN
    BY <1>2, <1>3, <1>5, <1>6, <2>1
  <2>2. CASE ~(Len(s) <= topN)
    <3>1. Len(R) = topN + 1 /\ Len(Q) = topN + 1
      BY <1>2, <1>5, <1>6, <2>2
    <3>2. ASSUME NEW r \in 1..topN PROVE R[r].Count = Q[r].Count
      <4>1. r \in 1..Len(s)
        BY <1>3, <1>4, <2>2
      <4> QED BY <1>2, <1>5, <1>6, <2>2, <4>1
    <3>3. R[topN + 1].Count = Q[topN + 1].Count
      <4>1. [i \in 1..(Len(s) - topN) |-> count[s[topN + i]]]
              = [i \in 1..(Len(t) - topN) |-> count[t[topN + i]]]
        <5>1. ASSUME NEW i \in 1..(Len(s) - topN) PROVE count[s[topN + i]] = count[t[topN + i]]
          <6>1. topN + i \in 1..Len(s)
            BY <1>3, <1>4
          <6> QED BY <1>2, <6>1
        <5> QED BY <1>2, <5>1
      <4> QED BY <1>2, <1>5, <1>6, <2>2, <4>1, Zenon
    <3>4. \A r \in 1..(topN + 1) : r \in 1..topN \/ r = topN + 1
      BY <1>4
    <3> QED BY <1>4, <3>1, <3>2, <3>3, <3>4
  <2> QED BY <2>1, <2>2
<1>8. Min({3, Len(R)}) \in Nat /\ Min({3, Len(R)}) <= Len(R)
  <2>1. PICK S : S = {3, Len(R)}
    OBVIOUS
  <2> DEFINE m == IF 3 <= Len(R) THEN 3 ELSE Len(R)
  <2>2. S \in SUBSET Int /\ m \in S /\ (\A x \in S : m <= x) /\ m \in Nat /\ m <= Len(R)
    BY <1>7, <2>1
  <2> HIDE DEF m
  <2>3. Min(S) = m
    BY <2>2, MinIs
  <2> QED BY <2>1, <2>2, <2>3
<1> DEFINE u == [r \in 1..Min({3, Len(R)}) |-> R[r].Count]
           v == [r \in 1..Min({3, Len(Q)}) |-> Q[r].Count]
<1>9. u = v
  <2>1. PICK m : m = Min({3, Len(R)})
    OBVIOUS
  <2>2. m = Min({3, Len(Q)}) /\ m <= Len(R)
    BY <1>7, <1>8, <2>1, Zenon
  <2>3. [r \in 1..m |-> R[r].Count] = [r \in 1..m |-> Q[r].Count]
    <3>1. ASSUME NEW r \in 1..m PROVE R[r].Count = Q[r].Count
      <4>1. m \in Nat
        BY <1>8, <2>1
      <4>2. r \in 1..Len(R)
        BY <1>7, <2>2, <4>1
      <4> QED BY <1>7, <4>2
    <3> QED BY <3>1
  <2> QED BY <2>1, <2>2, <2>3, Zenon
<1>10. R[1].Count = Q[1].Count
  <2>1. 1 \in 1..Len(R)
    BY <1>7
  <2> QED BY <1>7, <2>1
<1>11. FoldLeft(+, 0, u) = FoldLeft(+, 0, v)
  <2> HIDE DEF u, v
  <2> QED BY <1>9, Zenon
<1>12. CountVerdict(R, total) = CountVerdict(Q, total)
  BY <1>10, <1>11, Zenon DEF CountVerdict
<1> QED BY <1>12 DEF R, Q

(* A verdict of OK about the sizes: either no key has a size, or the 99th   *)
(* percentile is below 100 KiB.                                             *)
LEMMA SizesAreOK ==
  ASSUME NEW a, SizeVerdict(Finalize(a)) = "OK", a.sizeToCount # NoCounts
  PROVE  ~(percentiles(a.sizeToCount)[7] >= 100 * 1024)
<1>1. /\ Finalize(a).Available = TRUE
      /\ P99(Finalize(a)) = percentiles(a.sizeToCount)[7]
  BY DEF Finalize, P99
<1> QED BY <1>1 DEF SizeVerdict

(* Then of the keys that have a size 99 in 100 are below 100 KiB, and so    *)
(* are, as nothing is known of them, those without one.                     *)
LEMMA MostKeysAreSmall ==
  ASSUME MetaInv, SizeVerdict(Finalize(Collected(metas).kv)) = "OK"
  PROVE  Cardinality(SmallKeys) * 100 >= 99 * Len(metas)
<1> DEFINE counts == Collected(metas).kv.sizeToCount
           limit == 100 * 1024
<1>1. PICK n \in Nat : n = Len(metas)
  BY DEF MetaInv
<1>2. counts = TallyOf(n, kvSizes, Sized)
  BY <1>1, CollectsAll, Zenon DEF CollectedUpTo
<1>3. \A i \in 1..n : kvSizes[i] = metas[i].KvSizeBytes /\ kvSizes[i] \in Int
                      /\ (i \in Sized <=> kvSizes[i] >= 0)
  <2> SUFFICES ASSUME NEW i \in 1..n
               PROVE  kvSizes[i] = metas[i].KvSizeBytes /\ kvSizes[i] \in Int
                      /\ (i \in Sized <=> kvSizes[i] >= 0)
    OBVIOUS
  <2>1. metas[i] \in MetaRecord
    BY <1>1 DEF MetaInv
  <2>2. metas[i].KvSizeBytes \in Int
    BY <2>1 DEF MetaRecord
  <2> QED BY <1>1, <2>2 DEF kvSizes, Sized
<1> DEFINE S == Places(n, Sized)
           B == (1..n) \ S
<1>4. /\ IsFiniteSet(1..n) /\ Cardinality(1..n) = n
      /\ S \subseteq 1..n /\ B \subseteq 1..n /\ S \cap B = {} /\ S \union B = 1..n
  <2>1. IsFiniteSet(1..n) /\ Cardinality(1..n) = IF 1 > n THEN 0 ELSE n - 1 + 1
    BY FS_Interval
  <2> QED BY <2>1 DEF Places
<1>5. \A i \in S : i \in 1..n /\ kvSizes[i] \in Nat
  BY <1>3 DEF Places
<1>6. \A i \in B : kvSizes[i] < 0
  BY <1>3 DEF Places
<1>7. SmallKeys = {i \in 1..n : kvSizes[i] < limit}
  BY <1>1, <1>3 DEF SmallKeys
<1> HIDE DEF S, B, counts
<1>8. /\ IsFiniteSet(S) /\ IsFiniteSet(B) /\ Cardinality(S) \in Nat /\ Cardinality(B) \in Nat
      /\ Cardinality(S) + Cardinality(B) = n
  <2>1. IsFiniteSet(S) /\ IsFiniteSet(B)
    BY <1>4, FS_Subset
  <2>2. Cardinality(S) \in Nat /\ Cardinality(B) \in Nat
    BY <2>1, FS_CardinalityType
  <2>3. Cardinality(S \union B) = Cardinality(S) + Cardinality(B) - Cardinality(S \cap B)
    BY <2>1, FS_Union
  <2>4. Cardinality({}) = 0
    BY FS_EmptySet
  <2>5. PICK c : c = Cardinality(S)
    OBVIOUS
  <2>6. PICK d : d = Cardinality(B)
    OBVIOUS
  <2>7. n = c + d - 0
    BY <1>4, <2>3, <2>4, <2>5, <2>6, Zenon
  <2>8. c + d = n
    BY <2>2, <2>5, <2>6, <2>7
  <2> QED BY <2>1, <2>2, <2>5, <2>6, <2>8, Zenon
<1>9. SmallKeys \subseteq 1..n /\ B \subseteq SmallKeys /\ IsFiniteSet(SmallKeys)
  <2>1. \A i \in B : i \in 1..n /\ kvSizes[i] \in Int /\ kvSizes[i] < limit
    BY <1>3, <1>4, <1>6
  <2>2. SmallKeys \subseteq 1..n /\ B \subseteq SmallKeys
    BY <1>7, <2>1
  <2> QED BY <1>4, <2>2, FS_Subset
<1>10. ASSUME NEW A, A \subseteq S, A \subseteq SmallKeys
       PROVE  /\ Cardinality(A) \in Nat
              /\ Cardinality(SmallKeys) \in Nat
              /\ Cardinality(A) + Cardinality(B) <= Cardinality(SmallKeys)
  <2>1. IsFiniteSet(A) /\ A \cap B = {}
    BY <1>4, <1>8, <1>10, FS_Subset
  <2>2. Cardinality(A \union B) = Cardinality(A) + Cardinality(B) - Cardinality(A \cap B)
    BY <1>8, <2>1, FS_Union
  <2>3. Cardinality({}) = 0
    BY FS_EmptySet
  <2>4. Cardinality(A \union B) <= Cardinality(SmallKeys)
    BY <1>9, <1>10, FS_Subset
  <2>5. Cardinality(A) \in Nat /\ Cardinality(SmallKeys) \in Nat
    BY <1>9, <2>1, FS_CardinalityType
  <2>6. Cardinality(A \union B) = Cardinality(A) + Cardinality(B)
    <3>1. PICK c : c = Cardinality(A)
      OBVIOUS
    <3>2. PICK d : d = Cardinality(B)
      OBVIOUS
    <3>3. c \in Nat /\ d \in Nat
      BY <1>8, <2>5, <3>1, <3>2, Zenon
    <3>4. Cardinality(A \union B) = c + d - 0
      BY <2>1, <2>2, <2>3, <3>1, <3>2, Zenon
    <3>5. c + d - 0 = c + d
      BY <3>3
    <3> QED BY <3>1, <3>2, <3>4, <3>5, Zenon
  <2> QED BY <2>4, <2>5, <2>6
<1>11. CASE DOMAIN counts = {}
  <2>1. S = {}
    <3>1. DOMAIN counts = Labels(n, kvSizes, Sized)
      BY <1>2, TallyFacts
    <3> QED BY <1>11, <3>1 DEF Labels, S
  <2>2. Cardinality({}) = 0 /\ {} \subseteq S /\ {} \subseteq SmallKeys
    BY FS_EmptySet
  <2>3. Cardinality({}) + Cardinality(B) <= Cardinality(SmallKeys) /\ Cardinality(SmallKeys) \in Nat
    BY <1>10, <2>2
  <2>4. Cardinality(S) = 0
    BY <2>1, <2>2
  <2> QED BY <1>1, <1>8, <2>2, <2>3, <2>4
<1>12. CASE DOMAIN counts # {}
  <2> DEFINE x == percentiles(counts)[7]
             V == UpTo(DOMAIN counts, x)
             A == {i \in S : kvSizes[i] \in V}
  <2>1. SizeCounts(counts)
    <3>1. /\ DOMAIN counts = Labels(n, kvSizes, Sized) /\ IsFiniteSet(DOMAIN counts)
          /\ \A v \in DOMAIN counts : counts[v] \in Nat
      <4>1. /\ DOMAIN TallyOf(n, kvSizes, Sized) = Labels(n, kvSizes, Sized)
            /\ IsFiniteSet(DOMAIN TallyOf(n, kvSizes, Sized))
            /\ \A v \in DOMAIN TallyOf(n, kvSizes, Sized) : TallyOf(n, kvSizes, Sized)[v] \in Nat
        BY TallyFacts
      <4> QED BY <1>2, <4>1, Zenon
    <3>2. DOMAIN counts \subseteq Nat
      BY <1>5, <3>1 DEF Labels, S
    <3> QED BY <3>1, <3>2 DEF SizeCounts
  <2>2. Covers(counts, x, pctls[7])
    <3>1. PICK seven \in 1..7 : seven = 7
      OBVIOUS
    <3>2. Covers(counts, percentiles(counts)[seven], pctls[seven])
      BY <1>12, <2>1, PercentilesCover
    <3> QED BY <3>1, <3>2
  <2>3. pctls[7] = 99
    BY DEF pctls
  <2>4. ~(x >= limit)
    <3>1. counts # NoCounts
      BY <1>12 DEF NoCounts
    <3> QED BY <3>1, SizesAreOK DEF counts
  <2> HIDE DEF x
  <2>5. x \in DOMAIN counts /\ SumFunctionOnSet(counts, V) * 100 >= 99 * SumFunction(counts)
    BY <2>2, <2>3 DEF Covers
  <2>6. V \subseteq DOMAIN counts /\ \A y \in V : y \in Nat /\ y < limit
    BY <2>1, <2>4, <2>5 DEF UpTo, SizeCounts
  <2> HIDE DEF V
  <2>7. SumFunctionOnSet(counts, V) = Cardinality(A)
    <3>1. PICK label : label = kvSizes
      OBVIOUS
    <3>2. counts = TallyOf(n, label, Sized) /\ V \in SUBSET (DOMAIN TallyOf(n, label, Sized))
      BY <1>2, <2>6, <3>1
    <3>3. SumFunctionOnSet(TallyOf(n, label, Sized), V)
            = Cardinality({i \in Places(n, Sized) : label[i] \in V})
      BY <3>2, TallyPart
    <3> QED BY <3>1, <3>2, <3>3, Zenon DEF S
  <2>8. SumFunction(counts) = Cardinality(S)
    <3>1. SumFunctionOnSet(TallyOf(n, kvSizes, Sized), DOMAIN TallyOf(n, kvSizes, Sized))
            = Cardinality(Places(n, Sized))
      BY TallySum
    <3> QED BY <1>2, <3>1, Zenon DEF SumFunction, S
  <2>9. A \subseteq S /\ A \subseteq SmallKeys
    BY <1>4, <1>7, <2>6
  <2> HIDE DEF A
  <2>10. /\ Cardinality(A) \in Nat /\ Cardinality(SmallKeys) \in Nat
         /\ Cardinality(A) + Cardinality(B) <= Cardinality(SmallKeys)
    BY <1>10, <2>9
  <2>11. Cardinality(A) * 100 >= 99 * Cardinality(S)
    BY <2>5, <2>7, <2>8
  <2> QED BY <1>1, <1>8, <2>10, <2>11
<1> QED BY <1>11, <1>12

(* The verdicts are the same for every order of equal counts; and if the    *)
(* sizes are called OK, at least 99 of 100 keys are below 100 KiB.          *)
THEOREM VerdictsHold == Spec => []VerdictsAreSound
<1>1. SummaryInv => VerdictsAreSound
  <2> SUFFICES ASSUME SummaryInv, phase = "done",
                      NEW o \in ComputeGlobalStats(metas), NEW q \in ComputeGlobalStats(metas)
               PROVE  /\ o.Diagnosis = q.Diagnosis
                      /\ o.Diagnosis.Size = "OK" => Cardinality(SmallKeys) * 100 >= 99 * Len(metas)
    BY DEF VerdictsAreSound
  <2> DEFINE g == Collected(metas)
             count == g.prefixCount
  <2>1. MetaInv
    BY DEF SummaryInv
  <2>2. /\ o.Diagnosis = Diagnosis(g, o.TopPrefixes)
        /\ IsFiniteSet(DOMAIN count) /\ \A x \in DOMAIN count : count[x] \in Nat
        /\ count = TallyOf(Len(metas), topLevels, Nat) /\ metas # <<>>
        /\ \E s : ByCount(s, count) /\ o.TopPrefixes = Rows(s, count)
    <3> HIDE DEF g
    <3>1. o.stats = g
      BY <2>1, OverviewIs DEF g
    <3>2. /\ o.Diagnosis = Diagnosis(o.stats, o.TopPrefixes)
          /\ o.stats.prefixCount = TallyOf(Len(metas), topLevels, Nat) /\ metas # <<>>
          /\ IsFiniteSet(DOMAIN o.stats.prefixCount)
          /\ \A x \in DOMAIN o.stats.prefixCount : o.stats.prefixCount[x] \in Nat
          /\ \E s : ByCount(s, o.stats.prefixCount) /\ o.TopPrefixes = Rows(s, o.stats.prefixCount)
      BY <2>1, OverviewIs
    <3> QED BY <3>1, <3>2, Zenon
  <2>3. /\ q.Diagnosis = Diagnosis(g, q.TopPrefixes)
        /\ \E t : ByCount(t, count) /\ q.TopPrefixes = Rows(t, count)
    <3> HIDE DEF g
    <3>1. q.stats = g
      BY <2>1, OverviewIs DEF g
    <3>2. /\ q.Diagnosis = Diagnosis(q.stats, q.TopPrefixes)
          /\ \E t : ByCount(t, q.stats.prefixCount) /\ q.TopPrefixes = Rows(t, q.stats.prefixCount)
      BY <2>1, OverviewIs
    <3> QED BY <3>1, <3>2, Zenon
  <2>4. DOMAIN count # {}
    <3>1. PICK n \in Nat : n = Len(metas) /\ 1 \in 1..n
      <4>1. Len(metas) \in Nat /\ Len(metas) # 0
        BY <2>1, <2>2 DEF MetaInv
      <4> QED BY <4>1
    <3>2. DOMAIN TallyOf(n, topLevels, Nat) = Labels(n, topLevels, Nat)
      BY TallyFacts
    <3>3. topLevels[1] \in Labels(n, topLevels, Nat)
      BY <3>1 DEF Labels, Places
    <3> HIDE DEF count
    <3> QED BY <2>2, <3>1, <3>2, <3>3, Zenon
  <2>5. PICK s : ByCount(s, count) /\ o.TopPrefixes = Rows(s, count)
    BY <2>2
  <2>6. PICK t : ByCount(t, count) /\ q.TopPrefixes = Rows(t, count)
    BY <2>3
  <2>7. CountVerdict(o.TopPrefixes, g.TotalKeys) = CountVerdict(q.TopPrefixes, g.TotalKeys)
    <3> HIDE DEF count
    <3>1. CountVerdict(Rows(s, count), g.TotalKeys) = CountVerdict(Rows(t, count), g.TotalKeys)
      BY <2>2, <2>4, <2>5, <2>6, SameCountVerdict
    <3> QED BY <2>5, <2>6, <3>1, Zenon
  <2> HIDE DEF count, g
  <2>8. o.Diagnosis = q.Diagnosis
    BY <2>2, <2>3, <2>7, Zenon DEF Diagnosis
  <2>9. ASSUME o.Diagnosis.Size = "OK" PROVE Cardinality(SmallKeys) * 100 >= 99 * Len(metas)
    <3>1. o.Diagnosis.Size = SizeVerdict(Finalize(g.kv))
      <4>1. PICK top : top = o.TopPrefixes
        OBVIOUS
      <4>2. o.Diagnosis = Diagnosis(g, top)
        BY <2>2, <4>1, Zenon
      <4>3. Diagnosis(g, top).Size = SizeVerdict(Finalize(g.kv))
        BY DEF Diagnosis
      <4> QED BY <4>2, <4>3, Zenon
    <3>2. SizeVerdict(Finalize(Collected(metas).kv)) = "OK"
      BY <2>9, <3>1 DEF g
    <3> QED BY <2>1, <3>2, MostKeysAreSmall
  <2> QED BY <2>8, <2>9
<1> QED BY <1>1, SummaryInductive, PTL
=============================================================================
