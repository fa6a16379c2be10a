---------------------------- MODULE SnapshotProofs ----------------------------
(***************************************************************************)
(* Theorems about SnapshotSource that hold for any set of keys, any batch  *)
(* size and any history of puts, transactions, deletes and compactions.    *)
(***************************************************************************)
EXTENDS SnapshotSource, SequenceLemmas

(* The bucket is in the order of the revisions.  The last row of a key says *)
(* whether the key is present, and at which revision, if there is a row at  *)
(* all; of a present key there is.                                          *)
BucketRow == [rev : Nat \ {0}, key : Key, Tombstone : BOOLEAN, readable : BOOLEAN]

InOrder(rows, n) ==
  /\ \A i, j \in 1..Len(rows) : i < j => rows[i].rev <= rows[j].rev
  /\ \A i \in 1..Len(rows) : rows[i].rev <= n

IsLast(rows, i) == \A j \in 1..Len(rows) : i < j => rows[j].key # rows[i].key

Agrees(rows, present) ==
  /\ \A i \in 1..Len(rows) :
       /\ IsLast(rows, i) /\ rows[i].Tombstone = TRUE => rows[i].key \notin DOMAIN present
       /\ IsLast(rows, i) /\ rows[i].Tombstone = FALSE =>
            rows[i].key \in DOMAIN present /\ present[rows[i].key] = rows[i].rev
  /\ \A k \in DOMAIN present :
       \E i \in 1..Len(rows) : rows[i].key = k /\ IsLast(rows, i)

BucketInv == InOrder(bucket, revision) /\ Agrees(bucket, keyspace)

(* The map holds the keys of the rows already read; its value for a key is  *)
(* that of the last such row.                                               *)
ReadRow(i) == i < pos /\ Counts(bucket[i])
LastRead(i) ==
  ReadRow(i) /\ \A j \in 1..Len(bucket) : i < j /\ ReadRow(j) => bucket[j].key # bucket[i].key

StatsInv ==
  /\ \A i \in 1..Len(bucket) : ReadRow(i) => bucket[i].key \in DOMAIN stats
  /\ \A k \in DOMAIN stats :
       \E i \in 1..Len(bucket) :
         /\ bucket[i].key = k /\ LastRead(i)
         /\ stats[k].KV = IF bucket[i].Tombstone THEN nil ELSE bucket[i].rev

(* Where the goroutine and the loop are.                                    *)
ControlInv ==
  /\ walker \in {"etcd", "failed"} => pos = 1
  /\ walker \in {"collect", "send", "closed"} => pos = Len(bucket) + 1
  /\ walker \in {"etcd", "failed", "walk"} =>
       unsent = {} /\ batch = <<>> /\ c = <<>> /\ out = <<>>
  /\ walker \in {"etcd", "failed"} => stats = Empty
  /\ walker = "collect" => Len(batch) < batchSize
  /\ walker = "closed" => unsent = {} /\ batch = <<>>
  /\ consumer = "done" => walker = "closed" /\ c = <<>>
  /\ consumer = "exited" <=> walker = "failed"

(* The key-values that were collected and not yet received.                 *)
KeyValue == [key : prefix, ModRevision : Nat \ {0}]
Written == [key : prefix, ModRevision : Nat \ {0}, RevCount : Nat, TombstoneCount : Nat]
Underway == FlattenSeq(Append(c, batch))
Visited == IF walker = "walk" THEN {} ELSE DOMAIN stats \ unsent

IsValue(x) ==
  x.key \in Visited /\ stats[x.key].KV = x.ModRevision
Distinct(s) == \A i, j \in 1..Len(s) : s[i].key = s[j].key => i = j
Among(s, k) == \E i \in 1..Len(s) : s[i].key = k

(* Each key the range has visited is under way or written, once, if it has  *)
(* a value and the filter lets it pass.                                     *)
Delivery(visited, q) ==
  /\ out \in Seq(Written)
  /\ \A i \in 1..Len(q) : IsValue(q[i])
  /\ \A i \in 1..Len(out) : IsValue(out[i]) /\ out[i].ModRevision \notin Rejected
  /\ Distinct(q) /\ Distinct(out)
  /\ \A i \in 1..Len(q) : ~Among(out, q[i].key)
  /\ \A k \in visited :
       stats[k].KV \in Rejected \union {nil} \/ Among(q, k) \/ Among(out, k)

DeliveryInv == Delivery(Visited, Underway)

SnapshotInv == TypeOK /\ BucketInv /\ StatsInv /\ ControlInv /\ DeliveryInv

(* The counts in the map are of the rows read so far; a record written has  *)
(* the counts that the map has then, and still has.                         *)
ReadRows(k) == {i \in 1..Len(bucket) : ReadRow(i) /\ bucket[i].key = k}
Tombstones(I) == {i \in I : bucket[i].Tombstone}

CountInv ==
  /\ \A k \in DOMAIN stats :
       /\ stats[k].RevCount = Cardinality(ReadRows(k))
       /\ stats[k].TombstoneCount = Cardinality(Tombstones(ReadRows(k)))
  /\ \A i \in 1..Len(out) :
       /\ out[i].RevCount = stats[out[i].key].RevCount
       /\ out[i].TombstoneCount = stats[out[i].key].TombstoneCount

----------------------------------------------------------------------------
(* A row tells what its key has become; the other keys stay what they were. *)
Tells(r, before, after) ==
  /\ \A k \in DOMAIN before : k # r.key => k \in DOMAIN after /\ after[k] = before[k]
  /\ \A k \in DOMAIN after : k # r.key => k \in DOMAIN before
  /\ r.Tombstone = TRUE => r.key \notin DOMAIN after
  /\ r.Tombstone = FALSE => r.key \in DOMAIN after /\ after[r.key] = r.rev

(* A new row that tells what its key has become.                            *)
LEMMA AppendRow ==
  ASSUME NEW rows \in Seq(BucketRow), NEW before, NEW after, NEW n \in Nat, NEW r \in BucketRow,
         InOrder(rows, n), Agrees(rows, before), n <= r.rev, Tells(r, before, after)
  PROVE  /\ Append(rows, r) \in Seq(BucketRow)
         /\ InOrder(Append(rows, r), r.rev)
         /\ Agrees(Append(rows, r), after)
<1> DEFINE more == Append(rows, r)
           m == Len(rows)
<1>1. /\ more \in Seq(BucketRow) /\ m \in Nat /\ Len(more) = m + 1
      /\ more[m + 1] = r /\ \A i \in 1..m : more[i] = rows[i]
  BY AppendFacts
<1>2. \A i \in 1..m : rows[i] \in BucketRow
  OBVIOUS
<1>3. r.rev \in Nat /\ \A i \in 1..m : rows[i].rev \in Nat
  BY <1>2 DEF BucketRow
<1> HIDE DEF more, m
<1>4. InOrder(more, r.rev)
  <2>1. \A i \in 1..m : rows[i].rev <= r.rev
    BY <1>3 DEF InOrder, m
  <2>2. ASSUME NEW i \in 1..Len(more), NEW j \in 1..Len(more), i < j
        PROVE  more[i].rev <= more[j].rev
    <3>1. i \in 1..m /\ more[i] = rows[i]
      BY <1>1, <2>2
    <3>2. CASE j \in 1..m
      BY <1>1, <2>2, <3>1, <3>2 DEF InOrder, m
    <3>3. CASE j = m + 1
      BY <1>1, <2>1, <3>1, <3>3
    <3> QED BY <1>1, <3>2, <3>3
  <2>3. ASSUME NEW i \in 1..Len(more) PROVE more[i].rev <= r.rev
    <3>1. CASE i \in 1..m
      BY <1>1, <2>1, <3>1
    <3>2. CASE i = m + 1
      BY <1>1, <1>3, <3>2
    <3> QED BY <1>1, <3>1, <3>2
  <2> QED BY <2>2, <2>3 DEF InOrder
<1>5. ASSUME NEW i \in 1..m
      PROVE  IsLast(more, i) <=> IsLast(rows, i) /\ rows[i].key # r.key
  BY <1>1 DEF IsLast, m
<1>6. IsLast(more, m + 1)
  BY <1>1 DEF IsLast
<1>7. ASSUME NEW i \in 1..Len(more)
      PROVE  /\ IsLast(more, i) /\ more[i].Tombstone = TRUE => more[i].key \notin DOMAIN after
             /\ IsLast(more, i) /\ more[i].Tombstone = FALSE =>
                  more[i].key \in DOMAIN after /\ after[more[i].key] = more[i].rev
  <2>1. CASE i = m + 1
    BY <1>1, <2>1 DEF Tells
  <2>2. CASE i \in 1..m
    <3>1. more[i] = rows[i]
      BY <1>1, <2>2
    <3> SUFFICES ASSUME IsLast(rows, i), rows[i].key # r.key
                 PROVE  /\ rows[i].Tombstone = TRUE => rows[i].key \notin DOMAIN after
                        /\ rows[i].Tombstone = FALSE =>
                             rows[i].key \in DOMAIN after /\ after[rows[i].key] = rows[i].rev
      BY <1>5, <2>2, <3>1, Zenon
    <3> QED BY <2>2 DEF Agrees, Tells, m
  <2>3. i = m + 1 \/ i \in 1..m
    BY <1>1
  <2> QED BY <2>1, <2>2, <2>3, Zenon
<1>8. ASSUME NEW k \in DOMAIN after
      PROVE  \E i \in 1..Len(more) : more[i].key = k /\ IsLast(more, i)
  <2>1. CASE k = r.key
    <3>1. m + 1 \in 1..Len(more)
      BY <1>1
    <3> QED BY <1>1, <1>6, <2>1, <3>1, Zenon
  <2>2. CASE k # r.key
    <3>1. PICK i \in 1..m : rows[i].key = k /\ IsLast(rows, i)
      BY <2>2 DEF Agrees, Tells, m
    <3>2. i \in 1..Len(more) /\ more[i] = rows[i] /\ IsLast(more, i)
      BY <1>1, <1>5, <2>2, <3>1
    <3> QED BY <3>1, <3>2, Zenon
  <2> QED BY <2>1, <2>2
<1> QED BY <1>1, <1>4, <1>7, <1>8 DEF Agrees, more

(* A row is removed behind which its key has another one, or which is a     *)
(* tombstone and the only row of its key.                                   *)
LEMMA RemoveRow ==
  ASSUME NEW rows \in Seq(BucketRow), NEW present, NEW n \in Nat, NEW r \in 1..Len(rows),
         InOrder(rows, n), Agrees(rows, present),
         \/ ~IsLast(rows, r)
         \/ /\ rows[r].Tombstone = TRUE
            /\ \A i \in 1..(r - 1) : rows[i].key # rows[r].key
  PROVE  /\ RemoveAt(rows, r) \in Seq(BucketRow)
         /\ InOrder(RemoveAt(rows, r), n)
         /\ Agrees(RemoveAt(rows, r), present)
<1> DEFINE less == RemoveAt(rows, r)
           m == Len(rows)
           Was(i) == IF i < r THEN i ELSE i + 1
           Now(i) == IF i < r THEN i ELSE i - 1
<1>1. /\ less \in Seq(BucketRow) /\ m \in Nat /\ Len(less) = m - 1
      /\ \A i \in 1..(m - 1) : less[i] = rows[Was(i)]
  BY RemoveAtFacts
<1> HIDE DEF less
<1>2. \A i \in 1..(m - 1) : Was(i) \in 1..m /\ Was(i) # r
  BY <1>1
<1>3. \A i, j \in 1..(m - 1) : i < j <=> Was(i) < Was(j)
  BY <1>1
<1>4. \A i \in 1..m : i # r => Now(i) \in 1..(m - 1) /\ Was(Now(i)) = i
  BY <1>1
<1> HIDE DEF Was, Now, m
<1>5. InOrder(less, n)
  BY <1>1, <1>2, <1>3 DEF InOrder, m
<1>6. ASSUME NEW i \in 1..m, i # r, IsLast(rows, i) PROVE IsLast(less, Now(i))
  <2> SUFFICES ASSUME NEW j \in 1..(m - 1), Now(i) < j PROVE less[j].key # less[Now(i)].key
    BY <1>1 DEF IsLast
  <2>1. Was(j) \in 1..m /\ i < Was(j)
    BY <1>2, <1>3, <1>4, <1>6
  <2>2. rows[Was(j)].key # rows[i].key
    BY <1>6, <2>1 DEF IsLast, m
  <2> QED BY <1>1, <1>4, <1>6, <2>2
<1>7. ASSUME NEW j \in 1..(m - 1), IsLast(less, j) PROVE IsLast(rows, Was(j))
  <2> SUFFICES ASSUME NEW i \in 1..m, Was(j) < i, rows[i].key = rows[Was(j)].key PROVE FALSE
    BY DEF IsLast, m
  <2>1. CASE i # r
    <3>1. Now(i) \in 1..(m - 1) /\ j < Now(i) /\ less[Now(i)] = rows[i]
      BY <1>1, <1>3, <1>4, <2>1
    <3> QED BY <1>1, <1>7, <3>1 DEF IsLast
  <2>2. CASE i = r
    <3>1. Was(j) \in 1..m /\ Was(j) \in 1..(r - 1)
      BY <1>1, <1>2, <2>2 DEF m
    <3>2. ~IsLast(rows, r)
      BY <2>2, <3>1
    <3>3. PICK l \in 1..m : r < l /\ rows[l].key = rows[r].key
      BY <3>2 DEF IsLast, m
    <3>4. l # r /\ Now(l) \in 1..(m - 1) /\ j < Now(l) /\ less[Now(l)] = rows[l]
      <4>1. l # r /\ Was(j) < l
        BY <1>1, <3>1, <3>3 DEF m
      <4> QED BY <1>1, <1>3, <1>4, <4>1
    <3> QED BY <1>1, <1>7, <2>2, <3>3, <3>4 DEF IsLast
  <2> QED BY <2>1, <2>2
<1>8. ASSUME NEW j \in 1..Len(less)
      PROVE  /\ IsLast(less, j) /\ less[j].Tombstone = TRUE => less[j].key \notin DOMAIN present
             /\ IsLast(less, j) /\ less[j].Tombstone = FALSE =>
                  less[j].key \in DOMAIN present /\ present[less[j].key] = less[j].rev
  <2>1. less[j] = rows[Was(j)] /\ Was(j) \in 1..m /\ (IsLast(less, j) => IsLast(rows, Was(j)))
    BY <1>1, <1>2, <1>7
  <2> QED BY <2>1 DEF Agrees, m
<1>9. ASSUME NEW k \in DOMAIN present
      PROVE  \E j \in 1..Len(less) : less[j].key = k /\ IsLast(less, j)
  <2>1. PICK i \in 1..m : rows[i].key = k /\ IsLast(rows, i)
    BY DEF Agrees, m
  <2>2. i # r
    BY <2>1 DEF Agrees, m
  <2>3. Now(i) \in 1..Len(less) /\ less[Now(i)].key = k /\ IsLast(less, Now(i))
    BY <1>1, <1>4, <1>6, <2>1, <2>2
  <2> QED BY <2>3
<1> QED BY <1>1, <1>5, <1>8, <1>9 DEF Agrees, less

----------------------------------------------------------------------------
(* What is under way when the batch is new, grows or is sent.               *)
LEMMA UnderwayFacts ==
  ASSUME NEW S, NEW queue \in Seq(Seq(S)), NEW b \in Seq(S)
  PROVE  /\ FlattenSeq(Append(queue, b)) \in Seq(S)
         /\ FlattenSeq(Append(Append(queue, b), <<>>)) = FlattenSeq(Append(queue, b))
         /\ queue = <<>> /\ b = <<>> => FlattenSeq(Append(queue, b)) = <<>>
         /\ \A x \in S : FlattenSeq(Append(queue, Append(b, x))) = Append(FlattenSeq(Append(queue, b)), x)
<1> DEFINE q == FlattenSeq(Append(queue, b))
           f == FlattenSeq(queue)
<1>1. Append(queue, b) \in Seq(Seq(S)) /\ <<>> \in Seq(S)
  OBVIOUS
<1>2. q \in Seq(S) /\ f \in Seq(S)
  BY <1>1, FlattenType
<1>3. q = f \o b
  BY FlattenAppend
<1>4. FlattenSeq(Append(Append(queue, b), <<>>)) = q \o <<>>
  BY <1>1, FlattenAppend
<1>5. q \o <<>> = q
  <2> HIDE DEF q
  <2> QED BY <1>2, ConcatEmptySeq
<1>6. queue = <<>> /\ b = <<>> => q = <<>>
  <2>1. FlattenSeq(<<>>) = <<>>
    BY DEF FlattenSeq
  <2>2. <<>> \o <<>> = <<>>
    OBVIOUS
  <2> QED BY <1>3, <2>1, <2>2, Zenon
<1>7. ASSUME NEW x \in S
      PROVE  FlattenSeq(Append(queue, Append(b, x))) = Append(q, x)
  <2>1. Append(b, x) \in Seq(S)
    OBVIOUS
  <2>2. FlattenSeq(Append(queue, Append(b, x))) = f \o Append(b, x)
    BY <2>1, FlattenAppend
  <2>3. f \o Append(b, x) = Append(f \o b, x)
    <3> HIDE DEF f
    <3> QED BY <1>2
  <2> QED BY <1>3, <2>2, <2>3, Zenon
<1> QED BY <1>2, <1>4, <1>5, <1>6, <1>7, Zenon

(* An empty etcd and a source that has not been opened satisfy the          *)
(* invariant.                                                               *)
LEMMA InitSnapshotInv == Init => SnapshotInv
<1> SUFFICES ASSUME Init PROVE SnapshotInv
  OBVIOUS
<1>1. DOMAIN Empty = {}
  BY DEF Empty
<1>2. TypeOK
  BY <1>1, SnapshotAssumption DEF Init, TypeOK
<1>3. BucketInv
  BY <1>1 DEF Init, BucketInv, InOrder, Agrees
<1>4. StatsInv
  BY <1>1 DEF Init, StatsInv, ReadRow
<1>5. ControlInv
  BY DEF Init, ControlInv
<1>6. DeliveryInv
  <2>1. Underway = <<>>
    <3>1. <<>> \in Seq(KeyValue) /\ <<>> \in Seq(Seq(KeyValue))
      OBVIOUS
    <3>2. FlattenSeq(Append(<<>>, <<>>)) = <<>>
      BY <3>1, UnderwayFacts, ZenonT(30)
    <3> QED BY <3>2 DEF Init, Underway
  <2>2. Visited = {}
    BY <1>1 DEF Init, Visited
  <2> QED BY <2>1, <2>2 DEF Init, DeliveryInv, Delivery, Distinct
<1> QED BY <1>2, <1>3, <1>4, <1>5, <1>6 DEF SnapshotInv

(* As long as the goroutine has not been started, it has nothing.           *)
LEMMA EtcdFrame ==
  ASSUME SnapshotInv, walker = "etcd",
         UNCHANGED <<prefix, walker, walkVars, c, consumer, out>>,
         BucketInv', bucket' \in Seq(BucketRow),
         DOMAIN keyspace' \subseteq Key, \A k \in DOMAIN keyspace' : keyspace'[k] \in Nat \ {0},
         revision' \in 0..MaxRevision, compactRev' \in 0..revision'
  PROVE  SnapshotInv'
<1>1. UNCHANGED <<pos, stats, unsent, batch>>
  BY DEF walkVars
<1>2. pos = 1 /\ stats = Empty /\ DOMAIN Empty = {} /\ Len(bucket') \in Nat
  BY DEF SnapshotInv, ControlInv, Empty
<1>3. TypeOK'
  BY <1>1, <1>2 DEF SnapshotInv, TypeOK, BucketRow
<1>4. StatsInv'
  BY <1>1, <1>2 DEF SnapshotInv, StatsInv, ReadRow
<1>5. ControlInv'
  BY <1>1 DEF SnapshotInv, ControlInv
<1>6. DeliveryInv'
  <2>1. Underway' = Underway /\ Visited' = Visited
    BY <1>1 DEF Underway, Visited
  <2>2. \A x : IsValue(x)' <=> IsValue(x)
    BY <1>1, <2>1, Zenon DEF IsValue
  <2>3. Delivery(Visited, Underway)'
    BY <1>1, <2>1, <2>2 DEF SnapshotInv, DeliveryInv, Delivery, Written
  <2> QED BY <2>3 DEF DeliveryInv
<1> QED BY <1>3, <1>4, <1>5, <1>6 DEF SnapshotInv

(* A put appends the row that becomes the last one of its key, at a new     *)
(* revision.                                                                *)
LEMMA PutStep ==
  ASSUME SnapshotInv, NEW k \in Key, EtcdPut(k)
  PROVE  SnapshotInv'
<1> DEFINE r == Row(k, FALSE)
<1>1. revision \in Nat /\ revision' = revision + 1 /\ revision' \in 0..MaxRevision
  BY SnapshotAssumption DEF SnapshotInv, TypeOK, EtcdPut
<1>2. bucket \in Seq(BucketRow)
  BY DEF SnapshotInv, TypeOK, BucketRow
<1>3. r \in BucketRow /\ r.rev = revision + 1 /\ r.key = k /\ r.Tombstone = FALSE
  BY <1>1 DEF Row, BucketRow
<1>4. bucket' = Append(bucket, r)
  BY DEF EtcdPut
<1> HIDE DEF r
<1>5. /\ DOMAIN keyspace' = DOMAIN keyspace \union {k}
      /\ \A j \in DOMAIN keyspace' : keyspace'[j] = IF j = k THEN revision + 1 ELSE keyspace[j]
  BY DEF EtcdPut
<1>6. /\ bucket' \in Seq(BucketRow) /\ InOrder(bucket', revision') /\ Agrees(bucket', keyspace')
  <2>1. Tells(r, keyspace, keyspace')
    BY <1>3, <1>5 DEF Tells
  <2>2. InOrder(bucket, revision) /\ Agrees(bucket, keyspace)
    BY DEF SnapshotInv, BucketInv
  <2>3. revision <= r.rev
    BY <1>1, <1>3
  <2>4. /\ Append(bucket, r) \in Seq(BucketRow)
        /\ InOrder(Append(bucket, r), r.rev) /\ Agrees(Append(bucket, r), keyspace')
    BY <1>1, <1>2, <1>3, <2>1, <2>2, <2>3, AppendRow
  <2> QED BY <1>1, <1>3, <1>4, <2>4, Zenon
<1>7. DOMAIN keyspace' \subseteq Key /\ \A j \in DOMAIN keyspace' : keyspace'[j] \in Nat \ {0}
  BY <1>1, <1>5 DEF SnapshotInv, TypeOK
<1>8. compactRev' \in 0..revision'
  BY <1>1 DEF SnapshotInv, TypeOK, EtcdPut
<1>9. BucketInv'
  BY <1>6 DEF BucketInv
<1> QED BY <1>1, <1>6, <1>7, <1>8, <1>9, EtcdFrame DEF EtcdPut

(* A delete appends a tombstone as the last row of its key, which is no     *)
(* longer present.                                                          *)
LEMMA DeleteStep ==
  ASSUME SnapshotInv, NEW k \in Key, EtcdDelete(k)
  PROVE  SnapshotInv'
<1> DEFINE r == Row(k, TRUE)
<1>1. revision \in Nat /\ revision' = revision + 1 /\ revision' \in 0..MaxRevision
  BY SnapshotAssumption DEF SnapshotInv, TypeOK, EtcdDelete
<1>2. bucket \in Seq(BucketRow)
  BY DEF SnapshotInv, TypeOK, BucketRow
<1>3. r \in BucketRow /\ r.rev = revision + 1 /\ r.key = k /\ r.Tombstone = TRUE
  BY <1>1 DEF Row, BucketRow
<1>4. bucket' = Append(bucket, r)
  BY DEF EtcdDelete
<1> HIDE DEF r
<1>5. /\ DOMAIN keyspace' = DOMAIN keyspace \ {k}
      /\ \A j \in DOMAIN keyspace' : keyspace'[j] = keyspace[j]
  BY DEF EtcdDelete
<1>6. /\ bucket' \in Seq(BucketRow) /\ InOrder(bucket', revision') /\ Agrees(bucket', keyspace')
  <2>1. Tells(r, keyspace, keyspace')
    BY <1>3, <1>5 DEF Tells
  <2>2. InOrder(bucket, revision) /\ Agrees(bucket, keyspace)
    BY DEF SnapshotInv, BucketInv
  <2>3. revision <= r.rev
    BY <1>1, <1>3
  <2>4. /\ Append(bucket, r) \in Seq(BucketRow)
        /\ InOrder(Append(bucket, r), r.rev) /\ Agrees(Append(bucket, r), keyspace')
    BY <1>1, <1>2, <1>3, <2>1, <2>2, <2>3, AppendRow
  <2> QED BY <1>1, <1>3, <1>4, <2>4, Zenon
<1>7. DOMAIN keyspace' \subseteq Key /\ \A j \in DOMAIN keyspace' : keyspace'[j] \in Nat \ {0}
  BY <1>1, <1>5 DEF SnapshotInv, TypeOK
<1>8. compactRev' \in 0..revision'
  BY <1>1 DEF SnapshotInv, TypeOK, EtcdDelete
<1>9. BucketInv'
  BY <1>6 DEF BucketInv
<1> QED BY <1>1, <1>6, <1>7, <1>8, <1>9, EtcdFrame DEF EtcdDelete

(* Half a transaction is no state of the system, but it leaves the bucket   *)
(* as orderly as a whole one.                                               *)
LEMMA TxnStep ==
  ASSUME SnapshotInv, NEW k \in Key, NEW l \in Key, EtcdTxn(k, l)
  PROVE  SnapshotInv'
<1> DEFINE r == Row(k, FALSE)
           q == Row(l, FALSE)
           half == [j \in DOMAIN keyspace \union {k} |-> IF j = k THEN revision + 1 ELSE keyspace[j]]
<1>1. revision \in Nat /\ revision' = revision + 1 /\ revision' \in 0..MaxRevision /\ k # l
  BY SnapshotAssumption DEF SnapshotInv, TypeOK, EtcdTxn
<1>2. bucket \in Seq(BucketRow)
  BY DEF SnapshotInv, TypeOK, BucketRow
<1>3. /\ r \in BucketRow /\ r.rev = revision + 1 /\ r.key = k /\ r.Tombstone = FALSE
      /\ q \in BucketRow /\ q.rev = revision + 1 /\ q.key = l /\ q.Tombstone = FALSE
  BY <1>1 DEF Row, BucketRow
<1>4. bucket' = bucket \o <<r, q>>
  BY DEF EtcdTxn
<1> HIDE DEF r, q
<1>5. bucket' = Append(Append(bucket, r), q)
  BY <1>2, <1>3, <1>4
<1>6. /\ DOMAIN keyspace' = DOMAIN keyspace \union {k, l}
      /\ \A j \in DOMAIN keyspace' : keyspace'[j] = IF j \in {k, l} THEN revision + 1 ELSE keyspace[j]
  BY DEF EtcdTxn
<1>7. /\ DOMAIN half = DOMAIN keyspace \union {k}
      /\ \A j \in DOMAIN half : half[j] = IF j = k THEN revision + 1 ELSE keyspace[j]
  OBVIOUS
<1> HIDE DEF half
<1>8. /\ Append(bucket, r) \in Seq(BucketRow)
      /\ InOrder(Append(bucket, r), revision + 1) /\ Agrees(Append(bucket, r), half)
  <2>1. Tells(r, keyspace, half)
    BY <1>3, <1>7 DEF Tells
  <2>2. InOrder(bucket, revision) /\ Agrees(bucket, keyspace)
    BY DEF SnapshotInv, BucketInv
  <2>3. revision <= r.rev
    BY <1>1, <1>3
  <2>4. /\ Append(bucket, r) \in Seq(BucketRow)
        /\ InOrder(Append(bucket, r), r.rev) /\ Agrees(Append(bucket, r), half)
    BY <1>1, <1>2, <1>3, <2>1, <2>2, <2>3, AppendRow
  <2> QED BY <1>3, <2>4, Zenon
<1>9. bucket' \in Seq(BucketRow) /\ InOrder(bucket', revision') /\ Agrees(bucket', keyspace')
  <2>1. Tells(q, half, keyspace')
    BY <1>1, <1>3, <1>6, <1>7 DEF Tells
  <2> DEFINE rows == Append(bucket, r)
             n == revision + 1
  <2>2. rows \in Seq(BucketRow) /\ InOrder(rows, n) /\ Agrees(rows, half) /\ n \in Nat /\ n <= q.rev
    BY <1>1, <1>3, <1>8
  <2> HIDE DEF rows, n
  <2>3. /\ Append(rows, q) \in Seq(BucketRow)
        /\ InOrder(Append(rows, q), q.rev) /\ Agrees(Append(rows, q), keyspace')
    BY <1>3, <2>1, <2>2, AppendRow
  <2> QED BY <1>1, <1>3, <1>5, <2>3, Zenon DEF rows
<1>10. DOMAIN keyspace' \subseteq Key /\ \A j \in DOMAIN keyspace' : keyspace'[j] \in Nat \ {0}
  BY <1>1, <1>6 DEF SnapshotInv, TypeOK
<1>11. compactRev' \in 0..revision'
  BY <1>1 DEF SnapshotInv, TypeOK, EtcdTxn
<1>12. BucketInv'
  BY <1>9 DEF BucketInv
<1> QED BY <1>1, <1>9, <1>10, <1>11, <1>12, EtcdFrame DEF EtcdTxn

(* A compaction only moves the compacted revision; the rows go later, in    *)
(* the scrub.                                                               *)
LEMMA CompactStep ==
  ASSUME SnapshotInv, EtcdCompact
  PROVE  SnapshotInv'
<1>1. bucket' \in Seq(BucketRow)
  BY DEF SnapshotInv, TypeOK, BucketRow, EtcdCompact
<1>2. BucketInv'
  BY DEF SnapshotInv, BucketInv, EtcdCompact
<1>3. /\ DOMAIN keyspace' \subseteq Key /\ \A k \in DOMAIN keyspace' : keyspace'[k] \in Nat \ {0}
      /\ revision' \in 0..MaxRevision /\ compactRev' \in 0..revision'
  BY DEF SnapshotInv, TypeOK, EtcdCompact
<1> QED BY <1>1, <1>2, <1>3, EtcdFrame DEF EtcdCompact

(* The scrub removes the rows in order: when it comes to the tombstone of a *)
(* key, there is nothing left of the key in front of it.                    *)
LEMMA ScrubStep ==
  ASSUME SnapshotInv, EtcdScrub
  PROVE  SnapshotInv'
<1>1. bucket \in Seq(BucketRow) /\ InOrder(bucket, revision) /\ Agrees(bucket, keyspace)
  BY DEF SnapshotInv, BucketInv, TypeOK, BucketRow
<1>2. \A i \in 1..Len(bucket) : bucket[i].rev \in Nat /\ bucket[i].Tombstone \in BOOLEAN
  <2>1. \A i \in 1..Len(bucket) : bucket[i] \in BucketRow
    BY <1>1
  <2> QED BY <2>1 DEF BucketRow
<1>3. revision \in Nat /\ compactRev \in Nat /\ Len(bucket) \in Nat
  BY <1>1, SnapshotAssumption DEF SnapshotInv, TypeOK
<1>4. PICK i \in 1..Len(bucket) :
        Superfluous(i) /\ (\A j \in 1..(i - 1) : ~Superfluous(j)) /\ bucket' = RemoveAt(bucket, i)
  BY DEF EtcdScrub
<1>5. \/ ~IsLast(bucket, i)
      \/ bucket[i].Tombstone = TRUE /\ \A j \in 1..(i - 1) : bucket[j].key # bucket[i].key
  <2>1. SUFFICES ASSUME IsLast(bucket, i)
        PROVE  bucket[i].Tombstone = TRUE /\ \A j \in 1..(i - 1) : bucket[j].key # bucket[i].key
    OBVIOUS
  <2>2. bucket[i].Tombstone /\ bucket[i].rev <= compactRev
    BY <1>3, <1>4, <2>1 DEF Superfluous, IsLast
  <2>3. bucket[i].Tombstone = TRUE
    BY <1>2, <2>2
  <2>4. ASSUME NEW j \in 1..(i - 1), bucket[j].key = bucket[i].key PROVE FALSE
    <3>1. j \in 1..Len(bucket) /\ i \in (j + 1)..Len(bucket) /\ j < i
      BY <1>3
    <3>2. bucket[j].rev <= compactRev
      BY <1>1, <1>2, <1>3, <2>2, <3>1 DEF InOrder
    <3> QED BY <1>4, <2>2, <2>4, <3>1, <3>2 DEF Superfluous
  <2> QED BY <2>3, <2>4
<1>6. bucket' \in Seq(BucketRow) /\ InOrder(bucket', revision) /\ Agrees(bucket', keyspace)
  BY <1>1, <1>3, <1>4, <1>5, RemoveRow
<1>7. BucketInv'
  BY <1>6 DEF BucketInv, EtcdScrub
<1>8. /\ DOMAIN keyspace' \subseteq Key /\ \A k \in DOMAIN keyspace' : keyspace'[k] \in Nat \ {0}
      /\ revision' \in 0..MaxRevision /\ compactRev' \in 0..revision'
  BY DEF SnapshotInv, TypeOK, EtcdScrub
<1> QED BY <1>6, <1>7, <1>8, EtcdFrame DEF EtcdScrub

----------------------------------------------------------------------------
(* The goroutine: before the first batch nothing is under way.              *)
LEMMA NothingYet ==
  ASSUME c' = <<>>, batch' = <<>>, out' = <<>>, Visited' = {}
  PROVE  DeliveryInv'
<1>1. <<>> \in Seq(KeyValue') /\ <<>> \in Seq(Seq(KeyValue'))
  OBVIOUS
<1>2. Underway' = <<>>
  <2>1. FlattenSeq(Append(<<>>, <<>>)) = <<>>
    BY <1>1, UnderwayFacts
  <2> QED BY <2>1 DEF Underway
<1> QED BY <1>2 DEF DeliveryInv, Delivery, Distinct

(* Opening the file fixes the prefix and which rows can be read, and leaves *)
(* every row in its place.                                                  *)
LEMMA OpenStep ==
  ASSUME SnapshotInv, Open
  PROVE  SnapshotInv'
<1> DEFINE m == Len(bucket)
<1>1. PICK bad \in SUBSET (1..m) :
        bucket' = [i \in 1..m |-> [bucket[i] EXCEPT !.readable = i \notin bad]]
  BY DEF Open
<1>2. m \in Nat /\ \A i \in 1..m : bucket[i] \in BucketRow
  <2>1. bucket \in Seq(BucketRow)
    BY DEF SnapshotInv, TypeOK, BucketRow
  <2> QED BY <2>1
<1> HIDE DEF m
<1>3. /\ bucket' \in Seq(BucketRow) /\ Len(bucket') = m
      /\ \A i \in 1..m : /\ bucket'[i].rev = bucket[i].rev /\ bucket'[i].key = bucket[i].key
                         /\ bucket'[i].Tombstone = bucket[i].Tombstone
  <2>1. ASSUME NEW i \in 1..m
        PROVE  /\ [bucket[i] EXCEPT !.readable = i \notin bad] \in BucketRow
               /\ bucket'[i].rev = bucket[i].rev /\ bucket'[i].key = bucket[i].key
               /\ bucket'[i].Tombstone = bucket[i].Tombstone
    <3>1. bucket[i] \in BucketRow /\ bucket'[i] = [bucket[i] EXCEPT !.readable = i \notin bad]
      BY <1>1, <1>2
    <3> QED BY <3>1 DEF BucketRow
  <2>2. bucket' \in [1..m -> BucketRow]
    BY <1>1, <2>1
  <2>3. bucket' \in Seq(BucketRow) /\ Len(bucket') = m
    BY <1>2, <2>2
  <2> QED BY <2>1, <2>3, Zenon
<1>4. pos = 1 /\ stats = Empty /\ DOMAIN Empty = {} /\ walker = "etcd"
      /\ unsent = {} /\ batch = <<>> /\ c = <<>> /\ out = <<>> /\ consumer = "ranging"
  BY DEF SnapshotInv, ControlInv, Open, Empty, TypeOK
<1>5. UNCHANGED <<keyspace, revision, compactRev, prefix, pos, stats, unsent, batch, c, consumer, out>>
      /\ walker' = "walk"
  BY DEF Open, walkVars
<1>6. TypeOK'
  <2>1. pos' \in 1..(Len(bucket') + 1)
    BY <1>2, <1>3, <1>4, <1>5
  <2> QED BY <1>3, <1>4, <1>5, <2>1 DEF SnapshotInv, TypeOK, BucketRow
<1>7. BucketInv'
  <2>1. \A i \in 1..m : IsLast(bucket', i) <=> IsLast(bucket, i)
    BY <1>3 DEF IsLast, m
  <2>2. InOrder(bucket', revision')
    BY <1>3, <1>5 DEF SnapshotInv, BucketInv, InOrder, m
  <2>3. Agrees(bucket', keyspace')
    BY <1>3, <1>5, <2>1 DEF SnapshotInv, BucketInv, Agrees, m
  <2> QED BY <2>2, <2>3 DEF BucketInv
<1>8. StatsInv'
  <2>1. \A i \in 1..Len(bucket') : ~ReadRow(i)'
    BY <1>2, <1>3, <1>4, <1>5 DEF ReadRow
  <2> QED BY <1>4, <1>5, <2>1 DEF StatsInv
<1>9. ControlInv'
  BY <1>4, <1>5 DEF ControlInv
<1>10. DeliveryInv'
  BY <1>4, <1>5, NothingYet DEF Visited
<1> QED BY <1>6, <1>7, <1>8, <1>9, <1>10 DEF SnapshotInv

(* A file that does not open ends the program before anything is read.      *)
LEMMA OpenFailsStep ==
  ASSUME SnapshotInv, OpenFails
  PROVE  SnapshotInv'
<1>1. UNCHANGED <<bucket, keyspace, revision, compactRev, prefix, pos, stats, unsent, batch, c, out>>
      /\ walker = "etcd" /\ walker' = "failed" /\ consumer' = "exited"
  BY DEF OpenFails, etcdVars, walkVars
<1>2. TypeOK'
  BY <1>1 DEF SnapshotInv, TypeOK
<1>3. BucketInv'
  BY <1>1 DEF SnapshotInv, BucketInv
<1>4. StatsInv'
  BY <1>1 DEF SnapshotInv, StatsInv, ReadRow, LastRead, Counts
<1>5. ControlInv'
  BY <1>1 DEF SnapshotInv, ControlInv
<1>6. DeliveryInv'
  <2>1. Visited' = {}
    BY <1>1 DEF SnapshotInv, ControlInv, Visited, Empty
  <2> QED BY <1>1, <2>1, NothingYet DEF SnapshotInv, ControlInv
<1> QED BY <1>2, <1>3, <1>4, <1>5, <1>6 DEF SnapshotInv

(* One row of the walk makes the map hold what the last row read of that    *)
(* key says.                                                                *)
LEMMA WalkStep ==
  ASSUME SnapshotInv, Walk
  PROVE  SnapshotInv'
<1> DEFINE row == bucket[pos]
           m == Len(bucket)
<1>1. UNCHANGED <<bucket, keyspace, revision, compactRev, prefix, walker, unsent, batch, c, consumer, out>>
      /\ walker = "walk" /\ pos <= m /\ pos' = pos + 1
  BY DEF Walk, etcdVars
<1>2. m \in Nat /\ pos \in 1..m /\ \A i \in 1..m : bucket[i] \in BucketRow
  <2>1. bucket \in Seq(BucketRow) /\ pos \in 1..(m + 1)
    BY DEF SnapshotInv, TypeOK, BucketRow
  <2> QED BY <1>1, <2>1
<1>3. row \in BucketRow
  BY <1>2
<1>4. /\ Counts(row) => /\ DOMAIN stats' = DOMAIN stats \union {row.key}
                        /\ stats'[row.key] = Record(FirstSight(row), row)
                        /\ \A k \in DOMAIN stats : k # row.key => stats'[k] = stats[k]
      /\ ~Counts(row) => stats' = stats
  BY DEF Walk
<1> HIDE DEF row, m
<1>5. /\ unsent = {} /\ batch = <<>> /\ c = <<>> /\ out = <<>> /\ consumer # "exited" /\ consumer # "done"
      /\ DOMAIN stats \subseteq prefix /\ \A k \in DOMAIN stats : stats[k] \in Stats
  BY <1>1 DEF SnapshotInv, ControlInv, TypeOK
<1>6. row.rev \in Nat \ {0} /\ row.Tombstone \in BOOLEAN /\ row.key \in Key
  BY <1>3 DEF BucketRow
<1>7. Record(FirstSight(row), row) \in Stats
      /\ Record(FirstSight(row), row).KV = IF row.Tombstone THEN nil ELSE row.rev
  <2>1. FirstSight(row).RevCount \in Nat /\ FirstSight(row).TombstoneCount \in Nat
    BY <1>5 DEF FirstSight, Stats
  <2> QED BY <1>6, <2>1 DEF Record, Stats, nil
<1>8. TypeOK'
  <2>1. DOMAIN stats' \subseteq prefix /\ \A k \in DOMAIN stats' : stats'[k] \in Stats
    BY <1>4, <1>5, <1>7 DEF Counts
  <2>2. pos' \in 1..(m + 1)
    BY <1>1, <1>2
  <2> QED BY <1>1, <1>5, <2>1, <2>2 DEF SnapshotInv, TypeOK, m
<1>9. BucketInv'
  BY <1>1 DEF SnapshotInv, BucketInv
<1>10. ASSUME NEW i \in 1..m
       PROVE  ReadRow(i)' <=> (ReadRow(i) \/ (i = pos /\ Counts(row)))
  <2>1. ReadRow(i)' <=> i < pos' /\ Counts(bucket[i])
    BY <1>1 DEF ReadRow, Counts
  <2> QED BY <1>1, <1>2, <2>1 DEF ReadRow, row
<1>11. StatsInv'
  <2>1. \A i \in 1..m : ReadRow(i)' => bucket[i].key \in DOMAIN stats'
    BY <1>4, <1>10 DEF SnapshotInv, StatsInv, row, m
  <2>2. ASSUME NEW k \in DOMAIN stats'
        PROVE  \E i \in 1..m :
                 /\ bucket[i].key = k /\ LastRead(i)'
                 /\ stats'[k].KV = IF bucket[i].Tombstone THEN nil ELSE bucket[i].rev
    <3>1. CASE Counts(row) /\ k = row.key
      <4>1. PICK i \in 1..m : i = pos
        BY <1>2
      <4>2. LastRead(i)'
        <5>1. ReadRow(i)'
          BY <1>10, <3>1, <4>1
        <5>2. \A j \in 1..m : i < j => ~ReadRow(j)'
          BY <1>2, <1>10, <4>1 DEF ReadRow
        <5> QED BY <1>1, <5>1, <5>2 DEF LastRead, m
      <4>3. row = bucket[i] /\ stats'[k] = Record(FirstSight(row), row)
        BY <1>4, <3>1, <4>1 DEF row
      <4> QED BY <1>7, <3>1, <4>2, <4>3
    <3>2. CASE ~(Counts(row) /\ k = row.key)
      <4>1. k \in DOMAIN stats /\ stats'[k] = stats[k]
        BY <1>4, <3>2
      <4>2. PICK i \in 1..m :
              /\ bucket[i].key = k /\ LastRead(i)
              /\ stats[k].KV = IF bucket[i].Tombstone THEN nil ELSE bucket[i].rev
        BY <4>1 DEF SnapshotInv, StatsInv, m
      <4>3. LastRead(i)'
        <5>1. ReadRow(i)'
          BY <1>10, <4>2 DEF LastRead
        <5>2. ASSUME NEW j \in 1..m, i < j, ReadRow(j)' PROVE bucket[j].key # bucket[i].key
          <6>1. CASE ReadRow(j)
            BY <4>2, <5>2, <6>1 DEF LastRead, m
          <6>2. CASE j = pos /\ Counts(row)
            BY <3>2, <4>2, <6>2 DEF row
          <6> QED BY <1>10, <5>2, <6>1, <6>2
        <5> QED BY <1>1, <5>1, <5>2 DEF LastRead, m
      <4> QED BY <4>1, <4>2, <4>3
    <3> QED BY <3>1, <3>2
  <2> QED BY <1>1, <2>1, <2>2 DEF StatsInv, m
<1>12. ControlInv'
  BY <1>1, <1>5 DEF ControlInv
<1>13. DeliveryInv'
  BY <1>1, <1>5, NothingYet DEF Visited
<1> QED BY <1>8, <1>9, <1>11, <1>12, <1>13 DEF SnapshotInv

(* At the end of the walk all the keys of the map are still to be sent.     *)
LEMMA EndWalkStep ==
  ASSUME SnapshotInv, EndWalk
  PROVE  SnapshotInv'
<1>1. UNCHANGED <<bucket, keyspace, revision, compactRev, prefix, pos, stats, batch, c, consumer, out>>
      /\ walker = "walk" /\ walker' = "collect" /\ pos > Len(bucket) /\ unsent' = DOMAIN stats
  BY DEF EndWalk, etcdVars
<1>2. pos = Len(bucket) + 1
  <2>1. Len(bucket) \in Nat /\ pos \in 1..(Len(bucket) + 1)
    BY DEF SnapshotInv, TypeOK
  <2> QED BY <1>1, <2>1
<1>3. TypeOK'
  BY <1>1 DEF SnapshotInv, TypeOK
<1>4. BucketInv'
  BY <1>1 DEF SnapshotInv, BucketInv
<1>5. StatsInv'
  BY <1>1 DEF SnapshotInv, StatsInv, ReadRow, LastRead, Counts
<1>6. batch = <<>> /\ c = <<>> /\ out = <<>> /\ consumer # "exited" /\ consumer # "done"
  BY <1>1 DEF SnapshotInv, ControlInv
<1>7. ControlInv'
  BY <1>1, <1>2, <1>6, SnapshotAssumption DEF ControlInv
<1>8. DeliveryInv'
  BY <1>1, <1>6, NothingYet DEF Visited
<1> QED BY <1>3, <1>4, <1>5, <1>7, <1>8 DEF SnapshotInv

(* One key of the map goes to the batch, or is dropped when its last row is *)
(* a tombstone: no key is lost or repeated.                                 *)
LEMMA CollectStep ==
  ASSUME SnapshotInv, Collect
  PROVE  SnapshotInv'
<1>1. UNCHANGED <<bucket, keyspace, revision, compactRev, prefix, pos, stats, c, consumer, out>>
      /\ walker = "collect"
  BY DEF Collect, etcdVars
<1>2. PICK k \in unsent :
        /\ unsent' = unsent \ {k}
        /\ batch' = IF stats[k].KV = nil THEN batch
                    ELSE Append(batch, [key |-> k, ModRevision |-> stats[k].KV])
  BY DEF Collect
<1>3. walker' = IF Len(batch') >= batchSize THEN "send" ELSE "collect"
  BY DEF Collect
<1>0. PICK kv : kv = [key |-> k, ModRevision |-> stats[k].KV]
  OBVIOUS
<1>4. /\ k \in DOMAIN stats /\ k \in prefix /\ stats[k].KV \in Nat
      /\ batch \in Seq(KeyValue) /\ c \in Seq(Seq(KeyValue))
      /\ Len(batch) < batchSize /\ batchSize \in Nat /\ consumer # "exited" /\ consumer # "done"
  BY <1>1, <1>2, SnapshotAssumption DEF SnapshotInv, TypeOK, ControlInv, Stats, KeyValue
<1>5. stats[k].KV # nil => kv \in KeyValue
  BY <1>0, <1>4 DEF KeyValue, nil
<1>6. kv.key = k /\ kv.ModRevision = stats[k].KV
  BY <1>0
<1>7. batch' \in Seq(KeyValue) /\ Len(batch') \in Nat /\ Len(batch') <= batchSize
  <2>1. CASE stats[k].KV = nil
    BY <1>2, <1>4, <2>1
  <2>2. CASE stats[k].KV # nil
    <3>1. batch' = Append(batch, kv)
      BY <1>0, <1>2, <2>2, Zenon
    <3>2. Len(Append(batch, kv)) = Len(batch) + 1 /\ Append(batch, kv) \in Seq(KeyValue) /\ Len(batch) \in Nat
      BY <1>4, <1>5, <2>2, AppendFacts
    <3> HIDE DEF KeyValue
    <3> QED BY <1>4, <3>1, <3>2
  <2> QED BY <2>1, <2>2
<1>8. TypeOK'
  <2>1. KeyValue' = KeyValue
    BY <1>1 DEF KeyValue
  <2>2. unsent' \subseteq DOMAIN stats
    BY <1>2 DEF SnapshotInv, TypeOK
  <2> QED BY <1>1, <1>3, <1>7, <2>2 DEF SnapshotInv, TypeOK, KeyValue
<1>9. BucketInv'
  BY <1>1 DEF SnapshotInv, BucketInv
<1>10. StatsInv'
  BY <1>1 DEF SnapshotInv, StatsInv, ReadRow, LastRead, Counts
<1>11. ControlInv'
  <2>1. walker' = "collect" => Len(batch') < batchSize
    BY <1>3, <1>4, <1>7
  <2>2. walker' \in {"send", "collect"} /\ pos' = Len(bucket') + 1
    BY <1>1, <1>3 DEF SnapshotInv, ControlInv
  <2> QED BY <1>1, <1>4, <2>1, <2>2 DEF ControlInv
<1>12. DeliveryInv'
  <2>0. PICK q, q2 : q = Underway /\ q2 = Underway'
    OBVIOUS
  <2>1. q \in Seq(KeyValue) /\ q2 = IF stats[k].KV = nil THEN q ELSE Append(q, kv)
    <3>1. CASE stats[k].KV = nil
      <4>1. q \in Seq(KeyValue)
        BY <1>4, <2>0, UnderwayFacts DEF Underway
      <4>2. q2 = q
        BY <1>1, <1>2, <2>0, <3>1 DEF Underway
      <4> QED BY <3>1, <4>1, <4>2
    <3>2. CASE stats[k].KV # nil
      <4>1. /\ FlattenSeq(Append(c, batch)) \in Seq(KeyValue)
            /\ FlattenSeq(Append(c, Append(batch, kv))) = Append(FlattenSeq(Append(c, batch)), kv)
        BY <1>4, <1>5, <3>2, UnderwayFacts
      <4>2. q2 = FlattenSeq(Append(c, Append(batch, kv)))
        BY <1>0, <1>1, <1>2, <2>0, <3>2, Zenon DEF Underway
      <4> QED BY <2>0, <3>2, <4>1, <4>2, Zenon DEF Underway
    <3> QED BY <3>1, <3>2
  <2>2. Visited' = Visited \union {k} /\ k \notin Visited
    BY <1>1, <1>2, <1>3, <1>4 DEF Visited
  <2>3. \A x : IsValue(x) => IsValue(x)'
    BY <1>1, <2>2 DEF IsValue
  <2>4. /\ out \in Seq(Written)
        /\ \A i \in 1..Len(q) : IsValue(q[i])
        /\ \A i \in 1..Len(out) : IsValue(out[i]) /\ out[i].ModRevision \notin Rejected
        /\ Distinct(q) /\ Distinct(out)
        /\ \A i \in 1..Len(q) : ~Among(out, q[i].key)
        /\ \A j \in Visited : stats[j].KV \in Rejected \union {nil} \/ Among(q, j) \/ Among(out, j)
    BY <2>0 DEF SnapshotInv, DeliveryInv, Delivery
  <2>5. ~Among(out, k) /\ ~Among(q, k)
    BY <2>2, <2>4 DEF Among, IsValue
  <2>6. /\ \A i \in 1..Len(q2) : IsValue(q2[i])'
        /\ Distinct(q2)
        /\ \A i \in 1..Len(q2) : ~Among(out, q2[i].key)
        /\ \A j : Among(q, j) => Among(q2, j)
        /\ stats[k].KV \in Rejected \union {nil} \/ Among(q2, k)
    <3>1. CASE stats[k].KV = nil
      <4>1. q2 = q
        BY <2>1, <3>1
      <4> QED BY <2>3, <2>4, <3>1, <4>1, Zenon
    <3>2. CASE stats[k].KV # nil
      <4>1. /\ Len(q) \in Nat /\ Len(q2) = Len(q) + 1 /\ q2[Len(q) + 1] = kv
            /\ \A i \in 1..Len(q) : q2[i] = q[i]
        BY <1>5, <2>1, <3>2, AppendFacts
      <4>2. \A i \in 1..Len(q2) : i \in 1..Len(q) \/ i = Len(q) + 1
        BY <4>1
      <4>3. IsValue(kv)'
        BY <1>1, <1>6, <2>2 DEF IsValue
      <4>4. \A i \in 1..Len(q2) : IsValue(q2[i])'
        BY <2>3, <2>4, <4>1, <4>2, <4>3, Zenon
      <4>5. Distinct(q2)
        BY <1>6, <2>4, <2>5, <4>1, <4>2 DEF Distinct, Among
      <4>6. \A i \in 1..Len(q2) : ~Among(out, q2[i].key)
        BY <1>6, <2>4, <2>5, <4>1, <4>2, Zenon
      <4>7. \A j : Among(q, j) => Among(q2, j)
        BY <4>1 DEF Among
      <4>8. Among(q2, k)
        BY <1>6, <4>1 DEF Among
      <4> QED BY <4>4, <4>5, <4>6, <4>7, <4>8
    <3> QED BY <3>1, <3>2
  <2>7. \A j \in Visited' : stats[j].KV \in Rejected \union {nil} \/ Among(q2, j) \/ Among(out, j)
    BY <2>2, <2>4, <2>6
  <2>8. Delivery(Visited, Underway)'
    <3>1. Written' = Written /\ out' = out /\ stats' = stats
      BY <1>1 DEF Written
    <3>2. PICK o : o = out
      OBVIOUS
    <3>3. \A i \in 1..Len(o) : IsValue(o[i])'
      BY <2>3, <2>4, <3>2
    <3> QED BY <2>0, <2>4, <2>6, <2>7, <3>1, <3>2, <3>3 DEF Delivery
  <2> QED BY <2>8 DEF DeliveryInv
<1> QED BY <1>8, <1>9, <1>10, <1>11, <1>12 DEF SnapshotInv

(* Sending a batch moves it from the goroutine to the channel.              *)
LEMMA SameUnderway ==
  ASSUME SnapshotInv, UNCHANGED <<prefix, stats, unsent, out>>, Underway' = Underway,
         walker # "walk", walker' # "walk"
  PROVE  DeliveryInv'
<1>1. Visited' = Visited /\ Written' = Written
  BY DEF Visited, Written
<1>2. \A x : IsValue(x)' <=> IsValue(x)
  BY <1>1, Zenon DEF IsValue
<1>3. Delivery(Visited, Underway)'
  BY <1>1, <1>2 DEF SnapshotInv, DeliveryInv, Delivery
<1> QED BY <1>3 DEF DeliveryInv

(* A full batch goes to the channel, which does not change what is under    *)
(* way.                                                                     *)
LEMMA SendStep ==
  ASSUME SnapshotInv, Send
  PROVE  SnapshotInv'
<1>1. UNCHANGED <<bucket, keyspace, revision, compactRev, prefix, pos, stats, unsent, consumer, out>>
      /\ walker = "send" /\ walker' = "collect" /\ batch' = <<>>
      /\ c' = Append(c, batch) /\ Len(c) < ChanCap
  BY DEF Send, AfterSend, etcdVars
<1>2. batch \in Seq(KeyValue) /\ c \in Seq(Seq(KeyValue))
  BY DEF SnapshotInv, TypeOK, KeyValue
<1>3. c' \in Seq(Seq(KeyValue)) /\ Len(c') <= ChanCap
  <2>1. c' \in Seq(Seq(KeyValue)) /\ Len(c) \in Nat /\ Len(c') = Len(c) + 1
    BY <1>1, <1>2, AppendFacts
  <2> HIDE DEF KeyValue
  <2> QED BY <1>1, <2>1, SnapshotAssumption
<1>4. batch' \in Seq(KeyValue) /\ Len(batch') = 0
  BY <1>1
<1>5. TypeOK'
  <2>1. KeyValue' = KeyValue
    BY <1>1 DEF KeyValue
  <2>2. Len(batch') <= batchSize
    BY <1>4, SnapshotAssumption
  <2> QED BY <1>1, <1>3, <1>4, <2>2 DEF SnapshotInv, TypeOK, KeyValue
<1>6. BucketInv'
  BY <1>1 DEF SnapshotInv, BucketInv
<1>7. StatsInv'
  BY <1>1 DEF SnapshotInv, StatsInv, ReadRow, LastRead, Counts
<1>8. ControlInv'
  <2>1. Len(batch') < batchSize
    BY <1>4, SnapshotAssumption
  <2> QED BY <1>1, <2>1 DEF SnapshotInv, ControlInv
<1>9. Underway' = Underway
  BY <1>1, <1>2, UnderwayFacts DEF Underway
<1>10. DeliveryInv'
  BY <1>1, <1>9, SameUnderway
<1> QED BY <1>5, <1>6, <1>7, <1>8, <1>10 DEF SnapshotInv

(* After the range over the map the rest goes to the channel, which is      *)
(* closed with nothing left behind.                                         *)
LEMMA SendRestStep ==
  ASSUME SnapshotInv, SendRest
  PROVE  SnapshotInv'
<1>1. UNCHANGED <<bucket, keyspace, revision, compactRev, prefix, pos, stats, unsent, consumer, out>>
      /\ walker = "collect" /\ walker' = "closed" /\ batch' = <<>> /\ unsent = {}
      /\ IF batch # <<>> THEN Len(c) < ChanCap /\ c' = Append(c, batch) ELSE c' = c
  BY DEF SendRest, AfterRange, etcdVars
<1>2. batch \in Seq(KeyValue) /\ c \in Seq(Seq(KeyValue)) /\ Len(c) <= ChanCap
  BY DEF SnapshotInv, TypeOK, KeyValue
<1>3. c' \in Seq(Seq(KeyValue)) /\ Len(c') <= ChanCap
  <2>1. CASE batch = <<>>
    BY <1>1, <1>2, <2>1
  <2>2. CASE batch # <<>>
    <3>1. c' \in Seq(Seq(KeyValue)) /\ Len(c) \in Nat /\ Len(c') = Len(c) + 1
      BY <1>1, <1>2, <2>2, AppendFacts
    <3> HIDE DEF KeyValue
    <3> QED BY <1>1, <2>2, <3>1, SnapshotAssumption
  <2> QED BY <2>1, <2>2
<1>4. batch' \in Seq(KeyValue) /\ Len(batch') = 0
  BY <1>1
<1>5. TypeOK'
  <2>1. KeyValue' = KeyValue
    BY <1>1 DEF KeyValue
  <2>2. Len(batch') <= batchSize
    BY <1>4, SnapshotAssumption
  <2> QED BY <1>1, <1>3, <1>4, <2>2 DEF SnapshotInv, TypeOK, KeyValue
<1>6. BucketInv'
  BY <1>1 DEF SnapshotInv, BucketInv
<1>7. StatsInv'
  BY <1>1 DEF SnapshotInv, StatsInv, ReadRow, LastRead, Counts
<1>8. ControlInv'
  BY <1>1 DEF SnapshotInv, ControlInv
<1>9. Underway' = Underway
  <2>1. CASE batch = <<>>
    BY <1>1, <2>1 DEF Underway
  <2>2. CASE batch # <<>>
    <3>1. c' = Append(c, batch) /\ batch' = <<>>
      BY <1>1, <2>2
    <3>2. FlattenSeq(Append(Append(c, batch), <<>>)) = FlattenSeq(Append(c, batch))
      BY <1>2, UnderwayFacts
    <3> QED BY <3>1, <3>2, Zenon DEF Underway
  <2> QED BY <2>1, <2>2
<1>10. DeliveryInv'
  BY <1>1, <1>9, SameUnderway
<1> QED BY <1>5, <1>6, <1>7, <1>8, <1>10 DEF SnapshotInv

(* The loop of the consumer ends only when the channel is closed and        *)
(* drained.                                                                 *)
LEMMA LoopEndsStep ==
  ASSUME SnapshotInv, LoopEnds
  PROVE  SnapshotInv'
<1>1. UNCHANGED <<bucket, keyspace, revision, compactRev, prefix, walker, pos, stats, unsent, batch, c, out>>
      /\ consumer' = "done" /\ walker = "closed" /\ c = <<>>
  BY DEF LoopEnds, etcdVars, walkVars
<1>2. TypeOK'
  BY <1>1 DEF SnapshotInv, TypeOK
<1>3. BucketInv'
  BY <1>1 DEF SnapshotInv, BucketInv
<1>4. StatsInv'
  BY <1>1 DEF SnapshotInv, StatsInv, ReadRow, LastRead, Counts
<1>5. ControlInv'
  BY <1>1 DEF SnapshotInv, ControlInv
<1>6. DeliveryInv'
  <2>1. Underway' = Underway
    BY <1>1 DEF Underway
  <2> QED BY <1>1, <2>1, SameUnderway
<1> QED BY <1>2, <1>3, <1>4, <1>5, <1>6 DEF SnapshotInv

----------------------------------------------------------------------------
(* The loop writes the key-values of a batch that the filter lets pass, in  *)
(* their order.                                                             *)
MadeFrom(made, data) ==
  /\ made \in Seq(Written)
  /\ \A p \in 1..Len(made) :
       \E i \in 1..Len(data) : ~filterReject(data[i]) /\ made[p] = KeyMeta(data[i])
  /\ \A i \in 1..Len(data) :
       ~filterReject(data[i]) => \E p \in 1..Len(made) : made[p] = KeyMeta(data[i])
  /\ \A p, q \in 1..Len(made) : p < q =>
       \E i, j \in 1..Len(data) :
         i < j /\ made[p] = KeyMeta(data[i]) /\ made[q] = KeyMeta(data[j])

(* The records made of a batch are those of its key-values that the filter  *)
(* lets through, in their order.                                            *)
LEMMA RecordsFacts ==
  ASSUME NEW data \in Seq(KeyValue), NEW made, made = Records(data),
         \A k \in DOMAIN stats : stats[k] \in Stats,
         \A i \in 1..Len(data) : data[i].key \in DOMAIN stats
  PROVE  MadeFrom(made, data)
<1> DEFINE m == Len(data)
           s == [i \in 1..m |-> IF filterReject(data[i]) THEN <<>> ELSE <<KeyMeta(data[i])>>]
<1>1. m \in Nat /\ \A i \in 1..m : data[i] \in KeyValue
  OBVIOUS
<1>2. \A i \in 1..m : KeyMeta(data[i]) \in Written
  BY <1>1 DEF KeyMeta, Written, KeyValue, Stats
<1>3. \A i \in 1..m : s[i] = IF filterReject(data[i]) THEN <<>> ELSE <<KeyMeta(data[i])>>
  OBVIOUS
<1>4. \A i \in 1..m : s[i] \in Seq(Written) /\ Len(s[i]) <= 1
  <2> SUFFICES ASSUME NEW i \in 1..m PROVE s[i] \in Seq(Written) /\ Len(s[i]) <= 1
    OBVIOUS
  <2>1. <<KeyMeta(data[i])>> \in Seq(Written) /\ Len(<<KeyMeta(data[i])>>) = 1
    <3> DEFINE x == KeyMeta(data[i])
    <3>1. x \in Written
      BY <1>2
    <3> HIDE DEF x
    <3>2. <<x>> \in Seq(Written) /\ Len(<<x>>) = 1
      BY <3>1
    <3> QED BY <3>2 DEF x
  <2>2. <<>> \in Seq(Written) /\ Len(<<>>) = 0
    OBVIOUS
  <2>3. 0 <= 1 /\ 1 <= 1
    OBVIOUS
  <2> HIDE DEF s
  <2> QED BY <1>3, <2>1, <2>2, <2>3, Zenon
<1>5. s \in Seq(Seq(Written)) /\ Len(s) = m
  <2>1. s \in [1..m -> Seq(Written)]
    BY <1>4
  <2> HIDE DEF s
  <2> QED BY <1>1, <2>1
<1>6. made = FlattenSeq(s)
  BY DEF Records
<1> HIDE DEF s, m
<1>7. /\ made \in Seq(Written)
      /\ \A p \in 1..Len(made) : \E i \in 1..m : s[i] = <<made[p]>>
      /\ \A i \in 1..m : s[i] # <<>> => \E p \in 1..Len(made) : s[i] = <<made[p]>>
      /\ \A p, q \in 1..Len(made) : p < q =>
           \E i, j \in 1..m : i < j /\ s[i] = <<made[p]>> /\ s[j] = <<made[q]>>
  <2>1. \A i \in 1..Len(s) : Len(s[i]) <= 1
    BY <1>4, <1>5
  <2>2. s \in Seq(Seq(Written)) /\ Len(s) = m
    BY <1>5
  <2> HIDE DEF Written
  <2>3. KeepsElements(Written, s, made)
    BY <1>6, <2>1, <2>2, FlattenOptions
  <2> QED BY <2>2, <2>3, ZenonT(30) DEF KeepsElements
<1>8. \A x, y : <<x>> = <<y>> => x = y
  OBVIOUS
<1>9. \A x : <<x>> # <<>>
  OBVIOUS
<1>10. ASSUME NEW i \in 1..m, NEW x, s[i] = <<x>>
       PROVE  ~filterReject(data[i]) /\ x = KeyMeta(data[i])
  BY <1>3, <1>8, <1>9, <1>10, Zenon
<1>11. ASSUME NEW i \in 1..m, ~filterReject(data[i])
       PROVE  \E p \in 1..Len(made) : made[p] = KeyMeta(data[i])
  <2>1. s[i] = <<KeyMeta(data[i])>>
    BY <1>3, <1>11, Zenon
  <2>2. PICK p \in 1..Len(made) : s[i] = <<made[p]>>
    BY <1>7, <1>9, <2>1, ZenonT(30)
  <2> QED BY <1>8, <2>1, <2>2, Zenon
<1>12. \A p \in 1..Len(made) :
         \E i \in 1..m : ~filterReject(data[i]) /\ made[p] = KeyMeta(data[i])
  <2> SUFFICES ASSUME NEW p \in 1..Len(made)
               PROVE  \E i \in 1..m : ~filterReject(data[i]) /\ made[p] = KeyMeta(data[i])
    OBVIOUS
  <2>1. PICK i \in 1..m : s[i] = <<made[p]>>
    BY <1>7, Zenon
  <2>2. ~filterReject(data[i]) /\ made[p] = KeyMeta(data[i])
    BY <1>10, <2>1, Zenon
  <2> QED BY <2>2
<1>13. ASSUME NEW p \in 1..Len(made), NEW q \in 1..Len(made), p < q
       PROVE  \E i, j \in 1..m :
                i < j /\ made[p] = KeyMeta(data[i]) /\ made[q] = KeyMeta(data[j])
  <2>1. PICK i \in 1..m, j \in 1..m : i < j /\ s[i] = <<made[p]>> /\ s[j] = <<made[q]>>
    BY <1>7, <1>13, Zenon
  <2> QED BY <1>10, <2>1, Zenon
<1> QED BY <1>7, <1>11, <1>12, <1>13, Zenon DEF m, MadeFrom

(* A batch is received: its records follow those already written.           *)
LEMMA DeliverBatch ==
  ASSUME SnapshotInv, Receive
  PROVE  DeliveryInv'
<1>0. PICK data, q, q2, o, made :
        /\ data = Head(c) /\ q = Underway /\ q2 = Underway' /\ o = out /\ made = Records(Head(c))
  OBVIOUS
<1>1. /\ out' = o \o made /\ c # <<>> /\ c' = Tail(c)
      /\ UNCHANGED <<prefix, walker, pos, stats, unsent, batch>>
  BY <1>0 DEF Receive, walkVars
<1>2. /\ batch \in Seq(KeyValue) /\ c \in Seq(Seq(KeyValue)) /\ \A k \in DOMAIN stats : stats[k] \in Stats
  BY DEF SnapshotInv, TypeOK, KeyValue
<1>3. data \in Seq(KeyValue) /\ q2 \in Seq(KeyValue) /\ q = data \o q2
  <2>1. Head(c) \in Seq(KeyValue) /\ Tail(c) \in Seq(Seq(KeyValue))
        /\ FlattenSeq(c) = Head(c) \o FlattenSeq(Tail(c))
        /\ FlattenSeq(Tail(c)) \in Seq(KeyValue)
    BY <1>1, <1>2, FlattenHead
  <2>2. q = FlattenSeq(c) \o batch
    BY <1>0, <1>2, FlattenAppend DEF Underway
  <2>3. q2 = FlattenSeq(Tail(c)) \o batch
    BY <1>0, <1>1, <1>2, <2>1, FlattenAppend DEF Underway
  <2>4. \A a, b, d \in Seq(KeyValue) : (a \o b) \o d = a \o (b \o d)
    BY ConcatAssociative
  <2>5. q = Head(c) \o q2
    <3>1. (Head(c) \o FlattenSeq(Tail(c))) \o batch = Head(c) \o (FlattenSeq(Tail(c)) \o batch)
      BY <1>2, <2>1, <2>4, Zenon
    <3> QED BY <2>1, <2>2, <2>3, <3>1, Zenon
  <2>6. \A a, b \in Seq(KeyValue) : a \o b \in Seq(KeyValue)
    OBVIOUS
  <2> QED BY <1>0, <1>2, <2>1, <2>3, <2>5, <2>6, Zenon
<1>4. /\ o \in Seq(Written)
      /\ \A i \in 1..Len(q) : IsValue(q[i])
      /\ \A i \in 1..Len(o) : IsValue(o[i]) /\ o[i].ModRevision \notin Rejected
      /\ Distinct(q) /\ Distinct(o)
      /\ \A i \in 1..Len(q) : ~Among(o, q[i].key)
      /\ \A j \in Visited : stats[j].KV \in Rejected \union {nil} \/ Among(q, j) \/ Among(o, j)
  BY <1>0 DEF SnapshotInv, DeliveryInv, Delivery
<1> DEFINE n == Len(data)
<1>5. /\ n \in Nat /\ Len(q2) \in Nat /\ Len(q) = n + Len(q2)
      /\ \A i \in 1..n : i \in 1..Len(q) /\ q[i] = data[i]
      /\ \A i \in 1..Len(q2) : n + i \in 1..Len(q) /\ q[n + i] = q2[i]
      /\ \A i \in 1..Len(q) : i \in 1..n \/ (i - n \in 1..Len(q2) /\ q2[i - n] = q[i])
  <2>1. n \in Nat /\ Len(q2) \in Nat
    BY <1>3
  <2>2. /\ Len(q) = n + Len(q2)
        /\ \A i \in 1..(n + Len(q2)) : q[i] = IF i <= n THEN data[i] ELSE q2[i - n]
    BY <1>3, ConcatProperties
  <2> HIDE DEF n
  <2>3. \A i \in 1..n : i \in 1..Len(q) /\ q[i] = data[i]
    BY <2>1, <2>2
  <2>4. \A i \in 1..Len(q2) : n + i \in 1..Len(q) /\ q[n + i] = q2[i]
    BY <2>1, <2>2
  <2>5. \A i \in 1..Len(q) : i \in 1..n \/ (i - n \in 1..Len(q2) /\ q2[i - n] = q[i])
    BY <2>1, <2>2
  <2> QED BY <2>1, <2>2, <2>3, <2>4, <2>5
<1> HIDE DEF n
<1>6. \A i \in 1..n : data[i].key \in DOMAIN stats /\ stats[data[i].key].KV = data[i].ModRevision
  <2>1. \A k \in Visited : k \in DOMAIN stats
    BY DEF Visited
  <2> QED BY <1>4, <1>5, <2>1 DEF IsValue
<1>7. /\ made \in Seq(Written)
      /\ \A p \in 1..Len(made) :
           \E i \in 1..n : ~filterReject(data[i]) /\ made[p] = KeyMeta(data[i])
      /\ \A i \in 1..n : ~filterReject(data[i]) => \E p \in 1..Len(made) : made[p] = KeyMeta(data[i])
      /\ \A p, r \in 1..Len(made) : p < r =>
           \E i, j \in 1..n : i < j /\ made[p] = KeyMeta(data[i]) /\ made[r] = KeyMeta(data[j])
  <2>1. made = Records(data)
    BY <1>0
  <2>2. \A i \in 1..Len(data) : data[i].key \in DOMAIN stats
    BY <1>6 DEF n
  <2>3. MadeFrom(made, data)
    BY <1>2, <1>3, <2>1, <2>2, RecordsFacts
  <2> QED BY <2>3, Zenon DEF MadeFrom, n
<1>8. \A kv : KeyMeta(kv).key = kv.key /\ KeyMeta(kv).ModRevision = kv.ModRevision
  BY DEF KeyMeta
<1>9. ASSUME NEW p \in 1..Len(made)
      PROVE  \E i \in 1..n : /\ made[p].key = q[i].key /\ made[p].ModRevision = q[i].ModRevision
                            /\ q[i].ModRevision \notin Rejected /\ i \in 1..Len(q)
  <2>1. PICK i \in 1..n : ~filterReject(data[i]) /\ made[p] = KeyMeta(data[i])
    BY <1>7, Zenon
  <2>2. q[i] = data[i] /\ i \in 1..Len(q)
    BY <1>5
  <2>3. made[p].key = q[i].key /\ made[p].ModRevision = q[i].ModRevision
    BY <1>8, <2>1, <2>2, Zenon
  <2>4. q[i].ModRevision \notin Rejected
    BY <2>1, <2>2 DEF filterReject
  <2> QED BY <2>2, <2>3, <2>4
<1> DEFINE o2 == o \o made
           l == Len(o)
<1>10. /\ o2 \in Seq(Written) /\ l \in Nat /\ Len(made) \in Nat /\ Len(o2) = l + Len(made)
       /\ \A i \in 1..l : i \in 1..Len(o2) /\ o2[i] = o[i]
       /\ \A i \in 1..Len(made) : l + i \in 1..Len(o2) /\ o2[l + i] = made[i]
       /\ \A i \in 1..Len(o2) : i \in 1..l \/ (i - l \in 1..Len(made) /\ o2[i] = made[i - l])
  <2>1. l \in Nat /\ Len(made) \in Nat
    BY <1>4, <1>7
  <2>2. /\ o2 \in Seq(Written) /\ Len(o2) = l + Len(made)
        /\ \A i \in 1..(l + Len(made)) : o2[i] = IF i <= l THEN o[i] ELSE made[i - l]
    BY <1>4, <1>7, ConcatProperties
  <2> HIDE DEF l, o2
  <2>3. \A i \in 1..l : i \in 1..Len(o2) /\ o2[i] = o[i]
    BY <2>1, <2>2
  <2>4. \A i \in 1..Len(made) : l + i \in 1..Len(o2) /\ o2[l + i] = made[i]
    BY <2>1, <2>2
  <2>5. \A i \in 1..Len(o2) : i \in 1..l \/ (i - l \in 1..Len(made) /\ o2[i] = made[i - l])
    BY <2>1, <2>2
  <2> QED BY <2>1, <2>2, <2>3, <2>4, <2>5
<1> HIDE DEF o2, l
<1>11. Visited' = Visited /\ Written' = Written /\ \A x : IsValue(x)' <=> IsValue(x)
  <2>1. Visited' = Visited
    BY <1>1 DEF Visited
  <2> QED BY <1>1, <2>1 DEF IsValue, Written
<1>12. \A i \in 1..Len(q2) : IsValue(q2[i])
  BY <1>4, <1>5
<1>13. \A i \in 1..Len(o2) : IsValue(o2[i]) /\ o2[i].ModRevision \notin Rejected
  <2> SUFFICES ASSUME NEW i \in 1..Len(o2)
               PROVE  IsValue(o2[i]) /\ o2[i].ModRevision \notin Rejected
    OBVIOUS
  <2>1. CASE i \in 1..l
    BY <1>4, <1>10, <2>1 DEF l
  <2>2. CASE i - l \in 1..Len(made) /\ o2[i] = made[i - l]
    <3>1. PICK j \in 1..Len(q) : /\ o2[i].key = q[j].key /\ o2[i].ModRevision = q[j].ModRevision
                                 /\ q[j].ModRevision \notin Rejected
      BY <1>9, <2>2, SMTT(30)
    <3> QED BY <1>4, <3>1 DEF IsValue
  <2> QED BY <1>10, <2>1, <2>2
<1>14. Distinct(q2)
  <2> SUFFICES ASSUME NEW i \in 1..Len(q2), NEW j \in 1..Len(q2), q2[i].key = q2[j].key PROVE i = j
    BY DEF Distinct
  <2>1. n + i \in 1..Len(q) /\ n + j \in 1..Len(q) /\ q[n + i].key = q[n + j].key
    BY <1>5
  <2>2. n + i = n + j
    BY <1>4, <2>1 DEF Distinct
  <2> QED BY <1>5, <2>2
<1>15. Distinct(o2)
  <2> SUFFICES ASSUME NEW i \in 1..Len(o2), NEW j \in 1..Len(o2), i < j, o2[i].key = o2[j].key
               PROVE  FALSE
    <3>1. SUFFICES ASSUME NEW a \in 1..Len(o2), NEW b \in 1..Len(o2), o2[a].key = o2[b].key, a # b
                   PROVE  FALSE
      BY DEF Distinct
    <3>2. a < b \/ b < a
      BY <3>1
    <3> QED BY <3>1, <3>2
  <2>1. CASE i \in 1..l /\ j \in 1..l
    <3>1. i = j
      BY <1>4, <1>10, <2>1 DEF Distinct, l
    <3> QED BY <3>1
  <2>2. CASE i \in 1..l /\ j - l \in 1..Len(made) /\ o2[j] = made[j - l]
    <3>1. PICK p \in 1..Len(q) : made[j - l].key = q[p].key
      BY <1>9, <2>2
    <3>2. Among(o, q[p].key)
      <4>1. o[i].key = q[p].key
        BY <1>10, <2>2, <3>1
      <4> QED BY <2>2, <4>1 DEF Among, l
    <3> QED BY <1>4, <3>2
  <2>3. CASE i - l \in 1..Len(made) /\ o2[i] = made[i - l] /\ j \notin 1..l
    <3>1. i - l < j - l /\ j - l \in 1..Len(made) /\ o2[j] = made[j - l]
      BY <1>10, <2>3
    <3>2. PICK a \in 1..n, b \in 1..n :
            a < b /\ made[i - l] = KeyMeta(data[a]) /\ made[j - l] = KeyMeta(data[b])
      BY <1>7, <2>3, <3>1
    <3>3. a \in 1..Len(q) /\ b \in 1..Len(q) /\ q[a].key = q[b].key
      BY <1>5, <1>8, <2>3, <3>1, <3>2, SMTT(30)
    <3>4. a = b
      BY <1>4, <3>3 DEF Distinct
    <3> QED BY <3>2, <3>4
  <2>4. CASE i - l \in 1..Len(made) /\ j \in 1..l
    BY <1>10, <2>4
  <2> QED BY <1>10, <2>1, <2>2, <2>3, <2>4
<1>16. ASSUME NEW i \in 1..Len(q2) PROVE ~Among(o2, q2[i].key)
  <2> SUFFICES ASSUME NEW j \in 1..Len(o2), o2[j].key = q2[i].key PROVE FALSE
    BY DEF Among
  <2>1. n + i \in 1..Len(q) /\ q[n + i] = q2[i]
    BY <1>5
  <2>2. CASE j \in 1..l
    <3>1. Among(o, q[n + i].key)
      BY <1>10, <2>1, <2>2 DEF Among, l
    <3> QED BY <1>4, <2>1, <3>1
  <2>3. CASE j - l \in 1..Len(made) /\ o2[j] = made[j - l]
    <3>1. PICK p \in 1..n : made[j - l].key = q[p].key /\ p \in 1..Len(q)
      BY <1>9, <2>3
    <3>2. p = n + i
      BY <1>4, <2>1, <2>3, <3>1 DEF Distinct
    <3> QED BY <1>5, <3>2
  <2> QED BY <1>10, <2>2, <2>3
<1>17. ASSUME NEW k \in Visited
       PROVE  stats[k].KV \in Rejected \union {nil} \/ Among(q2, k) \/ Among(o2, k)
  <2>1. CASE Among(o, k)
    <3>1. PICK i \in 1..l : o[i].key = k
      BY <2>1 DEF Among, l
    <3> QED BY <1>10, <3>1 DEF Among
  <2>2. CASE Among(q, k)
    <3>1. PICK i \in 1..Len(q) : q[i].key = k
      BY <2>2 DEF Among
    <3>2. CASE i \in 1..n
      <4>1. data[i].key = k /\ stats[k].KV = data[i].ModRevision
        BY <1>5, <1>6, <3>1, <3>2
      <4>2. CASE filterReject(data[i])
        BY <4>1, <4>2 DEF filterReject
      <4>3. CASE ~filterReject(data[i])
        <5>1. PICK p \in 1..Len(made) : made[p] = KeyMeta(data[i])
          BY <1>7, <3>2, <4>3
        <5>2. l + p \in 1..Len(o2) /\ o2[l + p].key = k
          BY <1>8, <1>10, <4>1, <5>1
        <5> QED BY <5>2 DEF Among
      <4> QED BY <4>2, <4>3
    <3>3. CASE i - n \in 1..Len(q2) /\ q2[i - n] = q[i]
      BY <3>1, <3>3 DEF Among
    <3> QED BY <1>5, <3>2, <3>3
  <2> QED BY <1>4, <2>1, <2>2
<1>18. PICK w : w = o2
  OBVIOUS
<1>19. out' = w
  BY <1>1, <1>18 DEF o2
<1>20. /\ w \in Seq(Written') /\ Distinct(w) /\ Distinct(q2)
       /\ \A i \in 1..Len(q2) : IsValue(q2[i])' /\ ~Among(w, q2[i].key)
       /\ \A i \in 1..Len(w) : IsValue(w[i])' /\ w[i].ModRevision \notin Rejected
       /\ \A k \in Visited' : stats'[k].KV \in Rejected \union {nil} \/ Among(q2, k) \/ Among(w, k)
  BY <1>1, <1>10, <1>11, <1>12, <1>13, <1>14, <1>15, <1>16, <1>17, <1>18, Zenon
<1>21. Delivery(Visited, Underway)'
  BY <1>0, <1>19, <1>20 DEF Delivery
<1> QED BY <1>21 DEF DeliveryInv

(* The consumer writes one batch: what it writes is what was under way and  *)
(* not rejected.                                                            *)
LEMMA ReceiveStep ==
  ASSUME SnapshotInv, Receive
  PROVE  SnapshotInv'
<1>1. UNCHANGED <<bucket, keyspace, revision, compactRev, prefix, walker, pos, stats, unsent, batch, consumer>>
      /\ consumer = "ranging" /\ c # <<>> /\ c' = Tail(c)
  BY DEF Receive, etcdVars, walkVars
<1>2. c' \in Seq(Seq(KeyValue)) /\ Len(c') <= ChanCap
  <2>1. c \in Seq(Seq(KeyValue)) /\ Len(c) <= ChanCap
    BY DEF SnapshotInv, TypeOK, KeyValue
  <2>2. c' \in Seq(Seq(KeyValue)) /\ Len(c') = Len(c) - 1 /\ Len(c) \in Nat
    BY <1>1, <2>1, HeadTailProperties
  <2> HIDE DEF KeyValue
  <2> QED BY <2>1, <2>2, SnapshotAssumption
<1>3. TypeOK'
  BY <1>1, <1>2 DEF SnapshotInv, TypeOK, KeyValue
<1>4. BucketInv'
  BY <1>1 DEF SnapshotInv, BucketInv
<1>5. StatsInv'
  BY <1>1 DEF SnapshotInv, StatsInv, ReadRow, LastRead, Counts
<1>6. ControlInv'
  BY <1>1 DEF SnapshotInv, ControlInv
<1> QED BY <1>3, <1>4, <1>5, <1>6, DeliverBatch DEF SnapshotInv

----------------------------------------------------------------------------
(* Every step keeps the invariant.                                          *)
LEMMA NextSnapshotInv == SnapshotInv /\ [Next]_vars => SnapshotInv'
<1> SUFFICES ASSUME SnapshotInv, [Next]_vars PROVE SnapshotInv'
  OBVIOUS
<1>1. ASSUME NEW k \in Key, EtcdPut(k) PROVE SnapshotInv'
  BY <1>1, PutStep
<1>2. ASSUME NEW k \in Key, EtcdDelete(k) PROVE SnapshotInv'
  BY <1>2, DeleteStep
<1>3. ASSUME NEW k \in Key, NEW l \in Key, EtcdTxn(k, l) PROVE SnapshotInv'
  BY <1>3, TxnStep
<1>4. CASE EtcdCompact \/ EtcdScrub
  BY <1>4, CompactStep, ScrubStep
<1>5. CASE Open \/ OpenFails
  BY <1>5, OpenStep, OpenFailsStep
<1>6. CASE Walk \/ EndWalk \/ Collect \/ Send \/ SendRest
  BY <1>6, WalkStep, EndWalkStep, CollectStep, SendStep, SendRestStep
<1>7. CASE Receive \/ LoopEnds
  BY <1>7, ReceiveStep, LoopEndsStep
<1>8. CASE UNCHANGED vars
  <2>1. UNCHANGED <<bucket, keyspace, revision, compactRev, prefix, walker, pos, stats, unsent, batch, c, consumer, out>>
    BY <1>8 DEF vars, etcdVars, walkVars
  <2>2. TypeOK'
    BY <2>1 DEF SnapshotInv, TypeOK
  <2>3. BucketInv'
    BY <2>1 DEF SnapshotInv, BucketInv
  <2>4. StatsInv'
    BY <2>1 DEF SnapshotInv, StatsInv, ReadRow, LastRead, Counts
  <2>5. ControlInv'
    BY <2>1 DEF SnapshotInv, ControlInv
  <2>6. DeliveryInv'
    <3>1. Underway' = Underway /\ Visited' = Visited /\ Written' = Written
      BY <2>1 DEF Underway, Visited, Written
    <3>2. \A x : IsValue(x)' <=> IsValue(x)
      BY <2>1, <3>1 DEF IsValue
    <3>3. Delivery(Visited, Underway)'
      BY <2>1, <3>1, <3>2 DEF SnapshotInv, DeliveryInv, Delivery
    <3> QED BY <3>3 DEF DeliveryInv
  <2> QED BY <2>2, <2>3, <2>4, <2>5, <2>6 DEF SnapshotInv
<1> QED BY <1>1, <1>2, <1>3, <1>4, <1>5, <1>6, <1>7, <1>8
        DEF Next, Etcd, Walker, Loop, Terminated

(* What the map holds when it is complete: of a key in the prefix whose     *)
(* rows are intact, the value that was current when the file was saved.     *)
LEMMA ValuesAreCurrent ==
  ASSUME SnapshotInv, walker = "closed", NEW k \in prefix, Intact(k)
  PROVE  /\ k \in DOMAIN keyspace => k \in DOMAIN stats /\ stats[k].KV = keyspace[k]
         /\ k \notin DOMAIN keyspace /\ k \in DOMAIN stats => stats[k].KV = nil
<1> DEFINE m == Len(bucket)
<1>1. m \in Nat /\ pos = m + 1 /\ \A i \in 1..m : bucket[i] \in BucketRow
  <2>1. bucket \in Seq(BucketRow) /\ pos = m + 1
    BY DEF SnapshotInv, TypeOK, BucketRow, ControlInv
  <2> QED BY <2>1
<1> HIDE DEF m
<1>2. \A i \in 1..m : bucket[i].key = k => ReadRow(i)
  BY <1>1 DEF ReadRow, Counts, Intact, RowsOf, m
<1>3. ASSUME NEW i \in 1..m, bucket[i].key = k, IsLast(bucket, i)
      PROVE  /\ k \in DOMAIN stats
             /\ stats[k].KV = IF bucket[i].Tombstone THEN nil ELSE bucket[i].rev
  <2>1. k \in DOMAIN stats
    BY <1>2, <1>3 DEF SnapshotInv, StatsInv, m
  <2>2. PICK j \in 1..m :
          /\ bucket[j].key = k /\ LastRead(j)
          /\ stats[k].KV = IF bucket[j].Tombstone THEN nil ELSE bucket[j].rev
    BY <2>1 DEF SnapshotInv, StatsInv, m
  <2>3. ~(i < j)
    BY <1>3, <2>2 DEF IsLast, m
  <2>4. ~(j < i)
    BY <1>2, <1>3, <2>2 DEF LastRead, m
  <2>5. i = j
    BY <2>3, <2>4
  <2> QED BY <2>1, <2>2, <2>5
<1>4. ASSUME k \in DOMAIN keyspace PROVE k \in DOMAIN stats /\ stats[k].KV = keyspace[k]
  <2>1. PICK i \in 1..m : bucket[i].key = k /\ IsLast(bucket, i)
    BY <1>4 DEF SnapshotInv, BucketInv, Agrees, m
  <2>2. bucket[i].Tombstone = FALSE
    <3>1. bucket[i].Tombstone \in BOOLEAN
      BY <1>1 DEF BucketRow
    <3> QED BY <1>4, <2>1, <3>1 DEF SnapshotInv, BucketInv, Agrees, m
  <2>3. bucket[i].rev = keyspace[k]
    BY <2>1, <2>2 DEF SnapshotInv, BucketInv, Agrees, m
  <2> QED BY <1>3, <2>1, <2>2, <2>3
<1>5. ASSUME k \notin DOMAIN keyspace, k \in DOMAIN stats PROVE stats[k].KV = nil
  <2>1. PICK i \in 1..m :
          /\ bucket[i].key = k /\ LastRead(i)
          /\ stats[k].KV = IF bucket[i].Tombstone THEN nil ELSE bucket[i].rev
    BY <1>5 DEF SnapshotInv, StatsInv, m
  <2>2. IsLast(bucket, i)
    BY <1>2, <2>1 DEF LastRead, IsLast, m
  <2>3. bucket[i].Tombstone = TRUE
    <3>1. bucket[i].Tombstone \in BOOLEAN
      BY <1>1 DEF BucketRow
    <3> QED BY <1>5, <2>1, <2>2, <3>1 DEF SnapshotInv, BucketInv, Agrees, m
  <2> QED BY <2>1, <2>3
<1> QED BY <1>4, <1>5

(* At the end the file holds, of every key whose rows could all be read,    *)
(* the current revision, or nothing if the key is deleted or rejected.      *)
LEMMA SnapshotInvGivesCurrent == SnapshotInv => CurrentKeyspace
<1> SUFFICES ASSUME SnapshotInv, consumer = "done"
             PROVE  /\ \A i, j \in 1..Len(out) : out[i].key = out[j].key => i = j
                    /\ \A k \in prefix : Intact(k) =>
                         IF k \in DOMAIN keyspace /\ keyspace[k] \notin Rejected
                           THEN \E i \in 1..Len(out) : out[i].key = k /\ out[i].ModRevision = keyspace[k]
                           ELSE \A i \in 1..Len(out) : out[i].key # k
  BY DEF CurrentKeyspace
<1>1. walker = "closed" /\ c = <<>> /\ batch = <<>> /\ unsent = {}
  BY DEF SnapshotInv, ControlInv
<1>2. Underway = <<>>
  <2>1. <<>> \in Seq(KeyValue) /\ <<>> \in Seq(Seq(KeyValue))
    OBVIOUS
  <2>2. FlattenSeq(Append(<<>>, <<>>)) = <<>>
    BY <2>1, UnderwayFacts, ZenonT(30)
  <2> QED BY <1>1, <2>2 DEF Underway
<1>3. Visited = DOMAIN stats
  BY <1>1 DEF Visited
<1>4. \A i \in 1..Len(out) : /\ out[i].key \in DOMAIN stats
                            /\ stats[out[i].key].KV = out[i].ModRevision
                            /\ out[i].ModRevision \notin Rejected
                            /\ out[i].ModRevision \in Nat \ {0}
  <2>1. \A i \in 1..Len(out) : out[i] \in Written
    <3>1. out \in Seq(Written)
      BY DEF SnapshotInv, DeliveryInv, Delivery
    <3> QED BY <3>1
  <2>2. \A i \in 1..Len(out) : out[i].ModRevision \in Nat \ {0}
    BY <2>1 DEF Written
  <2> QED BY <1>3, <2>2 DEF SnapshotInv, DeliveryInv, Delivery, IsValue
<1>5. \A k \in DOMAIN stats : stats[k].KV \in Rejected \union {nil} \/ Among(out, k)
  <2>1. \A k : ~Among(<<>>, k)
    BY DEF Among
  <2> QED BY <1>2, <1>3, <2>1 DEF SnapshotInv, DeliveryInv, Delivery
<1>6. \A i, j \in 1..Len(out) : out[i].key = out[j].key => i = j
  BY DEF SnapshotInv, DeliveryInv, Delivery, Distinct
<1>7. ASSUME NEW k \in prefix, Intact(k), k \in DOMAIN keyspace, keyspace[k] \notin Rejected
      PROVE  \E i \in 1..Len(out) : out[i].key = k /\ out[i].ModRevision = keyspace[k]
  <2>1. k \in DOMAIN stats /\ stats[k].KV = keyspace[k]
    BY <1>1, <1>7, ValuesAreCurrent
  <2>2. keyspace[k] # nil
    BY <1>7 DEF SnapshotInv, TypeOK, nil
  <2>3. PICK i \in 1..Len(out) : out[i].key = k
    BY <1>5, <1>7, <2>1, <2>2 DEF Among
  <2> QED BY <1>4, <2>1, <2>3
<1>8. ASSUME NEW k \in prefix, Intact(k), k \notin DOMAIN keyspace \/ keyspace[k] \in Rejected,
             NEW i \in 1..Len(out), out[i].key = k
      PROVE  FALSE
  <2>1. k \in DOMAIN stats /\ stats[k].KV = out[i].ModRevision
    BY <1>4, <1>8
  <2>2. CASE k \in DOMAIN keyspace
    BY <1>1, <1>4, <1>8, <2>1, <2>2, ValuesAreCurrent
  <2>3. CASE k \notin DOMAIN keyspace
    BY <1>1, <1>4, <1>8, <2>1, <2>3, ValuesAreCurrent DEF nil
  <2> QED BY <2>2, <2>3
<1> QED BY <1>6, <1>7, <1>8

----------------------------------------------------------------------------
(* As long as nothing is in the map there is nothing to count.              *)
LEMMA NothingCounted ==
  ASSUME DOMAIN stats' = {}, out' = <<>>
  PROVE  CountInv'
BY DEF CountInv

(* Steps that leave the rows read and the map alone do not move the counts. *)
LEMMA CountsStay ==
  ASSUME CountInv, UNCHANGED <<bucket, prefix, stats, out>>, pos' = pos
  PROVE  CountInv'
<1>1. \A k : ReadRows(k)' = ReadRows(k)
  BY DEF ReadRows, ReadRow, Counts
<1>2. \A I : Tombstones(I)' = Tombstones(I)
  BY DEF Tombstones
<1>3. \A k \in DOMAIN stats : Tombstones(ReadRows(k))' = Tombstones(ReadRows(k))
  BY <1>1 DEF Tombstones
<1> QED BY <1>1, <1>3, Zenon DEF CountInv

(* One more row of a key, and one more tombstone if it is one.              *)
LEMMA CountsWalk ==
  ASSUME SnapshotInv, CountInv, Walk
  PROVE  CountInv'
<1> DEFINE row == bucket[pos]
           m == Len(bucket)
<1>1. UNCHANGED <<bucket, prefix, out>> /\ walker = "walk" /\ pos <= m /\ pos' = pos + 1
  BY DEF Walk, etcdVars
<1>2. m \in Nat /\ pos \in 1..m /\ \A i \in 1..m : bucket[i] \in BucketRow
  <2>1. bucket \in Seq(BucketRow) /\ pos \in 1..(m + 1)
    BY DEF SnapshotInv, TypeOK, BucketRow
  <2> QED BY <1>1, <2>1
<1>3. /\ Counts(row) => /\ DOMAIN stats' = DOMAIN stats \union {row.key}
                        /\ stats'[row.key] = Record(FirstSight(row), row)
                        /\ \A k \in DOMAIN stats : k # row.key => stats'[k] = stats[k]
      /\ ~Counts(row) => stats' = stats
  BY DEF Walk
<1> HIDE DEF row, m
<1>4. out = <<>> /\ \A k \in DOMAIN stats : stats[k] \in Stats
  BY <1>1 DEF SnapshotInv, ControlInv, TypeOK
<1>5. \A i \in 1..m : ReadRow(i)' <=> (ReadRow(i) \/ (i = pos /\ Counts(row)))
  <2> SUFFICES ASSUME NEW i \in 1..m
               PROVE  ReadRow(i)' <=> (ReadRow(i) \/ (i = pos /\ Counts(row)))
    OBVIOUS
  <2>1. i < pos' <=> i < pos \/ i = pos
    BY <1>1, <1>2
  <2>2. Counts(bucket[i])' <=> Counts(bucket[i])
    BY <1>1 DEF Counts
  <2> QED BY <2>1, <2>2 DEF ReadRow, row
<1>6. /\ \A k : ReadRows(k) = {i \in 1..m : ReadRow(i) /\ bucket[i].key = k}
      /\ \A k : ReadRows(k)' = {i \in 1..m : ReadRow(i)' /\ bucket[i].key = k}
  BY <1>1 DEF ReadRows, m
<1>7. \A k : ReadRows(k)' = ReadRows(k) \union (IF Counts(row) /\ row.key = k THEN {pos} ELSE {})
  <2> SUFFICES ASSUME NEW k
               PROVE  ReadRows(k)' = ReadRows(k) \union (IF Counts(row) /\ row.key = k THEN {pos} ELSE {})
    OBVIOUS
  <2>1. \A i : i \in ReadRows(k)' <=> i \in ReadRows(k) \/ (i = pos /\ Counts(row) /\ row.key = k)
    BY <1>2, <1>5, <1>6, Zenon DEF row
  <2> QED BY <2>1
<1>8. \A k : pos \notin ReadRows(k) /\ ReadRows(k) \subseteq 1..m
  BY <1>2, <1>6 DEF ReadRow
<1>9. \A k : IsFiniteSet(ReadRows(k)) /\ IsFiniteSet(Tombstones(ReadRows(k)))
  <2>1. IsFiniteSet(1..m)
    BY <1>2, FS_Interval
  <2> QED BY <1>8, <2>1, FS_Subset DEF Tombstones
<1>10. ASSUME NEW k, ~(Counts(row) /\ row.key = k)
       PROVE  ReadRows(k)' = ReadRows(k) /\ Tombstones(ReadRows(k))' = Tombstones(ReadRows(k))
  <2>1. ReadRows(k)' = ReadRows(k)
    BY <1>7, <1>10
  <2> QED BY <1>1, <2>1 DEF Tombstones
<1>11. ASSUME NEW k, Counts(row), row.key = k
       PROVE  /\ Cardinality(ReadRows(k)') = Cardinality(ReadRows(k)) + 1
              /\ Cardinality(Tombstones(ReadRows(k))')
                   = Cardinality(Tombstones(ReadRows(k))) + (IF row.Tombstone THEN 1 ELSE 0)
  <2>1. ReadRows(k)' = ReadRows(k) \union {pos}
    BY <1>7, <1>11
  <2>2. Tombstones(ReadRows(k))' = Tombstones(ReadRows(k)) \union (IF row.Tombstone THEN {pos} ELSE {})
    BY <1>1, <2>1 DEF Tombstones, row
  <2>3. pos \notin ReadRows(k) /\ pos \notin Tombstones(ReadRows(k))
    BY <1>8 DEF Tombstones
  <2>4. Cardinality(ReadRows(k) \union {pos}) = Cardinality(ReadRows(k)) + 1
    BY <1>9, <2>3, FS_AddElement
  <2>5. Cardinality(Tombstones(ReadRows(k)) \union {pos}) = Cardinality(Tombstones(ReadRows(k))) + 1
    BY <1>9, <2>3, FS_AddElement
  <2>6. Cardinality(Tombstones(ReadRows(k))) \in Nat
    BY <1>9, FS_CardinalityType
  <2>7. Tombstones(ReadRows(k)) \union {} = Tombstones(ReadRows(k))
    OBVIOUS
  <2>8. CASE row.Tombstone
    BY <2>1, <2>2, <2>4, <2>5, <2>8
  <2>9. CASE ~row.Tombstone
    <3>1. Tombstones(ReadRows(k))' = Tombstones(ReadRows(k))
      BY <2>2, <2>7, <2>9
    <3> QED BY <2>1, <2>4, <2>6, <2>9, <3>1
  <2> QED BY <2>8, <2>9
<1>12. ASSUME NEW k \in DOMAIN stats'
       PROVE  /\ stats'[k].RevCount = Cardinality(ReadRows(k)')
              /\ stats'[k].TombstoneCount = Cardinality(Tombstones(ReadRows(k))')
  <2>1. CASE Counts(row) /\ row.key = k
    <3>1. /\ stats'[k].RevCount = FirstSight(row).RevCount + 1
          /\ stats'[k].TombstoneCount = FirstSight(row).TombstoneCount + (IF row.Tombstone THEN 1 ELSE 0)
      BY <1>3, <2>1 DEF Record
    <3>2. CASE k \in DOMAIN stats
      <4>1. FirstSight(row) = stats[k]
        BY <2>1, <3>2 DEF FirstSight
      <4>2. /\ stats[k].RevCount = Cardinality(ReadRows(k))
            /\ stats[k].TombstoneCount = Cardinality(Tombstones(ReadRows(k)))
        BY <3>2 DEF CountInv
      <4> QED BY <1>11, <2>1, <3>1, <4>1, <4>2
    <3>3. CASE k \notin DOMAIN stats
      <4>1. FirstSight(row).RevCount = 0 /\ FirstSight(row).TombstoneCount = 0
        BY <2>1, <3>3 DEF FirstSight
      <4>2. ReadRows(k) = {}
        BY <1>6, <3>3 DEF SnapshotInv, StatsInv, m
      <4>3. Tombstones(ReadRows(k)) = {}
        BY <4>2 DEF Tombstones
      <4>4. Cardinality({}) = 0
        BY FS_EmptySet
      <4> QED BY <1>11, <2>1, <3>1, <4>1, <4>2, <4>3, <4>4
    <3> QED BY <3>2, <3>3
  <2>2. CASE ~(Counts(row) /\ row.key = k)
    <3>1. k \in DOMAIN stats /\ stats'[k] = stats[k]
      BY <1>3, <1>12, <2>2
    <3>2. /\ stats[k].RevCount = Cardinality(ReadRows(k))
          /\ stats[k].TombstoneCount = Cardinality(Tombstones(ReadRows(k)))
      BY <3>1 DEF CountInv
    <3> QED BY <1>10, <2>2, <3>1, <3>2
  <2> QED BY <2>1, <2>2
<1>13. out' = <<>>
  BY <1>1, <1>4
<1>14. \A k : /\ Cardinality(ReadRows(k)') = Cardinality(ReadRows(k))'
              /\ Cardinality(Tombstones(ReadRows(k))') = Cardinality(Tombstones(ReadRows(k)))'
  OBVIOUS
<1> QED BY <1>12, <1>13 DEF CountInv

(* A record is written with the counts of its key.                          *)
LEMMA CountsReceive ==
  ASSUME SnapshotInv, CountInv, Receive
  PROVE  CountInv'
<1>1. UNCHANGED <<bucket, prefix, pos, stats>> /\ c # <<>> /\ out' = out \o Records(Head(c))
  BY DEF Receive, etcdVars, walkVars
<1>2. c \in Seq(Seq(KeyValue)) /\ batch \in Seq(KeyValue) /\ \A k \in DOMAIN stats : stats[k] \in Stats
  BY DEF SnapshotInv, TypeOK, KeyValue
<1>3. out \in Seq(Written)
  BY DEF SnapshotInv, DeliveryInv, Delivery
<1>4. PICK data, made : data = Head(c) /\ made = Records(Head(c))
  OBVIOUS
<1>5. data \in Seq(KeyValue) /\ \A i \in 1..Len(data) : data[i].key \in DOMAIN stats
  <2> DEFINE rest == FlattenSeq(Tail(c)) \o batch
  <2>1. Head(c) \in Seq(KeyValue) /\ Tail(c) \in Seq(Seq(KeyValue))
        /\ FlattenSeq(c) = Head(c) \o FlattenSeq(Tail(c))
        /\ FlattenSeq(Tail(c)) \in Seq(KeyValue)
    BY <1>1, <1>2, FlattenHead
  <2>2. Underway = FlattenSeq(c) \o batch
    BY <1>2, FlattenAppend DEF Underway
  <2> DEFINE f == FlattenSeq(Tail(c))
  <2>3. f \in Seq(KeyValue) /\ Underway = (data \o f) \o batch /\ data \in Seq(KeyValue)
    BY <1>4, <2>1, <2>2
  <2> HIDE DEF f, KeyValue
  <2>4. Len(data) <= Len(Underway) /\ \A i \in 1..Len(data) : i \in 1..Len(Underway) /\ Underway[i] = data[i]
    BY <1>2, <2>3
  <2>5. \A i \in 1..Len(Underway) : Underway[i].key \in DOMAIN stats
    <3>1. Visited \subseteq DOMAIN stats
      BY DEF Visited
    <3> QED BY <3>1 DEF SnapshotInv, DeliveryInv, Delivery, IsValue
  <2> QED BY <2>3, <2>4, <2>5
<1>6. MadeFrom(made, data)
  BY <1>2, <1>4, <1>5, RecordsFacts
<1>7. /\ made \in Seq(Written)
      /\ \A p \in 1..Len(made) :
           /\ made[p].RevCount = stats[made[p].key].RevCount
           /\ made[p].TombstoneCount = stats[made[p].key].TombstoneCount
  <2>1. made \in Seq(Written)
    BY <1>6 DEF MadeFrom
  <2>2. \A p \in 1..Len(made) : \E i \in 1..Len(data) : made[p] = KeyMeta(data[i])
    BY <1>6 DEF MadeFrom
  <2>3. \A kv : /\ KeyMeta(kv).RevCount = stats[KeyMeta(kv).key].RevCount
                /\ KeyMeta(kv).TombstoneCount = stats[KeyMeta(kv).key].TombstoneCount
    BY DEF KeyMeta
  <2> QED BY <2>1, <2>2, <2>3, Zenon
<1>8. \A i \in 1..Len(out) :
        /\ out[i].RevCount = stats[out[i].key].RevCount
        /\ out[i].TombstoneCount = stats[out[i].key].TombstoneCount
  BY DEF CountInv
<1> DEFINE more == out \o made
<1>9. /\ Len(out) \in Nat /\ Len(made) \in Nat /\ Len(more) = Len(out) + Len(made)
      /\ \A i \in 1..(Len(out) + Len(made)) : more[i] = IF i <= Len(out) THEN out[i] ELSE made[i - Len(out)]
  <2> HIDE DEF Written
  <2> QED BY <1>3, <1>7
<1>10. out' = more
  BY <1>1, <1>4
<1> HIDE DEF more
<1>11. ASSUME NEW i \in 1..Len(more)
       PROVE  /\ more[i].RevCount = stats[more[i].key].RevCount
              /\ more[i].TombstoneCount = stats[more[i].key].TombstoneCount
  <2>1. CASE i <= Len(out)
    <3>1. more[i] = out[i] /\ i \in 1..Len(out)
      BY <1>9, <2>1
    <3> QED BY <1>8, <3>1, Zenon
  <2>2. CASE ~(i <= Len(out))
    <3>1. more[i] = made[i - Len(out)] /\ i - Len(out) \in 1..Len(made)
      BY <1>9, <2>2
    <3> QED BY <1>7, <3>1, Zenon
  <2> QED BY <2>1, <2>2
<1>12. \A k : ReadRows(k)' = ReadRows(k)
  BY <1>1 DEF ReadRows, ReadRow, Counts
<1>13. \A k \in DOMAIN stats : Tombstones(ReadRows(k))' = Tombstones(ReadRows(k))
  BY <1>1, <1>12 DEF Tombstones
<1> QED BY <1>1, <1>10, <1>11, <1>12, <1>13, Zenon DEF CountInv

(* The counts are right after every step.                                   *)
LEMMA NextCountInv == SnapshotInv /\ CountInv /\ [Next]_vars => CountInv'
<1> SUFFICES ASSUME SnapshotInv, CountInv, [Next]_vars PROVE CountInv'
  OBVIOUS
<1>1. CASE Etcd \/ Open \/ OpenFails
  <2>1. walker = "etcd" /\ UNCHANGED <<stats, out>>
    BY <1>1 DEF Etcd, EtcdPut, EtcdDelete, EtcdTxn, EtcdCompact, EtcdScrub, Open, OpenFails, walkVars
  <2>2. stats = Empty /\ out = <<>>
    BY <2>1 DEF SnapshotInv, ControlInv
  <2>3. DOMAIN stats' = {} /\ out' = <<>>
    BY <2>1, <2>2 DEF Empty
  <2> QED BY <2>3, NothingCounted
<1>2. CASE Walk
  BY <1>2, CountsWalk
<1>3. CASE EndWalk \/ Collect \/ Send \/ SendRest \/ LoopEnds \/ UNCHANGED vars
  <2>1. UNCHANGED <<bucket, prefix, stats, out>> /\ pos' = pos
    BY <1>3 DEF EndWalk, Collect, Send, SendRest, LoopEnds, vars, etcdVars, walkVars
  <2> QED BY <2>1, CountsStay
<1>4. CASE Receive
  BY <1>4, CountsReceive
<1> QED BY <1>1, <1>2, <1>3, <1>4 DEF Next, Walker, Loop, Terminated

(* What the dumps list of a key: its rows that can be read, wherever they   *)
(* are cut in two.                                                          *)
LEMMA DumpsList ==
  ASSUME SnapshotInv, NEW k, NEW r \in 1..revision
  PROVE  LET P == {i \in 1..Len(bucket) : bucket[i].readable}
             Q == {i \in 1..Len(bucket) : bucket[i].key = k}
             rows == Dumped(k, ScanKeys(0, r, 0) \o ScanKeys(r + 1, 0, 0))
         IN  /\ rows \in Seq(BucketRow)
             /\ \E h : ListsAt(rows, bucket, Len(bucket), P \intersect Q, h)
<1> DEFINE m == Len(bucket)
           P == {i \in 1..m : bucket[i].readable}
           Q == {i \in 1..m : bucket[i].key = k}
           A == {i \in 1..m : bucket[i].readable /\ bucket[i].rev <= r}
           B == {i \in 1..m : bucket[i].readable /\ r + 1 <= bucket[i].rev}
           a == ScanKeys(0, r, 0)
           b == ScanKeys(r + 1, 0, 0)
<1>1. bucket \in Seq(BucketRow) /\ revision \in Nat /\ r \in Nat \ {0} /\ r + 1 > 0
  BY DEF SnapshotInv, TypeOK, BucketRow
<1>2. m \in Nat /\ \A i \in 1..m : bucket[i].rev \in Nat
  <2>1. \A i \in 1..m : bucket[i] \in BucketRow
    BY <1>1
  <2> QED BY <1>1, <2>1 DEF BucketRow
<1>3. a = ElementsAt(bucket, A)
  <2> DEFINE f == [i \in 1..m |-> IF bucket[i].readable /\ InRevisions(bucket[i], 0, r)
                                    THEN <<bucket[i]>> ELSE <<>>]
             g == [i \in 1..m |-> IF i \in A THEN <<bucket[i]>> ELSE <<>>]
  <2>1. \A i \in 1..m : i \in A <=> bucket[i].readable /\ InRevisions(bucket[i], 0, r)
    BY <1>1, <1>2 DEF InRevisions
  <2>2. f = g
    <3> HIDE DEF A, m
    <3> QED BY <2>1
  <2>3. a = FlattenSeq(f)
    BY DEF ScanKeys, UpTo
  <2> HIDE DEF f
  <2> QED BY <2>2, <2>3 DEF ElementsAt
<1>4. b = ElementsAt(bucket, B)
  <2> DEFINE f == [i \in 1..m |-> IF bucket[i].readable /\ InRevisions(bucket[i], r + 1, 0)
                                    THEN <<bucket[i]>> ELSE <<>>]
             g == [i \in 1..m |-> IF i \in B THEN <<bucket[i]>> ELSE <<>>]
  <2>1. \A i \in 1..m : i \in B <=> bucket[i].readable /\ InRevisions(bucket[i], r + 1, 0)
    BY <1>1, <1>2 DEF InRevisions
  <2>2. f = g
    <3> HIDE DEF B, m
    <3> QED BY <2>1
  <2>3. b = FlattenSeq(f)
    BY DEF ScanKeys, UpTo
  <2> HIDE DEF f
  <2> QED BY <2>2, <2>3 DEF ElementsAt
<1> HIDE DEF a, b
<1>5. a \in Seq(BucketRow) /\ \E h : ListsAt(a, bucket, m, A, h)
  <2> HIDE DEF A, BucketRow
  <2> QED BY <1>1, <1>3, ElementsAtLists
<1>6. b \in Seq(BucketRow) /\ \E h : ListsAt(b, bucket, m, B, h)
  <2> HIDE DEF B, BucketRow
  <2> QED BY <1>1, <1>4, ElementsAtLists
<1>7. ASSUME NEW i \in 1..m, NEW j \in 1..m, i \in A, j \in B PROVE i < j
  <2>1. bucket[i].rev < bucket[j].rev
    BY <1>1, <1>2, <1>7
  <2>2. j < i => bucket[j].rev <= bucket[i].rev
    BY DEF SnapshotInv, BucketInv, InOrder
  <2> QED BY <1>2, <2>1, <2>2
<1>8. P = A \union B
  BY <1>1, <1>2
<1> HIDE DEF A, B, P, m
<1> DEFINE both == a \o b
           rows == Dumped(k, both)
           R == {q \in 1..Len(both) : both[q].key = k}
<1>9. both \in Seq(BucketRow) /\ Len(both) \in Nat
  <2> HIDE DEF BucketRow
  <2> QED BY <1>5, <1>6
<1>10. PICK h : ListsAt(both, bucket, m, P, h)
  <2>1. PICK h1 : ListsAt(a, bucket, m, A, h1)
    BY <1>5
  <2>2. PICK h2 : ListsAt(b, bucket, m, B, h2)
    BY <1>6
  <2>3. \E f : ListsAt(a \o b, bucket, m, A \union B, f)
    <3> HIDE DEF both
    <3> QED BY <1>2, <1>5, <1>6, <1>7, <2>1, <2>2, ListsJoin
  <2> QED BY <1>8, <2>3
<1> HIDE DEF both
<1>11. rows = ElementsAt(both, R)
  <2> DEFINE f == [q \in 1..Len(both) |-> IF both[q].key = k THEN <<both[q]>> ELSE <<>>]
             g == [q \in 1..Len(both) |-> IF q \in R THEN <<both[q]>> ELSE <<>>]
  <2>1. f = g
    OBVIOUS
  <2>2. rows = FlattenSeq(f)
    BY DEF Dumped
  <2> HIDE DEF f
  <2> QED BY <2>1, <2>2 DEF ElementsAt
<1> HIDE DEF rows
<1>12. rows \in Seq(BucketRow) /\ \E g : ListsAt(rows, both, Len(both), R, g)
  <2> HIDE DEF R, BucketRow
  <2> QED BY <1>9, <1>11, ElementsAtLists
<1>13. \A q \in 1..Len(both) : q \in R <=> h[q] \in Q
  <2>1. \A q \in 1..Len(both) : both[q] = bucket[h[q]] /\ h[q] \in 1..m
    BY <1>10 DEF ListsAt
  <2> QED BY <2>1
<1>14. \E f : ListsAt(rows, bucket, m, P \intersect Q, f)
  <2>1. PICK g : ListsAt(rows, both, Len(both), R, g)
    BY <1>12
  <2> HIDE DEF Q, R, BucketRow
  <2> QED BY <1>2, <1>9, <1>10, <1>12, <1>13, <2>1, ListsOfList
<1> QED BY <1>12, <1>14 DEF rows, both, a, b, P, m

(* So the counts of a written record are those of the whole file.           *)
LEMMA CountInvGivesCounts == SnapshotInv /\ CountInv => CountsAreOfTheFile
<1> SUFFICES ASSUME SnapshotInv, CountInv, NEW o \in 1..Len(out), NEW r \in 1..revision
             PROVE  LET rows == Dumped(out[o].key, ScanKeys(0, r, 0) \o ScanKeys(r + 1, 0, 0)) IN
                      /\ out[o].RevCount = Len(rows)
                      /\ out[o].TombstoneCount = Cardinality({q \in 1..Len(rows) : rows[q].Tombstone})
                      /\ out[o].ModRevision = Last(rows).rev /\ ~Last(rows).Tombstone
                      /\ Len(Dumped(out[o].key, IterateBucket(0))) - Len(rows)
                           = Cardinality({q \in RowsOf(out[o].key) : ~bucket[q].readable})
  BY DEF CountsAreOfTheFile
<1> DEFINE m == Len(bucket)
           P == {i \in 1..m : bucket[i].readable}
           T == {i \in 1..m : bucket[i].Tombstone}
           rows == Dumped(out[o].key, ScanKeys(0, r, 0) \o ScanKeys(r + 1, 0, 0))
<1>0. PICK k, Q : k = out[o].key /\ Q = {i \in 1..m : bucket[i].key = k}
  OBVIOUS
<1>1. bucket \in Seq(BucketRow) /\ m \in Nat /\ \A i \in 1..m : bucket[i] \in BucketRow
  <2>1. bucket \in Seq(BucketRow)
    BY DEF SnapshotInv, TypeOK, BucketRow
  <2> QED BY <2>1
<1>2. rows \in Seq(BucketRow) /\ \E h : ListsAt(rows, bucket, m, P \intersect Q, h)
  BY <1>0, DumpsList
<1>3. PICK h : ListsAt(rows, bucket, m, P \intersect Q, h)
  BY <1>2
<1> HIDE DEF rows
<1>4. out # <<>> /\ out \in Seq(Written)
  BY DEF SnapshotInv, DeliveryInv, Delivery
<1>5. k \in DOMAIN stats /\ stats[k].KV = out[o].ModRevision /\ out[o].ModRevision \in Nat \ {0} /\ k \in prefix
  <2>1. k \in Visited /\ stats[k].KV = out[o].ModRevision
    BY <1>0 DEF SnapshotInv, DeliveryInv, Delivery, IsValue
  <2>2. out[o] \in Written
    BY <1>4
  <2>3. Visited \subseteq DOMAIN stats
    BY DEF Visited
  <2> QED BY <1>0, <2>1, <2>2, <2>3 DEF Written
<1>6. pos = m + 1
  BY <1>4 DEF SnapshotInv, ControlInv, TypeOK
<1>7. ReadRows(k) = {i \in 1..m : i \in P \intersect Q}
  <2>1. \A i \in 1..m : ReadRow(i) /\ bucket[i].key = k <=> i \in P /\ i \in Q
    BY <1>0, <1>1, <1>5, <1>6 DEF ReadRow, Counts
  <2> HIDE DEF P
  <2> QED BY <2>1 DEF ReadRows
<1>8. out[o].RevCount = Len(rows)
  <2>1. out[o].RevCount = Cardinality(ReadRows(k))
    BY <1>0, <1>5 DEF CountInv
  <2> HIDE DEF P
  <2>2. Len(rows) = Cardinality({i \in 1..m : i \in P \intersect Q})
    BY <1>1, <1>2, <1>3, ListsLength
  <2> QED BY <1>7, <2>1, <2>2
<1>9. out[o].TombstoneCount = Cardinality({q \in 1..Len(rows) : rows[q].Tombstone})
  <2> DEFINE R == {q \in 1..Len(rows) : rows[q].Tombstone}
             u == ElementsAt(rows, R)
  <2>1. out[o].TombstoneCount = Cardinality(Tombstones(ReadRows(k)))
    BY <1>0, <1>5 DEF CountInv
  <2>2. Tombstones(ReadRows(k)) = {i \in 1..m : i \in (P \intersect Q) \intersect T}
    BY <1>7 DEF Tombstones
  <2>3. \A q \in 1..Len(rows) : rows[q] = bucket[h[q]] /\ h[q] \in 1..m
    BY <1>3 DEF ListsAt
  <2>4. \A q \in 1..Len(rows) : q \in R <=> h[q] \in T
    BY <2>3
  <2>5. {q \in 1..Len(rows) : q \in R} = R
    OBVIOUS
  <2>6. Len(rows) \in Nat
    BY <1>2
  <2> HIDE DEF P, T, R, u, BucketRow
  <2>7. u \in Seq(BucketRow) /\ \E g : ListsAt(u, rows, Len(rows), R, g)
    BY <1>2, ElementsAtLists DEF u
  <2>8. PICK g : ListsAt(u, rows, Len(rows), R, g)
    BY <2>7
  <2>9. Len(u) = Cardinality(R)
    BY <2>5, <2>6, <2>7, <2>8, ListsLength
  <2>10. PICK f : ListsAt(u, bucket, m, (P \intersect Q) \intersect T, f)
    BY <1>1, <1>2, <1>3, <2>4, <2>7, <2>8, ListsOfList
  <2>11. Len(u) = Cardinality({i \in 1..m : i \in (P \intersect Q) \intersect T})
    BY <1>1, <2>7, <2>10, ListsLength
  <2> QED BY <2>1, <2>2, <2>9, <2>11 DEF R
<1>10. out[o].ModRevision = Last(rows).rev /\ ~Last(rows).Tombstone
  <2>1. PICK i \in 1..m :
          /\ bucket[i].key = k /\ LastRead(i)
          /\ stats[k].KV = IF bucket[i].Tombstone THEN nil ELSE bucket[i].rev
    BY <1>5 DEF SnapshotInv, StatsInv
  <2>2. ~bucket[i].Tombstone /\ bucket[i].rev = out[o].ModRevision
    BY <1>5, <2>1 DEF nil
  <2>3. i \in ReadRows(k) /\ \A j \in 1..m : j \in ReadRows(k) => ~(i < j)
    BY <2>1 DEF ReadRows, LastRead
  <2>4. i \in P \intersect Q /\ \A j \in 1..m : j \in P \intersect Q => j <= i
    <3> HIDE DEF P
    <3> QED BY <1>1, <1>7, <2>3
  <2>5. Last(rows) = bucket[i]
    <3>1. PICK W : W = P \intersect Q
      OBVIOUS
    <3>2. i \in W /\ \A j \in 1..m : j \in W => j <= i
      BY <2>4, <3>1, Zenon
    <3>3. ListsAt(rows, bucket, m, W, h)
      BY <1>3, <3>1, Zenon
    <3> HIDE DEF m, BucketRow
    <3> QED BY <1>1, <1>2, <3>2, <3>3, ListsLast
  <2> QED BY <2>2, <2>5
<1>11. Len(Dumped(k, IterateBucket(0))) - Len(rows)
         = Cardinality({q \in RowsOf(k) : ~bucket[q].readable})
  <2> DEFINE all == Dumped(k, bucket)
             A == {i \in 1..m : i \in P \intersect Q}
             D == {q \in RowsOf(k) : ~bucket[q].readable}
  <2>1. IterateBucket(0) = bucket
    BY DEF IterateBucket, UpTo
  <2>2. all = ElementsAt(bucket, Q)
    <3> DEFINE f == [i \in 1..m |-> IF bucket[i].key = k THEN <<bucket[i]>> ELSE <<>>]
               g == [i \in 1..m |-> IF i \in Q THEN <<bucket[i]>> ELSE <<>>]
    <3>1. f = g
      BY <1>0
    <3>2. all = FlattenSeq(f)
      BY DEF Dumped
    <3> HIDE DEF f
    <3> QED BY <3>1, <3>2 DEF ElementsAt
  <2>3. Len(all) = Cardinality({i \in 1..m : i \in Q})
    <3> HIDE DEF all, BucketRow
    <3>1. all \in Seq(BucketRow) /\ \E g : ListsAt(all, bucket, m, Q, g)
      BY <1>1, <2>2, ElementsAtLists
    <3> QED BY <1>1, <3>1, ListsLength
  <2>4. Len(rows) = Cardinality(A)
    <3> HIDE DEF P
    <3> QED BY <1>1, <1>2, <1>3, ListsLength
  <2>5. {i \in 1..m : i \in Q} = A \union D /\ A \intersect D = {} /\ A \subseteq 1..m /\ D \subseteq 1..m
    BY <1>0 DEF RowsOf
  <2>6. IsFiniteSet(A) /\ IsFiniteSet(D) /\ Cardinality(A) \in Nat /\ Cardinality(D) \in Nat
    <3> HIDE DEF A, D
    <3>1. IsFiniteSet(1..m)
      BY <1>1, FS_Interval
    <3> QED BY <2>5, <3>1, FS_Subset, FS_CardinalityType
  <2>7. Cardinality(A \union D) = Cardinality(A) + Cardinality(D) - Cardinality(A \intersect D)
    <3> HIDE DEF A, D
    <3> QED BY <2>6, FS_Union
  <2>8. Cardinality({}) = 0
    BY FS_EmptySet
  <2>9. Len(all) = Cardinality(A) + Cardinality(D)
    <3> HIDE DEF A, D, all
    <3>1. Len(all) = Cardinality(A \union D) /\ Cardinality(A \intersect D) = 0
      BY <2>3, <2>5, <2>8, Zenon
    <3> QED BY <2>6, <2>7, <3>1
  <2> HIDE DEF A, all
  <2> QED BY <2>1, <2>4, <2>6, <2>9 DEF all
<1> HIDE DEF P, T, m
<1> QED BY <1>0, <1>8, <1>9, <1>10, <1>11, Zenon DEF rows

----------------------------------------------------------------------------
(* The invariant behind the theorems about the snapshot source.             *)
THEOREM SnapshotInductive == Spec => []SnapshotInv
<1>1. Init => SnapshotInv
  BY InitSnapshotInv
<1>2. SnapshotInv /\ [Next]_vars => SnapshotInv'
  BY NextSnapshotInv
<1> QED BY <1>1, <1>2, PTL DEF Spec

(* In every state the variables have their types.                           *)
THEOREM SnapshotTypeCorrect == Spec => []TypeOK
<1>1. SnapshotInv => TypeOK
  BY DEF SnapshotInv
<1> QED BY <1>1, SnapshotInductive, PTL

(* look --snapshot writes exactly the keys that were present when the       *)
(* snapshot was saved, each once and at its last revision, for any history  *)
(* of the store and wherever a compaction had got to.                       *)
THEOREM WritesCurrentKeyspace == Spec => []CurrentKeyspace
<1>1. SnapshotInv => CurrentKeyspace
  BY SnapshotInvGivesCurrent
<1> QED BY <1>1, SnapshotInductive, PTL

(* The counts that look --snapshot writes with a key are those of the whole *)
(* file, and a user of the dump commands counts the same: for any history,  *)
(* any damaged rows and wherever a dump is cut in two.                      *)
THEOREM WritesCountsOfTheFile == Spec => []CountsAreOfTheFile
<1>1. Init => CountInv
  <2>1. ASSUME Init PROVE DOMAIN stats = {} /\ out = <<>>
    BY <2>1 DEF Init, Empty
  <2> QED BY <2>1 DEF CountInv
<1>2. SnapshotInv /\ CountInv /\ [Next]_vars => CountInv'
  BY NextCountInv
<1>3. SnapshotInv /\ CountInv => CountsAreOfTheFile
  BY CountInvGivesCounts
<1> QED BY <1>1, <1>2, <1>3, SnapshotInductive, PTL DEF Spec
===============================================================================
