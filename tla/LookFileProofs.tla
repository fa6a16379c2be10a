--------------------------- MODULE LookFileProofs ---------------------------
(***************************************************************************)
(* Proofs about module LookFile: the output file never mixes two rounds,   *)
(* and what it holds is complete where the command says so, for any stores *)
(* and flags and however the other clients, failures and kills interleave. *)
(***************************************************************************)
EXTENDS LookFile, SequenceLemmas

RowType == [Key : Nat, ValueSizeBytes : Int]

Scanning == pc \in {"scanned", "draining"}

(* What the file will hold if the round ended now.                          *)
output == IF pc = "draining" THEN file \o pending ELSE pending

Wanted(p) == InScan(p[1]) /\ ~Reject(cfg.filter, [keySize |-> 1, valueSize |-> p[2]])

Fits(row) ==
  \E p \in round.seen : p[1] = row.Key /\ Wanted(p) /\ row.ValueSizeBytes \in {p[2], absent}

Ascend(rows) == \A i, j \in DOMAIN rows : i < j => rows[i].Key < rows[j].Key
AllFit(rows) == \A r \in ToSet(rows) : Fits(r)
Shows(rows, k) == \E r \in ToSet(rows) : r.Key = k

TypeInv ==
  /\ TypeOK
  /\ IsFiniteSet(DOMAIN store)
  /\ ended \in BOOLEAN
  /\ file \in Seq(RowType) /\ pending \in Seq(RowType)
  /\ round \in [seen : SUBSET (Key \X Size), unchanged : SUBSET (Key \X Size),
                 gap : BOOLEAN, truncated : BOOLEAN]

(* Between rounds nothing is on its way, and before the file is truncated   *)
(* the round claims nothing of it.                                          *)
ControlInv ==
  /\ pc \notin {"scanned", "draining", "exited"} => scanned = <<>> /\ ~ended /\ pending = <<>>
  /\ pc \in {"start", "opened", "scanned"} => ~round.truncated
  /\ pc = "draining" /\ cfg.mode # "jsonl" => file = <<>>

(* The output of a round in progress: rows of keys that were scanned, each  *)
(* as it was at some moment of the round.                                   *)
OutputInv ==
  Scanning =>
    /\ round.unchanged \subseteq Pairs /\ Pairs \subseteq round.seen
    /\ \A i, j \in DOMAIN scanned : i < j => scanned[i] < scanned[j]
    /\ Ascend(output) /\ AllFit(output)
    /\ \A r \in ToSet(output) : r.Key \in ToSet(scanned)

(* A pair that did not change is shown, or lies ahead of the scan.          *)
CoverInv ==
  Scanning /\ ~round.gap =>
    \A p \in round.unchanged :
      Wanted(p) => \/ Shows(output, p[1])
                   \/ ~ended /\ \A k \in ToSet(scanned) : k < p[1]

(* What is in the file.                                                     *)
FileInv ==
  round.truncated =>
    /\ Ascend(file) /\ AllFit(file)
    /\ pc \in {"done", "ticking"} \/ (cfg.mode # "jsonl" /\ file # <<>>)
         => round.gap \/ \A p \in round.unchanged : Wanted(p) => Shows(file, p[1])

(* A gap needs a key that was deleted while the scan went on: a pair that   *)
(* did not stay.  Every key scanned had a pair at some moment of the round. *)
GapInv ==
  /\ pc \in {"draining", "ticking", "done"} => round.truncated
  /\ Scanning => \A k \in ToSet(scanned) : \E p \in round.seen : p[1] = k
  /\ round.gap => \E p \in round.seen : p \notin round.unchanged

(* A row has a size unless --keys-only is given.                            *)
Shaped(rows) == \A r \in ToSet(rows) : r.ValueSizeBytes = absent <=> cfg.keysOnly
ShapeInv == Shaped(pending) /\ (round.truncated => Shaped(file))

LookInv == TypeInv /\ ControlInv /\ OutputInv /\ CoverInv /\ FileInv

----------------------------------------------------------------------------
(* Rows that follow each other.                                             *)
LEMMA AscendJoin ==
  ASSUME NEW a \in Seq(RowType), NEW b \in Seq(RowType), Ascend(a), Ascend(b),
         \A r \in ToSet(a), q \in ToSet(b) : r.Key < q.Key
  PROVE  Ascend(a \o b)
<1> DEFINE u == a \o b
<1>1. /\ Len(a) \in Nat /\ Len(b) \in Nat /\ DOMAIN a = 1..Len(a) /\ DOMAIN b = 1..Len(b)
      /\ DOMAIN u = 1..(Len(a) + Len(b))
      /\ \A i \in 1..(Len(a) + Len(b)) : u[i] = IF i <= Len(a) THEN a[i] ELSE b[i - Len(a)]
  <2> HIDE DEF RowType
  <2> QED BY ConcatProperties
<1>2. \A i \in 1..Len(a) : a[i] \in ToSet(a)
  BY <1>1 DEF ToSet
<1>3. \A i \in 1..Len(b) : b[i] \in ToSet(b)
  BY <1>1 DEF ToSet
<1> HIDE DEF u
<1>4. ASSUME NEW i \in 1..(Len(a) + Len(b)), NEW j \in 1..(Len(a) + Len(b)), i < j
      PROVE  u[i].Key < u[j].Key
  <2>1. CASE j <= Len(a)
    <3>1. i \in 1..Len(a) /\ j \in 1..Len(a) /\ u[i] = a[i] /\ u[j] = a[j]
      BY <1>1, <1>4, <2>1
    <3> QED BY <1>1, <1>4, <3>1 DEF Ascend
  <2>2. CASE i > Len(a)
    <3>1. /\ i - Len(a) \in 1..Len(b) /\ j - Len(a) \in 1..Len(b) /\ i - Len(a) < j - Len(a)
          /\ u[i] = b[i - Len(a)] /\ u[j] = b[j - Len(a)]
      BY <1>1, <1>4, <2>2
    <3> QED BY <1>1, <3>1 DEF Ascend
  <2>3. CASE i <= Len(a) /\ j > Len(a)
    <3>1. i \in 1..Len(a) /\ j - Len(a) \in 1..Len(b) /\ u[i] = a[i] /\ u[j] = b[j - Len(a)]
      BY <1>1, <1>4, <2>3
    <3> QED BY <1>2, <1>3, <3>1
  <2> QED BY <1>1, <2>1, <2>2, <2>3
<1>5. Ascend(u)
  BY <1>1, <1>4 DEF Ascend
<1> QED BY <1>5 DEF u

(* The same for keys.                                                       *)
LEMMA KeysJoin ==
  ASSUME NEW a \in Seq(Key), NEW b \in Seq(Key),
         \A i, j \in DOMAIN a : i < j => a[i] < a[j],
         \A i, j \in 1..Len(b) : i < j => b[i] < b[j],
         \A k \in ToSet(b) : \A t \in ToSet(a) : t < k
  PROVE  \A i, j \in DOMAIN (a \o b) : i < j => (a \o b)[i] < (a \o b)[j]
<1> DEFINE u == a \o b
<1>1. /\ Len(a) \in Nat /\ Len(b) \in Nat /\ DOMAIN a = 1..Len(a) /\ DOMAIN b = 1..Len(b)
      /\ DOMAIN u = 1..(Len(a) + Len(b))
      /\ \A i \in 1..(Len(a) + Len(b)) : u[i] = IF i <= Len(a) THEN a[i] ELSE b[i - Len(a)]
  BY ConcatProperties
<1>2. \A i \in 1..Len(a) : a[i] \in ToSet(a)
  BY <1>1 DEF ToSet
<1>3. \A i \in 1..Len(b) : b[i] \in ToSet(b)
  BY <1>1 DEF ToSet
<1> HIDE DEF u
<1>4. ASSUME NEW i \in 1..(Len(a) + Len(b)), NEW j \in 1..(Len(a) + Len(b)), i < j
      PROVE  u[i] < u[j]
  <2>1. CASE j <= Len(a)
    BY <1>1, <1>4, <2>1
  <2>2. CASE i > Len(a)
    <3>1. /\ i - Len(a) \in 1..Len(b) /\ j - Len(a) \in 1..Len(b) /\ i - Len(a) < j - Len(a)
          /\ u[i] = b[i - Len(a)] /\ u[j] = b[j - Len(a)]
      BY <1>1, <1>4, <2>2
    <3> QED BY <1>1, <3>1
  <2>3. CASE i <= Len(a) /\ j > Len(a)
    <3>1. i \in 1..Len(a) /\ j - Len(a) \in 1..Len(b) /\ u[i] = a[i] /\ u[j] = b[j - Len(a)]
      BY <1>1, <1>4, <2>3
    <3> QED BY <1>2, <1>3, <3>1
  <2> QED BY <1>1, <2>1, <2>2, <2>3
<1>5. \A i, j \in DOMAIN u : i < j => u[i] < u[j]
  BY <1>1, <1>4
<1> QED BY <1>5 DEF u

(* The beginning of ascending rows ascends.                                 *)
LEMMA AscendPart ==
  ASSUME NEW a \in Seq(RowType), NEW b \in Seq(RowType), Ascend(a \o b)
  PROVE  Ascend(a)
<1> DEFINE u == a \o b
<1>1. /\ Len(a) \in Nat /\ Len(b) \in Nat /\ DOMAIN a = 1..Len(a)
      /\ DOMAIN u = 1..(Len(a) + Len(b))
      /\ \A i \in 1..(Len(a) + Len(b)) : u[i] = IF i <= Len(a) THEN a[i] ELSE b[i - Len(a)]
  <2> HIDE DEF RowType
  <2> QED BY ConcatProperties
<1>2. Ascend(u)
  OBVIOUS
<1> HIDE DEF u
<1>3. \A i \in 1..Len(a) : i \in DOMAIN u /\ u[i] = a[i]
  BY <1>1
<1> QED BY <1>1, <1>2, <1>3 DEF Ascend

(* Writing the next line does not change what the round will have written.  *)
LEMMA LineMoves ==
  ASSUME NEW a \in Seq(RowType), NEW b \in Seq(RowType), b # <<>>
  PROVE  /\ Append(a, Head(b)) \in Seq(RowType) /\ Tail(b) \in Seq(RowType)
         /\ Append(a, Head(b)) \o Tail(b) = a \o b
<1> HIDE DEF RowType
<1>1. Head(b) \in RowType /\ Tail(b) \in Seq(RowType) /\ b = <<Head(b)>> \o Tail(b)
  OBVIOUS
<1>2. Append(a, Head(b)) = a \o <<Head(b)>> /\ <<Head(b)>> \in Seq(RowType)
  BY <1>1
<1>3. (a \o <<Head(b)>>) \o Tail(b) = a \o (<<Head(b)>> \o Tail(b))
  BY <1>1, <1>2, ConcatAssociative
<1> QED BY <1>1, <1>2, <1>3

(* Each key that is not rejected makes one row, in the order of the keys.   *)
LEMMA RowsFacts ==
  ASSUME TypeInv, NEW s \in Seq(Key), \A i \in 1..Len(s) : s[i] \in DOMAIN store,
         \A i, j \in 1..Len(s) : i < j => s[i] < s[j]
  PROVE  /\ Rows(s) \in Seq(RowType)
         /\ Ascend(Rows(s))
         /\ \A r \in ToSet(Rows(s)) : \E k \in ToSet(s) : r = Row(k) /\ ~filterReject(k)
         /\ \A k \in ToSet(s) : ~filterReject(k) => Row(k) \in ToSet(Rows(s))
<1> DEFINE g == [i \in DOMAIN s |-> IF filterReject(s[i]) THEN <<>> ELSE <<Row(s[i])>>]
<1>1. /\ Len(s) \in Nat /\ DOMAIN s = 1..Len(s) /\ Key \subseteq Nat /\ Size \subseteq Nat
      /\ \A i \in 1..Len(s) : s[i] \in Nat /\ store[s[i]] \in Nat
  <2>1. Key \subseteq Nat /\ Size \subseteq Nat
    BY LookFileAssumption
  <2>2. \A k \in DOMAIN store : store[k] \in Size
    BY DEF TypeInv, TypeOK
  <2>3. \A i \in 1..Len(s) : s[i] \in Nat
    <3>1. \A i \in 1..Len(s) : s[i] \in Key
      OBVIOUS
    <3> QED BY <2>1, <3>1, Zenon
  <2>4. \A i \in 1..Len(s) : store[s[i]] \in Nat
    BY <2>1, <2>2
  <2>5. Len(s) \in Nat /\ DOMAIN s = 1..Len(s)
    OBVIOUS
  <2> QED BY <2>1, <2>3, <2>4, <2>5
<1>2. \A i \in 1..Len(s) : Row(s[i]) \in RowType
  BY <1>1 DEF Row, RowType, absent
<1>3. g \in Seq(Seq(RowType)) /\ Len(g) = Len(s)
  <2>1. \A i \in 1..Len(s) : g[i] \in Seq(RowType)
    BY <1>1, <1>2
  <2> QED BY <1>1, <2>1
<1>4. \A i \in 1..Len(s) : g[i] = IF filterReject(s[i]) THEN <<>> ELSE <<Row(s[i])>>
  BY <1>1
<1>5. Rows(s) = FlattenSeq(g)
  BY Zenon DEF Rows
<1> HIDE DEF g
<1>6. \A i \in 1..Len(g) : Len(g[i]) <= 1
  <2> TAKE i \in 1..Len(g)
  <2>1. g[i] = <<>> \/ g[i] = <<Row(s[i])>>
    BY <1>3, <1>4, Zenon
  <2>2. Len(<<>>) <= 1 /\ Len(<<Row(s[i])>>) <= 1
    OBVIOUS
  <2> QED BY <2>1, <2>2, Zenon
<1>7. PICK f : f = Rows(s)
  OBVIOUS
<1>8. KeepsElements(RowType, g, f)
  BY <1>3, <1>5, <1>6, <1>7, FlattenOptions
<1>9. f \in Seq(RowType) /\ Len(f) \in Nat /\ DOMAIN f = 1..Len(f)
  BY <1>8 DEF KeepsElements
<1>10. ASSUME NEW i \in 1..Len(s), NEW r, g[i] = <<r>> PROVE r = Row(s[i]) /\ ~filterReject(s[i])
  <2>1. ~filterReject(s[i])
    <3>1. <<r>> # <<>>
      OBVIOUS
    <3> QED BY <1>4, <1>10, <3>1, Zenon
  <2>2. g[i] = <<Row(s[i])>>
    BY <1>4, <2>1, Zenon
  <2>3. \A x, y : <<x>> = <<y>> => x = y
    OBVIOUS
  <2> QED BY <1>10, <2>1, <2>2, <2>3, Zenon
<1>11. \A p \in DOMAIN f : \E i \in 1..Len(s) : f[p] = Row(s[i]) /\ ~filterReject(s[i])
  <2> TAKE p \in DOMAIN f
  <2>1. PICK i \in 1..Len(s) : g[i] = <<f[p]>>
    BY <1>3, <1>8, <1>9 DEF KeepsElements
  <2> QED BY <1>10, <2>1, Zenon
<1>12. ASSUME NEW i \in 1..Len(s), ~filterReject(s[i]) PROVE \E p \in DOMAIN f : f[p] = Row(s[i])
  <2>1. g[i] = <<Row(s[i])>> /\ g[i] # <<>>
    <3>1. g[i] = <<Row(s[i])>>
      BY <1>4, <1>12, Zenon
    <3>2. <<Row(s[i])>> # <<>>
      OBVIOUS
    <3> QED BY <3>1, <3>2, Zenon
  <2>2. PICK p \in DOMAIN f : g[i] = <<f[p]>>
    <3>1. \A k \in 1..Len(g) : g[k] # <<>> => \E p \in 1..Len(f) : g[k] = <<f[p]>>
      BY <1>8 DEF KeepsElements
    <3> QED BY <1>3, <1>9, <2>1, <3>1, Zenon
  <2> QED BY <1>10, <2>2, Zenon
<1>13. ASSUME NEW p \in DOMAIN f, NEW q \in DOMAIN f, p < q PROVE f[p].Key < f[q].Key
  <2>1. PICK i \in 1..Len(s), j \in 1..Len(s) : i < j /\ g[i] = <<f[p]>> /\ g[j] = <<f[q]>>
    <3>1. \A x, y \in 1..Len(f) : x < y =>
            \E i, j \in 1..Len(g) : i < j /\ g[i] = <<f[x]>> /\ g[j] = <<f[y]>>
      BY <1>8 DEF KeepsElements
    <3>2. p \in 1..Len(f) /\ q \in 1..Len(f)
      BY <1>9, Zenon
    <3>3. PICK i \in 1..Len(g) : \E j \in 1..Len(g) : i < j /\ g[i] = <<f[p]>> /\ g[j] = <<f[q]>>
      BY <1>13, <3>1, <3>2, Zenon
    <3>4. PICK j \in 1..Len(g) : i < j /\ g[i] = <<f[p]>> /\ g[j] = <<f[q]>>
      BY <3>3
    <3> QED BY <1>3, <3>4, Zenon
  <2>2. f[p] = Row(s[i]) /\ f[q] = Row(s[j])
    BY <1>10, <2>1, Zenon
  <2>3. f[p].Key = s[i] /\ f[q].Key = s[j]
    BY <2>2 DEF Row
  <2> QED BY <2>1, <2>3
<1>14. Ascend(f)
  BY <1>13, Zenon DEF Ascend
<1>15. ToSet(f) = {f[p] : p \in DOMAIN f} /\ ToSet(s) = {s[i] : i \in 1..Len(s)}
  BY <1>1, Zenon DEF ToSet
<1>16. \A r \in ToSet(f) : \E k \in ToSet(s) : r = Row(k) /\ ~filterReject(k)
  BY <1>11, <1>15, Zenon
<1>17. \A k \in ToSet(s) : ~filterReject(k) => Row(k) \in ToSet(f)
  BY <1>12, <1>15, Zenon
<1> QED BY <1>7, <1>9, <1>14, <1>16, <1>17, Zenon

(* A page of the scan: the next keys of the store, and all of those in      *)
(* between, unless the key at the cursor is gone.                           *)
Page(s) ==
  /\ s \in Seq(Key)
  /\ scanned' = scanned \o s
  /\ \A i, j \in 1..Len(s) : i < j => s[i] < s[j]
  /\ \A k \in ToSet(s) : k \in DOMAIN store /\ InScan(k) /\ \A t \in ToSet(scanned) : t < k
  /\ Cursor!CursorGone \/
     \A k \in DOMAIN store : InScan(k) /\ (\A t \in ToSet(scanned) : t < k) =>
       k \in ToSet(s) \/ (~ended' /\ \A t \in ToSet(s) : t < k)

(* Each request takes such a page.                                          *)
LEMMA PageTakes ==
  ASSUME TypeInv, Cursor!Take
  PROVE  \E s : Page(s)
<1>0. PICK n \in 0..Cardinality(Cursor!Visible) : \E s \in [1..n -> Cursor!Visible] :
        /\ Cursor!NextKeys(s) /\ scanned' = scanned \o s
        /\ ended' => Len(s) = Cardinality(Cursor!Visible) \/ (0 > 0 /\ Len(scanned') = 0)
  <2>1. PICK s \in UNION {[1..n -> Cursor!Visible] : n \in 0..Cardinality(Cursor!Visible)} :
          /\ Cursor!NextKeys(s) /\ scanned' = scanned \o s
          /\ ended' => Len(s) = Cardinality(Cursor!Visible) \/ (0 > 0 /\ Len(scanned') = 0)
    <3>1. Cursor!Cardinality(Cursor!Visible) = Cardinality(Cursor!Visible)
      BY Zenon DEF Cursor!Cardinality, Cardinality
    <3> QED BY <3>1, Zenon DEF Cursor!Take
  <2>2. PICK n \in 0..Cardinality(Cursor!Visible) : s \in [1..n -> Cursor!Visible]
    BY <2>1
  <2> QED BY <2>1, <2>2, Zenon
<1>1. PICK s \in [1..n -> Cursor!Visible] :
        /\ Cursor!NextKeys(s) /\ scanned' = scanned \o s
        /\ ended' => Len(s) = Cardinality(Cursor!Visible) \/ (0 > 0 /\ Len(scanned') = 0)
  BY <1>0
<1>2. scanned \in Seq(Key) /\ Cursor!Taken = ToSet(scanned)
  BY DEF TypeInv, TypeOK, Cursor!Taken, ToSet
<1>3. \A k \in Cursor!Visible : k \in DOMAIN store /\ InScan(k) /\ \A t \in ToSet(scanned) : t < k
  BY <1>2 DEF Cursor!Visible, Cursor!Ahead, InScan
<1>4. DOMAIN store \subseteq Key /\ Key \subseteq Nat /\ IsFiniteSet(DOMAIN store)
  BY LookFileAssumption DEF TypeInv, TypeOK
<1>5. IsFiniteSet(Cursor!Visible) /\ Cardinality(Cursor!Visible) \in Nat
  BY <1>3, <1>4, FS_Subset, FS_CardinalityType
<1>6. s \in Seq(Key) /\ Len(s) = n /\ \A i \in 1..Len(s) : s[i] \in Cursor!Visible
  BY <1>1, <1>3, <1>4, <1>5
<1>7. \A i, j \in 1..Len(s) : i < j => s[i] < s[j]
  BY <1>1 DEF Cursor!NextKeys
<1>8. ASSUME ~Cursor!CursorGone, NEW k \in DOMAIN store, InScan(k), \A t \in ToSet(scanned) : t < k,
             \A i \in 1..Len(s) : s[i] # k
      PROVE  ~ended' /\ \A i \in 1..Len(s) : s[i] < k
  <2>1. k \in Cursor!Visible
    BY <1>2, <1>8 DEF Cursor!Visible, Cursor!Ahead, InScan
  <2>2. \A i \in 1..Len(s) : s[i] < k
    BY <1>1, <1>8, <2>1 DEF Cursor!NextKeys
  <2>3. ASSUME ended' PROVE FALSE
    <3>1. Len(s) = Cardinality(Cursor!Visible)
      BY <1>1, <2>3
    <3> DEFINE V == Cursor!Visible \ {k}
    <3>2. IsFiniteSet(V) /\ Cardinality(V) = Cardinality(Cursor!Visible) - 1
      BY <1>5, <2>1, FS_RemoveElement
    <3>3. \A i \in 1..Len(s) : s[i] \in V
      BY <1>6, <1>8
    <3> HIDE DEF V
    <3>4. s \in Seq(V)
      BY <1>6, <3>3
    <3>5. \A i, j \in 1..Len(s) : s[i] = s[j] => i = j
      <4>1. \A i \in 1..Len(s) : s[i] \in Nat
        <5>1. \A i \in 1..Len(s) : s[i] \in Key
          BY <1>6
        <5> QED BY <1>4, <5>1, Zenon
      <4> QED BY <1>6, <1>7, <4>1
    <3>6. Len(s) \in 0..Cardinality(V)
      BY <3>2, <3>4, <3>5, DistinctFacts
    <3> QED BY <1>5, <3>1, <3>2, <3>6
  <2> QED BY <2>2, <2>3
<1>9. ToSet(s) = {s[i] : i \in 1..Len(s)}
  BY <1>6 DEF ToSet
<1>10. \A k \in ToSet(s) : k \in DOMAIN store /\ InScan(k) /\ \A t \in ToSet(scanned) : t < k
  BY <1>3, <1>6, <1>9, Zenon
<1>11. ASSUME ~Cursor!CursorGone, NEW k \in DOMAIN store, InScan(k), \A t \in ToSet(scanned) : t < k,
              k \notin ToSet(s)
      PROVE  ~ended' /\ \A t \in ToSet(s) : t < k
  BY <1>8, <1>9, <1>11, Zenon
<1>12. Page(s)
  BY <1>1, <1>6, <1>7, <1>10, <1>11, Zenon DEF Page
<1> QED BY <1>12, Zenon

(* The rows of a page are wanted pairs of the store, and show all of them.  *)
LEMMA PageRows ==
  ASSUME TypeInv, NEW s, Page(s)
  PROVE  /\ Rows(s) \in Seq(RowType) /\ Ascend(Rows(s))
         /\ \A r \in ToSet(Rows(s)) :
              /\ r.Key \in ToSet(s)
              /\ \E p \in Pairs : p[1] = r.Key /\ Wanted(p) /\ r.ValueSizeBytes \in {p[2], absent}
         /\ \A p \in Pairs : Wanted(p) /\ p[1] \in ToSet(s) => Shows(Rows(s), p[1])
<1>1. /\ s \in Seq(Key) /\ \A i, j \in 1..Len(s) : i < j => s[i] < s[j]
      /\ \A k \in ToSet(s) : k \in DOMAIN store /\ InScan(k)
  BY DEF Page
<1>2. \A i \in 1..Len(s) : s[i] \in DOMAIN store
  BY <1>1 DEF ToSet
<1>3. /\ Rows(s) \in Seq(RowType) /\ Ascend(Rows(s))
      /\ \A r \in ToSet(Rows(s)) : \E k \in ToSet(s) : r = Row(k) /\ ~filterReject(k)
      /\ \A k \in ToSet(s) : ~filterReject(k) => Row(k) \in ToSet(Rows(s))
  BY <1>1, <1>2, RowsFacts
<1>4. \A k \in DOMAIN store : /\ <<k, store[k]>>[1] = k /\ <<k, store[k]>>[2] = store[k]
                               /\ <<k, store[k]>> \in Pairs
                               /\ Row(k).Key = k /\ Row(k).ValueSizeBytes \in {store[k], absent}
  BY DEF Pairs, Row
<1>5. \A k : filterReject(k) <=> Reject(cfg.filter, [keySize |-> 1, valueSize |-> store[k]])
  BY DEF filterReject, KV
<1>6. ASSUME NEW r \in ToSet(Rows(s))
      PROVE  /\ r.Key \in ToSet(s)
             /\ \E p \in Pairs : p[1] = r.Key /\ Wanted(p) /\ r.ValueSizeBytes \in {p[2], absent}
  <2>1. PICK k \in ToSet(s) : r = Row(k) /\ ~filterReject(k)
    BY <1>3
  <2>2. PICK p : p = <<k, store[k]>>
    OBVIOUS
  <2>3. p[1] = k /\ p[2] = store[k] /\ p \in Pairs /\ r.Key = k /\ r.ValueSizeBytes \in {store[k], absent}
    BY <1>1, <1>4, <2>1, <2>2, Zenon
  <2>4. Wanted(p)
    BY <1>1, <1>5, <2>1, <2>3, Zenon DEF Wanted
  <2> QED BY <2>1, <2>3, <2>4, Zenon
<1>7. ASSUME NEW p \in Pairs, Wanted(p), p[1] \in ToSet(s) PROVE Shows(Rows(s), p[1])
  <2>1. PICK k \in DOMAIN store : p = <<k, store[k]>>
    BY DEF Pairs
  <2>2. p[1] = k /\ p[2] = store[k] /\ Row(k).Key = k
    BY <1>4, <2>1, Zenon
  <2>3. ~filterReject(k)
    BY <1>5, <1>7, <2>2, Zenon DEF Wanted
  <2> QED BY <1>3, <1>7, <2>2, <2>3, Zenon DEF Shows
<1> QED BY <1>3, <1>6, <1>7

(* What a concatenation holds beyond its first part is its second part.     *)
LEMMA SuffixOfConcat ==
  ASSUME NEW S, NEW s \in Seq(S), NEW t \in Seq(S)
  PROVE  SubSeq(s \o t, Len(s) + 1, Len(s \o t)) = t
<1>1. /\ s \o t \in Seq(S) /\ Len(s) \in Nat /\ Len(t) \in Nat /\ Len(s \o t) = Len(s) + Len(t)
      /\ \A i \in 1..Len(t) : (s \o t)[Len(s) + i] = t[i]
  OBVIOUS
<1> DEFINE u == s \o t
           v == SubSeq(u, Len(s) + 1, Len(s) + Len(t))
<1>2. v \in Seq(S) /\ Len(v) = Len(t) /\ \A i \in 1..Len(t) : v[i] = u[Len(s) + i]
  <2> HIDE DEF u
  <2>1. u \in Seq(S) /\ Len(u) = Len(s) + Len(t)
    BY <1>1 DEF u
  <2>2. v \in Seq(S) /\ Len(v) = Len(t)
    BY <1>1, <2>1
  <2>3. \A i \in 1..Len(t) : v[i] = u[Len(s) + 1 + i - 1]
    BY <1>1, <2>1
  <2> QED BY <1>1, <2>2, <2>3
<1>3. \A i \in 1..Len(t) : v[i] = t[i]
  BY <1>1, <1>2
<1> HIDE DEF v
<1>4. v = t
  BY <1>2, <1>3, SeqEqual
<1> QED BY <1>1, <1>4 DEF v

(* What the first request of a round does.                                  *)
LEMMA BeginFacts ==
  ASSUME TypeInv, ControlInv, BeginRound
  PROVE  \E s : /\ Page(s) /\ ~Cursor!CursorGone /\ scanned = <<>>
                /\ scanned' = s /\ pending' = Rows(s) /\ pc' = "scanned" /\ ended' \in BOOLEAN
                /\ round' = [seen |-> Pairs, unchanged |-> Pairs, gap |-> FALSE, truncated |-> FALSE]
                /\ UNCHANGED <<store, cfg, file, changes>>
<1>1. scanned = <<>> /\ Cursor!Take
  BY DEF BeginRound, ControlInv
<1>2. PICK s : Page(s)
  BY <1>1, PageTakes
<1>3. scanned' = s
  BY <1>1, <1>2 DEF Page
<1>4. ~Cursor!CursorGone /\ ended' \in BOOLEAN
  BY <1>1 DEF Cursor!CursorGone, Cursor!Take
<1> QED BY <1>1, <1>2, <1>3, <1>4, Zenon DEF BeginRound

(* And a further one.                                                       *)
LEMMA NextFacts ==
  ASSUME TypeInv, NextPage
  PROVE  \E s : /\ Page(s) /\ pending' = pending \o Rows(s) /\ ended' \in BOOLEAN
                /\ pc = "draining" /\ ~ended
                /\ round' = [round EXCEPT !.gap = @ \/ Cursor!CursorGone]
                /\ UNCHANGED <<store, cfg, pc, file, changes>>
<1>1. Cursor!Take
  BY DEF NextPage
<1>2. PICK s : Page(s)
  BY <1>1, PageTakes
<1>3. SubSeq(scanned', Len(scanned) + 1, Len(scanned')) = s
  <2>1. scanned' = scanned \o s /\ s \in Seq(Key) /\ scanned \in Seq(Key)
    BY <1>2 DEF Page, TypeInv, TypeOK
  <2> QED BY <2>1, SuffixOfConcat
<1>4. pending' = pending \o Rows(s)
  BY <1>3, Zenon DEF NextPage
<1>5. ended' \in BOOLEAN /\ ~ended
  BY <1>1 DEF Cursor!Take
<1> QED BY <1>2, <1>4, <1>5, Zenon DEF NextPage

(* What a put or a delete of another client does.                           *)
LEMMA ClientFacts ==
  ASSUME TypeInv, Clients
  PROVE  /\ IsFiniteSet(DOMAIN store)' /\ DOMAIN store' \subseteq Key
         /\ \A k \in DOMAIN store' : store'[k] \in Size
         /\ round' = [round EXCEPT !.seen = @ \union Pairs', !.unchanged = @ \intersect Pairs']
         /\ changes < MaxChanges /\ changes' = changes + 1
         /\ UNCHANGED <<cfg, pc, scanVars, pending, file>>
<1>1. /\ DOMAIN store \subseteq Key /\ IsFiniteSet(DOMAIN store)
      /\ \A k \in DOMAIN store : store[k] \in Size
  BY DEF TypeInv, TypeOK
<1>2. ASSUME NEW new, Change(new)
      PROVE  /\ store' = new
             /\ round' = [round EXCEPT !.seen = @ \union Pairs', !.unchanged = @ \intersect Pairs']
             /\ changes < MaxChanges /\ changes' = changes + 1
             /\ UNCHANGED <<cfg, pc, scanVars, pending, file>>
  <2>1. store' = new
    BY <1>2 DEF Change
  <2>2. Pairs' = {<<k, new[k]>> : k \in DOMAIN new}
    BY <2>1 DEF Pairs
  <2> QED BY <1>2, <2>2, Zenon DEF Change
<1>3. PICK k \in Key : Delete(k) \/ \E size \in Size : Put(k, size)
  BY DEF Clients
<1>4. CASE Delete(k)
  <2>1. PICK new : new = [j \in DOMAIN store \ {k} |-> store[j]]
    OBVIOUS
  <2>2. Change(new)
    BY <1>4, <2>1, Zenon DEF Delete
  <2>3. DOMAIN new \subseteq DOMAIN store /\ \A j \in DOMAIN new : new[j] = store[j]
    BY <2>1
  <2>4. IsFiniteSet(DOMAIN new)
    BY <1>1, <2>3, FS_Subset
  <2>5. DOMAIN new \subseteq Key /\ \A j \in DOMAIN new : new[j] \in Size
    BY <1>1, <2>3
  <2> QED BY <1>2, <2>2, <2>4, <2>5
<1>5. CASE \E size \in Size : Put(k, size)
  <2>0. PICK size \in Size : Put(k, size)
    BY <1>5
  <2>1. PICK new : new = [j \in DOMAIN store \union {k} |-> IF j = k THEN size ELSE store[j]]
    OBVIOUS
  <2>2. Change(new)
    BY <2>0, <2>1, Zenon DEF Put
  <2>3. DOMAIN new = DOMAIN store \union {k} /\ \A j \in DOMAIN new : new[j] = IF j = k THEN size ELSE store[j]
    BY <2>1
  <2>4. IsFiniteSet(DOMAIN new)
    BY <1>1, <2>3, FS_AddElement
  <2>5. DOMAIN new \subseteq Key /\ \A j \in DOMAIN new : new[j] \in Size
    BY <1>1, <2>3
  <2> QED BY <1>2, <2>2, <2>4, <2>5
<1> QED BY <1>3, <1>4, <1>5

----------------------------------------------------------------------------
(* The steps.                                                               *)

(* Types.                                                                   *)
LEMMA TypeStep ==
  ASSUME TypeInv, ControlInv, [Next]_vars
  PROVE  TypeInv'
<1>1. Pairs \subseteq Key \X Size
  BY DEF Pairs, TypeInv, TypeOK
<1>2. CASE FlagsRejected \/ RequestFails \/ Killed \/ Waiting \/ UNCHANGED vars
  <2>1. /\ pc' = pc \/ pc' = "exited"
        /\ UNCHANGED <<store, cfg, scanned, ended, pending, file, round, changes>>
    BY <1>2 DEF FlagsRejected, RequestFails, Killed, Waiting, vars, scanVars
  <2> QED BY <2>1 DEF TypeInv, TypeOK
<1>3. CASE GetFileWriter
  <2>1. /\ file' = file \/ file' = <<>>
        /\ pc' = "opened"
        /\ UNCHANGED <<store, cfg, scanned, ended, pending, round, changes>>
    BY <1>3 DEF GetFileWriter, scanVars
  <2>2. file' \in Seq(RowType)
    <3>1. file \in Seq(RowType) /\ <<>> \in Seq(RowType)
      BY DEF TypeInv
    <3> QED BY <2>1, <3>1, Zenon
  <2> QED BY <2>1, <2>2 DEF TypeInv, TypeOK
<1>4. CASE BeginRound
  <2>1. PICK s : /\ Page(s)
                 /\ scanned' = s /\ pending' = Rows(s) /\ pc' = "scanned" /\ ended' \in BOOLEAN
                 /\ round' = [seen |-> Pairs, unchanged |-> Pairs, gap |-> FALSE, truncated |-> FALSE]
                 /\ UNCHANGED <<store, cfg, file, changes>>
    BY <1>4, BeginFacts
  <2>2. pending' \in Seq(RowType) /\ scanned' \in Seq(Key)
    BY <2>1, PageRows DEF Page
  <2>3. round' \in [seen : SUBSET (Key \X Size), unchanged : SUBSET (Key \X Size),
                    gap : BOOLEAN, truncated : BOOLEAN]
    BY <1>1, <2>1
  <2> QED BY <2>1, <2>2, <2>3 DEF TypeInv, TypeOK
<1>5. CASE Truncate
  <2>1. /\ file' = <<>> /\ pc' = "draining" /\ round' = [round EXCEPT !.truncated = TRUE]
        /\ UNCHANGED <<store, cfg, scanned, ended, pending, changes>>
    BY <1>5 DEF Truncate, Truncated, scanVars
  <2>2. file' \in Seq(RowType)
    BY <2>1
  <2>3. round' \in [seen : SUBSET (Key \X Size), unchanged : SUBSET (Key \X Size),
                    gap : BOOLEAN, truncated : BOOLEAN]
    BY <2>1 DEF TypeInv
  <2> QED BY <2>1, <2>2, <2>3 DEF TypeInv, TypeOK
<1>6. CASE NextPage
  <2>1. PICK s : /\ Page(s) /\ pending' = pending \o Rows(s) /\ ended' \in BOOLEAN
                 /\ round' = [round EXCEPT !.gap = @ \/ Cursor!CursorGone]
                 /\ UNCHANGED <<store, cfg, pc, file, changes>>
    BY <1>6, NextFacts
  <2>2. scanned' \in Seq(Key)
    BY <2>1 DEF Page, TypeInv, TypeOK
  <2>3. pending' \in Seq(RowType)
    <3>1. Rows(s) \in Seq(RowType) /\ pending \in Seq(RowType)
      BY <2>1, PageRows DEF TypeInv
    <3> QED BY <2>1, <3>1
  <2>4. round' \in [seen : SUBSET (Key \X Size), unchanged : SUBSET (Key \X Size),
                    gap : BOOLEAN, truncated : BOOLEAN]
    BY <2>1 DEF TypeInv
  <2> QED BY <2>1, <2>2, <2>3, <2>4 DEF TypeInv, TypeOK
<1>7. CASE WriteLine
  <2>1. /\ pending # <<>> /\ file' = Append(file, Head(pending)) /\ pending' = Tail(pending)
        /\ UNCHANGED <<store, cfg, pc, scanned, ended, round, changes>>
    BY <1>7 DEF WriteLine, scanVars
  <2>2. file' \in Seq(RowType) /\ pending' \in Seq(RowType)
    <3>1. file \in Seq(RowType) /\ pending \in Seq(RowType)
      BY DEF TypeInv
    <3> QED BY <2>1, <3>1, LineMoves
  <2> QED BY <2>1, <2>2 DEF TypeInv, TypeOK
<1>8. CASE RoundEnds
  <2>1. /\ file' = file \o pending /\ pending' = <<>> /\ scanned' = <<>> /\ ended' = FALSE
        /\ pc' \in {"ticking", "done"} /\ UNCHANGED <<store, cfg, round, changes>>
    BY <1>8 DEF RoundEnds, AfterRound
  <2>2. file' \in Seq(RowType) /\ pending' \in Seq(RowType) /\ scanned' \in Seq(Key)
    <3>1. file \in Seq(RowType) /\ pending \in Seq(RowType)
      BY DEF TypeInv
    <3> HIDE DEF RowType
    <3>2. file \o pending \in Seq(RowType)
      BY <3>1
    <3> QED BY <2>1, <3>2
  <2> QED BY <2>1, <2>2 DEF TypeInv, TypeOK
<1>9. CASE Clients
  <2>1. /\ IsFiniteSet(DOMAIN store)' /\ DOMAIN store' \subseteq Key
        /\ \A k \in DOMAIN store' : store'[k] \in Size
        /\ round' = [round EXCEPT !.seen = @ \union Pairs', !.unchanged = @ \intersect Pairs']
        /\ changes < MaxChanges /\ changes' = changes + 1
        /\ UNCHANGED <<cfg, pc, scanned, ended, pending, file>>
    BY <1>9, ClientFacts DEF scanVars
  <2>2. Pairs' \subseteq Key \X Size
    BY <2>1 DEF Pairs
  <2>3. round' \in [seen : SUBSET (Key \X Size), unchanged : SUBSET (Key \X Size),
                    gap : BOOLEAN, truncated : BOOLEAN]
    BY <2>1, <2>2 DEF TypeInv
  <2>4. changes' \in 0..MaxChanges
    <3>1. changes \in 0..MaxChanges /\ MaxChanges \in Nat
      BY LookFileAssumption DEF TypeInv, TypeOK
    <3> QED BY <2>1, <3>1
  <2> QED BY <2>1, <2>3, <2>4 DEF TypeInv, TypeOK
<1> QED BY <1>2, <1>3, <1>4, <1>5, <1>6, <1>7, <1>8, <1>9 DEF Next, LookStep, Fault

(* What is on its way in which phase.                                       *)
LEMMA ControlStep ==
  ASSUME TypeInv, ControlInv, [Next]_vars
  PROVE  ControlInv'
<1>1. CASE FlagsRejected \/ RequestFails \/ Killed \/ Waiting \/ UNCHANGED vars
  <2>1. /\ pc' = pc \/ pc' = "exited"
        /\ UNCHANGED <<store, cfg, scanned, ended, pending, file, round, changes>>
    BY <1>1 DEF FlagsRejected, RequestFails, Killed, Waiting, vars, scanVars
  <2> QED BY <2>1 DEF ControlInv
<1>2. CASE GetFileWriter
  BY <1>2 DEF GetFileWriter, ControlInv, scanVars
<1>3. CASE BeginRound
  <2>1. /\ pc' = "scanned" /\ round'.truncated = FALSE
    BY <1>3 DEF BeginRound
  <2> QED BY <2>1 DEF ControlInv
<1>4. CASE Truncate
  BY <1>4 DEF Truncate, Truncated, ControlInv
<1>5. CASE NextPage
  BY <1>5 DEF NextPage, ControlInv
<1>6. CASE WriteLine
  BY <1>6 DEF WriteLine, ControlInv, scanVars
<1>7. CASE RoundEnds
  BY <1>7 DEF RoundEnds, AfterRound, ControlInv
<1>8. CASE Clients
  <2>1. /\ round' = [round EXCEPT !.seen = @ \union Pairs', !.unchanged = @ \intersect Pairs']
        /\ UNCHANGED <<cfg, pc, scanned, ended, pending, file>>
    BY <1>8, ClientFacts DEF scanVars
  <2>2. round'.truncated = round.truncated
    BY <2>1 DEF TypeInv
  <2> QED BY <2>1, <2>2 DEF ControlInv
<1> QED BY <1>1, <1>2, <1>3, <1>4, <1>5, <1>6, <1>7, <1>8 DEF Next, LookStep, Fault

(* What a further page adds to the output.                                  *)
LEMMA OutputGrows ==
  ASSUME TypeInv, NextPage
  PROVE  \E s : /\ Page(s) /\ Scanning /\ pc = "draining" /\ ~ended
                /\ output' = output \o Rows(s)
                /\ output \in Seq(RowType) /\ Rows(s) \in Seq(RowType)
                /\ ToSet(output') = ToSet(output) \union ToSet(Rows(s))
                /\ ToSet(scanned') = ToSet(scanned) \union ToSet(s)
                /\ round'.seen = round.seen /\ round'.unchanged = round.unchanged
                /\ round'.truncated = round.truncated
                /\ round'.gap = (round.gap \/ Cursor!CursorGone)
                /\ UNCHANGED <<store, cfg, pc, file, changes>>
<1>1. PICK s : /\ Page(s) /\ pending' = pending \o Rows(s)
               /\ pc = "draining" /\ ~ended
               /\ round' = [round EXCEPT !.gap = @ \/ Cursor!CursorGone]
               /\ UNCHANGED <<store, cfg, pc, file, changes>>
  BY NextFacts
<1>2. Rows(s) \in Seq(RowType) /\ file \in Seq(RowType) /\ pending \in Seq(RowType)
  BY <1>1, PageRows DEF TypeInv
<1>3. output = file \o pending /\ output' = file \o (pending \o Rows(s))
  BY <1>1 DEF output
<1>4. output' = output \o Rows(s) /\ output \in Seq(RowType)
  <2> HIDE DEF RowType
  <2>1. file \o pending \in Seq(RowType) /\ (file \o pending) \o Rows(s) = file \o (pending \o Rows(s))
    BY <1>2, ConcatAssociative, SMTT(30)
  <2> QED BY <1>3, <2>1
<1>5. ToSet(output') = ToSet(output) \union ToSet(Rows(s))
  BY <1>2, <1>4, SetOfConcat
<1>6. ToSet(scanned') = ToSet(scanned) \union ToSet(s)
  BY <1>1, SetOfConcat DEF Page, TypeInv, TypeOK
<1>7. /\ round'.seen = round.seen /\ round'.unchanged = round.unchanged
      /\ round'.truncated = round.truncated /\ round'.gap = (round.gap \/ Cursor!CursorGone)
  BY <1>1 DEF TypeInv
<1> QED BY <1>1, <1>2, <1>4, <1>5, <1>6, <1>7, Zenon DEF Scanning

(* The steps that neither change the output of a round nor its claims.      *)
LEMMA OutputStays ==
  ASSUME TypeInv, Truncate \/ WriteLine, pc = "scanned" \/ pc = "draining"
  PROVE  /\ Scanning /\ output' = output /\ output \in Seq(RowType)
         /\ round'.seen = round.seen /\ round'.unchanged = round.unchanged /\ round'.gap = round.gap
         /\ UNCHANGED <<store, cfg, scanned, ended>>
<1>0. file \in Seq(RowType) /\ pending \in Seq(RowType)
  BY DEF TypeInv
<1>1. CASE Truncate
  <2>1. pc = "scanned" /\ pc' = "draining" /\ file' = <<>> /\ UNCHANGED <<store, cfg, scanned, ended, pending>>
        /\ round' = [round EXCEPT !.truncated = TRUE]
    BY <1>1 DEF Truncate, Truncated, scanVars
  <2>2. <<>> \o pending = pending
    <3> HIDE DEF RowType
    <3> QED BY <1>0
  <2>3. output = pending /\ output' = <<>> \o pending
    BY <2>1 DEF output
  <2>4. round'.seen = round.seen /\ round'.unchanged = round.unchanged /\ round'.gap = round.gap
    BY <2>1 DEF TypeInv
  <2> QED BY <1>0, <2>1, <2>2, <2>3, <2>4 DEF Scanning
<1>2. CASE WriteLine
  <2>1. /\ pc = "draining" /\ pc' = pc /\ pending # <<>>
        /\ file' = Append(file, Head(pending)) /\ pending' = Tail(pending)
        /\ UNCHANGED <<store, cfg, scanned, ended, round>>
    BY <1>2 DEF WriteLine, scanVars
  <2>2. output = file \o pending /\ output' = Append(file, Head(pending)) \o Tail(pending)
    BY <2>1 DEF output
  <2>3. output' = output
    BY <1>0, <2>1, <2>2, LineMoves
  <2>4. file \o pending \in Seq(RowType)
    <3> HIDE DEF RowType
    <3> QED BY <1>0
  <2> QED BY <2>1, <2>2, <2>3, <2>4 DEF Scanning
<1> QED BY <1>1, <1>2

(* A row that fits goes on to fit while the round goes on.                  *)
LEMMA FitsStays ==
  ASSUME cfg' = cfg, round.seen \subseteq round'.seen, NEW r, Fits(r)
  PROVE  Fits(r)'
BY DEF Fits, Wanted, InScan

(* The output of a round in progress.                                       *)
LEMMA OutputStep ==
  ASSUME TypeInv, ControlInv, OutputInv, [Next]_vars
  PROVE  OutputInv'
<1>1. CASE FlagsRejected \/ GetFileWriter \/ RoundEnds \/ Fault \/ Waiting \/ UNCHANGED vars
  <2>1. CASE UNCHANGED vars
    <3>1. UNCHANGED <<store, cfg, pc, scanned, ended, pending, file, round>>
      BY <2>1 DEF vars, scanVars
    <3> QED BY <3>1 DEF OutputInv, Scanning, output, Pairs, Ascend, AllFit, Fits, Wanted, InScan
  <2>2. CASE FlagsRejected \/ GetFileWriter \/ RoundEnds \/ Fault
    <3>1. ~Scanning'
      BY <2>2 DEF FlagsRejected, GetFileWriter, RoundEnds, AfterRound, Fault, RequestFails, Killed, Scanning
    <3> QED BY <3>1 DEF OutputInv
  <2> QED BY <1>1, <2>1, <2>2 DEF Waiting
<1>2. CASE BeginRound
  <2>1. PICK s : /\ Page(s) /\ scanned = <<>>
                 /\ scanned' = s /\ pending' = Rows(s) /\ pc' = "scanned"
                 /\ round' = [seen |-> Pairs, unchanged |-> Pairs, gap |-> FALSE, truncated |-> FALSE]
                 /\ UNCHANGED <<store, cfg>>
    BY <1>2, BeginFacts
  <2>2. output' = Rows(s) /\ Pairs' = Pairs /\ round'.seen = Pairs /\ round'.unchanged = Pairs
    BY <2>1 DEF output, Pairs
  <2>3. /\ Ascend(Rows(s))
        /\ \A r \in ToSet(Rows(s)) :
              /\ r.Key \in ToSet(s)
              /\ \E p \in Pairs : p[1] = r.Key /\ Wanted(p) /\ r.ValueSizeBytes \in {p[2], absent}
    BY <2>1, PageRows
  <2>4. AllFit(output)'
    <3>1. \A p : Wanted(p)' <=> Wanted(p)
      BY <2>1 DEF Wanted, InScan
    <3> QED BY <2>2, <2>3, <3>1 DEF AllFit, Fits
  <2>5. Ascend(output)'
    BY <2>2, <2>3 DEF Ascend
  <2>6. \A i, j \in DOMAIN s : i < j => s[i] < s[j]
    BY <2>1 DEF Page
  <2> QED BY <2>1, <2>2, <2>3, <2>4, <2>5, <2>6 DEF OutputInv
<1>3. CASE NextPage
  <2>1. PICK s : /\ Page(s) /\ Scanning /\ output' = output \o Rows(s)
                 /\ output \in Seq(RowType) /\ Rows(s) \in Seq(RowType)
                 /\ ToSet(output') = ToSet(output) \union ToSet(Rows(s))
                 /\ ToSet(scanned') = ToSet(scanned) \union ToSet(s)
                 /\ round'.seen = round.seen /\ round'.unchanged = round.unchanged
                 /\ UNCHANGED <<store, cfg, pc>>
    BY <1>3, OutputGrows
  <2>2. /\ round.unchanged \subseteq Pairs /\ Pairs \subseteq round.seen
        /\ \A i, j \in DOMAIN scanned : i < j => scanned[i] < scanned[j]
        /\ Ascend(output) /\ AllFit(output)
        /\ \A r \in ToSet(output) : r.Key \in ToSet(scanned)
    BY <2>1 DEF OutputInv
  <2>3. /\ Ascend(Rows(s))
        /\ \A r \in ToSet(Rows(s)) :
              /\ r.Key \in ToSet(s)
              /\ \E p \in Pairs : p[1] = r.Key /\ Wanted(p) /\ r.ValueSizeBytes \in {p[2], absent}
    BY <2>1, PageRows
  <2>4. \A k \in ToSet(s) : \A t \in ToSet(scanned) : t < k
    BY <2>1 DEF Page
  <2>5. Ascend(output)'
    <3>1. Ascend(output \o Rows(s))
      BY <2>1, <2>2, <2>3, <2>4, AscendJoin
    <3> QED BY <2>1, <3>1 DEF Ascend
  <2>6. AllFit(output)'
    <3>1. \A r \in ToSet(Rows(s)) : Fits(r)
      BY <2>2, <2>3, Zenon DEF Fits
    <3>2. \A r \in ToSet(output') : Fits(r)
      BY <2>1, <2>2, <3>1, Zenon DEF AllFit
    <3> QED BY <2>1, <3>2, FitsStays DEF AllFit
  <2>7. \A i, j \in DOMAIN scanned' : i < j => scanned'[i] < scanned'[j]
    <3>1. /\ scanned' = scanned \o s /\ scanned \in Seq(Key) /\ s \in Seq(Key)
          /\ \A i, j \in 1..Len(s) : i < j => s[i] < s[j]
      BY <2>1 DEF Page, TypeInv, TypeOK
    <3> QED BY <2>2, <2>4, <3>1, KeysJoin
  <2>8. \A r \in ToSet(output') : r.Key \in ToSet(scanned')
    BY <2>1, <2>2, <2>3, Zenon
  <2>9. Pairs' = Pairs
    BY <2>1 DEF Pairs
  <2> QED BY <2>1, <2>2, <2>5, <2>6, <2>7, <2>8, <2>9, Zenon DEF OutputInv
<1>4. CASE Truncate \/ WriteLine
  <2>1. pc = "scanned" \/ pc = "draining"
    BY <1>4 DEF Truncate, WriteLine
  <2>2. /\ Scanning /\ output' = output
        /\ round'.seen = round.seen /\ round'.unchanged = round.unchanged
        /\ UNCHANGED <<store, cfg, scanned>>
    BY <1>4, <2>1, OutputStays
  <2>3. Pairs' = Pairs
    BY <2>2 DEF Pairs
  <2>4. AllFit(output)'
    BY <2>2, FitsStays DEF OutputInv, AllFit
  <2> QED BY <2>2, <2>3, <2>4, Zenon DEF OutputInv, Ascend
<1>5. CASE Clients
  <2>1. /\ round' = [round EXCEPT !.seen = @ \union Pairs', !.unchanged = @ \intersect Pairs']
        /\ UNCHANGED <<cfg, pc, scanned, ended, pending, file>>
    BY <1>5, ClientFacts DEF scanVars
  <2>2. round'.seen = round.seen \union Pairs' /\ round'.unchanged = round.unchanged \intersect Pairs'
    BY <2>1 DEF TypeInv
  <2>3. output' = output /\ (Scanning' <=> Scanning)
    BY <2>1 DEF output, Scanning
  <2>4. AllFit(output) => AllFit(output)'
    BY <2>1, <2>2, <2>3, FitsStays DEF AllFit
  <2>5. Ascend(output) => Ascend(output)'
    BY <2>3 DEF Ascend
  <2> QED BY <2>1, <2>2, <2>3, <2>4, <2>5 DEF OutputInv
<1> QED BY <1>1, <1>2, <1>3, <1>4, <1>5 DEF Next, LookStep

(* What did not change is in the output, or ahead.                          *)
LEMMA CoverStep ==
  ASSUME TypeInv, ControlInv, OutputInv, CoverInv, [Next]_vars
  PROVE  CoverInv'
<1>1. CASE FlagsRejected \/ GetFileWriter \/ RoundEnds \/ Fault \/ Waiting \/ UNCHANGED vars
  <2>1. CASE UNCHANGED vars
    <3>1. UNCHANGED <<store, cfg, pc, scanned, ended, pending, file, round>>
      BY <2>1 DEF vars, scanVars
    <3> QED BY <3>1 DEF CoverInv, Scanning, output, Shows, Wanted, InScan
  <2>2. CASE FlagsRejected \/ GetFileWriter \/ RoundEnds \/ Fault
    <3>1. ~Scanning'
      BY <2>2 DEF FlagsRejected, GetFileWriter, RoundEnds, AfterRound, Fault, RequestFails, Killed, Scanning
    <3> QED BY <3>1 DEF CoverInv
  <2> QED BY <1>1, <2>1, <2>2 DEF Waiting
<1>2. CASE BeginRound
  <2>1. PICK s : /\ Page(s) /\ ~Cursor!CursorGone /\ scanned = <<>>
                 /\ scanned' = s /\ pending' = Rows(s) /\ pc' = "scanned"
                 /\ round' = [seen |-> Pairs, unchanged |-> Pairs, gap |-> FALSE, truncated |-> FALSE]
                 /\ UNCHANGED <<store, cfg>>
    BY <1>2, BeginFacts
  <2>2. output' = Rows(s) /\ round'.unchanged = Pairs
    BY <2>1 DEF output
  <2>3. ToSet(scanned) = {}
    BY <2>1 DEF ToSet
  <2>4. ASSUME NEW p \in Pairs, Wanted(p)
        PROVE  Shows(Rows(s), p[1]) \/ (~ended' /\ \A k \in ToSet(s) : k < p[1])
    <3>1. p[1] \in DOMAIN store /\ InScan(p[1])
      BY <2>4 DEF Pairs, Wanted
    <3>2. p[1] \in ToSet(s) \/ (~ended' /\ \A k \in ToSet(s) : k < p[1])
      BY <2>1, <2>3, <3>1, Zenon DEF Page
    <3>3. p[1] \in ToSet(s) => Shows(Rows(s), p[1])
      BY <2>1, <2>4, PageRows
    <3> QED BY <3>2, <3>3
  <2>5. \A p : Wanted(p)' <=> Wanted(p)
    BY <2>1 DEF Wanted, InScan
  <2> QED BY <2>1, <2>2, <2>4, <2>5, Zenon DEF CoverInv, Shows
<1>3. CASE NextPage
  <2>1. PICK s : /\ Page(s) /\ Scanning /\ output' = output \o Rows(s) /\ ~ended
                 /\ ToSet(output') = ToSet(output) \union ToSet(Rows(s))
                 /\ ToSet(scanned') = ToSet(scanned) \union ToSet(s)
                 /\ round'.unchanged = round.unchanged
                 /\ round'.gap = (round.gap \/ Cursor!CursorGone)
                 /\ UNCHANGED <<store, cfg, pc>>
    BY <1>3, OutputGrows
  <2> SUFFICES ASSUME ~round'.gap, NEW p \in round.unchanged, Wanted(p)
               PROVE  Shows(output', p[1]) \/ (~ended' /\ \A k \in ToSet(scanned') : k < p[1])
    <3>1. \A p : Wanted(p)' <=> Wanted(p)
      BY <2>1 DEF Wanted, InScan
    <3> QED BY <2>1, <3>1, Zenon DEF CoverInv, Shows
  <2>2. ~round.gap /\ ~Cursor!CursorGone
    BY <2>1
  <2>3. CASE Shows(output, p[1])
    BY <2>1, <2>3, Zenon DEF Shows
  <2>4. CASE \A k \in ToSet(scanned) : k < p[1]
    <3>1. p \in Pairs
      BY <2>1, Zenon DEF OutputInv
    <3>2. p[1] \in DOMAIN store /\ InScan(p[1])
      BY <3>1 DEF Pairs, Wanted
    <3>3. p[1] \in ToSet(s) \/ (~ended' /\ \A k \in ToSet(s) : k < p[1])
      BY <2>1, <2>2, <2>4, <3>2, Zenon DEF Page
    <3>4. p[1] \in ToSet(s) => Shows(Rows(s), p[1])
      BY <2>1, <3>1, PageRows
    <3>5. Shows(Rows(s), p[1]) => Shows(output', p[1])
      BY <2>1, Zenon DEF Shows
    <3>6. (\A k \in ToSet(s) : k < p[1]) => \A k \in ToSet(scanned') : k < p[1]
      BY <2>1, <2>4, Zenon
    <3> QED BY <3>3, <3>4, <3>5, <3>6, Zenon
  <2>5. Shows(output, p[1]) \/ \A k \in ToSet(scanned) : k < p[1]
    BY <2>1, <2>2, Zenon DEF CoverInv
  <2> QED BY <2>3, <2>4, <2>5
<1>4. CASE Truncate \/ WriteLine
  <2>1. pc = "scanned" \/ pc = "draining"
    BY <1>4 DEF Truncate, WriteLine
  <2>2. /\ Scanning /\ output' = output
        /\ round'.unchanged = round.unchanged /\ round'.gap = round.gap
        /\ UNCHANGED <<store, cfg, scanned, ended>>
    BY <1>4, <2>1, OutputStays
  <2>3. \A p : Wanted(p)' <=> Wanted(p)
    BY <2>2 DEF Wanted, InScan
  <2> QED BY <2>2, <2>3, Zenon DEF CoverInv, Shows
<1>5. CASE Clients
  <2>1. /\ round' = [round EXCEPT !.seen = @ \union Pairs', !.unchanged = @ \intersect Pairs']
        /\ UNCHANGED <<cfg, pc, scanned, ended, pending, file>>
    BY <1>5, ClientFacts DEF scanVars
  <2>2. round'.unchanged \subseteq round.unchanged /\ round'.gap = round.gap
    BY <2>1 DEF TypeInv
  <2>3. output' = output /\ (Scanning' <=> Scanning)
    BY <2>1 DEF output, Scanning
  <2>4. \A p : Wanted(p)' <=> Wanted(p)
    BY <2>1 DEF Wanted, InScan
  <2> QED BY <2>1, <2>2, <2>3, <2>4 DEF CoverInv, Shows
<1> QED BY <1>1, <1>2, <1>3, <1>4, <1>5 DEF Next, LookStep

(* What is in the file.                                                     *)
LEMMA FileStep ==
  ASSUME TypeInv, ControlInv, OutputInv, CoverInv, FileInv, [Next]_vars
  PROVE  FileInv'
<1> DEFINE Claims(p) == p \in {"done", "ticking"} \/ (cfg.mode # "jsonl" /\ file # <<>>)
<1>0. /\ round.truncated =>
           /\ Ascend(file) /\ AllFit(file)
           /\ Claims(pc) => round.gap \/ \A p \in round.unchanged : Wanted(p) => Shows(file, p[1])
      /\ file \in Seq(RowType) /\ pending \in Seq(RowType)
  BY DEF FileInv, TypeInv
<1>1. CASE FlagsRejected \/ Fault \/ Waiting \/ UNCHANGED vars
  <2>1. /\ pc' = pc \/ pc' = "exited"
        /\ UNCHANGED <<cfg, file, round>>
    BY <1>1 DEF FlagsRejected, Fault, RequestFails, Killed, Waiting, vars, scanVars
  <2>2. AllFit(file) => AllFit(file)'
    BY <2>1, FitsStays DEF AllFit
  <2>3. \A p : Wanted(p)' <=> Wanted(p)
    BY <2>1 DEF Wanted, InScan
  <2> QED BY <1>0, <2>1, <2>2, <2>3 DEF FileInv, Ascend, Shows
<1>2. CASE GetFileWriter \/ BeginRound
  <2>1. ~round'.truncated
    BY <1>2 DEF GetFileWriter, BeginRound, ControlInv
  <2> QED BY <2>1 DEF FileInv
<1>3. CASE Truncate
  <2>1. file' = <<>> /\ pc' = "draining"
    BY <1>3 DEF Truncate, Truncated
  <2>2. ToSet(file') = {} /\ DOMAIN file' = {}
    BY <2>1 DEF ToSet
  <2> QED BY <2>1, <2>2 DEF FileInv, Ascend, AllFit
<1>4. CASE NextPage
  <2>1. PICK s : /\ round'.seen = round.seen /\ round'.unchanged = round.unchanged
                 /\ round'.truncated = round.truncated
                 /\ round'.gap = (round.gap \/ Cursor!CursorGone)
                 /\ UNCHANGED <<cfg, pc, file>>
    BY <1>4, OutputGrows
  <2>2. AllFit(file) => AllFit(file)'
    BY <2>1, FitsStays DEF AllFit
  <2>3. \A p : Wanted(p)' <=> Wanted(p)
    BY <2>1 DEF Wanted, InScan
  <2> QED BY <1>0, <2>1, <2>2, <2>3 DEF FileInv, Ascend, Shows
<1>5. CASE WriteLine
  <2>1. /\ pc = "draining" /\ cfg.mode = "jsonl" /\ pending # <<>>
        /\ file' = Append(file, Head(pending))
        /\ UNCHANGED <<cfg, pc, round>>
    BY <1>5 DEF WriteLine
  <2>2. /\ file' \in Seq(RowType) /\ Tail(pending) \in Seq(RowType)
        /\ file' \o Tail(pending) = output
    BY <1>0, <2>1, LineMoves DEF output
  <2>3. Ascend(output) /\ AllFit(output)
    BY <2>1 DEF OutputInv, Scanning
  <2>4. Ascend(file')
    BY <2>2, <2>3, AscendPart
  <2>5. ToSet(output) = ToSet(file') \union ToSet(Tail(pending))
    BY <2>2, SetOfConcat, ZenonT(30)
  <2>6. AllFit(file)'
    BY <2>1, <2>3, <2>5, FitsStays DEF AllFit
  <2> QED BY <2>1, <2>4, <2>6 DEF FileInv, Ascend
<1>6. CASE RoundEnds
  <2>1. /\ pc = "draining" /\ ended /\ file' = output /\ UNCHANGED <<cfg, round>>
    BY <1>6 DEF RoundEnds, output
  <2>2. Ascend(output) /\ AllFit(output)
    BY <2>1 DEF OutputInv, Scanning
  <2>3. AllFit(file)'
    BY <2>1, <2>2, FitsStays DEF AllFit
  <2>4. Ascend(file)'
    BY <2>1, <2>2 DEF Ascend
  <2>5. round.gap \/ \A p \in round.unchanged : Wanted(p) => Shows(output, p[1])
    BY <2>1 DEF CoverInv, Scanning
  <2>6. \A p : Wanted(p)' <=> Wanted(p)
    BY <2>1 DEF Wanted, InScan
  <2> QED BY <2>1, <2>3, <2>4, <2>5, <2>6, Zenon DEF FileInv, Shows
<1>7. CASE Clients
  <2>1. /\ round' = [round EXCEPT !.seen = @ \union Pairs', !.unchanged = @ \intersect Pairs']
        /\ UNCHANGED <<cfg, pc, file>>
    BY <1>7, ClientFacts
  <2>2. /\ round.seen \subseteq round'.seen /\ round'.unchanged \subseteq round.unchanged
        /\ round'.gap = round.gap /\ round'.truncated = round.truncated
    BY <2>1 DEF TypeInv
  <2>3. AllFit(file) => AllFit(file)'
    BY <2>1, <2>2, FitsStays DEF AllFit
  <2>4. \A p : Wanted(p)' <=> Wanted(p)
    BY <2>1 DEF Wanted, InScan
  <2> QED BY <1>0, <2>1, <2>2, <2>3, <2>4 DEF FileInv, Ascend, Shows
<1> QED BY <1>1, <1>2, <1>3, <1>4, <1>5, <1>6, <1>7 DEF Next, LookStep

(* What a gap tells.                                                        *)
LEMMA GapStep ==
  ASSUME TypeInv, ControlInv, OutputInv, GapInv, [Next]_vars
  PROVE  GapInv'
<1>1. CASE FlagsRejected \/ Fault \/ Waiting \/ UNCHANGED vars
  <2>1. /\ pc' = pc \/ pc' = "exited"
        /\ UNCHANGED <<scanned, round>>
    BY <1>1 DEF FlagsRejected, Fault, RequestFails, Killed, Waiting, vars, scanVars
  <2> QED BY <2>1 DEF GapInv, Scanning
<1>2. CASE GetFileWriter
  <2>1. pc' = "opened" /\ round' = round
    BY <1>2 DEF GetFileWriter
  <2> QED BY <2>1 DEF GapInv, Scanning
<1>3. CASE BeginRound
  <2>1. PICK s : /\ Page(s) /\ scanned' = s /\ pc' = "scanned"
                 /\ round' = [seen |-> Pairs, unchanged |-> Pairs, gap |-> FALSE, truncated |-> FALSE]
    BY <1>3, BeginFacts
  <2>2. round'.seen = Pairs /\ round'.gap = FALSE
    BY <2>1
  <2>3. \A k \in ToSet(s) : <<k, store[k]>> \in Pairs
    BY <2>1 DEF Page, Pairs
  <2>4. \A k \in ToSet(s) : \E p \in Pairs : p[1] = k
    <3> SUFFICES ASSUME NEW k \in ToSet(s) PROVE \E p \in Pairs : p[1] = k
      OBVIOUS
    <3>1. <<k, store[k]>>[1] = k
      OBVIOUS
    <3> QED BY <2>3, <3>1, Zenon
  <2> QED BY <2>1, <2>2, <2>4 DEF GapInv
<1>4. CASE Truncate
  <2>1. /\ pc = "scanned" /\ pc' = "draining" /\ round' = [round EXCEPT !.truncated = TRUE]
        /\ scanned' = scanned
    BY <1>4 DEF Truncate, scanVars
  <2>2. /\ round'.seen = round.seen /\ round'.unchanged = round.unchanged /\ round'.gap = round.gap
        /\ round'.truncated = TRUE
    BY <2>1 DEF TypeInv
  <2> QED BY <2>1, <2>2 DEF GapInv, Scanning
<1>5. CASE NextPage
  <2>1. PICK s : /\ Page(s) /\ Scanning /\ pc = "draining"
                 /\ ToSet(scanned') = ToSet(scanned) \union ToSet(s)
                 /\ round'.seen = round.seen /\ round'.unchanged = round.unchanged
                 /\ round'.truncated = round.truncated
                 /\ round'.gap = (round.gap \/ Cursor!CursorGone)
                 /\ pc' = pc
    BY <1>5, OutputGrows
  <2>2. round.unchanged \subseteq Pairs /\ Pairs \subseteq round.seen
    BY <2>1 DEF OutputInv
  <2>3. \A k \in ToSet(scanned) : \E p \in round.seen : p[1] = k
    BY <2>1 DEF GapInv
  <2>4. ASSUME NEW k \in ToSet(s) PROVE \E p \in round.seen : p[1] = k
    <3>1. k \in DOMAIN store
      BY <2>1 DEF Page
    <3>2. <<k, store[k]>> \in Pairs /\ <<k, store[k]>>[1] = k
      BY <3>1 DEF Pairs
    <3> QED BY <2>2, <3>2, Zenon
  <2>5. ASSUME Cursor!CursorGone PROVE \E p \in round.seen : p \notin round.unchanged
    <3>1. scanned # <<>> /\ scanned[Len(scanned)] \notin DOMAIN store /\ scanned \in Seq(Key)
      BY <2>5 DEF Cursor!CursorGone, TypeInv, TypeOK
    <3>2. Len(scanned) \in DOMAIN scanned
      BY <3>1
    <3>3. scanned[Len(scanned)] \in ToSet(scanned)
      BY <3>2 DEF ToSet
    <3>4. PICK p \in round.seen : p[1] = scanned[Len(scanned)]
      BY <2>3, <3>3
    <3>5. p \notin Pairs
      BY <3>1, <3>4 DEF Pairs
    <3> QED BY <2>2, <3>5
  <2>6. (round'.gap) => \E p \in round'.seen : p \notin round'.unchanged
    BY <2>1, <2>5 DEF GapInv
  <2>7. \A k \in ToSet(scanned') : \E p \in round'.seen : p[1] = k
    BY <2>1, <2>3, <2>4
  <2>8. round'.truncated
    BY <2>1 DEF GapInv
  <2> QED BY <2>6, <2>7, <2>8 DEF GapInv
<1>6. CASE WriteLine
  <2>1. UNCHANGED <<pc, scanned, round>>
    BY <1>6 DEF WriteLine, scanVars
  <2> QED BY <2>1 DEF GapInv, Scanning
<1>7. CASE RoundEnds
  <2>1. pc = "draining" /\ pc' \in {"ticking", "done"} /\ round' = round
    BY <1>7 DEF RoundEnds, AfterRound
  <2> QED BY <2>1 DEF GapInv, Scanning
<1>8. CASE Clients
  <2>1. /\ round' = [round EXCEPT !.seen = @ \union Pairs', !.unchanged = @ \intersect Pairs']
        /\ UNCHANGED <<pc, scanned>>
    BY <1>8, ClientFacts DEF scanVars
  <2>2. /\ round.seen \subseteq round'.seen /\ round'.unchanged \subseteq round.unchanged
        /\ round'.gap = round.gap /\ round'.truncated = round.truncated
    BY <2>1 DEF TypeInv
  <2> QED BY <2>1, <2>2 DEF GapInv, Scanning
<1> QED BY <1>1, <1>2, <1>3, <1>4, <1>5, <1>6, <1>7, <1>8 DEF Next, LookStep

(* The rows of a page have sizes, or none.                                  *)
LEMMA PageShaped ==
  ASSUME TypeInv, NEW s, Page(s)
  PROVE  Rows(s) \in Seq(RowType) /\ Shaped(Rows(s))
<1>1. /\ s \in Seq(Key) /\ \A i, j \in 1..Len(s) : i < j => s[i] < s[j]
      /\ \A k \in ToSet(s) : k \in DOMAIN store
  BY DEF Page
<1>2. \A i \in 1..Len(s) : s[i] \in DOMAIN store
  BY <1>1 DEF ToSet
<1>3. Rows(s) \in Seq(RowType)
      /\ \A r \in ToSet(Rows(s)) : \E k \in ToSet(s) : r = Row(k) /\ ~filterReject(k)
  BY <1>1, <1>2, RowsFacts
<1>4. \A k \in DOMAIN store : store[k] \in Nat
  BY LookFileAssumption DEF TypeInv, TypeOK
<1>5. \A k \in ToSet(s) : Row(k).ValueSizeBytes = absent <=> cfg.keysOnly
  BY <1>1, <1>4 DEF Row, absent
<1> QED BY <1>3, <1>5, Zenon DEF Shaped

(* Which rows have a size.                                                  *)
LEMMA ShapeStep ==
  ASSUME TypeInv, ControlInv, ShapeInv, [Next]_vars
  PROVE  ShapeInv'
<1>0. file \in Seq(RowType) /\ pending \in Seq(RowType)
  BY DEF TypeInv
<1>1. CASE FlagsRejected \/ Fault \/ Waiting \/ UNCHANGED vars
  <2>1. UNCHANGED <<cfg, pending, file, round>>
    BY <1>1 DEF FlagsRejected, Fault, RequestFails, Killed, Waiting, vars, scanVars
  <2> QED BY <2>1 DEF ShapeInv, Shaped
<1>2. CASE GetFileWriter
  <2>1. ~round'.truncated /\ UNCHANGED <<cfg, pending>>
    BY <1>2 DEF GetFileWriter, ControlInv
  <2> QED BY <2>1 DEF ShapeInv, Shaped
<1>3. CASE BeginRound
  <2>1. PICK s : /\ Page(s) /\ pending' = Rows(s) /\ cfg' = cfg /\ ~round'.truncated
    BY <1>3, BeginFacts
  <2> QED BY <2>1, PageShaped DEF ShapeInv, Shaped
<1>4. CASE Truncate
  <2>1. file' = <<>> /\ UNCHANGED <<cfg, pending>>
    BY <1>4 DEF Truncate, Truncated
  <2>2. ToSet(file') = {}
    BY <2>1 DEF ToSet
  <2> QED BY <2>1, <2>2 DEF ShapeInv, Shaped
<1>5. CASE NextPage
  <2>1. PICK s : /\ Page(s) /\ pending' = pending \o Rows(s)
                 /\ round' = [round EXCEPT !.gap = @ \/ Cursor!CursorGone]
                 /\ UNCHANGED <<cfg, file>>
    BY <1>5, NextFacts
  <2>2. round'.truncated = round.truncated
    BY <2>1 DEF TypeInv
  <2>3. ToSet(pending') = ToSet(pending) \union ToSet(Rows(s))
    BY <1>0, <2>1, PageShaped, SetOfConcat
  <2>4. Shaped(Rows(s))
    BY <2>1, PageShaped
  <2> QED BY <2>1, <2>2, <2>3, <2>4 DEF ShapeInv, Shaped
<1>6. CASE WriteLine
  <2>1. /\ pending # <<>> /\ file' = Append(file, Head(pending)) /\ pending' = Tail(pending)
        /\ UNCHANGED <<cfg, round>>
    BY <1>6 DEF WriteLine
  <2>2. /\ Head(pending) \in RowType /\ Tail(pending) \in Seq(RowType)
        /\ 1 \in DOMAIN pending /\ Head(pending) = pending[1]
        /\ \A i \in DOMAIN Tail(pending) : i + 1 \in DOMAIN pending /\ Tail(pending)[i] = pending[i + 1]
    <3> HIDE DEF RowType
    <3> QED BY <1>0, <2>1
  <2>3. ToSet(file') = ToSet(file) \union {Head(pending)}
    BY <1>0, <2>1, <2>2, SetOfAppend
  <2>4. Head(pending) \in ToSet(pending) /\ ToSet(pending') \subseteq ToSet(pending)
    BY <2>1, <2>2 DEF ToSet
  <2> QED BY <2>1, <2>3, <2>4 DEF ShapeInv, Shaped
<1>7. CASE RoundEnds
  <2>1. file' = file \o pending /\ pending' = <<>> /\ UNCHANGED <<cfg, round>>
    BY <1>7 DEF RoundEnds
  <2>2. ToSet(file') = ToSet(file) \union ToSet(pending)
    BY <1>0, <2>1, SetOfConcat
  <2>3. ToSet(pending') = {}
    BY <2>1 DEF ToSet
  <2> QED BY <2>1, <2>2, <2>3 DEF ShapeInv, Shaped
<1>8. CASE Clients
  <2>1. /\ round' = [round EXCEPT !.seen = @ \union Pairs', !.unchanged = @ \intersect Pairs']
        /\ UNCHANGED <<cfg, pending, file>>
    BY <1>8, ClientFacts
  <2>2. round'.truncated = round.truncated
    BY <2>1 DEF TypeInv
  <2> QED BY <2>1, <2>2 DEF ShapeInv, Shaped
<1> QED BY <1>1, <1>2, <1>3, <1>4, <1>5, <1>6, <1>7, <1>8 DEF Next, LookStep

----------------------------------------------------------------------------
(* The file of a finished look, and the commands that read it.              *)
KeysInScan == {k \in DOMAIN store : InScan(k)}

(* The keys in order are the keys in order.                                 *)
LEMMA KeysInOrderFacts ==
  ASSUME TypeInv
  PROVE  /\ KeysInScan \in SUBSET (Nat \ {0}) /\ IsFiniteSet(KeysInScan)
         /\ Enumerates(KeysInOrder, KeysInScan)
<1>1. KeysInScan \in SUBSET (Nat \ {0}) /\ IsFiniteSet(KeysInScan)
  BY LookFileAssumption, FS_Subset DEF TypeInv, TypeOK, KeysInScan
<1>2. \E t \in SetToSeqs(KeysInScan) : \A i, j \in 1..Len(t) : i < j => t[i] < t[j]
  BY <1>1, EnumerationExists
<1>3. /\ KeysInOrder \in SetToSeqs(KeysInScan)
      /\ \A i, j \in 1..Len(KeysInOrder) : i < j => KeysInOrder[i] < KeysInOrder[j]
  BY <1>2 DEF KeysInOrder, KeysInScan
<1>4. PICK t : t = KeysInOrder
  OBVIOUS
<1>5. t \in SetToSeqs(KeysInScan)
  BY <1>3, <1>4
<1>6. t \in Seq(KeysInScan) /\ \A x \in KeysInScan : \E i \in 1..Len(t) : t[i] = x
  BY <1>1, <1>5, OrderFacts
<1>7. Enumerates(t, KeysInScan)
  BY <1>3, <1>4, <1>6, Zenon DEF Enumerates
<1> QED BY <1>1, <1>4, <1>7

(* The current file shows the keys of the store, in order, each with the    *)
(* size that it has, or with none.                                          *)
LEMMA CurrentFile ==
  ASSUME LookInv, GapInv, ShapeInv, FileIsCurrent
  PROVE  /\ file \in Seq(RowType)
         /\ Keys(file) = KeysInOrder /\ Len(KeysInOrder) = Len(file)
         /\ \A i \in 1..Len(file) :
              /\ file[i].Key = KeysInOrder[i]
              /\ file[i].ValueSizeBytes = IF cfg.keysOnly THEN absent ELSE store[KeysInOrder[i]]
              /\ store[KeysInOrder[i]] \in Nat
<1>1. /\ TypeInv /\ file \in Seq(RowType)
      /\ pc = "done" /\ cfg.filter.Attribute = "none" /\ round.seen = Pairs /\ round.unchanged = Pairs
      /\ \A k \in DOMAIN store : store[k] \in Nat
  BY LookFileAssumption DEF LookInv, TypeInv, TypeOK, FileIsCurrent
<1>2. round.truncated /\ ~round.gap /\ Shaped(file)
  BY <1>1 DEF GapInv, ShapeInv
<1>3. /\ Ascend(file) /\ AllFit(file)
      /\ \A p \in Pairs : Wanted(p) => Shows(file, p[1])
  BY <1>1, <1>2 DEF LookInv, FileInv
<1>4. \A p \in Pairs : /\ p[1] \in DOMAIN store /\ p[2] = store[p[1]]
                       /\ Wanted(p) <=> InScan(p[1])
  BY <1>1 DEF Pairs, Wanted, Reject, NoFilter
<1>5. Len(file) \in Nat /\ DOMAIN file = 1..Len(file) /\ \A i \in 1..Len(file) : file[i] \in ToSet(file)
  BY <1>1 DEF ToSet
<1>6. ASSUME NEW i \in 1..Len(file)
      PROVE  /\ file[i].Key \in KeysInScan
             /\ file[i].ValueSizeBytes = IF cfg.keysOnly THEN absent ELSE store[file[i].Key]
  <2>1. PICK p \in Pairs : /\ p[1] = file[i].Key /\ Wanted(p)
                           /\ file[i].ValueSizeBytes \in {p[2], absent}
    BY <1>1, <1>3, <1>5 DEF AllFit, Fits
  <2>2. file[i].ValueSizeBytes = absent <=> cfg.keysOnly
    BY <1>2, <1>5 DEF Shaped
  <2> QED BY <1>4, <2>1, <2>2 DEF KeysInScan
<1> DEFINE t == Keys(file)
<1>7. Len(t) = Len(file) /\ DOMAIN t = 1..Len(file) /\ \A i \in 1..Len(file) : t[i] = file[i].Key
  BY <1>1, <1>5 DEF Keys
<1>8. t \in Seq(KeysInScan)
  BY <1>5, <1>6, <1>7 DEF Keys
<1>9. \A i, j \in 1..Len(t) : i < j => t[i] < t[j]
  BY <1>3, <1>5, <1>7 DEF Ascend
<1>10. ASSUME NEW k \in KeysInScan PROVE \E i \in 1..Len(t) : t[i] = k
  <2>1. <<k, store[k]>> \in Pairs /\ <<k, store[k]>>[1] = k
    BY DEF Pairs, KeysInScan
  <2>2. Wanted(<<k, store[k]>>)
    BY <1>4, <2>1 DEF KeysInScan
  <2>3. Shows(file, k)
    BY <1>3, <2>1, <2>2, Zenon
  <2>4. \E i \in 1..Len(file) : file[i].Key = k
    BY <1>5, <2>3 DEF Shows, ToSet
  <2> QED BY <1>7, <2>4
<1> HIDE DEF t
<1>11. Enumerates(t, KeysInScan)
  BY <1>8, <1>9, <1>10, Zenon DEF Enumerates
<1>12. t = KeysInOrder
  BY <1>1, <1>11, KeysInOrderFacts, EnumerationsSame
<1>13. \A i \in 1..Len(file) : store[file[i].Key] \in Nat
  BY <1>1, <1>6 DEF KeysInScan
<1> QED BY <1>1, <1>6, <1>7, <1>12, <1>13 DEF t

(* The rows, each with the key that JSON made of its key.                   *)
ReadBack == [i \in DOMAIN file |-> Unmarshal(file[i])]

(* That is what ReadJSONL returns for a current file, if it is JSON lines;  *)
(* of the other files it reads only an empty log.                           *)
LEMMA ReadBackFacts ==
  ASSUME LookInv, GapInv, ShapeInv, FileIsCurrent
  PROVE  /\ KeysInOrder \in Seq(Key)
         /\ ReadBack \in Seq(RowType) /\ Len(ReadBack) = Len(file) /\ Len(file) \in Nat
         /\ DOMAIN ReadBack = 1..Len(file)
         /\ \A i \in 1..Len(file) : ReadBack[i].ValueSizeBytes = file[i].ValueSizeBytes
         /\ Keys(ReadBack) = AsJSON(KeysInOrder)
         /\ ReadJSONL = IF IsJSON THEN {ReadBack} ELSE {}
         /\ cfg.mode # "jsonl" /\ IsJSON => ReadBack = <<>>
<1>1. /\ file \in Seq(RowType) /\ Len(KeysInOrder) = Len(file)
      /\ \A i \in 1..Len(file) : file[i].Key = KeysInOrder[i]
  BY CurrentFile
<1>2. KeysInOrder \in Seq(KeysInScan) /\ KeysInScan \subseteq Key
  BY KeysInOrderFacts, LookFileAssumption DEF Enumerates, LookInv, TypeInv, TypeOK, KeysInScan
<1>3. Len(file) \in Nat /\ DOMAIN file = 1..Len(file)
  BY <1>1
<1>4. ASSUME NEW i \in 1..Len(file)
      PROVE  /\ Unmarshal(file[i]) \in RowType
             /\ Unmarshal(file[i]).Key = JSONKey[KeysInOrder[i]]
             /\ Unmarshal(file[i]).ValueSizeBytes = file[i].ValueSizeBytes
  <2>1. file[i] \in RowType /\ file[i].Key = KeysInOrder[i]
    BY <1>1
  <2>2. KeysInOrder[i] \in Key
    BY <1>1, <1>2
  <2>3. JSONKey[file[i].Key] \in Nat
    BY <2>1, <2>2, LookFileAssumption
  <2> QED BY <2>1, <2>3 DEF Unmarshal, RowType
<1>5. /\ ReadBack \in [1..Len(file) -> RowType]
      /\ \A i \in 1..Len(file) : ReadBack[i] = Unmarshal(file[i])
  BY <1>3, <1>4 DEF ReadBack
<1>6. /\ ReadBack \in Seq(RowType) /\ Len(ReadBack) = Len(file) /\ DOMAIN ReadBack = 1..Len(file)
  <2> HIDE DEF ReadBack, RowType
  <2> QED BY <1>3, <1>5
<1>7. \A i \in 1..Len(file) : /\ ReadBack[i].Key = JSONKey[KeysInOrder[i]]
                              /\ ReadBack[i].ValueSizeBytes = file[i].ValueSizeBytes
  BY <1>4, <1>5
<1>8. Keys(ReadBack) = AsJSON(KeysInOrder)
  BY <1>1, <1>6, <1>7 DEF Keys, AsJSON
<1>9. ReadJSONL = IF IsJSON THEN {ReadBack} ELSE {}
  BY DEF ReadJSONL, ReadBack
<1>10. ASSUME cfg.mode # "jsonl", IsJSON PROVE ReadBack = <<>>
  <2>1. Len(ReadBack) = 0
    BY <1>6, <1>10 DEF IsJSON
  <2> QED BY <1>6, <2>1
<1>11. KeysInOrder \in Seq(Key)
  BY <1>2
<1> QED BY <1>3, <1>6, <1>7, <1>8, <1>9, <1>10, <1>11

(* The sizes are the same.                                                  *)
LEMMA SameSizes == LookInv /\ GapInv /\ ShapeInv => DistributeShowsSameSizes
<1> DEFINE Sizes(type, rows) ==
             IF sizeAvailable(type, rows) THEN [i \in DOMAIN rows |-> metaSizeOf(type, rows[i])]
             ELSE <<>>
<1> SUFFICES ASSUME LookInv, GapInv, ShapeInv, FileIsCurrent, NEW type \in {"key", "value", "kv"}
             PROVE  IF cfg.mode # "jsonl" THEN distributeFromJSONL(type) \subseteq {<<>>}
                    ELSE distributeFromJSONL(type) =
                           {IF cfg.keysOnly /\ type # "key" THEN <<>> ELSE distributeFunc(type)}
  BY DEF DistributeShowsSameSizes
<1> DEFINE n == Len(file)
           all == KeysInOrder
<1>1. /\ n \in Nat /\ DOMAIN ReadBack = 1..n /\ Len(all) = n
      /\ \A i \in 1..n :
           /\ ReadBack[i].ValueSizeBytes = IF cfg.keysOnly THEN absent ELSE store[all[i]]
           /\ store[all[i]] \in Nat
  BY CurrentFile, ReadBackFacts
<1>2. distributeFunc(type) = [i \in 1..n |-> sizeOf(type, all[i])]
  BY <1>1 DEF distributeFunc
<1>3. distributeFromJSONL(type) = IF IsJSON THEN {Sizes(type, ReadBack)} ELSE {}
  BY ReadBackFacts DEF distributeFromJSONL
<1>4. ASSUME cfg.mode # "jsonl", IsJSON PROVE Sizes(type, ReadBack) = <<>>
  <2>1. ReadBack = <<>>
    BY <1>4, ReadBackFacts
  <2>2. ~sizeAvailable(type, <<>>)
    BY DEF sizeAvailable
  <2> QED BY <2>1, <2>2
<1> HIDE DEF all, n
<1> DEFINE shown == IF cfg.keysOnly /\ type # "key" THEN <<>> ELSE distributeFunc(type)
<1>5. ASSUME cfg.keysOnly /\ type # "key" PROVE Sizes(type, ReadBack) = shown
  <2>1. ~sizeAvailable(type, ReadBack)
    BY <1>1, <1>5 DEF sizeAvailable
  <2> QED BY <1>5, <2>1
<1>6. ASSUME ~(cfg.keysOnly /\ type # "key") PROVE Sizes(type, ReadBack) = shown
  <2>1. ASSUME NEW i \in 1..n PROVE metaSizeOf(type, ReadBack[i]) = sizeOf(type, all[i])
    <3>1. CASE type = "key"
      BY <3>1 DEF metaSizeOf, sizeOf
    <3>2. CASE type # "key"
      <4>1. ReadBack[i].ValueSizeBytes = store[all[i]] /\ store[all[i]] \in Nat
        BY <1>1, <1>6, <3>2
      <4> QED BY <3>2, <4>1 DEF metaSizeOf, sizeOf, Larger, absent
    <3> QED BY <3>1, <3>2
  <2>2. [i \in DOMAIN ReadBack |-> metaSizeOf(type, ReadBack[i])] = [i \in 1..n |-> sizeOf(type, all[i])]
    BY <1>1, <2>1, Zenon
  <2>3. CASE n = 0
    <3>1. [i \in 1..n |-> sizeOf(type, all[i])] = <<>>
      <4>1. \A f : f = [i \in 1..0 |-> f[i]] => f = <<>>
        OBVIOUS
      <4> DEFINE f == [i \in 1..0 |-> sizeOf(type, all[i])]
      <4>2. f = <<>>
        <5>1. f = [i \in 1..0 |-> f[i]]
          OBVIOUS
        <5> QED BY <4>1, <5>1
      <4> QED BY <2>3, <4>2
    <3> QED BY <1>2, <1>6, <2>2, <3>1
  <2>4. CASE n # 0
    <3>1. 1 \in DOMAIN ReadBack
      BY <1>1, <2>4
    <3>2. sizeAvailable(type, ReadBack)
      BY <1>1, <1>6, <3>1 DEF sizeAvailable, absent
    <3> QED BY <1>2, <1>6, <2>2, <3>2
  <2> QED BY <2>3, <2>4
<1>7. Sizes(type, ReadBack) = shown
  BY <1>5, <1>6
<1>8. CASE cfg.mode # "jsonl"
  <2> HIDE DEF Sizes
  <2> QED BY <1>3, <1>4, <1>8
<1>9. CASE cfg.mode = "jsonl"
  <2>1. IsJSON
    BY <1>9 DEF IsJSON
  <2> HIDE DEF Sizes
  <2> QED BY <1>3, <1>9, <1>7, <2>1
<1> QED BY <1>8, <1>9

(* The beginning of a sequence.                                             *)
LEMMA FirstOfFacts ==
  ASSUME NEW S, NEW s \in Seq(S), NEW n \in Int
  PROVE  /\ n <= 0 => FirstOf(s, n) = <<>>
         /\ n > 0 => LET c == IF n <= Len(s) THEN n ELSE Len(s) IN
                       c \in 0..Len(s) /\ FirstOf(s, n) = SubSeq(s, 1, c)
<1>1. Len(s) \in Nat
  OBVIOUS
<1>2. Min({n, Len(s)}) = IF n <= Len(s) THEN n ELSE Len(s)
  <2> DEFINE m == IF n <= Len(s) THEN n ELSE Len(s)
  <2>1. {n, Len(s)} \in SUBSET Int /\ m \in {n, Len(s)} /\ \A x \in {n, Len(s)} : m <= x
    BY <1>1
  <2> QED BY <2>1, MinIs
<1>3. ASSUME n <= 0 PROVE FirstOf(s, n) = <<>>
  <2>1. Min({n, Len(s)}) = n
    BY <1>1, <1>2, <1>3
  <2>2. Larger(0, n) = 0
    BY <1>3 DEF Larger
  <2>3. SubSeq(s, 1, 0) = <<>>
    BY SubSeqEmpty
  <2> QED BY <2>1, <2>2, <2>3 DEF FirstOf
<1>4. ASSUME n > 0
      PROVE  LET c == IF n <= Len(s) THEN n ELSE Len(s) IN
               c \in 0..Len(s) /\ FirstOf(s, n) = SubSeq(s, 1, c)
  <2> DEFINE c == IF n <= Len(s) THEN n ELSE Len(s)
  <2>1. c \in 0..Len(s)
    BY <1>1, <1>4
  <2>2. Larger(0, c) = c
    BY <1>1, <2>1 DEF Larger
  <2> QED BY <1>2, <2>1, <2>2 DEF FirstOf
<1> QED BY <1>3, <1>4

(* The keys that match are elements of the sequence; those of its beginning *)
(* are the beginning of them.                                               *)
LEMMA MatchingFacts ==
  ASSUME NEW V, NEW s \in Seq(V), NEW match, NEW c \in 0..Len(s)
  PROVE  /\ Matching(s, match) \in Seq(V)
         /\ Matching(SubSeq(s, 1, c), match) \in Seq(V)
         /\ Len(Matching(SubSeq(s, 1, c), match)) <= c
         /\ Continues(V, Matching(SubSeq(s, 1, c), match), Matching(s, match))
         /\ V \subseteq match => Matching(s, match) = s /\ Matching(SubSeq(s, 1, c), match) = SubSeq(s, 1, c)
<1> DEFINE P == {i \in 1..Len(s) : s[i] \in match}
           r == SubSeq(s, 1, c)
<1>1. /\ r \in Seq(V) /\ Len(r) = c /\ c \in Nat /\ \A i \in 1..c : r[i] = s[i] /\ i \in 1..Len(s)
  BY PrefixIs
<1>2. Matching(s, match) = ElementsAt(s, P)
  <2>1. [i \in 1..Len(s) |-> IF s[i] \in match THEN <<s[i]>> ELSE <<>>]
          = [i \in 1..Len(s) |-> IF i \in P THEN <<s[i]>> ELSE <<>>]
    OBVIOUS
  <2> QED BY <2>1, Zenon DEF Matching, ElementsAt
<1>3. Matching(r, match) = ElementsAt(r, P)
  <2>1. \A i \in 1..Len(r) : r[i] \in match <=> i \in P
    BY <1>1
  <2> HIDE DEF P, r
  <2>2. [i \in 1..Len(r) |-> IF r[i] \in match THEN <<r[i]>> ELSE <<>>]
          = [i \in 1..Len(r) |-> IF i \in P THEN <<r[i]>> ELSE <<>>]
    BY <2>1
  <2> QED BY <2>2, Zenon DEF Matching, ElementsAt
<1> HIDE DEF P
<1>4. ElementsAt(s, P) \in Seq(V) /\ Continues(V, ElementsAt(r, P), ElementsAt(s, P))
  <2>1. ElementsAt(s, P) \in Seq(V)
    BY ElementsAtLists
  <2>2. Continues(V, ElementsAt(SubSeq(s, 1, c), P), ElementsAt(s, P))
    BY ElementsOfPrefix
  <2> QED BY <2>1, <2>2, Zenon
<1>5. ElementsAt(r, P) \in Seq(V) /\ Len(ElementsAt(r, P)) <= c
  <2> DEFINE k == [i \in 1..Len(r) |-> IF i \in P THEN <<r[i]>> ELSE <<>>]
  <2>1. ElementsAt(r, P) \in Seq(V)
    BY <1>1, ElementsAtLists
  <2> HIDE DEF r
  <2>2. k \in Seq(Seq(V)) /\ Len(k) = c /\ \A i \in 1..Len(k) : Len(k[i]) <= 1
    BY <1>1
  <2> HIDE DEF k
  <2>3. Len(FlattenSeq(k)) <= Len(k)
    BY <2>2, OptionsLength
  <2> QED BY <2>1, <2>2, <2>3 DEF ElementsAt, k
<1>6. ASSUME V \subseteq match, NEW t \in Seq(V) PROVE Matching(t, match) = t
  <2>1. \A i \in 1..Len(t) : t[i] \in match
    BY <1>6
  <2>2. [i \in 1..Len(t) |-> IF t[i] \in match THEN <<t[i]>> ELSE <<>>] = [i \in 1..Len(t) |-> <<t[i]>>]
    BY <2>1
  <2> QED BY <2>2, FlattenSingletons DEF Matching
<1> QED BY <1>1, <1>2, <1>3, <1>4, <1>5, <1>6

(* Online the limit comes before the matching, too: the keys that are shown *)
(* are the first of those that match.                                       *)
LEMMA LimitTwice ==
  ASSUME TypeInv, NEW match, NEW limit \in Int
  PROVE  LET online == findFunc(match, limit)
             offline == FirstOf(Matching(KeysInOrder, match), limit)
         IN  /\ online \in Seq(Key) /\ offline \in Seq(Key)
             /\ IsPrefix(online, offline) /\ (Key \subseteq match => online = offline)
<1> DEFINE all == KeysInOrder
           V == KeysInScan
           offline == FirstOf(Matching(all, match), limit)
           online == findFunc(match, limit)
<1>1. all \in Seq(V) /\ V \subseteq Key
  BY KeysInOrderFacts, LookFileAssumption DEF Enumerates, TypeInv, TypeOK, KeysInScan
<1>2. limit \in Int /\ Len(all) \in Nat
  BY <1>1
<1>3. offline = FirstOf(Matching(all, match), limit)
  OBVIOUS
<1>4. online = FirstOf(Matching(IF limit > 0 THEN FirstOf(all, limit) ELSE all, match), limit)
  BY DEF findFunc, appendBufferForFind
<1> HIDE DEF all, V, offline, online
<1>5. CASE limit <= 0
  <2>1. Matching(all, match) \in Seq(V)
    <3>1. 0 \in 0..Len(all)
      BY <1>2
    <3> QED BY <1>1, <3>1, MatchingFacts
  <2>2. offline = <<>> /\ online = <<>>
    BY <1>2, <1>3, <1>4, <1>5, <2>1, FirstOfFacts
  <2>3. IsPrefix(<<>>, <<>>) /\ <<>> \in Seq(Key)
    BY DEF IsPrefix
  <2> QED BY <2>2, <2>3 DEF offline, online, all
<1>6. CASE limit > 0
  <2> DEFINE c == IF limit <= Len(all) THEN limit ELSE Len(all)
             r == SubSeq(all, 1, c)
             a == Matching(all, match)
             b == Matching(r, match)
  <2>1. c \in 0..Len(all) /\ FirstOf(all, limit) = r
    BY <1>1, <1>2, <1>6, FirstOfFacts
  <2>2. online = FirstOf(b, limit) /\ offline = FirstOf(a, limit)
    BY <1>3, <1>4, <1>6, <2>1
  <2>3. c <= limit
    BY <1>2
  <2> HIDE DEF c
  <2>4. /\ a \in Seq(V) /\ b \in Seq(V) /\ Len(b) <= c
        /\ Continues(V, b, a)
        /\ V \subseteq match => a = all /\ b = r
    <3>1. /\ Matching(all, match) \in Seq(V)
          /\ Matching(SubSeq(all, 1, c), match) \in Seq(V)
          /\ Len(Matching(SubSeq(all, 1, c), match)) <= c
          /\ Continues(V, Matching(SubSeq(all, 1, c), match), Matching(all, match))
          /\ V \subseteq match =>
               Matching(all, match) = all /\ Matching(SubSeq(all, 1, c), match) = SubSeq(all, 1, c)
      BY <1>1, <2>1, MatchingFacts
    <3> QED BY <3>1, Zenon
  <2> HIDE DEF a, b, r
  <2>5. online = b
    <3>1. FirstOf(b, limit) = SubSeq(b, 1, Len(b))
      <4>1. (IF limit <= Len(b) THEN limit ELSE Len(b)) = Len(b)
        BY <1>2, <2>1, <2>3, <2>4
      <4> QED BY <1>2, <1>6, <2>4, <4>1, FirstOfFacts
    <3> QED BY <2>2, <2>4, <3>1, SubSeqFull
  <2> DEFINE d == IF limit <= Len(a) THEN limit ELSE Len(a)
  <2>6. d \in 0..Len(a) /\ offline = SubSeq(a, 1, d)
    BY <1>2, <1>6, <2>2, <2>4, FirstOfFacts
  <2>7. PICK u \in Seq(V) : a = b \o u
    BY <2>4 DEF Continues
  <2>8. Len(b) \in Nat /\ Len(b) <= d /\ \A i \in 1..Len(b) : a[i] = b[i]
    BY <1>2, <2>1, <2>3, <2>4, <2>7
  <2> HIDE DEF d
  <2>9. /\ offline \in Seq(V) /\ Len(offline) = d /\ \A i \in 1..d : offline[i] = a[i]
    BY <2>4, <2>6, PrefixIs
  <2>10. IsPrefix(online, offline)
    <3>1. Len(b) \in 0..Len(offline) /\ Len(b) \in 0..Len(b)
      BY <2>6, <2>8, <2>9
    <3>2. SubSeq(b, 1, Len(b)) = [i \in 1..Len(b) |-> b[i]]
      BY <2>4, <3>1, PrefixIs
    <3>3. SubSeq(offline, 1, Len(b)) = [i \in 1..Len(b) |-> offline[i]]
      BY <2>9, <3>1, PrefixIs
    <3>4. \A i \in 1..Len(b) : b[i] = offline[i]
      BY <2>6, <2>8, <2>9
    <3>5. [i \in 1..Len(b) |-> b[i]] = [i \in 1..Len(b) |-> offline[i]]
      BY <3>4
    <3> QED BY <2>5, <2>8, <2>9, <3>2, <3>3, <3>5 DEF IsPrefix
  <2>11. ASSUME Key \subseteq match PROVE online = offline
    <3>1. a = all /\ b = r
      BY <1>1, <2>4, <2>11
    <3>2. offline = FirstOf(all, limit)
      BY <2>2, <3>1
    <3> QED BY <2>1, <2>5, <3>1, <3>2
  <2>12. online \in Seq(Key) /\ offline \in Seq(Key)
    <3>1. Seq(V) \subseteq Seq(Key)
      BY <1>1
    <3> QED BY <2>4, <2>5, <2>9, <3>1
  <2> QED BY <2>10, <2>11, <2>12 DEF online, offline, all
<1> QED BY <1>2, <1>5, <1>6

(* A sequence of keys, as JSON has it, has as many keys, in the same order. *)
LEMMA AsJSONFacts ==
  ASSUME NEW s \in Seq(Key)
  PROVE  /\ AsJSON(s) \in Seq(Nat) /\ Len(AsJSON(s)) = Len(s)
         /\ \A i \in 1..Len(s) : AsJSON(s)[i] = JSONKey[s[i]]
<1>1. \A i \in 1..Len(s) : s[i] \in Key
  OBVIOUS
<1>2. \A i \in 1..Len(s) : JSONKey[s[i]] \in Nat
  BY <1>1, LookFileAssumption
<1> QED BY <1>2 DEF AsJSON

(* The keys that match are the same before and after JSON, if JSON neither  *)
(* makes nor breaks a match.                                                *)
LEMMA MatchingAsJSON ==
  ASSUME NEW s \in Seq(Key), NEW match, SameInJSON(match)
  PROVE  Matching(AsJSON(s), match) = AsJSON(Matching(s, match)) /\ Matching(s, match) \in Seq(Key)
<1> DEFINE k == [i \in 1..Len(s) |-> IF s[i] \in match THEN <<s[i]>> ELSE <<>>]
           h == [x \in Key |-> <<JSONKey[x]>>]
           m == Matching(s, match)
<1>1. Len(s) \in Nat /\ \A i \in 1..Len(s) : s[i] \in Key
  OBVIOUS
<1>2. h \in [Key -> Seq(Nat)]
  <2>1. \A x \in Key : <<JSONKey[x]>> \in Seq(Nat)
    BY LookFileAssumption
  <2> QED BY <2>1
<1>3. /\ k \in Seq(Seq(Key)) /\ Len(k) = Len(s)
      /\ \A i \in 1..Len(s) : Len(k[i]) <= 1 /\ k[i] = IF s[i] \in match THEN <<s[i]>> ELSE <<>>
  <2>1. \A i \in 1..Len(s) : (IF s[i] \in match THEN <<s[i]>> ELSE <<>>) \in Seq(Key)
    BY <1>1
  <2>2. k \in [1..Len(s) -> Seq(Key)]
    BY <2>1
  <2> QED BY <1>1, <2>2
<1>4. m = FlattenSeq(k)
  BY DEF Matching
<1> HIDE DEF k, m
<1>5. m \in Seq(Key)
  BY <1>3, <1>4, FlattenType
<1>6. FlattenSeq(Through(m, h)) = FlattenSeq(Chained(k, h))
  <2>1. \A i \in 1..Len(k) : Len(k[i]) <= 1
    BY <1>3
  <2> HIDE DEF h
  <2>2. FlattenSeq(Through(FlattenSeq(k), h)) = FlattenSeq(Chained(k, h))
    BY <1>2, <1>3, <2>1, LoopOverLoop
  <2> QED BY <1>4, <2>2, Zenon
<1>7. FlattenSeq(Through(m, h)) = AsJSON(m)
  <2> DEFINE a == AsJSON(m)
  <2>1. a \in Seq(Nat) /\ Len(a) = Len(m) /\ \A i \in 1..Len(m) : a[i] = JSONKey[m[i]] /\ m[i] \in Key
    BY <1>5, AsJSONFacts
  <2> HIDE DEF a
  <2>2. Through(m, h) = [i \in 1..Len(a) |-> <<a[i]>>]
    BY <2>1 DEF Through
  <2> QED BY <2>1, <2>2, FlattenSingletons DEF a
<1>8. Matching(AsJSON(s), match) = FlattenSeq(Chained(k, h))
  <2> DEFINE a == AsJSON(s)
  <2>1. a \in Seq(Nat) /\ Len(a) = Len(s) /\ \A i \in 1..Len(s) : a[i] = JSONKey[s[i]]
    BY AsJSONFacts
  <2> HIDE DEF a
  <2>2. ASSUME NEW i \in 1..Len(s)
        PROVE  (IF k[i] = <<>> THEN <<>> ELSE h[k[i][1]])
                 = IF a[i] \in match THEN <<a[i]>> ELSE <<>>
    <3>1. s[i] \in match <=> a[i] \in match
      BY <1>1, <2>1 DEF SameInJSON
    <3>2. CASE s[i] \in match
      <4>1. k[i] = <<s[i]>> /\ h[s[i]] = <<a[i]>>
        BY <1>1, <1>3, <2>1, <3>2
      <4>2. k[i] # <<>> /\ k[i][1] = s[i]
        BY <4>1
      <4> HIDE DEF h
      <4> QED BY <3>1, <3>2, <4>1, <4>2, Zenon
    <3>3. CASE s[i] \notin match
      BY <1>3, <3>1, <3>3
    <3> QED BY <3>2, <3>3
  <2> HIDE DEF h
  <2>3. Chained(k, h) = [i \in 1..Len(a) |-> IF a[i] \in match THEN <<a[i]>> ELSE <<>>]
    BY <1>3, <2>1, <2>2 DEF Chained
  <2> QED BY <2>3, Zenon DEF Matching, a
<1> QED BY <1>5, <1>6, <1>7, <1>8, Zenon DEF m

(* The beginning of the keys in JSON is the beginning in JSON.              *)
LEMMA FirstAsJSON ==
  ASSUME NEW s \in Seq(Key), NEW n \in Int
  PROVE  FirstOf(AsJSON(s), n) = AsJSON(FirstOf(s, n))
<1> DEFINE a == AsJSON(s)
<1>1. a \in Seq(Nat) /\ Len(a) = Len(s) /\ Len(s) \in Nat
      /\ \A i \in 1..Len(s) : a[i] = JSONKey[s[i]]
  BY AsJSONFacts
<1> HIDE DEF a
<1>2. CASE n <= 0
  <2>1. FirstOf(a, n) = <<>> /\ FirstOf(s, n) = <<>>
    BY <1>1, <1>2, FirstOfFacts
  <2>2. AsJSON(<<>>) = <<>>
    <3>1. <<>> \in Seq(Key) /\ Len(<<>>) = 0
      OBVIOUS
    <3>2. AsJSON(<<>>) \in Seq(Nat) /\ Len(AsJSON(<<>>)) = 0
      BY <3>1, AsJSONFacts
    <3> QED BY <3>2
  <2> QED BY <2>1, <2>2 DEF a
<1>3. CASE n > 0
  <2> DEFINE c == IF n <= Len(s) THEN n ELSE Len(s)
             r == SubSeq(s, 1, c)
  <2>1. c \in 0..Len(s) /\ FirstOf(s, n) = r /\ FirstOf(a, n) = SubSeq(a, 1, c)
    BY <1>1, <1>3, FirstOfFacts
  <2> HIDE DEF c
  <2>2. r \in Seq(Key) /\ Len(r) = c /\ \A i \in 1..c : r[i] = s[i]
    BY <2>1, PrefixIs
  <2>3. SubSeq(a, 1, c) = [i \in 1..c |-> a[i]]
    BY <1>1, <2>1, PrefixIs
  <2> HIDE DEF r
  <2>4. \A i \in 1..c : a[i] = JSONKey[r[i]]
    BY <1>1, <2>1, <2>2
  <2>5. AsJSON(r) = [i \in 1..c |-> a[i]]
    BY <2>2, <2>4 DEF AsJSON
  <2> QED BY <2>1, <2>3, <2>5 DEF a
<1> QED BY <1>2, <1>3

(* And what begins a sequence does so in JSON.                              *)
LEMMA PrefixAsJSON ==
  ASSUME NEW s \in Seq(Key), NEW t \in Seq(Key), IsPrefix(s, t)
  PROVE  IsPrefix(AsJSON(s), AsJSON(t))
<1> DEFINE a == AsJSON(s)
           b == AsJSON(t)
<1>1. Len(s) \in Nat /\ Len(t) \in Nat /\ Len(s) <= Len(t)
      /\ SubSeq(s, 1, Len(s)) = SubSeq(t, 1, Len(s))
  BY DEF IsPrefix
<1>2. /\ a \in Seq(Nat) /\ Len(a) = Len(s) /\ \A i \in 1..Len(s) : a[i] = JSONKey[s[i]]
      /\ b \in Seq(Nat) /\ Len(b) = Len(t) /\ \A i \in 1..Len(t) : b[i] = JSONKey[t[i]]
  BY AsJSONFacts
<1>3. PICK n \in Nat : n = Len(s)
  BY <1>1
<1>4. n \in 0..Len(s) /\ n \in 0..Len(t) /\ n \in 0..Len(a) /\ n \in 0..Len(b)
  BY <1>1, <1>2, <1>3
<1>5. /\ \A i \in 1..n : SubSeq(s, 1, n)[i] = s[i]
      /\ \A i \in 1..n : SubSeq(t, 1, n)[i] = t[i]
  BY <1>4, PrefixIs
<1> HIDE DEF a, b
<1>6. SubSeq(a, 1, n) = [i \in 1..n |-> a[i]] /\ SubSeq(b, 1, n) = [i \in 1..n |-> b[i]]
  BY <1>2, <1>4, PrefixIs
<1>7. \A i \in 1..n : a[i] = b[i]
  <2> SUFFICES ASSUME NEW i \in 1..n PROVE a[i] = b[i]
    OBVIOUS
  <2>1. s[i] = t[i]
    BY <1>1, <1>3, <1>5
  <2>2. i \in 1..Len(s) /\ i \in 1..Len(t)
    BY <1>1, <1>3
  <2> QED BY <1>2, <2>1, <2>2
<1>8. SubSeq(a, 1, n) = SubSeq(b, 1, n)
  BY <1>6, <1>7
<1>9. Len(a) = n /\ Len(a) <= Len(b)
  BY <1>1, <1>2, <1>3
<1> QED BY <1>8, <1>9 DEF IsPrefix, a, b

(* What find shows online is, in JSON, the beginning of what it shows of a  *)
(* file of JSON lines; of another file it shows nothing.                    *)
LEMMA SameKeys == LookInv /\ GapInv /\ ShapeInv => FindShowsSameKeys
<1> SUFFICES ASSUME LookInv, GapInv, ShapeInv, FileIsCurrent,
                    NEW match \in MatchArgs, NEW limit \in LimitArgs
             PROVE  LET online == AsJSON(findFunc(match, limit))
                        answers == findFromJSONL(match, limit)
                    IN  IF cfg.mode # "jsonl" THEN answers \subseteq {<<>>}
                        ELSE SameInJSON(match) =>
                               \E offline \in answers :
                                 /\ answers = {offline}
                                 /\ IsPrefix(online, offline)
                                 /\ Key \subseteq match => online = offline
  BY DEF FindShowsSameKeys
<1> DEFINE all == KeysInOrder
           shown == FirstOf(Matching(Keys(ReadBack), match), limit)
<1>1. limit \in Int /\ TypeInv
  BY LookFileAssumption DEF LookInv
<1>2. all \in Seq(Key) /\ Keys(ReadBack) = AsJSON(all)
  BY ReadBackFacts
<1>3. findFromJSONL(match, limit) = IF IsJSON THEN {shown} ELSE {}
  BY ReadBackFacts DEF findFromJSONL
<1>4. CASE cfg.mode # "jsonl"
  <2> SUFFICES ASSUME IsJSON PROVE shown = <<>>
    BY <1>3, <1>4
  <2>1. ReadBack = <<>>
    BY <1>4, ReadBackFacts
  <2> DEFINE k == [i \in 1..Len(<<>>) |-> IF <<>>[i] \in match THEN << <<>>[i] >> ELSE <<>>]
  <2>2. Keys(<<>>) = <<>>
    <3>1. DOMAIN Keys(<<>>) = 1..0
      BY DEF Keys
    <3>2. Keys(<<>>) \in [1..0 -> Nat]
      BY DEF Keys
    <3> QED BY <3>2
  <2>3. Matching(<<>>, match) = <<>>
    <3>1. k \in [1..0 -> Seq(Nat)]
      OBVIOUS
    <3>2. k = <<>>
      BY <3>1
    <3> QED BY <3>2, Zenon DEF Matching, FlattenSeq
  <2>4. FirstOf(<<>>, limit) = <<>>
    <3>1. <<>> \in Seq(Nat) /\ Len(<<>>) = 0
      OBVIOUS
    <3>2. limit <= 0 => FirstOf(<<>>, limit) = <<>>
      BY <1>1, <3>1, FirstOfFacts
    <3>3. ASSUME limit > 0 PROVE FirstOf(<<>>, limit) = <<>>
      <4> DEFINE c == IF limit <= Len(<<>>) THEN limit ELSE Len(<<>>)
      <4>1. FirstOf(<<>>, limit) = SubSeq(<<>>, 1, c)
        BY <1>1, <3>1, <3>3, FirstOfFacts
      <4>2. c = 0
        BY <1>1, <3>1, <3>3
      <4> HIDE DEF c
      <4>3. SubSeq(<<>>, 1, 0) = <<>>
        BY SubSeqEmpty
      <4> QED BY <4>1, <4>2, <4>3
    <3> QED BY <1>1, <3>2, <3>3
  <2> QED BY <2>1, <2>2, <2>3, <2>4
<1>5. CASE cfg.mode = "jsonl"
  <2> SUFFICES ASSUME SameInJSON(match)
               PROVE  /\ IsPrefix(AsJSON(findFunc(match, limit)), shown)
                      /\ Key \subseteq match => AsJSON(findFunc(match, limit)) = shown
    <3>1. IsJSON
      BY <1>5 DEF IsJSON
    <3>2. findFromJSONL(match, limit) = {shown}
      BY <1>3, <3>1
    <3> HIDE DEF shown
    <3> QED BY <1>5, <3>2
  <2> DEFINE m == Matching(all, match)
             online == findFunc(match, limit)
             offline == FirstOf(m, limit)
  <2>1. Matching(AsJSON(all), match) = AsJSON(m) /\ m \in Seq(Key)
    BY <1>2, MatchingAsJSON
  <2>2. shown = AsJSON(offline)
    <3> HIDE DEF m
    <3> QED BY <1>1, <1>2, <2>1, FirstAsJSON
  <2>3. /\ online \in Seq(Key) /\ offline \in Seq(Key)
        /\ IsPrefix(online, offline) /\ (Key \subseteq match => online = offline)
    BY <1>1, LimitTwice
  <2> HIDE DEF online, offline, shown
  <2>4. IsPrefix(AsJSON(online), AsJSON(offline))
    BY <2>3, PrefixAsJSON
  <2> QED BY <2>2, <2>3, <2>4 DEF online
<1> QED BY <1>4, <1>5

----------------------------------------------------------------------------
(* The inductive invariant holds in every reachable state.                  *)
THEOREM LookInductive == Spec => []LookInv
<1>1. Init => LookInv
  <2> SUFFICES ASSUME Init PROVE LookInv
    OBVIOUS
  <2>1. /\ store \in Stores /\ cfg \in Configs /\ pc = "start" /\ scanned = <<>> /\ ended = FALSE
        /\ pending = <<>> /\ file = LeftOver /\ changes = 0
        /\ round = [seen |-> {}, unchanged |-> {}, gap |-> FALSE, truncated |-> FALSE]
    BY DEF Init
  <2>2. /\ IsFiniteSet(DOMAIN store) /\ DOMAIN store \subseteq Key
        /\ \A k \in DOMAIN store : store[k] \in Size
    BY <2>1, LookFileAssumption
  <2>3. changes \in 0..MaxChanges
    BY <2>1, LookFileAssumption
  <2>4. file \in Seq(RowType)
    <3>1. [Key |-> 0, ValueSizeBytes |-> 0] \in RowType
      BY DEF RowType
    <3> HIDE DEF RowType
    <3> QED BY <2>1, <3>1 DEF LeftOver
  <2>5. TypeInv
    <3>1. scanned \in Seq(Key)
      BY <2>1
    <3>2. pending \in Seq(RowType)
      BY <2>1
    <3>3. round \in [seen : SUBSET (Key \X Size), unchanged : SUBSET (Key \X Size),
                     gap : BOOLEAN, truncated : BOOLEAN]
      BY <2>1
    <3>4. TypeOK
      BY <2>1, <2>2, <2>3, <3>1 DEF TypeOK
    <3> QED BY <2>1, <2>2, <2>4, <3>2, <3>3, <3>4, Zenon DEF TypeInv
  <2>6. ~round.truncated /\ ~Scanning
    BY <2>1 DEF Scanning
  <2> QED BY <2>1, <2>5, <2>6 DEF LookInv, ControlInv, OutputInv, CoverInv, FileInv
<1>2. LookInv /\ [Next]_vars => LookInv'
  BY TypeStep, ControlStep, OutputStep, CoverStep, FileStep DEF LookInv
<1> QED BY <1>1, <1>2, PTL DEF Spec

(* Every variable keeps its type: what a round receives are keys.           *)
THEOREM LookTypeCorrect == Spec => []TypeOK
<1>1. LookInv => TypeOK
  BY DEF LookInv, TypeInv
<1> QED BY <1>1, LookInductive, PTL

(* FileIsOneRound, for any stores and flags, any number of rounds and       *)
(* changes: once truncated, the file of `look` (appendBuffer, getFileWriter *)
(* in look_cmd.go) holds rows of the present round only, and is complete    *)
(* where the command says so, also after a failed request or a kill.        *)
THEOREM OneRound == Spec => []FileIsOneRound
<1>1. LookInv => FileIsOneRound
  <2> SUFFICES ASSUME LookInv, round.truncated
               PROVE  /\ RowsAreOfTheRound
                      /\ pc = "done" \/ (cfg.mode # "jsonl" /\ file # <<>>) => round.gap \/ Complete
    BY DEF FileIsOneRound
  <2>1. /\ Ascend(file) /\ AllFit(file)
        /\ pc = "done" \/ (cfg.mode # "jsonl" /\ file # <<>>)
             => round.gap \/ \A p \in round.unchanged : Wanted(p) => Shows(file, p[1])
    BY DEF LookInv, FileInv
  <2>2. \A i \in DOMAIN file : file[i] \in ToSet(file)
    BY DEF ToSet
  <2>3. RowsAreOfTheRound
    <3>1. \A i \in DOMAIN file : Fits(file[i])
      BY <2>1, <2>2, Zenon DEF AllFit
    <3>2. \A i \in DOMAIN file : \E p \in round.seen :
             /\ p[1] = file[i].Key /\ InScan(p[1])
             /\ file[i].ValueSizeBytes \in {p[2], absent}
             /\ ~Reject(cfg.filter, [keySize |-> 1, valueSize |-> p[2]])
      BY <3>1, Zenon DEF Fits, Wanted
    <3> QED BY <2>1, <3>2, Zenon DEF RowsAreOfTheRound, Ascend
  <2>4. (\A p \in round.unchanged : Wanted(p) => Shows(file, p[1])) => Complete
    BY DEF Wanted, Shows, Complete, ToSet
  <2> QED BY <2>1, <2>3, <2>4
<1> QED BY <1>1, LookInductive, PTL

(* The invariants behind the comparison of `find` and `distribute` with     *)
(* what they show of the file: a finished round has truncated the file, a   *)
(* gap means that a pair of the round did not stay, and rows have sizes     *)
(* exactly without --keys-only.                                             *)
THEOREM GapInductive == Spec => [](GapInv /\ ShapeInv)
<1>1. Init => GapInv /\ ShapeInv
  <2> SUFFICES ASSUME Init PROVE GapInv /\ ShapeInv
    OBVIOUS
  <2>1. /\ pc = "start" /\ pending = <<>>
        /\ round = [seen |-> {}, unchanged |-> {}, gap |-> FALSE, truncated |-> FALSE]
    BY DEF Init
  <2>2. ToSet(pending) = {}
    BY <2>1 DEF ToSet
  <2> QED BY <2>1, <2>2 DEF GapInv, ShapeInv, Shaped, Scanning
<1>2. LookInv /\ GapInv /\ ShapeInv /\ [Next]_vars => GapInv' /\ ShapeInv'
  BY GapStep, ShapeStep DEF LookInv
<1> QED BY <1>1, <1>2, LookInductive, PTL DEF Spec

(* FindShowsSameKeys, for any store, pattern and limit: on the JSON lines   *)
(* of a finished look over a store that stayed the same, `find --input`     *)
(* shows first what `find` shows, as JSON has it, and the same when every   *)
(* key matches; on a file of another format it shows nothing.               *)
THEOREM FindAgreesWithFile == Spec => []FindShowsSameKeys
<1>1. LookInv /\ GapInv /\ ShapeInv => FindShowsSameKeys
  BY SameKeys
<1> QED BY <1>1, LookInductive, GapInductive, PTL

(* DistributeShowsSameSizes, likewise: the sizes of `distribute --input`    *)
(* are those of `distribute`, or it says that the file has none; on a file  *)
(* of another format it counts nothing.                                     *)
THEOREM DistributeAgreesWithFile == Spec => []DistributeShowsSameSizes
<1>1. LookInv /\ GapInv /\ ShapeInv => DistributeShowsSameSizes
  BY SameSizes
<1> QED BY <1>1, LookInductive, GapInductive, PTL
=============================================================================
