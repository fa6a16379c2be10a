------------------------------ MODULE WalProofs ------------------------------
(***************************************************************************)
(* Theorems about the write-ahead log: about WalSource, for any kinds of   *)
(* entries, any length of the log and any number of segments and           *)
(* snapshots, and about WalSummary, for any keys, entries, options and     *)
(* number of entries.                                                      *)
(***************************************************************************)
EXTENDS WalSource, WalSummary, SequenceLemmas

(* Segments begin one behind the other.  The oldest one that is left begins *)
(* at the first entry or below the newest snapshot.                         *)
MemberInv ==
  /\ cuts[1] = 0
  /\ \A i, j \in 1..Len(cuts) : i < j => cuts[i] < cuts[j]
  /\ \A i \in 1..Len(cuts) : cuts[i] <= Len(log) + 1
  /\ cuts[oldest] <= Len(log)
  /\ oldest > 1 => snaps # {} /\ cuts[oldest] <= Newest(snaps)

(* What WalSource has seen is still so as long as the member does not move. *)
Scoping == {"start", "segments", "snaps", "loaded"}

SeenInv ==
  /\ tool # "start" => log # <<>> /\ segs # <<>> /\ segs[1] <= Len(log)
  /\ tool # "start" /\ quiet => segs = present
  /\ tool \notin {"start", "segments", "snaps"} /\ quiet =>
       walsnap.Index = IF snapDir /\ snaps # {} THEN Newest(snaps) ELSE segs[1]
  /\ tool \notin Scoping /\ quiet =>
       LET i == FirstRead(walsnap.Index) IN
         /\ scope.ReadSegments = SubSeq(segs, i, Len(segs))
         /\ scope.SkippedSegments = SubSeq(segs, 1, i - 1)

OpenInv ==
  /\ tool = "failed" => ~quiet
  /\ Returned =>
       /\ opened[1] \in 1..opened[2] /\ opened[2] \in 1..Len(cuts)
       /\ cuts[opened[1]] <= walsnap.Index
       /\ atOpen \in 0..Len(log)
       /\ \A n \in (opened[2] + 1)..Len(cuts) : cuts[n] > atOpen
       /\ quiet => opened = <<Max(Landing), Len(cuts)>>

ControlInv ==
  /\ tool \notin {"sending", "closed"} => unsent = <<>> /\ c = <<>> /\ received = <<>>
  /\ tool = "closed" => unsent = <<>>
  /\ consumer = "done" => tool \in {"closed", "aborted"} /\ c = <<>>

(* The stream is on its way, in order.                                      *)
StreamInv ==
  tool \in {"sending", "closed"} =>
    \E to \in atOpen..Len(log) : (received \o c) \o unsent = Stretch(to)

WalInv == TypeOK /\ MemberInv /\ SeenInv /\ OpenInv /\ ControlInv /\ StreamInv

----------------------------------------------------------------------------
(* The newest snapshot is one, and none is newer.                           *)
LEMMA NewestFacts ==
  ASSUME NEW n \in Nat, NEW S \in SUBSET (1..n)
  PROVE  /\ Newest(S) \in 0..n
         /\ S # {} => Newest(S) \in S /\ \A x \in S : x <= Newest(S)
         /\ S = {} => Newest(S) = 0
<1>1. CASE S = {}
  BY <1>1 DEF Newest, none
<1>2. CASE S # {}
  <2>1. S \in SUBSET (0..n)
    OBVIOUS
  <2>2. Max(S) \in S /\ \A x \in S : x <= Max(S)
    BY <1>2, <2>1, MaxFacts
  <2>3. Newest(S) = Max(S)
    BY <1>2 DEF Newest
  <2>4. PICK m : m = Newest(S)
    OBVIOUS
  <2>5. m \in S /\ \A x \in S : x <= m
    BY <2>2, <2>3, <2>4, Zenon
  <2>6. m \in 0..n
    BY <2>5
  <2> QED BY <1>2, <2>4, <2>5, <2>6, Zenon
<1> QED BY <1>1, <1>2

(* An entry of the log gives operations with its index.                     *)
LEMMA OperationsFacts ==
  ASSUME TypeOK, NEW i \in 1..Len(log)
  PROVE  /\ Operations(i) \in Seq(Op)
         /\ \A n \in 1..Len(Operations(i)) : Operations(i)[n].RaftIndex = i
<1>1. log[i] \in Kind /\ i \in 1..MaxIndex
  <2>1. log \in Seq(Kind) /\ Len(log) <= MaxIndex /\ MaxIndex \in Nat
    BY WalAssumption DEF TypeOK
  <2> QED BY <2>1
<1>2. PICK ops : ops = OpsOf[log[i]] /\ ops \in Seq(EntryType)
  BY <1>1, WalAssumption
<1>3. Operations(i) = [n \in 1..Len(ops) |-> [RaftIndex |-> i, EntryType |-> ops[n]]]
  BY <1>2, Zenon DEF Operations
<1>4. \A n \in 1..Len(ops) : [RaftIndex |-> i, EntryType |-> ops[n]] \in Op
  <2>1. \A n \in 1..Len(ops) : ops[n] \in EntryType
    BY <1>2
  <2> HIDE DEF EntryType
  <2> QED BY <1>1, <2>1 DEF Op
<1>5. Len(ops) \in Nat
  BY <1>2
<1>6. Operations(i) \in Seq(Op) /\ Len(Operations(i)) = Len(ops)
  <2> DEFINE f == [n \in 1..Len(ops) |-> [RaftIndex |-> i, EntryType |-> ops[n]]]
  <2>1. f \in [1..Len(ops) -> Op]
    BY <1>4
  <2> HIDE DEF f
  <2>2. f \in Seq(Op) /\ Len(f) = Len(ops)
    BY <1>5, <2>1
  <2> QED BY <1>3, <2>2 DEF f
<1> QED BY <1>3, <1>6

(* The operations of an entry that are wanted; and they are the ones that   *)
(* were asked for, or none was if the index is out of the range.            *)
LEMMA KeptFacts ==
  ASSUME TypeOK, NEW i \in 1..Len(log)
  PROVE  /\ Kept(Operations(i), Wanted) \in Seq(Op)
         /\ Kept(Operations(i), AsAsked) = IF Selected(i) THEN Kept(Operations(i), Wanted) ELSE <<>>
<1> DEFINE ops == Operations(i)
           w == [n \in 1..Len(ops) |-> IF Wanted(ops[n]) THEN <<ops[n]>> ELSE <<>>]
           a == [n \in 1..Len(ops) |-> IF AsAsked(ops[n]) THEN <<ops[n]>> ELSE <<>>]
<1>1. ops \in Seq(Op) /\ \A n \in 1..Len(ops) : ops[n].RaftIndex = i
  BY OperationsFacts
<1>2. Kept(ops, Wanted) = FlattenSeq(w) /\ Kept(ops, AsAsked) = FlattenSeq(a)
  BY DEF Kept
<1> HIDE DEF ops
<1>3. Len(ops) \in Nat /\ \A n \in 1..Len(ops) : <<ops[n]>> \in Seq(Op) /\ <<>> \in Seq(Op)
  BY <1>1
<1>4. w \in Seq(Seq(Op)) /\ a \in Seq(Seq(Op)) /\ Len(a) = Len(ops)
  <2>1. w \in [1..Len(ops) -> Seq(Op)] /\ a \in [1..Len(ops) -> Seq(Op)]
    BY <1>3, Zenon
  <2> HIDE DEF w, a
  <2>2. \A R, f : f \in [1..Len(ops) -> R] => f \in Seq(R) /\ Len(f) = Len(ops)
    BY <1>3
  <2> QED BY <2>1, <2>2, Zenon
<1>5. Kept(ops, Wanted) \in Seq(Op)
  BY <1>2, <1>4, FlattenType
<1>6. \A n \in 1..Len(ops) : AsAsked(ops[n]) <=> Selected(i) /\ Wanted(ops[n])
  BY <1>1 DEF AsAsked, Selected, Wanted
<1>7. CASE Selected(i)
  <2>1. a = w
    BY <1>6, <1>7
  <2> HIDE DEF a, w
  <2> QED BY <1>2, <1>5, <1>7, <2>1, Zenon DEF ops
<1>8. CASE ~Selected(i)
  <2>1. \A n \in 1..Len(a) : a[n] = <<>>
    BY <1>4, <1>6, <1>8
  <2>2. FlattenSeq(a) = <<>>
    <3> HIDE DEF a
    <3> QED BY <1>4, <2>1, FlattenEmpty
  <2> QED BY <1>2, <1>5, <1>8, <2>2, Zenon DEF ops
<1> QED BY <1>5, <1>7, <1>8, Zenon DEF ops

(* What the goroutine makes of the entries is the stretch that was asked    *)
(* for, if it begins behind the start index.                                *)
LEMMA StreamFacts ==
  ASSUME TypeOK, NEW to \in 0..Len(log)
  PROVE  /\ Stream(walsnap.Index, to) \in Seq(Op)
         /\ Stream(walsnap.Index, to) = Stretch(to)
<1> DEFINE from == walsnap.Index
           s == [n \in 1..(to - from) |->
                   IF Selected(from + n) THEN Kept(Operations(from + n), Wanted) ELSE <<>>]
           t == [n \in 1..(to - from) |-> Kept(Operations(from + n), AsAsked)]
<1>1. from \in Nat /\ to \in Nat /\ Len(log) \in Nat
  BY DEF TypeOK
<1> HIDE DEF from
<1>2. \A n \in 1..(to - from) : from + n \in 1..Len(log)
  BY <1>1
<1>3. \A n \in 1..(to - from) : s[n] = t[n] /\ s[n] \in Seq(Op)
  <2> SUFFICES ASSUME NEW n \in 1..(to - from) PROVE s[n] = t[n] /\ s[n] \in Seq(Op)
    OBVIOUS
  <2>1. /\ Kept(Operations(from + n), Wanted) \in Seq(Op)
        /\ Kept(Operations(from + n), AsAsked) =
             IF Selected(from + n) THEN Kept(Operations(from + n), Wanted) ELSE <<>>
    BY <1>2, KeptFacts
  <2>2. <<>> \in Seq(Op)
    OBVIOUS
  <2> QED BY <2>1, <2>2, Zenon
<1>4. s = t
  BY <1>3
<1>5. s \in Seq(Seq(Op))
  <2>1. s \in [1..(to - from) -> Seq(Op)]
    BY <1>3
  <2> HIDE DEF s
  <2>2. CASE to - from >= 0
    BY <1>1, <2>1, <2>2
  <2>3. CASE to - from < 0
    <3>1. 1..(to - from) = 1..0
      BY <1>1, <2>3
    <3>2. s \in [1..0 -> Seq(Op)]
      BY <2>1, <3>1, Zenon
    <3> QED BY <3>2
  <2> QED BY <1>1, <2>2, <2>3
<1>6. Stream(from, to) = FlattenSeq(s) /\ Stretch(to) = FlattenSeq(t)
  BY DEF Stream, Stretch, from
<1>7. FlattenSeq(s) \in Seq(Op)
  BY <1>5, FlattenType
<1> QED BY <1>4, <1>6, <1>7, Zenon DEF from

(* A stretch of the log does not change when the log grows.                 *)
LEMMA StretchStays ==
  ASSUME TypeOK, NEW to \in 0..Len(log), \A i \in 1..Len(log) : log'[i] = log[i],
         UNCHANGED <<cfg, walsnap>>
  PROVE  Stretch(to)' = Stretch(to)
<1> DEFINE from == walsnap.Index
<1>1. from \in Nat /\ to \in Nat /\ Len(log) \in Nat /\ from' = from
  BY DEF TypeOK
<1>2. \A n \in 1..(to - from) : from + n \in 1..Len(log)
  BY <1>1
<1>3. \A op : AsAsked(op)' <=> AsAsked(op)
  BY DEF AsAsked
<1>4. ASSUME NEW n \in 1..(to - from)
      PROVE  Kept(Operations(from + n), AsAsked)' = Kept(Operations(from + n), AsAsked)
  <2>1. Operations(from + n)' = Operations(from + n)
    BY <1>1, <1>2 DEF Operations
  <2> QED BY <1>3, <2>1 DEF Kept
<1>5. [n \in 1..(to - from) |-> Kept(Operations(from + n), AsAsked)]'
      = [n \in 1..(to - from) |-> Kept(Operations(from + n), AsAsked)]
  BY <1>1, <1>4
<1> QED BY <1>5 DEF Stretch

----------------------------------------------------------------------------
(* A step of the member leaves the log it had, and cuts behind it.          *)
MemberOK ==
  /\ log \in Seq(Kind) /\ Len(log) <= MaxIndex
  /\ cuts \in Seq(Nat) /\ oldest \in 1..Len(cuts)
  /\ snaps \subseteq 1..Len(log) /\ writing \in 0..Len(log)

Grows ==
  /\ Len(log') >= Len(log) /\ \A i \in 1..Len(log) : log'[i] = log[i]
  /\ Len(cuts') >= Len(cuts) /\ \A i \in 1..Len(cuts) : cuts'[i] = cuts[i]
  /\ \A i \in (Len(cuts) + 1)..Len(cuts') : cuts'[i] > Len(log)

(* What the member does leaves what WalSource has read so far in place.     *)
LEMMA MemberFrame ==
  ASSUME WalInv, MemberStep, MemberOK', MemberInv', Grows
  PROVE  WalInv'
<1>1. /\ TypeOK /\ MemberInv /\ SeenInv /\ OpenInv /\ ControlInv /\ StreamInv
      /\ UNCHANGED <<snapDir, cfg, tool, segs, listed, walsnap, scope, opened, unsent, atOpen,
                     c, consumer, received>>
      /\ quiet' = (tool = "start")
  BY DEF WalInv, MemberStep, scopeVars, readVars, loopVars
<1>2. Len(log) \in Nat /\ Len(log') \in Nat /\ Len(cuts) \in Nat /\ Len(cuts') \in Nat
      /\ Len(log') >= Len(log) /\ Len(cuts') >= Len(cuts)
  <2>1. log \in Seq(Kind) /\ cuts \in Seq(Nat)
    BY <1>1 DEF TypeOK
  <2>2. log' \in Seq(Kind) /\ cuts' \in Seq(Nat)
    BY DEF MemberOK
  <2> QED BY <2>1, <2>2 DEF Grows
<1>3. TypeOK'
  <2>1. listed' \subseteq 1..Len(log')
    BY <1>1, <1>2 DEF TypeOK
  <2>2. walsnap' \in [Index : 0..Len(log'), found : BOOLEAN]
    <3>1. walsnap \in [Index : 0..Len(log), found : BOOLEAN] /\ walsnap' = walsnap
      BY <1>1 DEF TypeOK
    <3>2. 0..Len(log) \subseteq 0..Len(log')
      BY <1>2
    <3> QED BY <3>1, <3>2
  <2> QED BY <1>1, <2>1, <2>2, Zenon DEF TypeOK, MemberOK
<1>4. SeenInv'
  <2>1. log # <<>> => log' # <<>>
    BY <1>1, <1>2 DEF TypeOK
  <2>2. tool # "start" => log' # <<>> /\ segs # <<>> /\ segs[1] <= Len(log')
    <3> SUFFICES ASSUME tool # "start" PROVE log' # <<>> /\ segs # <<>> /\ segs[1] <= Len(log')
      OBVIOUS
    <3>1. log # <<>> /\ segs # <<>> /\ segs[1] <= Len(log) /\ segs \in Seq(Nat)
      BY <1>1 DEF SeenInv, TypeOK
    <3>2. segs[1] \in Nat
      BY <3>1
    <3> QED BY <1>2, <2>1, <3>1, <3>2
  <2>3. tool # "start" => ~quiet'
    BY <1>1
  <2> QED BY <1>1, <2>2, <2>3 DEF SeenInv, Scoping
<1>5. OpenInv'
  <2>1. tool = "failed" => ~quiet'
    BY <1>1
  <2>2. ASSUME Returned
        PROVE  /\ opened[1] \in 1..opened[2] /\ opened[2] \in 1..Len(cuts')
               /\ cuts'[opened[1]] <= walsnap.Index
               /\ atOpen \in 0..Len(log')
               /\ \A n \in (opened[2] + 1)..Len(cuts') : cuts'[n] > atOpen
               /\ ~quiet'
    <3>1. /\ opened[1] \in 1..opened[2] /\ opened[2] \in 1..Len(cuts)
          /\ cuts[opened[1]] <= walsnap.Index
          /\ atOpen \in 0..Len(log)
          /\ \A n \in (opened[2] + 1)..Len(cuts) : cuts[n] > atOpen
      BY <1>1, <2>2 DEF OpenInv
    <3>2. cuts'[opened[1]] = cuts[opened[1]]
      BY <1>2, <3>1 DEF Grows
    <3>3. ASSUME NEW n \in (opened[2] + 1)..Len(cuts') PROVE cuts'[n] > atOpen
      <4>1. CASE n <= Len(cuts)
        BY <1>2, <3>1, <4>1 DEF Grows
      <4>2. CASE n > Len(cuts)
        <5>1. n \in (Len(cuts) + 1)..Len(cuts') /\ n \in 1..Len(cuts')
          BY <1>2, <3>1, <4>2
        <5>2. cuts'[n] > Len(log)
          BY <5>1 DEF Grows
        <5>3. cuts' \in Seq(Nat) /\ cuts'[n] \in Nat
          BY <5>1 DEF MemberOK
        <5> QED BY <1>2, <3>1, <5>2, <5>3
      <4> QED BY <1>2, <3>1, <4>1, <4>2
    <3>4. ~quiet'
      BY <1>1, <2>2 DEF Returned
    <3> QED BY <1>2, <3>1, <3>2, <3>3, <3>4
  <2>3. Returned' <=> Returned
    BY <1>1 DEF Returned
  <2> QED BY <1>1, <2>1, <2>2, <2>3 DEF OpenInv
<1>6. ControlInv'
  BY <1>1 DEF ControlInv
<1>7. StreamInv'
  <2> SUFFICES ASSUME tool \in {"sending", "closed"},
                      NEW to \in atOpen..Len(log), (received \o c) \o unsent = Stretch(to)
               PROVE  to \in atOpen..Len(log') /\ Stretch(to)' = Stretch(to)
    BY <1>1 DEF StreamInv
  <2>1. atOpen \in 0..Len(log)
    BY <1>1 DEF OpenInv, Returned
  <2>2. to \in 0..Len(log) /\ to \in atOpen..Len(log')
    BY <1>2, <2>1
  <2>3. \A i \in 1..Len(log) : log'[i] = log[i]
    BY DEF Grows
  <2>4. Stretch(to)' = Stretch(to)
    BY <1>1, <2>2, <2>3, StretchStays
  <2> QED BY <2>2, <2>4
<1> QED BY <1>3, <1>4, <1>5, <1>6, <1>7 DEF WalInv

(* The member appends an entry.                                             *)
LEMMA AppendEntryStep ==
  ASSUME WalInv, NEW k \in Kind, AppendEntry(k)
  PROVE  WalInv'
<1>1. TypeOK /\ MemberInv
  BY DEF WalInv
<1>2. /\ Len(log) < MaxIndex /\ log' = Append(log, k) /\ MemberStep
      /\ UNCHANGED <<cuts, oldest, snaps, writing>>
  BY DEF AppendEntry
<1>3. /\ log' \in Seq(Kind) /\ Len(log') = Len(log) + 1 /\ Len(log) \in Nat
      /\ \A i \in 1..Len(log) : log'[i] = log[i]
  BY <1>1, <1>2 DEF TypeOK
<1>4. MemberOK'
  <2>1. log' \in Seq(Kind) /\ Len(log') <= MaxIndex
    BY <1>2, <1>3, WalAssumption
  <2>2. snaps' \subseteq 1..Len(log') /\ writing' \in 0..Len(log')
    BY <1>1, <1>2, <1>3 DEF TypeOK
  <2>3. cuts' \in Seq(Nat) /\ oldest' \in 1..Len(cuts')
    BY <1>1, <1>2, Zenon DEF TypeOK
  <2> QED BY <2>1, <2>2, <2>3 DEF MemberOK
<1>5. MemberInv'
  <2>1. \A i \in 1..Len(cuts) : cuts[i] \in Nat
    BY <1>1, SMTT(30) DEF TypeOK
  <2> QED BY <1>1, <1>2, <1>3, <2>1, SMTT(30) DEF MemberInv, TypeOK
<1>6. Grows
  BY <1>1, <1>2, <1>3 DEF Grows, TypeOK
<1> QED BY <1>2, <1>4, <1>5, <1>6, MemberFrame

(* The member cuts a segment behind the last entry.                         *)
LEMMA CutSegmentStep ==
  ASSUME WalInv, CutSegment
  PROVE  WalInv'
<1>1. TypeOK /\ MemberInv
  BY DEF WalInv
<1>2. /\ Len(log) >= cuts[Len(cuts)] /\ cuts' = Append(cuts, Len(log) + 1) /\ MemberStep
      /\ UNCHANGED <<log, oldest, snaps, writing>>
  BY DEF CutSegment
<1>3. /\ cuts' \in Seq(Nat) /\ Len(cuts') = Len(cuts) + 1 /\ Len(cuts) \in Nat /\ Len(log) \in Nat
      /\ \A i \in 1..Len(cuts) : cuts'[i] = cuts[i]
      /\ cuts'[Len(cuts) + 1] = Len(log) + 1
  BY <1>1, <1>2, SMTT(30) DEF TypeOK
<1>4. \A i \in 1..Len(cuts) : cuts[i] \in Nat /\ cuts[i] <= Len(log)
  <2> TAKE i \in 1..Len(cuts)
  <2>1. cuts[i] \in Nat /\ cuts[Len(cuts)] \in Nat
    BY <1>1, SMTT(30) DEF TypeOK
  <2>2. i = Len(cuts) \/ cuts[i] < cuts[Len(cuts)]
    BY <1>1, <1>3 DEF MemberInv
  <2> QED BY <1>2, <1>3, <2>1, <2>2
<1>5. MemberOK'
  BY <1>1, <1>2, <1>3 DEF TypeOK, MemberOK
<1>6. MemberInv'
  <2>1. cuts'[1] = 0
    <3>1. 1 \in 1..Len(cuts) /\ cuts[1] = 0
      BY <1>1, <1>3 DEF MemberInv, TypeOK
    <3> QED BY <1>3, <3>1
  <2>2. ASSUME NEW i \in 1..Len(cuts'), NEW j \in 1..Len(cuts'), i < j PROVE cuts'[i] < cuts'[j]
    <3>1. i \in 1..Len(cuts) /\ cuts'[i] = cuts[i]
      BY <1>3, <2>2
    <3>2. CASE j \in 1..Len(cuts)
      BY <1>1, <1>3, <2>2, <3>1, <3>2 DEF MemberInv
    <3>3. CASE j = Len(cuts) + 1
      BY <1>3, <1>4, <3>1, <3>3
    <3> QED BY <1>3, <3>2, <3>3
  <2>3. \A i \in 1..Len(cuts') : cuts'[i] <= Len(log) + 1
    BY <1>3, <1>4, SMTT(30)
  <2>4. cuts'[oldest] = cuts[oldest]
    BY <1>1, <1>3 DEF TypeOK
  <2> QED BY <1>1, <1>2, <2>1, <2>2, <2>3, <2>4 DEF MemberInv
<1>7. Grows
  <2>1. \A i \in (Len(cuts) + 1)..Len(cuts') : cuts'[i] > Len(log)
    BY <1>3
  <2> QED BY <1>2, <1>3, <2>1 DEF Grows
<1> QED BY <1>2, <1>5, <1>6, <1>7, MemberFrame

(* The member begins a snapshot: only the file is new.                      *)
LEMMA BeginSnapStep ==
  ASSUME WalInv, BeginSnap
  PROVE  WalInv'
<1>1. TypeOK /\ MemberInv
  BY DEF WalInv
<1>2. /\ writing' \in (Newest(snaps) + 1)..Len(log) /\ MemberStep
      /\ UNCHANGED <<log, cuts, oldest, snaps>>
  BY DEF BeginSnap
<1>3. Newest(snaps) \in 0..Len(log) /\ Len(log) \in Nat
  <2>1. Len(log) \in Nat /\ snaps \in SUBSET (1..Len(log))
    BY <1>1 DEF TypeOK
  <2> QED BY <2>1, NewestFacts
<1>4. MemberOK'
  BY <1>1, <1>2, <1>3 DEF TypeOK, MemberOK
<1>5. MemberInv'
  BY <1>1, <1>2 DEF MemberInv
<1>6. Grows
  BY <1>1, <1>2 DEF Grows, TypeOK
<1> QED BY <1>2, <1>4, <1>5, <1>6, MemberFrame

(* The snapshot is complete: the newest one can only have become newer.     *)
LEMMA EndSnapStep ==
  ASSUME WalInv, EndSnap
  PROVE  WalInv'
<1>1. TypeOK /\ MemberInv
  BY DEF WalInv
<1>2. /\ writing # none /\ snaps' = snaps \union {writing} /\ writing' = none /\ MemberStep
      /\ UNCHANGED <<log, cuts, oldest>>
  BY DEF EndSnap
<1>3. MemberOK'
  BY <1>1, <1>2 DEF TypeOK, MemberOK, none
<1>4. MemberInv'
  <2>1. Len(log) \in Nat /\ snaps \in SUBSET (1..Len(log)) /\ snaps' \in SUBSET (1..Len(log))
    BY <1>1, <1>2 DEF TypeOK, none
  <2>2. ASSUME snaps # {}, cuts[oldest] <= Newest(snaps)
        PROVE  snaps' # {} /\ cuts[oldest] <= Newest(snaps')
    <3>1. Newest(snaps) \in snaps' /\ snaps' # {}
      BY <1>2, <2>1, <2>2, NewestFacts
    <3>2. Newest(snaps) <= Newest(snaps') /\ Newest(snaps) \in 0..Len(log) /\ Newest(snaps') \in 0..Len(log)
      BY <2>1, <3>1, NewestFacts
    <3>3. cuts[oldest] \in Nat
      BY <1>1 DEF TypeOK
    <3> QED BY <2>2, <3>1, <3>2, <3>3
  <2>3. Newest(snaps)' = Newest(snaps')
    BY DEF Newest
  <2> QED BY <1>1, <1>2, <2>2, <2>3 DEF MemberInv
<1>5. Grows
  BY <1>1, <1>2 DEF Grows, TypeOK
<1> QED BY <1>2, <1>3, <1>4, <1>5, MemberFrame

(* The member purges a segment: the next one begins below the newest        *)
(* snapshot.                                                                *)
LEMMA PurgeStep ==
  ASSUME WalInv, Purge
  PROVE  WalInv'
<1>1. TypeOK /\ MemberInv
  BY DEF WalInv
<1>2. /\ oldest < Len(cuts) /\ cuts[oldest + 1] < Newest(snaps) /\ oldest' = oldest + 1 /\ MemberStep
      /\ UNCHANGED <<log, cuts, snaps, writing>>
  BY DEF Purge
<1>3. oldest' \in 1..Len(cuts) /\ cuts[oldest'] \in Nat
  BY <1>1, <1>2, SMTT(30) DEF TypeOK
<1>4. MemberOK'
  BY <1>1, <1>2, <1>3 DEF TypeOK, MemberOK
<1>5. MemberInv'
  <2>1. Newest(snaps) \in 0..Len(log) /\ (snaps = {} => Newest(snaps) = 0) /\ Len(log) \in Nat
    <3>1. Len(log) \in Nat /\ snaps \in SUBSET (1..Len(log))
      BY <1>1 DEF TypeOK
    <3> QED BY <3>1, NewestFacts
  <2>2. cuts[oldest'] <= Len(log) /\ snaps # {} /\ cuts[oldest'] <= Newest(snaps)
    BY <1>2, <1>3, <2>1
  <2> QED BY <1>1, <1>2, <2>2 DEF MemberInv
<1>6. Grows
  BY <1>1, <1>2 DEF Grows, TypeOK
<1> QED BY <1>2, <1>4, <1>5, <1>6, MemberFrame

----------------------------------------------------------------------------
(* The segments are listed: the first one that is there begins in the log.  *)
LEMMA ListSegmentsStep ==
  ASSUME WalInv, ListSegments
  PROVE  WalInv'
<1>1. /\ TypeOK /\ MemberInv /\ SeenInv /\ OpenInv /\ ControlInv /\ StreamInv
  BY DEF WalInv
<1>2. /\ tool = "start" /\ log # <<>> /\ segs' = present /\ tool' = "segments"
      /\ UNCHANGED <<log, cuts, oldest, snaps, writing, snapDir, cfg, listed, walsnap, scope, opened,
                     unsent, atOpen, c, consumer, received, quiet>>
  BY DEF ListSegments, memberVars, readVars, loopVars
<1>3. segs' \in Seq(Nat) /\ segs' # <<>> /\ segs'[1] = cuts[oldest]
  <2>1. /\ cuts \in Seq(Nat) /\ oldest \in 1..Len(cuts) /\ Len(cuts) \in Nat
    BY <1>1 DEF TypeOK
  <2>2. /\ SubSeq(cuts, oldest, Len(cuts)) \in Seq(Nat)
        /\ Len(SubSeq(cuts, oldest, Len(cuts))) = Len(cuts) - oldest + 1
        /\ SubSeq(cuts, oldest, Len(cuts))[1] = cuts[oldest]
    BY <2>1
  <2>3. Len(cuts) - oldest + 1 > 0 /\ Len(<<>>) = 0
    BY <2>1
  <2>4. SubSeq(cuts, oldest, Len(cuts)) # <<>>
    <3>1. PICK p : p = SubSeq(cuts, oldest, Len(cuts))
      OBVIOUS
    <3>2. Len(p) > 0
      BY <2>2, <2>3, <3>1
    <3>3. p # <<>>
      BY <2>3, <3>2
    <3> QED BY <3>1, <3>3, Zenon
  <2> QED BY <1>2, <2>2, <2>4 DEF present
<1>4. TypeOK'
  BY <1>1, <1>2, <1>3, Zenon DEF TypeOK
<1>5. MemberInv'
  BY <1>1, <1>2, Zenon DEF MemberInv, Newest
<1>6. SeenInv'
  <2>1. segs'[1] <= Len(log') /\ log' # <<>>
    BY <1>1, <1>2, <1>3 DEF MemberInv
  <2>2. segs' = present'
    BY <1>2 DEF present
  <2> QED BY <1>2, <1>3, <2>1, <2>2 DEF SeenInv, Scoping
<1>7. OpenInv' /\ ControlInv' /\ StreamInv'
  BY <1>1, <1>2 DEF OpenInv, ControlInv, StreamInv, Returned
<1> QED BY <1>4, <1>5, <1>6, <1>7 DEF WalInv

(* The snapshots are listed.                                                *)
LEMMA ListSnapsStep ==
  ASSUME WalInv, ListSnaps
  PROVE  WalInv'
<1>1. /\ TypeOK /\ MemberInv /\ SeenInv /\ OpenInv /\ ControlInv /\ StreamInv
  BY DEF WalInv
<1>2. /\ tool = "segments" /\ tool' = "snaps"
      /\ listed' = IF snapDir THEN snaps \union ({writing} \ {none}) ELSE {}
      /\ UNCHANGED <<log, cuts, oldest, snaps, writing, snapDir, cfg, segs, walsnap, scope, opened,
                     unsent, atOpen, c, consumer, received, quiet>>
  BY DEF ListSnaps, memberVars, readVars, loopVars
<1>3. listed' \subseteq 1..Len(log)
  <2>1. snaps \subseteq 1..Len(log) /\ writing \in 0..Len(log) /\ Len(log) \in Nat
    BY <1>1 DEF TypeOK
  <2> QED BY <1>2, <2>1 DEF none
<1>4. TypeOK'
  BY <1>1, <1>2, <1>3, Zenon DEF TypeOK
<1>5. MemberInv'
  BY <1>1, <1>2, Zenon DEF MemberInv, Newest
<1>6. SeenInv'
  <2>1. present' = present
    BY <1>2 DEF present
  <2> QED BY <1>1, <1>2, <2>1 DEF SeenInv, Scoping
<1>7. OpenInv' /\ ControlInv' /\ StreamInv'
  BY <1>1, <1>2 DEF OpenInv, ControlInv, StreamInv, Returned
<1> QED BY <1>4, <1>5, <1>6, <1>7 DEF WalInv

(* The newest snapshot is loaded, or the first segment is the start.        *)
LEMMA LoadSnapshotStep ==
  ASSUME WalInv, LoadSnapshot
  PROVE  WalInv'
<1>1. /\ TypeOK /\ MemberInv /\ SeenInv /\ OpenInv /\ ControlInv /\ StreamInv
  BY DEF WalInv
<1>2. /\ tool = "snaps" /\ tool' = "loaded"
      /\ walsnap' = IF snapDir /\ snaps # {}
                      THEN [Index |-> Newest(snaps), found |-> TRUE]
                      ELSE [Index |-> segs[1], found |-> FALSE]
      /\ UNCHANGED <<log, cuts, oldest, snaps, writing, snapDir, cfg, segs, listed, scope, opened,
                     unsent, atOpen, c, consumer, received, quiet>>
  BY DEF LoadSnapshot, OldestIndex, memberVars, readVars, loopVars
<1>3. Newest(snaps) \in 0..Len(log) /\ segs[1] \in 0..Len(log)
  <2>1. Len(log) \in Nat /\ snaps \in SUBSET (1..Len(log)) /\ segs \in Seq(Nat)
    BY <1>1 DEF TypeOK
  <2>2. segs # <<>> /\ segs[1] <= Len(log)
    BY <1>1, <1>2 DEF SeenInv
  <2>3. segs[1] \in Nat
    BY <2>1, <2>2
  <2> QED BY <2>1, <2>2, <2>3, NewestFacts
<1>4. TypeOK'
  <2>1. walsnap' \in [Index : 0..Len(log), found : BOOLEAN]
    BY <1>2, <1>3
  <2> QED BY <1>1, <1>2, <2>1, Zenon DEF TypeOK
<1>5. MemberInv'
  BY <1>1, <1>2, Zenon DEF MemberInv, Newest
<1>6. SeenInv'
  <2>1. present' = present /\ Newest(snaps)' = Newest(snaps)
    BY <1>2 DEF present, Newest
  <2>2. walsnap'.Index = IF snapDir /\ snaps # {} THEN Newest(snaps) ELSE segs[1]
    BY <1>2
  <2> QED BY <1>1, <1>2, <2>1, <2>2 DEF SeenInv, Scoping
<1>7. OpenInv' /\ ControlInv' /\ StreamInv'
  BY <1>1, <1>2 DEF OpenInv, ControlInv, StreamInv, Returned
<1> QED BY <1>4, <1>5, <1>6, <1>7 DEF WalInv

(* Once the start index is known, the scope of it stays.                    *)
LEMMA ScopeFrame ==
  ASSUME SeenInv, tool \notin {"start", "segments", "snaps"}, tool' \notin {"start", "segments", "snaps"},
         tool \notin Scoping \/ (quiet => LET i == FirstRead(walsnap.Index) IN
                                            /\ scope'.ReadSegments = SubSeq(segs, i, Len(segs))
                                            /\ scope'.SkippedSegments = SubSeq(segs, 1, i - 1)),
         tool \notin Scoping => scope' = scope,
         UNCHANGED <<log, cuts, oldest, snaps, snapDir, segs, walsnap, quiet>>
  PROVE  SeenInv'
<1>1. present' = present /\ Newest(snaps)' = Newest(snaps)
  BY DEF present, Newest
<1>2. FirstRead(walsnap.Index)' = FirstRead(walsnap.Index)
  BY DEF FirstRead, ReadFrom
<1>3. quiet => LET i == FirstRead(walsnap.Index) IN
                 /\ scope'.ReadSegments = SubSeq(segs, i, Len(segs))
                 /\ scope'.SkippedSegments = SubSeq(segs, 1, i - 1)
  BY DEF SeenInv
<1>4. /\ tool' # "start" => log' # <<>> /\ segs' # <<>> /\ segs'[1] <= Len(log')
      /\ quiet' => segs' = present'
      /\ quiet' => walsnap'.Index = IF snapDir' /\ snaps' # {} THEN Newest(snaps)' ELSE segs'[1]
  BY <1>1 DEF SeenInv
<1> QED BY <1>2, <1>3, <1>4, Zenon DEF SeenInv

(* The scope is made.                                                       *)
LEMMA MakeScopeStep ==
  ASSUME WalInv, MakeScope
  PROVE  WalInv'
<1>1. /\ TypeOK /\ MemberInv /\ SeenInv /\ OpenInv /\ ControlInv /\ StreamInv
  BY DEF WalInv
<1>2. /\ tool = "loaded" /\ tool' = "scoped"
      /\ scope'.ReadSegments = SubSeq(segs, FirstRead(walsnap.Index), Len(segs))
      /\ scope'.SkippedSegments = SubSeq(segs, 1, FirstRead(walsnap.Index) - 1)
      /\ UNCHANGED <<log, cuts, oldest, snaps, writing, snapDir, cfg, segs, listed, walsnap, opened,
                     unsent, atOpen, c, consumer, received, quiet>>
  BY DEF MakeScope, memberVars, readVars, loopVars
<1>3. TypeOK'
  BY <1>1, <1>2, Zenon DEF TypeOK
<1>4. MemberInv'
  BY <1>1, <1>2, Zenon DEF MemberInv, Newest
<1>5. SeenInv'
  <2>1. tool \in Scoping
    BY <1>2 DEF Scoping
  <2> QED BY <1>1, <1>2, <2>1, ScopeFrame
<1>6. OpenInv' /\ ControlInv' /\ StreamInv'
  BY <1>1, <1>2 DEF OpenInv, ControlInv, StreamInv, Returned
<1> QED BY <1>3, <1>4, <1>5, <1>6 DEF WalInv

(* A segment that begins at or below the start index: there is a last one.  *)
LEMMA LandingFacts ==
  ASSUME TypeOK, Landing # {}
  PROVE  /\ Max(Landing) \in oldest..Len(cuts) /\ cuts[Max(Landing)] <= walsnap.Index
         /\ \A n \in oldest..Len(cuts) : cuts[n] <= walsnap.Index => n <= Max(Landing)
<1>1. Len(cuts) \in Nat /\ oldest \in 1..Len(cuts)
  BY DEF TypeOK
<1>2. Landing \in SUBSET (0..Len(cuts))
  BY <1>1 DEF Landing
<1>3. Max(Landing) \in Landing /\ \A n \in Landing : n <= Max(Landing)
  BY <1>1, <1>2, MaxFacts
<1> QED BY <1>3 DEF Landing

(* The log is opened.                                                       *)
LEMMA OpenForReadStep ==
  ASSUME WalInv, OpenForRead
  PROVE  WalInv'
<1>1. /\ TypeOK /\ MemberInv /\ SeenInv /\ OpenInv /\ ControlInv /\ StreamInv
  BY DEF WalInv
<1>2. /\ tool = "scoped" /\ tool' = "opened" /\ Landing # {}
      /\ opened' = <<Max(Landing), Len(cuts)>> /\ atOpen' = Len(log)
      /\ UNCHANGED <<log, cuts, oldest, snaps, writing, snapDir, cfg, segs, listed, walsnap, scope,
                     unsent, c, consumer, received, quiet>>
  BY DEF OpenForRead, memberVars, scopeVars, loopVars
<1>3. TypeOK'
  BY <1>1, <1>2, Zenon DEF TypeOK
<1>4. MemberInv'
  BY <1>1, <1>2, Zenon DEF MemberInv, Newest
<1>5. SeenInv'
  BY <1>1, <1>2, ScopeFrame DEF Scoping
<1>6. OpenInv'
  <2>1. PICK m : m = Max(Landing)
    OBVIOUS
  <2>2. m \in oldest..Len(cuts) /\ cuts[m] <= walsnap.Index
    BY <1>1, <1>2, <2>1, LandingFacts
  <2>3. Len(cuts) \in Nat /\ oldest \in 1..Len(cuts) /\ Len(log) \in Nat
    BY <1>1 DEF TypeOK
  <2>4. opened'[1] = m /\ opened'[2] = Len(cuts) /\ (Len(cuts) + 1)..Len(cuts) = {}
    BY <1>2, <2>1, <2>3
  <2>5. /\ opened'[1] \in 1..opened'[2] /\ opened'[2] \in 1..Len(cuts')
        /\ cuts'[opened'[1]] <= walsnap'.Index
        /\ atOpen' \in 0..Len(log')
        /\ \A n \in (opened'[2] + 1)..Len(cuts') : cuts'[n] > atOpen'
    BY <1>2, <2>2, <2>3, <2>4
  <2>6. Landing' = Landing
    BY <1>2 DEF Landing
  <2>7. opened' = <<Max(Landing'), Len(cuts')>>
    BY <1>2, <2>6
  <2> QED BY <1>2, <2>5, <2>7 DEF OpenInv
<1>7. ControlInv' /\ StreamInv'
  BY <1>1, <1>2 DEF ControlInv, StreamInv
<1> QED BY <1>3, <1>4, <1>5, <1>6, <1>7 DEF WalInv

(* While the member does not move, the oldest segment is one to land on.    *)
LEMMA QuietLands ==
  ASSUME TypeOK, MemberInv, SeenInv, tool \notin {"start", "segments", "snaps"}, quiet
  PROVE  oldest \in Landing
<1>1. cuts[oldest] <= walsnap.Index
  <2>1. oldest \in 1..Len(cuts) /\ Len(cuts) \in Nat /\ cuts \in Seq(Nat)
        /\ Len(log) \in Nat /\ snaps \in SUBSET (1..Len(log))
    BY DEF TypeOK
  <2>2. walsnap.Index = IF snapDir /\ snaps # {} THEN Newest(snaps) ELSE segs[1]
    BY DEF SeenInv
  <2>3. segs[1] = cuts[oldest]
    <3>1. segs = SubSeq(cuts, oldest, Len(cuts))
      BY DEF SeenInv, present
    <3> QED BY <2>1, <3>1
  <2>4. ASSUME snaps # {} PROVE cuts[oldest] <= Newest(snaps)
    <3>1. CASE oldest > 1
      BY <3>1 DEF MemberInv
    <3>2. CASE oldest = 1
      <4>1. cuts[oldest] = 0 /\ Newest(snaps) \in 0..Len(log)
        BY <2>1, <3>2, NewestFacts DEF MemberInv
      <4> QED BY <4>1
    <3> QED BY <2>1, <3>1, <3>2
  <2>5. cuts[oldest] \in Nat
    BY <2>1
  <2> QED BY <2>2, <2>3, <2>4, <2>5
<1> QED BY <1>1 DEF Landing, TypeOK

(* So the log cannot be opened only if the member moved.                    *)
LEMMA OpenFailsStep ==
  ASSUME WalInv, OpenFails
  PROVE  WalInv'
<1>1. /\ TypeOK /\ MemberInv /\ SeenInv /\ OpenInv /\ ControlInv /\ StreamInv
  BY DEF WalInv
<1>2. /\ tool = "scoped" /\ tool' = "failed" /\ Landing = {} /\ consumer' = "exited"
      /\ UNCHANGED <<log, cuts, oldest, snaps, writing, snapDir, cfg, segs, listed, walsnap, scope,
                     opened, unsent, atOpen, c, received, quiet>>
  BY DEF OpenFails, memberVars, scopeVars, readVars
<1>3. TypeOK'
  BY <1>1, <1>2, Zenon DEF TypeOK
<1>4. MemberInv'
  BY <1>1, <1>2, Zenon DEF MemberInv, Newest
<1>5. SeenInv'
  BY <1>1, <1>2, ScopeFrame DEF Scoping
<1>6. ~quiet'
  BY <1>1, <1>2, QuietLands
<1>7. OpenInv' /\ ControlInv' /\ StreamInv'
  BY <1>1, <1>2, <1>6 DEF OpenInv, ControlInv, StreamInv, Returned
<1> QED BY <1>3, <1>4, <1>5, <1>7 DEF WalInv

----------------------------------------------------------------------------
(* What is on its way is a stretch of the log, and stays one.               *)
Streams(r, q, u) ==
  \E to \in atOpen..Len(log) : (r \o q) \o u = Stretch(to)

(* A step that leaves the log alone and keeps the batches under way on the  *)
(* stretch keeps the invariant.                                             *)
LEMMA StreamFrame ==
  ASSUME WalInv, Returned, Streams(received', c', unsent'),
         UNCHANGED <<log, cfg, walsnap, atOpen>>
  PROVE  StreamInv'
<1>1. TypeOK /\ OpenInv
  BY DEF WalInv
<1>2. ASSUME NEW to \in atOpen..Len(log) PROVE Stretch(to)' = Stretch(to)
  <2>1. atOpen \in 0..Len(log)
    BY <1>1 DEF OpenInv
  <2>2. to \in 0..Len(log)
    BY <2>1
  <2> QED BY <1>1, <2>2, StretchStays
<1> QED BY <1>2 DEF Streams, StreamInv

(* Once the log is open, the steps of WalSource and of its reader leave the *)
(* member, the scope and the opened files as they are.                      *)
LEMMA ReaderFrame ==
  ASSUME WalInv, Returned, Returned', UNCHANGED <<memberVars, cfg, scopeVars, opened, atOpen, quiet>>,
         unsent' \in Seq(Op), received' \in Seq(Op), c' \in Seq(Op), Len(c') <= ChanCap,
         consumer' \in {"collecting", "done", "exited"},
         ControlInv', StreamInv'
  PROVE  WalInv'
<1>1. TypeOK /\ MemberInv /\ SeenInv /\ OpenInv
  BY DEF WalInv
<1>2. /\ UNCHANGED <<log, cuts, oldest, snaps, writing, snapDir, cfg, segs, listed, walsnap, scope,
                     opened, atOpen, quiet>>
      /\ {tool, tool'} \subseteq {"opened", "sending", "closed", "aborted"}
  BY DEF memberVars, scopeVars, Returned
<1>3. TypeOK'
  <2>1. tool' \in {"start", "segments", "snaps", "loaded", "scoped", "opened", "sending",
                   "closed", "aborted", "failed"}
    BY <1>2
  <2> QED BY <1>1, <1>2, <2>1, Zenon DEF TypeOK
<1>4. MemberInv'
  BY <1>1, <1>2, Zenon DEF MemberInv, Newest
<1>5. SeenInv'
  BY <1>1, <1>2, ScopeFrame DEF Scoping
<1>6. OpenInv'
  <2>1. Landing' = Landing
    BY <1>2 DEF Landing
  <2> QED BY <1>1, <1>2, <2>1 DEF OpenInv, Returned
<1> QED BY <1>3, <1>4, <1>5, <1>6 DEF WalInv

(* ReadAll returns at least the entries there were when the log was opened. *)
LEMMA ReadAllStep ==
  ASSUME WalInv, ReadAll
  PROVE  WalInv'
<1>1. /\ TypeOK /\ MemberInv /\ OpenInv /\ ControlInv
  BY DEF WalInv
<1>2. /\ tool = "opened" /\ tool' = "sending" /\ Returned /\ Returned'
      /\ unsent' = Stream(firstInFiles - 1, lastInFiles)
      /\ UNCHANGED <<memberVars, cfg, scopeVars, opened, atOpen, quiet, c, consumer, received>>
  BY DEF ReadAll, loopVars, Returned
<1>3. /\ opened[1] \in 1..opened[2] /\ opened[2] \in 1..Len(cuts)
      /\ cuts[opened[1]] <= walsnap.Index /\ atOpen \in 0..Len(log)
      /\ \A n \in (opened[2] + 1)..Len(cuts) : cuts[n] > atOpen
  BY <1>1, <1>2 DEF OpenInv
<1>4. Len(log) \in Nat /\ walsnap.Index \in Nat /\ Len(cuts) \in Nat
      /\ \A n \in 1..Len(cuts) : cuts[n] \in Nat
  BY <1>1, SMTT(30) DEF TypeOK
<1>5. firstInFiles - 1 = walsnap.Index
  <2>1. PICK w \in Nat : w = walsnap.Index
    BY <1>4
  <2>2. PICK f \in Nat : f = cuts[opened[1]]
    BY <1>3, <1>4
  <2>3. Max({w + 1, f}) = w + 1
    <3>1. f <= w + 1 /\ w + 1 <= w + 1 /\ w + 1 \in {w + 1, f} /\ {w + 1, f} \in SUBSET Int
      BY <1>3, <2>1, <2>2
    <3>2. \A x \in {w + 1, f} : x <= w + 1
      BY <3>1
    <3> QED BY <3>1, <3>2, MaxIs
  <2>4. firstInFiles = w + 1
    BY <2>1, <2>2, <2>3 DEF firstInFiles
  <2> QED BY <2>1, <2>4
<1>6. PICK to : to = lastInFiles
  OBVIOUS
<1>7. to \in atOpen..Len(log)
  <2>1. CASE opened[2] < Len(cuts)
    <3>1. opened[2] + 1 \in (opened[2] + 1)..Len(cuts) /\ opened[2] + 1 \in 1..Len(cuts)
      BY <1>3, <1>4, <2>1
    <3>2. PICK f \in Nat : f = cuts[opened[2] + 1]
      BY <1>4, <3>1
    <3>3. f > atOpen /\ f <= Len(log) + 1
      BY <1>1, <1>3, <3>1, <3>2 DEF MemberInv
    <3>4. to = f - 1
      BY <1>6, <2>1, <3>2 DEF lastInFiles
    <3> QED BY <1>3, <1>4, <3>3, <3>4
  <2>2. CASE ~(opened[2] < Len(cuts))
    BY <1>3, <1>4, <1>6, <2>2 DEF lastInFiles
  <2> QED BY <2>1, <2>2
<1>8. unsent' = Stretch(to) /\ unsent' \in Seq(Op)
  <2>1. to \in 0..Len(log)
    BY <1>3, <1>7
  <2>2. unsent' = Stream(walsnap.Index, to)
    BY <1>2, <1>5, <1>6
  <2> QED BY <1>1, <2>1, <2>2, StreamFacts
<1>9. received' = <<>> /\ c' = <<>> /\ consumer # "done"
  BY <1>1, <1>2 DEF ControlInv
<1>10. StreamInv'
  <2>1. (<<>> \o <<>>) \o unsent' = unsent'
    BY <1>8
  <2>2. Streams(received', c', unsent')
    BY <1>7, <1>8, <1>9, <2>1 DEF Streams
  <2>3. UNCHANGED <<log, cfg, walsnap, atOpen>>
    BY <1>2 DEF memberVars, scopeVars
  <2> QED BY <1>2, <2>2, <2>3, StreamFrame
<1>11. ControlInv'
  BY <1>1, <1>2, <1>9 DEF ControlInv
<1>12. received' \in Seq(Op) /\ c' \in Seq(Op) /\ Len(c') <= ChanCap
       /\ consumer' \in {"collecting", "done", "exited"}
  BY <1>1, <1>2 DEF TypeOK
<1> QED BY <1>2, <1>8, <1>10, <1>11, <1>12, ReaderFrame

(* A failed ReadAll leaves nothing to send.                                 *)
LEMMA ReadFailsStep ==
  ASSUME WalInv, ReadFails
  PROVE  WalInv'
<1>1. /\ TypeOK /\ ControlInv
  BY DEF WalInv
<1>2. /\ tool = "opened" /\ tool' = "aborted" /\ Returned /\ Returned'
      /\ UNCHANGED <<memberVars, cfg, scopeVars, opened, atOpen, quiet, unsent, c, consumer, received>>
  BY DEF ReadFails, loopVars, readVars, Returned
<1>3. received = <<>> /\ c = <<>> /\ unsent = <<>>
  BY <1>1, <1>2 DEF ControlInv
<1>4. StreamInv'
  BY <1>2 DEF StreamInv
<1>5. ControlInv'
  BY <1>1, <1>2, <1>3 DEF ControlInv
<1>6. unsent' \in Seq(Op) /\ received' \in Seq(Op) /\ c' \in Seq(Op) /\ Len(c') <= ChanCap
      /\ consumer' \in {"collecting", "done", "exited"}
  BY <1>1, <1>2 DEF TypeOK
<1> QED BY <1>2, <1>4, <1>5, <1>6, ReaderFrame

(* An operation moves from the goroutine to the channel.                    *)
LEMMA SendOpStep ==
  ASSUME WalInv, SendOp
  PROVE  WalInv'
<1>1. /\ TypeOK /\ ControlInv /\ StreamInv
  BY DEF WalInv
<1>2. /\ tool = "sending" /\ tool' = "sending" /\ Returned /\ Returned' /\ unsent # <<>>
      /\ Len(c) < ChanCap
      /\ c' = Append(c, Head(unsent)) /\ unsent' = Tail(unsent)
      /\ UNCHANGED <<memberVars, cfg, scopeVars, opened, atOpen, quiet, consumer, received>>
  BY DEF SendOp, HasRoom, Returned
<1>3. unsent \in Seq(Op) /\ received \in Seq(Op) /\ c \in Seq(Op) /\ ChanCap \in Nat
  BY <1>1, WalAssumption DEF TypeOK
<1>4. Head(unsent) \in Op /\ unsent' \in Seq(Op) /\ unsent = <<Head(unsent)>> \o unsent'
  <2> HIDE DEF Op
  <2> QED BY <1>2, <1>3
<1>5. c' \in Seq(Op) /\ Len(c') <= ChanCap /\ c' = c \o <<Head(unsent)>>
  <2> HIDE DEF Op
  <2> QED BY <1>2, <1>3, <1>4
<1>6. (received \o c') \o unsent' = (received \o c) \o unsent
  <2> HIDE DEF Op
  <2> DEFINE h == <<Head(unsent)>>
  <2>1. h = <<Head(unsent)>> /\ h \in Seq(Op)
    BY <1>4
  <2> HIDE DEF h
  <2>2. \A x, y, z \in Seq(Op) : (x \o y) \o z = x \o (y \o z)
    BY ConcatAssociative
  <2>3. received \o (c \o h) = (received \o c) \o h
    BY <1>3, <2>1, <2>2, ZenonT(30)
  <2>4. received \o c \in Seq(Op)
    BY <1>3
  <2>5. ((received \o c) \o h) \o unsent' = (received \o c) \o (h \o unsent')
    BY <1>4, <2>1, <2>2, <2>4, Zenon
  <2> QED BY <1>4, <1>5, <2>1, <2>3, <2>5, Zenon
<1>7. StreamInv'
  <2>1. Streams(received, c, unsent)
    BY <1>1, <1>2 DEF StreamInv, Streams
  <2>2. Streams(received, c', unsent')
    BY <1>2, <1>6, <2>1, Zenon DEF Streams
  <2>3. UNCHANGED <<log, cfg, walsnap, atOpen>> /\ received' = received
    BY <1>2 DEF memberVars, scopeVars
  <2> QED BY <1>2, <2>2, <2>3, StreamFrame
<1>8. ControlInv'
  BY <1>1, <1>2 DEF ControlInv
<1>9. received' \in Seq(Op) /\ consumer' \in {"collecting", "done", "exited"}
  BY <1>1, <1>2 DEF TypeOK
<1> QED BY <1>2, <1>4, <1>5, <1>7, <1>8, <1>9, ReaderFrame

(* The goroutine closes the channel when it has sent everything.            *)
LEMMA EndStreamStep ==
  ASSUME WalInv, EndStream
  PROVE  WalInv'
<1>1. /\ TypeOK /\ ControlInv /\ StreamInv
  BY DEF WalInv
<1>2. /\ tool = "sending" /\ tool' = "closed" /\ Returned /\ Returned' /\ unsent = <<>>
      /\ UNCHANGED <<memberVars, cfg, scopeVars, opened, atOpen, quiet, unsent, c, consumer, received>>
  BY DEF EndStream, AfterSending, loopVars, readVars, Returned
<1>3. StreamInv'
  <2>1. Streams(received', c', unsent')
    BY <1>1, <1>2 DEF StreamInv, Streams
  <2>2. UNCHANGED <<log, cfg, walsnap, atOpen>>
    BY <1>2 DEF memberVars, scopeVars
  <2> QED BY <1>2, <2>1, <2>2, StreamFrame
<1>4. ControlInv'
  BY <1>1, <1>2 DEF ControlInv
<1>5. unsent' \in Seq(Op) /\ received' \in Seq(Op) /\ c' \in Seq(Op) /\ Len(c') <= ChanCap
      /\ consumer' \in {"collecting", "done", "exited"}
  BY <1>1, <1>2 DEF TypeOK
<1> QED BY <1>2, <1>3, <1>4, <1>5, ReaderFrame

(* An operation moves from the channel to what was received.                *)
LEMMA CollectOpStep ==
  ASSUME WalInv, CollectOp
  PROVE  WalInv'
<1>1. /\ TypeOK /\ ControlInv /\ StreamInv
  BY DEF WalInv
<1>2. /\ consumer = "collecting" /\ c # <<>>
      /\ received' = Append(received, Head(c)) /\ c' = Tail(c)
      /\ UNCHANGED <<memberVars, cfg, tool, scopeVars, opened, unsent, atOpen, consumer, quiet>>
  BY DEF CollectOp, readVars
<1>3. tool \in {"sending", "closed"} /\ Returned /\ Returned'
  BY <1>1, <1>2 DEF ControlInv, TypeOK, Returned
<1>4. unsent \in Seq(Op) /\ received \in Seq(Op) /\ c \in Seq(Op) /\ ChanCap \in Nat /\ Len(c) <= ChanCap
  BY <1>1, WalAssumption DEF TypeOK
<1>5. Head(c) \in Op /\ c' \in Seq(Op) /\ Len(c') <= ChanCap /\ c = <<Head(c)>> \o c'
  <2> HIDE DEF Op
  <2> QED BY <1>2, <1>4
<1>6. received' \in Seq(Op) /\ received' = received \o <<Head(c)>>
  <2> HIDE DEF Op
  <2> QED BY <1>2, <1>4, <1>5
<1>7. received' \o c' = received \o c
  <2> HIDE DEF Op
  <2> DEFINE h == <<Head(c)>>
  <2>1. h = <<Head(c)>> /\ h \in Seq(Op)
    BY <1>5
  <2> HIDE DEF h
  <2>2. \A x, y, z \in Seq(Op) : (x \o y) \o z = x \o (y \o z)
    BY ConcatAssociative
  <2>3. (received \o h) \o c' = received \o (h \o c')
    BY <1>4, <1>5, <2>1, <2>2, ZenonT(30)
  <2> QED BY <1>5, <1>6, <2>1, <2>3, Zenon
<1>8. StreamInv'
  <2>1. Streams(received, c, unsent)
    BY <1>1, <1>3 DEF StreamInv, Streams
  <2>2. c # <<>> => Streams(received', c', unsent)
    BY <1>7, <2>1, Zenon DEF Streams
  <2>3. UNCHANGED <<log, cfg, walsnap, atOpen>> /\ unsent' = unsent
    BY <1>2 DEF memberVars, scopeVars
  <2> QED BY <1>2, <1>3, <2>2, <2>3, StreamFrame
<1>9. ControlInv'
  BY <1>1, <1>2, <1>3 DEF ControlInv
<1>10. unsent' \in Seq(Op) /\ consumer' \in {"collecting", "done", "exited"}
  BY <1>1, <1>2 DEF TypeOK
<1> QED BY <1>2, <1>3, <1>5, <1>6, <1>8, <1>9, <1>10, ReaderFrame

(* The loop ends when the channel is closed and empty.                      *)
LEMMA CollectEndsStep ==
  ASSUME WalInv, CollectEnds
  PROVE  WalInv'
<1>1. /\ TypeOK /\ ControlInv /\ StreamInv
  BY DEF WalInv
<1>2. /\ tool \in {"closed", "aborted"} /\ Returned /\ Returned' /\ c = <<>> /\ consumer' = "done"
      /\ UNCHANGED <<memberVars, cfg, tool, scopeVars, opened, unsent, atOpen, quiet, c, received>>
  BY DEF CollectEnds, readVars, Returned
<1>3. StreamInv'
  <2>1. tool = "closed" => Streams(received', c', unsent')
    BY <1>1, <1>2 DEF StreamInv, Streams
  <2>2. UNCHANGED <<log, cfg, walsnap, atOpen>>
    BY <1>2 DEF memberVars, scopeVars
  <2>3. CASE tool = "closed"
    BY <1>2, <2>1, <2>2, <2>3, StreamFrame
  <2>4. CASE tool = "aborted"
    BY <1>2, <2>4 DEF StreamInv
  <2> QED BY <1>2, <2>3, <2>4
<1>4. ControlInv'
  BY <1>1, <1>2 DEF ControlInv
<1>5. unsent' \in Seq(Op) /\ received' \in Seq(Op) /\ c' \in Seq(Op) /\ Len(c') <= ChanCap
  BY <1>1, <1>2 DEF TypeOK
<1> QED BY <1>2, <1>3, <1>4, <1>5, ReaderFrame

----------------------------------------------------------------------------
(* The invariant holds at first.                                            *)
LEMMA InitWalInv == Init => WalInv
<1> SUFFICES ASSUME Init PROVE WalInv
  OBVIOUS
<1> USE WalAssumption
<1>1. TypeOK
  <2>1. log \in Seq(Kind) /\ Len(log) = 0 /\ segs \in Seq(Nat) /\ unsent \in Seq(Op)
        /\ received \in Seq(Op) /\ c \in Seq(Op) /\ Len(c) = 0
    <3> HIDE DEF Op
    <3> QED BY DEF Init
  <2>2. cuts \in Seq(Nat) /\ oldest \in 1..Len(cuts)
    BY DEF Init
  <2>3. snaps \subseteq 1..Len(log) /\ writing \in 0..Len(log) /\ listed \subseteq 1..Len(log)
        /\ walsnap \in [Index : 0..Len(log), found : BOOLEAN]
    BY <2>1 DEF Init, none
  <2> QED BY <2>1, <2>2, <2>3 DEF Init, TypeOK
<1>2. MemberInv
  BY <1>1 DEF Init, MemberInv, TypeOK
<1>3. SeenInv /\ OpenInv /\ ControlInv /\ StreamInv
  BY DEF Init, SeenInv, OpenInv, ControlInv, StreamInv, Returned, Scoping
<1> QED BY <1>1, <1>2, <1>3 DEF WalInv

(* Every step of the member, of WalSource, of its goroutine and of the loop *)
(* that collects keeps the invariant.                                       *)
LEMMA NextWalInv == WalInv /\ [Next]_vars => WalInv'
<1> SUFFICES ASSUME WalInv, [Next]_vars PROVE WalInv'
  OBVIOUS
<1>1. CASE Member
  BY <1>1, AppendEntryStep, CutSegmentStep, BeginSnapStep, EndSnapStep, PurgeStep DEF Member
<1>2. CASE ListSegments
  BY <1>2, ListSegmentsStep
<1>3. CASE Setup
  BY <1>3, ListSnapsStep, LoadSnapshotStep, MakeScopeStep, OpenForReadStep, OpenFailsStep DEF Setup
<1>4. CASE Reader
  BY <1>4, ReadAllStep, ReadFailsStep, SendOpStep, EndStreamStep DEF Reader
<1>5. CASE Collector
  BY <1>5, CollectOpStep, CollectEndsStep DEF Collector
<1>6. CASE UNCHANGED vars
  <2>1. UNCHANGED <<log, cuts, oldest, snaps, writing, snapDir, cfg, tool, segs, listed, walsnap, scope,
                    opened, unsent, atOpen, c, consumer, received, quiet>>
    BY <1>6 DEF vars, memberVars, scopeVars, readVars, loopVars
  <2>2. TypeOK' /\ MemberInv'
    BY <2>1, Zenon DEF WalInv, TypeOK, MemberInv, Newest
  <2>3. SeenInv'
    BY <2>1, Zenon DEF WalInv, SeenInv, Scoping, present, Newest, FirstRead, ReadFrom
  <2>4. OpenInv' /\ ControlInv'
    BY <2>1, Zenon DEF WalInv, OpenInv, ControlInv, Returned, Landing
  <2>5. StreamInv'
    <3>1. CASE tool \in {"sending", "closed"}
      <4>1. Streams(received', c', unsent')
        BY <2>1, <3>1, Zenon DEF WalInv, StreamInv, Streams
      <4>2. Returned
        BY <3>1 DEF Returned
      <4> QED BY <2>1, <4>1, <4>2, StreamFrame
    <3>2. CASE tool \notin {"sending", "closed"}
      BY <2>1, <3>2 DEF StreamInv
    <3> QED BY <3>1, <3>2
  <2> QED BY <2>2, <2>3, <2>4, <2>5 DEF WalInv
<1> QED BY <1>1, <1>2, <1>3, <1>4, <1>5, <1>6 DEF Next, Terminated

(* Every state of every behaviour satisfies the invariant.                  *)
THEOREM WalInductive == Spec => []WalInv
<1> QED BY InitWalInv, NextWalInv, PTL DEF Spec

(* Type correctness: in particular a snapshot, the start index and every    *)
(* index that is printed lie in the log, and the channel keeps its bound.   *)
THEOREM WalTypeCorrect == Spec => []TypeOK
<1>1. WalInv => TypeOK
  BY DEF WalInv
<1> QED BY <1>1, WalInductive, PTL

(* If the member does not move after WalSource began, the log can be        *)
(* opened: with or without a snapshot, purging has left the segment that is *)
(* needed.                                                                  *)
THEOREM QuietOpens == Spec => []QuietOpenSucceeds
<1>1. WalInv => QuietOpenSucceeds
  BY DEF WalInv, OpenInv, QuietOpenSucceeds
<1> QED BY <1>1, WalInductive, PTL

(* However the member appends, cuts, saves and purges meanwhile, what       *)
(* CollectWalOpsWithScope returns is what the options select of a gapless   *)
(* stretch of the log, from the entry after the start index to one no       *)
(* earlier than the last there was when the log was opened; and nothing at  *)
(* all if ReadAll failed, from whatever start.                              *)
THEOREM StreamsAreStretches == Spec => []StreamIsStretchOfLog
<1>1. WalInv => StreamIsStretchOfLog
  <2> SUFFICES ASSUME WalInv, consumer = "done" PROVE StreamIsStretchOfLog
    BY DEF StreamIsStretchOfLog
  <2>1. c = <<>> /\ unsent = <<>> /\ received \in Seq(Op) /\ tool \in {"closed", "aborted"}
    BY DEF WalInv, ControlInv, TypeOK
  <2>2. (received \o c) \o unsent = received
    <3> HIDE DEF Op
    <3> QED BY <2>1
  <2>3. CASE tool = "aborted"
    BY <2>3 DEF WalInv, ControlInv, StreamIsStretchOfLog
  <2>4. CASE tool = "closed"
    BY <2>2, <2>4 DEF WalInv, StreamInv, StreamIsStretchOfLog
  <2> QED BY <2>1, <2>3, <2>4
<1> QED BY <1>1, WalInductive, PTL

----------------------------------------------------------------------------
(* The loop over the segments that were listed finds the segment on which   *)
(* etcd's library lands.                                                    *)
LEMMA FirstReadLands ==
  ASSUME TypeOK, MemberInv, segs = present, Landing # {}
  PROVE  FirstRead(walsnap.Index) = Max(Landing) - oldest + 1
<1>1. PICK m : m = Max(Landing)
  OBVIOUS
<1>2. /\ m \in oldest..Len(cuts) /\ cuts[m] <= walsnap.Index
      /\ \A n \in oldest..Len(cuts) : cuts[n] <= walsnap.Index => n <= m
  BY <1>1, LandingFacts
<1>3. /\ cuts \in Seq(Nat) /\ Len(cuts) \in Nat /\ oldest \in 1..Len(cuts) /\ walsnap.Index \in Nat
      /\ Len(log) \in Nat
  BY DEF TypeOK
<1>4. /\ Len(segs) = Len(cuts) - oldest + 1
      /\ \A i \in 1..(Len(cuts) - oldest + 1) : segs[i] = cuts[oldest + i - 1]
  BY <1>3, SMTT(30) DEF present
<1> DEFINE k == m - oldest + 1
           R == {i \in 1..Len(segs) : ReadFrom(i, walsnap.Index)}
<1>5. k \in R
  <2>1. k \in 1..Len(segs)
    BY <1>2, <1>3, <1>4
  <2>2. ASSUME k # Len(segs) PROVE segs[k + 1] > walsnap.Index
    <3> DEFINE n == k + 1
    <3>1. n \in 1..(Len(cuts) - oldest + 1) /\ oldest + n - 1 = m + 1
          /\ m + 1 \in oldest..Len(cuts) /\ m + 1 \in 1..Len(cuts)
      <4>1. k < Len(cuts) - oldest + 1
        BY <1>3, <1>4, <2>1, <2>2
      <4> QED BY <1>2, <1>3, <4>1
    <3> HIDE DEF n
    <3>2. segs[n] = cuts[m + 1] /\ cuts[m + 1] \in Nat
      <4>1. segs[n] = cuts[oldest + n - 1]
        BY <1>4, <3>1, Zenon
      <4>2. segs[n] = cuts[m + 1]
        BY <3>1, <4>1, Zenon
      <4> QED BY <1>3, <3>1, <4>2
    <3>3. ~(cuts[m + 1] <= walsnap.Index)
      BY <1>2, <1>3, <3>1
    <3> QED BY <1>3, <3>2, <3>3 DEF n
  <2> QED BY <2>1, <2>2 DEF ReadFrom
<1>6. ASSUME NEW i \in R PROVE k <= i
  <2> SUFFICES ASSUME i < k PROVE FALSE
    BY <1>2, <1>3
  <2>1. i \in 1..(Len(cuts) - oldest + 1) /\ ReadFrom(i, walsnap.Index)
    BY <1>4
  <2>2. i + 1 \in 1..(Len(cuts) - oldest + 1) /\ oldest + (i + 1) - 1 = oldest + i /\ oldest + i <= m
        /\ oldest + i \in 1..Len(cuts) /\ m \in 1..Len(cuts) /\ i # Len(segs)
    BY <1>2, <1>3, <1>4, <2>1, SMTT(30)
  <2>3. segs[i + 1] = cuts[oldest + i] /\ cuts[oldest + i] \in Nat /\ cuts[m] \in Nat
    <3>1. segs[i + 1] = cuts[oldest + (i + 1) - 1]
      BY <1>4, <2>2, Zenon
    <3>2. segs[i + 1] = cuts[oldest + i]
      BY <2>2, <3>1, Zenon
    <3>3. \A n \in 1..Len(cuts) : cuts[n] \in Nat
      BY <1>3
    <3> QED BY <2>2, <3>2, <3>3, Zenon
  <2>4. cuts[oldest + i] <= cuts[m]
    <3>1. oldest + i = m \/ cuts[oldest + i] < cuts[m]
      BY <1>2, <1>3, <2>2 DEF MemberInv
    <3> QED BY <2>3, <3>1
  <2>5. segs[i + 1] > walsnap.Index
    BY <2>1, <2>2 DEF ReadFrom
  <2>6. cuts[m] <= walsnap.Index /\ walsnap.Index \in Nat
    BY <1>2, <1>3
  <2>7. cuts[oldest + i] > walsnap.Index
    BY <2>3, <2>5, Zenon
  <2> HIDE DEF k, R
  <2>8. \A x, y, z \in Nat : x <= y /\ y <= z => ~(x > z)
    OBVIOUS
  <2> QED BY <2>3, <2>4, <2>6, <2>7, <2>8, Zenon
<1>7. Min(R) = k
  <2>1. R \in SUBSET Int
    BY <1>3, <1>4
  <2> HIDE DEF R, k
  <2> QED BY <1>5, <1>6, <2>1, MinIs
<1> QED BY <1>1, <1>7 DEF FirstRead

(* While the member does not move, the scope that is printed, which the     *)
(* command computes by a loop of its own, is what etcd's library opens.     *)
THEOREM QuietScopes == Spec => []QuietScopeIsTrue
<1>1. WalInv => QuietScopeIsTrue
  <2> SUFFICES ASSUME WalInv, Returned, quiet PROVE ReadIsWhatWasOpened /\ SkippedIsTheRest
    BY DEF QuietScopeIsTrue
  <2>1. TypeOK /\ MemberInv /\ SeenInv /\ OpenInv
    BY DEF WalInv
  <2>2. PICK m : m = Max(Landing)
    OBVIOUS
  <2>3. Landing # {}
    BY <2>1, QuietLands DEF Returned
  <2>4. m \in oldest..Len(cuts) /\ cuts \in Seq(Nat) /\ Len(cuts) \in Nat /\ oldest \in 1..Len(cuts)
    BY <2>1, <2>2, <2>3, LandingFacts DEF TypeOK
  <2>5. opened[1] = m /\ opened[2] = Len(cuts)
    BY <2>1, <2>2 DEF OpenInv
  <2>6. segs = SubSeq(cuts, oldest, Len(cuts))
    BY <2>1 DEF SeenInv, Returned, present
  <2>7. FirstRead(walsnap.Index) = m - oldest + 1
    BY <2>1, <2>2, <2>3, <2>6, FirstReadLands DEF present
  <2>8. /\ scope.ReadSegments = SubSeq(segs, m - oldest + 1, Len(segs))
        /\ scope.SkippedSegments = SubSeq(segs, 1, (m - oldest + 1) - 1)
    BY <2>1, <2>7 DEF SeenInv, Returned, Scoping
  <2>9. Len(segs) = Len(cuts) - oldest + 1
    BY <2>4, <2>6
  <2>10. SubSeq(segs, m - oldest + 1, Len(cuts) - oldest + 1) = SubSeq(cuts, m, Len(cuts))
    <3>1. /\ oldest \in 1..Len(cuts) /\ Len(cuts) \in oldest..Len(cuts)
          /\ m - oldest + 1 \in 1..(Len(cuts) - oldest + 1)
          /\ Len(cuts) - oldest + 1 \in ((m - oldest + 1) - 1)..(Len(cuts) - oldest + 1)
      BY <2>4
    <3>2. oldest + (m - oldest + 1) - 1 = m /\ oldest + (Len(cuts) - oldest + 1) - 1 = Len(cuts)
      BY <2>4
    <3>3. SubSeq(SubSeq(cuts, oldest, Len(cuts)), m - oldest + 1, Len(cuts) - oldest + 1)
          = SubSeq(cuts, oldest + (m - oldest + 1) - 1, oldest + (Len(cuts) - oldest + 1) - 1)
      BY <2>4, <3>1, PartOfPart
    <3> QED BY <2>6, <3>2, <3>3
  <2>11. SubSeq(segs, 1, (m - oldest + 1) - 1) = SubSeq(cuts, oldest, m - 1)
    <3>1. /\ oldest \in 1..Len(cuts) /\ Len(cuts) \in oldest..Len(cuts)
          /\ 1 \in 1..(Len(cuts) - oldest + 1)
          /\ (m - oldest + 1) - 1 \in (1 - 1)..(Len(cuts) - oldest + 1)
      BY <2>4
    <3>2. oldest + 1 - 1 = oldest /\ oldest + ((m - oldest + 1) - 1) - 1 = m - 1
      BY <2>4
    <3>3. SubSeq(SubSeq(cuts, oldest, Len(cuts)), 1, (m - oldest + 1) - 1)
          = SubSeq(cuts, oldest + 1 - 1, oldest + ((m - oldest + 1) - 1) - 1)
      BY <2>4, <3>1, PartOfPart
    <3> QED BY <2>6, <3>2, <3>3
  <2> QED BY <2>5, <2>8, <2>9, <2>10, <2>11 DEF ReadIsWhatWasOpened, SkippedIsTheRest
<1> QED BY <1>1, WalInductive, PTL

----------------------------------------------------------------------------
(* The types of operations and of entries.                                  *)
Others == {"InternalRaftRequest", "Request", "ConfigChange", "Normal", "Unknown"}
TypesOfOps == ToSet(rrFields) \union Others
EntryTypes == {irrType[f] : f \in ToSet(rrFields)} \union Others \union {"IRRUnknown"}

(* The operations that entries decode to.                                   *)
WalOps ==
  [RaftIndex : Nat, OpType : TypesOfOps, Key : Key \union {NoKey}, ValueSizeBytes : Nat,
   IsTxn : BOOLEAN, EntryType : EntryTypes]

(* What is written has a key, and only a put has a value.                   *)
Decoded ==
  {op \in WalOps : /\ op.OpType \in Writes => op.Key # NoKey
                   /\ op.OpType # "Put" => op.ValueSizeBytes = 0}

(* The operations of one entry.                                             *)
DecodedAs(i, type) == {op \in Decoded : op.RaftIndex = i /\ op.EntryType = type}

(* The fields that are looked at.                                           *)
LEMMA FieldsAre ==
  /\ Len(rrFields) = 12
  /\ ToSet(rrFields) =
       { "Range", "Put", "DeleteRange", "Txn", "Compaction", "LeaseGrant", "LeaseRevoke",
         "LeaseCheckpoint", "AuthEnable", "AuthDisable", "AuthUser", "AuthRole" }
  /\ \A m, n \in 1..12 : rrFields[m] = rrFields[n] => m = n
  /\ \A f \in ToSet(rrFields) : \E n \in 1..12 : rrFields[n] = f
<1>1. Len(rrFields) = 12
  BY DEF rrFields
<1>2. /\ rrFields[1] = "Range" /\ rrFields[2] = "Put" /\ rrFields[3] = "DeleteRange"
      /\ rrFields[4] = "Txn" /\ rrFields[5] = "Compaction" /\ rrFields[6] = "LeaseGrant"
      /\ rrFields[7] = "LeaseRevoke" /\ rrFields[8] = "LeaseCheckpoint"
      /\ rrFields[9] = "AuthEnable" /\ rrFields[10] = "AuthDisable"
      /\ rrFields[11] = "AuthUser" /\ rrFields[12] = "AuthRole"
  BY DEF rrFields
<1>3. DOMAIN rrFields = 1..12
  BY DEF rrFields
<1>4. ToSet(rrFields) = {rrFields[n] : n \in 1..12}
  BY <1>3 DEF ToSet
<1>5. \A n \in 1..12 : n = 1 \/ n = 2 \/ n = 3 \/ n = 4 \/ n = 5 \/ n = 6 \/ n = 7 \/ n = 8
                        \/ n = 9 \/ n = 10 \/ n = 11 \/ n = 12
  OBVIOUS
<1>6. \A m, n \in 1..12 : rrFields[m] = rrFields[n] => m = n
  BY <1>2, <1>5
<1>7. ToSet(rrFields) =
       { "Range", "Put", "DeleteRange", "Txn", "Compaction", "LeaseGrant", "LeaseRevoke",
         "LeaseCheckpoint", "AuthEnable", "AuthDisable", "AuthUser", "AuthRole" }
  BY <1>2, <1>4, <1>5
<1>8. \A f \in ToSet(rrFields) : \E n \in 1..12 : rrFields[n] = f
  BY <1>4
<1> QED BY <1>1, <1>6, <1>7, <1>8

(* No type of an entry is the empty string.                                 *)
LEMMA EntryTypesAre ==
  /\ "" \notin EntryTypes
  /\ irrType["Range"] = "IRRRange" /\ irrType["Put"] = "IRRPut"
  /\ irrType["DeleteRange"] = "IRRDeleteRange" /\ irrType["Txn"] = "IRRTxn"
  /\ \A f \in ToSet(rrFields) : irrType[f] \in EntryTypes
<1>1. \A f \in ToSet(rrFields) : irrType[f] # ""
  <2>1. /\ irrType["Range"] # "" /\ irrType["Put"] # "" /\ irrType["DeleteRange"] # ""
        /\ irrType["Txn"] # "" /\ irrType["Compaction"] # "" /\ irrType["LeaseGrant"] # ""
        /\ irrType["LeaseRevoke"] # "" /\ irrType["LeaseCheckpoint"] # ""
        /\ irrType["AuthEnable"] # "" /\ irrType["AuthDisable"] # ""
        /\ irrType["AuthUser"] # "" /\ irrType["AuthRole"] # ""
    BY DEF irrType
  <2> QED BY <2>1, FieldsAre
<1>2. /\ irrType["Range"] = "IRRRange" /\ irrType["Put"] = "IRRPut"
      /\ irrType["DeleteRange"] = "IRRDeleteRange" /\ irrType["Txn"] = "IRRTxn"
  BY DEF irrType
<1> QED BY <1>1, <1>2 DEF EntryTypes, Others

(* The operation of a put, a delete or a range.                             *)
LEMMA ItemOpIs ==
  ASSUME NEW i \in Nat, NEW item \in Item, item.kind \in Writes \union {"Range"},
         NEW type \in EntryTypes, NEW b \in BOOLEAN
  PROVE  LET op == ItemOp(i, item, b, type) IN
           op \in DecodedAs(i, type) /\ op.OpType = item.kind /\ op.Key = item.key
<1>1. /\ item.key \in Key \union {NoKey} /\ item.size \in Nat
      /\ item.kind \in Writes => item.key \in Key
  BY WalSummaryAssumption
<1>2. NoKey \notin Key
  BY WalSummaryAssumption
<1>3. item.kind \in TypesOfOps
  BY FieldsAre DEF Writes, TypesOfOps
<1>4. PICK kind \in TypesOfOps : kind = item.kind
  BY <1>3
<1>5. PICK k \in Key \union {NoKey} : k = item.key
  BY <1>1
<1>6. PICK size \in Nat : size = IF kind = "Put" THEN item.size ELSE 0
  BY <1>1, <1>4
<1> DEFINE op == ItemOp(i, item, b, type)
<1>7. op = [RaftIndex |-> i, OpType |-> kind, Key |-> k, ValueSizeBytes |-> size,
            IsTxn |-> b, EntryType |-> type]
  BY <1>4, <1>5, <1>6 DEF ItemOp, WalOp
<1> HIDE DEF op
<1>8. op \in WalOps /\ op.OpType = kind /\ op.Key = k /\ op.ValueSizeBytes = size
      /\ op.RaftIndex = i /\ op.EntryType = type
  BY <1>7 DEF WalOps
<1>9. kind \in Writes => k # NoKey
  BY <1>1, <1>2, <1>4, <1>5
<1>10. kind # "Put" => size = 0
  BY <1>6
<1>11. op \in DecodedAs(i, type)
  BY <1>8, <1>9, <1>10 DEF DecodedAs, Decoded
<1>12. op \in DecodedAs(i, type) /\ op.OpType = item.kind /\ op.Key = item.key
  BY <1>4, <1>5, <1>8, <1>11
<1> QED BY <1>12 DEF op

(* The operation of an item of a transaction.                               *)
LEMMA TxnItemOpIs ==
  ASSUME NEW i \in Nat, NEW item \in Item, item.kind \in Writes
  PROVE  LET op == ItemOp(i, item, TRUE, TxnEntryType(item)) IN
           op \in DecodedAs(i, "IRRTxn") /\ op.OpType = item.kind /\ op.Key = item.key
<1>1. item.kind \in Writes \union {"Range"}
  OBVIOUS
<1>2. "IRRTxn" \in EntryTypes
  <2>1. "Txn" \in ToSet(rrFields)
    BY FieldsAre
  <2> QED BY <2>1, EntryTypesAre
<1> QED BY <1>1, <1>2, ItemOpIs DEF TxnEntryType

(* An operation that writes nothing.                                        *)
LEMMA OtherOpIs ==
  ASSUME NEW i \in Nat, NEW opType \in TypesOfOps, opType \notin Writes,
         NEW k \in Key \union {NoKey}, NEW b \in BOOLEAN, NEW type \in EntryTypes
  PROVE  LET op == WalOp(i, opType, k, 0, b, type) IN
           op \in DecodedAs(i, type) /\ op.OpType = opType
<1> DEFINE op == WalOp(i, opType, k, 0, b, type)
<1>1. op = [RaftIndex |-> i, OpType |-> opType, Key |-> k, ValueSizeBytes |-> 0,
            IsTxn |-> b, EntryType |-> type]
  BY DEF WalOp
<1> HIDE DEF op
<1>2. op \in WalOps /\ op.OpType = opType /\ op.ValueSizeBytes = 0
      /\ op.RaftIndex = i /\ op.EntryType = type
  BY <1>1 DEF WalOps
<1>3. op \in DecodedAs(i, type)
  BY <1>2 DEF DecodedAs, Decoded
<1> QED BY <1>2, <1>3 DEF op

(* What one element weighs, and what none.                                  *)
LEMMA TotalSmall ==
  ASSUME NEW S, NEW w \in [S -> Nat], NEW x \in S
  PROVE  WeightOf(<<>>, w) = 0 /\ WeightOf(<<x>>, w) = w[x]
<1>1. WeightOf(<<>>, w) = 0
  <2>1. [i \in 1..Len(<<>>) |-> w[<<>>[i]]] = <<>>
    OBVIOUS
  <2> QED BY <2>1, SumEmpty DEF WeightOf
<1>2. WeightOf(<<x>>, w) = w[x]
  <2> DEFINE p == [i \in 1..1 |-> w[x]]
  <2>1. [i \in 1..Len(<<x>>) |-> w[<<x>>[i]]] = [i \in 1..(0 + 1) |-> p[i]]
    OBVIOUS
  <2>2. [i \in 1..0 |-> p[i]] = <<>>
    OBVIOUS
  <2>3. \A i \in 1..(0 + 1) : p[i] \in Nat
    OBVIOUS
  <2>4. p[0 + 1] = w[x] /\ w[x] \in Nat
    OBVIOUS
  <2> HIDE DEF p
  <2>5. FoldLeft(+, 0, [i \in 1..(0 + 1) |-> p[i]]) = FoldLeft(+, 0, [i \in 1..0 |-> p[i]]) + p[0 + 1]
    BY <2>3, SumNext
  <2>6. FoldLeft(+, 0, [i \in 1..(0 + 1) |-> p[i]]) = w[x]
    <3>1. FoldLeft(+, 0, [i \in 1..0 |-> p[i]]) = 0
      BY <2>2, SumEmpty
    <3>2. 0 + w[x] = w[x]
      BY <2>4
    <3> QED BY <2>4, <2>5, <3>1, <3>2, Zenon
  <2> QED BY <2>1, <2>6, Zenon DEF WeightOf
<1> QED BY <1>1, <1>2

(* The operations of a kind on a key.                                       *)
OfKind(k, kind) == {op \in Decoded : op.Key = k /\ op.OpType = kind}

(* They are counted by their weights.                                       *)
LEMMA OpsOnTotal ==
  ASSUME NEW ops \in Seq(Decoded), NEW k, NEW kind
  PROVE  /\ Ones(Decoded, OfKind(k, kind)) \in [Decoded -> Nat]
         /\ Cardinality(OpsOn(k, kind, ops)) = WeightOf(ops, Ones(Decoded, OfKind(k, kind)))
<1>1. OpsOn(k, kind, ops) = {i \in 1..Len(ops) : ops[i] \in OfKind(k, kind)}
  BY DEF OpsOn, CountedAs, OfKind
<1> QED BY <1>1, CountIsTotal

(* The items of a transaction.                                              *)
LEMMA TxnOpsFacts ==
  ASSUME NEW i \in Nat, NEW txn \in [Success : Seq(Item), Failure : Seq(Item)]
  PROVE  /\ decodeTxnOps(i, txn) \in Seq(DecodedAs(i, "IRRTxn"))
         /\ \A k : \A kind \in Writes :
              Cardinality(OpsOn(k, kind, decodeTxnOps(i, txn))) = OnKey(Items(txn), kind, k)
<1> DEFINE D == DecodedAs(i, "IRRTxn")
           items == Items(txn)
           TxnOp(item) == ItemOp(i, item, TRUE, TxnEntryType(item))
           s == [n \in 1..Len(items) |->
                  IF items[n].kind \in Writes THEN <<TxnOp(items[n])>> ELSE <<>>]
<1>1. items \in Seq(Item)
  BY DEF Items
<1>2. decodeTxnOps(i, txn) = FlattenSeq(s)
  BY DEF decodeTxnOps, Writes
<1>3. Len(items) \in Nat /\ \A n \in 1..Len(items) : items[n] \in Item
  BY <1>1
<1> HIDE DEF items
<1>4. \A n \in 1..Len(items) : items[n].kind \in Writes =>
        /\ TxnOp(items[n]) \in D
        /\ TxnOp(items[n]).OpType = items[n].kind /\ TxnOp(items[n]).Key = items[n].key
  BY <1>3, TxnItemOpIs
<1>5. s \in Seq(Seq(D)) /\ Len(s) = Len(items)
  <2>1. \A n \in 1..Len(items) : s[n] \in Seq(D)
    <3>1. SUFFICES ASSUME NEW n \in 1..Len(items) PROVE s[n] \in Seq(D)
      OBVIOUS
    <3>2. CASE items[n].kind \in Writes
      <4>1. s[n] = <<TxnOp(items[n])>> /\ TxnOp(items[n]) \in D
        BY <1>4, <3>2
      <4> HIDE DEF s, D, TxnOp
      <4> QED BY <4>1
    <3>3. CASE items[n].kind \notin Writes
      <4>1. s[n] = <<>>
        BY <3>3
      <4> HIDE DEF s, D
      <4> QED BY <4>1
    <3> QED BY <3>2, <3>3
  <2>2. PICK m \in Nat : m = Len(items)
    BY <1>3
  <2>3. DOMAIN s = 1..m
    BY <2>2
  <2>4. s \in [1..m -> Seq(D)]
    BY <2>1, <2>2
  <2> HIDE DEF s
  <2> QED BY <2>2, <2>4
<1>6. FlattenSeq(s) \in Seq(D)
  <2> HIDE DEF s
  <2> QED BY <1>5, FlattenType
<1>7. ASSUME NEW k, NEW kind \in Writes
      PROVE  Cardinality(OpsOn(k, kind, FlattenSeq(s))) = OnKey(items, kind, k)
  <2> DEFINE Q == OfKind(k, kind)
             w == Ones(Decoded, Q)
             R == {n \in 1..Len(items) : items[n].kind = kind /\ items[n].key = k}
  <2>1. FlattenSeq(s) \in Seq(Decoded) /\ s \in Seq(Seq(Decoded))
    <3>1. D \subseteq Decoded
      BY DEF DecodedAs
    <3>2. \A n \in 1..Len(s) : s[n] \in Seq(Decoded)
      <4>1. ASSUME NEW n \in 1..Len(s) PROVE s[n] \in Seq(Decoded)
        <5>1. s[n] \in Seq(D)
          <6> HIDE DEF s
          <6> QED BY <1>5
        <5> HIDE DEF s, D
        <5> QED BY <3>1, <5>1
      <4> QED BY <4>1
    <3> HIDE DEF s, D
    <3> QED BY <1>5, <1>6, <3>1, <3>2
  <2>2. w \in [Decoded -> Nat] /\ Cardinality(OpsOn(k, kind, FlattenSeq(s))) = WeightOf(FlattenSeq(s), w)
    <3> HIDE DEF s
    <3> QED BY <2>1, OpsOnTotal
  <2>3. \A n \in 1..Len(items) : WeightOf(s[n], w) = IF n \in R THEN 1 ELSE 0
    <3>1. SUFFICES ASSUME NEW n \in 1..Len(items) PROVE WeightOf(s[n], w) = IF n \in R THEN 1 ELSE 0
      OBVIOUS
    <3>2. CASE items[n].kind \in Writes
      <4>1. PICK op \in Decoded : op = TxnOp(items[n])
        BY <1>4, <3>2 DEF DecodedAs
      <4>2. op.OpType = items[n].kind /\ op.Key = items[n].key /\ s[n] = <<op>>
        BY <1>4, <3>2, <4>1
      <4>3. w[op] = IF n \in R THEN 1 ELSE 0
        BY <4>2 DEF Ones, OfKind
      <4> HIDE DEF w, s, R
      <4>4. WeightOf(<<op>>, w) = w[op]
        BY <2>2, TotalSmall
      <4> QED BY <4>2, <4>3, <4>4
    <3>3. CASE items[n].kind \notin Writes
      <4>1. s[n] = <<>> /\ n \notin R
        BY <3>3
      <4>2. WeightOf(<<>>, w) = 0
        <5>1. [j \in 1..Len(<<>>) |-> w[<<>>[j]]] = <<>>
          OBVIOUS
        <5> QED BY <5>1, SumEmpty DEF WeightOf
      <4> HIDE DEF w, s, R
      <4> QED BY <4>1, <4>2
    <3> QED BY <3>2, <3>3
  <2>4. WeightOf(FlattenSeq(s), w) = FoldLeft(+, 0, [n \in 1..Len(s) |-> WeightOf(s[n], w)])
    <3> HIDE DEF s, w
    <3> QED BY <2>1, <2>2, TotalFlatten
  <2>5. [n \in 1..Len(s) |-> WeightOf(s[n], w)] = [n \in 1..Len(items) |-> IF n \in R THEN 1 ELSE 0]
    <3> HIDE DEF s, w, R
    <3> QED BY <1>5, <2>3
  <2>6. FoldLeft(+, 0, [n \in 1..Len(items) |-> IF n \in R THEN 1 ELSE 0])
          = Cardinality({n \in 1..Len(items) : n \in R})
    BY <1>3, SumOfOnes
  <2>7. {n \in 1..Len(items) : n \in R} = R
    OBVIOUS
  <2>8. OnKey(items, kind, k) = Cardinality(R)
    BY DEF OnKey
  <2> HIDE DEF s, w, R, Q
  <2> QED BY <2>2, <2>4, <2>5, <2>6, <2>7, <2>8
<1>8. \A k : \A kind \in Writes :
        Cardinality(OpsOn(k, kind, FlattenSeq(s))) = OnKey(items, kind, k)
  BY <1>7
<1> QED BY <1>2, <1>6, <1>8, Zenon DEF items, D

(* The writes of a kind on a key that an entry carries, nested ones apart.  *)
Carried(e, kind, k) ==
  IF e.form # "IRR" THEN 0
  ELSE IF "Txn" \in DOMAIN e.rr THEN OnKey(Items(e.rr["Txn"]), kind, k)
  ELSE IF kind \in DOMAIN e.rr THEN OnKey(<<e.rr[kind]>>, kind, k)
  ELSE 0

(* One operation, and one item, counts once or not at all.                  *)
LEMMA OneOp ==
  ASSUME NEW op \in Decoded, NEW k, NEW kind
  PROVE  Cardinality(OpsOn(k, kind, <<op>>)) = IF op.Key = k /\ op.OpType = kind THEN 1 ELSE 0
<1> DEFINE w == Ones(Decoded, OfKind(k, kind))
<1>1. <<op>> \in Seq(Decoded)
  OBVIOUS
<1>2. w[op] = IF op.Key = k /\ op.OpType = kind THEN 1 ELSE 0
  BY DEF Ones, OfKind
<1>3. w \in [Decoded -> Nat] /\ Cardinality(OpsOn(k, kind, <<op>>)) = WeightOf(<<op>>, w)
  BY <1>1, OpsOnTotal
<1> HIDE DEF w
<1>4. WeightOf(<<op>>, w) = w[op]
  BY <1>3, TotalSmall
<1> QED BY <1>2, <1>3, <1>4

(* The same of an item.                                                     *)
LEMMA OneItem ==
  ASSUME NEW item, NEW k, NEW kind
  PROVE  OnKey(<<item>>, kind, k) = IF item.kind = kind /\ item.key = k THEN 1 ELSE 0
<1> DEFINE R == {n \in 1..Len(<<item>>) : <<item>>[n].kind = kind /\ <<item>>[n].key = k}
<1>1. R = IF item.kind = kind /\ item.key = k THEN {1} ELSE {}
  OBVIOUS
<1>2. Cardinality({1}) = 1 /\ Cardinality({}) = 0
  BY FS_EmptySet, FS_Singleton
<1> QED BY <1>1, <1>2 DEF OnKey

(* An operation that writes nothing does not count.                         *)
LEMMA OneOther ==
  ASSUME NEW op \in Decoded, op.OpType \notin Writes
  PROVE  \A k : \A kind \in Writes : Cardinality(OpsOn(k, kind, <<op>>)) = 0
<1> SUFFICES ASSUME NEW k, NEW kind \in Writes
             PROVE  Cardinality(OpsOn(k, kind, <<op>>)) = 0
  OBVIOUS
<1> QED BY OneOp

(* What a field decodes to.                                                 *)
LEMMA FieldFacts ==
  ASSUME NEW i \in Nat, NEW e, Proper(e), e.form = "IRR", NEW f \in DOMAIN e.rr
  PROVE  LET d == FieldOps(i, f, e.rr[f]) IN
           /\ d \in Seq(DecodedAs(i, irrType[f])) /\ d # <<>>
           /\ \A k : \A kind \in Writes : Cardinality(OpsOn(k, kind, d)) = Carried(e, kind, k)
<1> DEFINE d == FieldOps(i, f, e.rr[f])
           Good == /\ d \in Seq(DecodedAs(i, irrType[f])) /\ d # <<>>
                   /\ \A k : \A kind \in Writes : Cardinality(OpsOn(k, kind, d)) = Carried(e, kind, k)
<1> SUFFICES Good
  OBVIOUS
<1>1. /\ f \in ToSet(rrFields) /\ \A g \in DOMAIN e.rr : g = f
      /\ f \in Writes \union {"Range"} => e.rr[f] \in Item /\ e.rr[f].kind = f
      /\ f = "Txn" => e.rr[f] \in [Success : Seq(Item), Failure : Seq(Item)]
  BY DEF Proper
<1>2. irrType[f] \in EntryTypes /\ f \in TypesOfOps
  BY <1>1, EntryTypesAre DEF TypesOfOps
<1>3. Writes = {"Put", "DeleteRange"}
  BY DEF Writes
<1>4. CASE f \in Writes \union {"Range"}
  <2>1. d = <<ItemOp(i, e.rr[f], FALSE, irrType[f])>>
    BY <1>3, <1>4 DEF FieldOps
  <2>2. PICK item \in Item : item = e.rr[f] /\ item.kind = f
    BY <1>1, <1>4
  <2> DEFINE op == ItemOp(i, item, FALSE, irrType[f])
  <2>3. op \in DecodedAs(i, irrType[f]) /\ op.OpType = f /\ op.Key = item.key
    BY <1>2, <1>4, <2>2, ItemOpIs
  <2>4. d = <<op>>
    BY <2>1, <2>2
  <2> HIDE DEF op, d
  <2>5. op \in Decoded
    BY <2>3 DEF DecodedAs
  <2>6. d \in Seq(DecodedAs(i, irrType[f])) /\ d # <<>>
    BY <2>3, <2>4
  <2>7. ASSUME NEW k, NEW kind \in Writes
        PROVE  Cardinality(OpsOn(k, kind, d)) = Carried(e, kind, k)
    <3>1. Cardinality(OpsOn(k, kind, d)) = IF item.key = k /\ f = kind THEN 1 ELSE 0
      BY <2>3, <2>4, <2>5, OneOp
    <3>2. "Txn" \notin DOMAIN e.rr
      BY <1>1, <1>3, <1>4
    <3>3. CASE kind = f
      <4>1. Carried(e, kind, k) = OnKey(<<item>>, kind, k)
        BY <2>2, <3>2, <3>3 DEF Carried
      <4>2. OnKey(<<item>>, kind, k) = IF item.kind = kind /\ item.key = k THEN 1 ELSE 0
        BY OneItem
      <4> QED BY <2>2, <3>1, <3>3, <4>1, <4>2
    <3>4. CASE kind # f
      <4>1. kind \notin DOMAIN e.rr
        BY <1>1, <3>4
      <4> QED BY <3>1, <3>2, <3>4, <4>1 DEF Carried
    <3> QED BY <3>3, <3>4
  <2>8. \A k : \A kind \in Writes : Cardinality(OpsOn(k, kind, d)) = Carried(e, kind, k)
    BY <2>7
  <2> QED BY <2>6, <2>8
<1>5. CASE f = "Txn"
  <2> DEFINE txn == e.rr["Txn"]
             t == decodeTxnOps(i, txn)
             p == TxnParent(i, t)
  <2>1. d = <<p>> \o t
    BY <1>5 DEF FieldOps
  <2>2. txn \in [Success : Seq(Item), Failure : Seq(Item)]
    BY <1>1, <1>5
  <2> HIDE DEF txn
  <2>3. /\ t \in Seq(DecodedAs(i, "IRRTxn"))
        /\ \A k : \A kind \in Writes :
              Cardinality(OpsOn(k, kind, t)) = OnKey(Items(txn), kind, k)
    BY <2>2, TxnOpsFacts
  <2>4. irrType[f] = "IRRTxn" /\ "IRRTxn" \in EntryTypes /\ "Txn" \in TypesOfOps
    BY <1>2, <1>5, EntryTypesAre
  <2> HIDE DEF t
  <2>5. (IF t = <<>> THEN NoKey ELSE t[1].Key) \in Key \union {NoKey}
    <3>1. CASE t # <<>>
      <4>1. t[1] \in DecodedAs(i, "IRRTxn")
        BY <2>3, <3>1
      <4>2. t[1] \in WalOps
        BY <4>1 DEF DecodedAs, Decoded
      <4> QED BY <3>1, <4>2 DEF WalOps
    <3> QED BY <3>1
  <2>6. p \in DecodedAs(i, "IRRTxn") /\ p.OpType = "Txn"
    <3>1. PICK k \in Key \union {NoKey} : k = IF t = <<>> THEN NoKey ELSE t[1].Key
      BY <2>5
    <3>2. p = WalOp(i, "Txn", k, 0, TRUE, "IRRTxn")
      BY <3>1 DEF TxnParent
    <3>3. "Txn" \notin Writes
      BY <1>3
    <3>4. PICK type \in EntryTypes : type = "IRRTxn"
      BY <2>4
    <3>5. PICK opType \in TypesOfOps : opType = "Txn"
      BY <2>4
    <3>6. PICK b \in BOOLEAN : b = TRUE
      OBVIOUS
    <3> HIDE DEF p
    <3>7. p = WalOp(i, opType, k, 0, b, type)
      BY <3>2, <3>4, <3>5, <3>6
    <3>8. p \in DecodedAs(i, type) /\ p.OpType = opType
      BY <3>3, <3>5, <3>7, OtherOpIs
    <3> QED BY <3>4, <3>5, <3>8
  <2> HIDE DEF p, d
  <2>7. p \in Decoded /\ \A x \in DecodedAs(i, "IRRTxn") : x \in Decoded
    BY <2>6 DEF DecodedAs
  <2>8. <<p>> \in Seq(DecodedAs(i, "IRRTxn")) /\ <<p>> \in Seq(Decoded)
    BY <2>6, <2>7
  <2>9. t \in Seq(Decoded)
    BY <2>3, <2>7
  <2>10. d \in Seq(DecodedAs(i, irrType[f])) /\ d # <<>> /\ d \in Seq(Decoded)
    <3>1. PICK u \in Seq(DecodedAs(i, "IRRTxn")) : u = <<p>> /\ Len(u) = 1
      BY <2>8
    <3>2. u \o t \in Seq(DecodedAs(i, "IRRTxn")) /\ Len(u \o t) = 1 + Len(t) /\ Len(t) \in Nat
      BY <2>3, <3>1
    <3>3. d = u \o t
      BY <2>1, <3>1
    <3>4. d # <<>>
      BY <3>2, <3>3
    <3>5. d \in Seq(DecodedAs(i, "IRRTxn"))
      BY <3>2, <3>3
    <3> QED BY <2>4, <2>7, <3>4, <3>5
  <2>11. ASSUME NEW k, NEW kind \in Writes
         PROVE  Cardinality(OpsOn(k, kind, d)) = Carried(e, kind, k)
    <3> DEFINE w == Ones(Decoded, OfKind(k, kind))
    <3>1. w \in [Decoded -> Nat]
      BY <2>9, OpsOnTotal
    <3>2. Cardinality(OpsOn(k, kind, d)) = WeightOf(d, w)
      BY <2>10, OpsOnTotal
    <3>3. Cardinality(OpsOn(k, kind, t)) = WeightOf(t, w)
      BY <2>9, OpsOnTotal
    <3>4. Cardinality(OpsOn(k, kind, <<p>>)) = WeightOf(<<p>>, w)
      BY <2>8, OpsOnTotal
    <3>5. Cardinality(OpsOn(k, kind, <<p>>)) = 0
      <4>1. p.OpType \notin Writes
        BY <1>3, <2>6
      <4> QED BY <2>7, <4>1, OneOther
    <3> HIDE DEF w
    <3>6. WeightOf(d, w) = WeightOf(<<p>>, w) + WeightOf(t, w) /\ WeightOf(t, w) \in Nat
      BY <2>1, <2>8, <2>9, <3>1, TotalConcat, TotalType
    <3>7. Carried(e, kind, k) = OnKey(Items(txn), kind, k)
      BY <1>5 DEF Carried, txn
    <3> QED BY <2>3, <3>2, <3>3, <3>4, <3>5, <3>6, <3>7
  <2>12. \A k : \A kind \in Writes : Cardinality(OpsOn(k, kind, d)) = Carried(e, kind, k)
    BY <2>11
  <2> QED BY <2>10, <2>12
<1>6. CASE f \notin Writes \union {"Range", "Txn"}
  <2>1. d = <<KeylessOp(i, f, irrType[f])>>
    BY <1>3, <1>6 DEF FieldOps
  <2>2. NoKey \in Key \union {NoKey} /\ FALSE \in BOOLEAN /\ f \notin Writes
    BY <1>6
  <2> DEFINE op == WalOp(i, f, NoKey, 0, FALSE, irrType[f])
  <2>3. op \in DecodedAs(i, irrType[f]) /\ op.OpType = f
    <3>1. PICK k \in Key \union {NoKey} : k = NoKey
      BY <2>2
    <3>2. PICK type \in EntryTypes : type = irrType[f]
      BY <1>2
    <3>3. f \in TypesOfOps /\ f \notin Writes
      BY <1>2, <2>2
    <3>4. \A b \in BOOLEAN : WalOp(i, f, k, 0, b, type) \in DecodedAs(i, type)
                             /\ WalOp(i, f, k, 0, b, type).OpType = f
      BY <3>3, OtherOpIs
    <3>5. WalOp(i, f, k, 0, FALSE, type) \in DecodedAs(i, type)
          /\ WalOp(i, f, k, 0, FALSE, type).OpType = f
      BY <3>4, Zenon
    <3> QED BY <3>1, <3>2, <3>5
  <2>4. d = <<op>>
    BY <2>1 DEF KeylessOp
  <2> HIDE DEF op, d
  <2>5. op \in Decoded
    BY <2>3 DEF DecodedAs
  <2>6. d \in Seq(DecodedAs(i, irrType[f])) /\ d # <<>>
    BY <2>3, <2>4
  <2>7. \A k : \A kind \in Writes : Cardinality(OpsOn(k, kind, d)) = 0
    BY <2>2, <2>3, <2>4, <2>5, OneOther
  <2>8. \A k : \A kind \in Writes : Carried(e, kind, k) = 0
    <3>1. "Txn" \notin DOMAIN e.rr /\ \A kind \in Writes : kind \notin DOMAIN e.rr
      BY <1>1, <1>6
    <3> QED BY <3>1 DEF Carried
  <2> QED BY <2>6, <2>7, <2>8
<1> QED BY <1>4, <1>5, <1>6

(* What an entry decodes to: operations of one type, with its index.        *)
LEMMA EntryFacts ==
  ASSUME NEW i \in Nat, NEW e, Proper(e)
  PROVE  LET d == decodeEntry(Indexed(i, e)) IN
           /\ \E type \in EntryTypes : d \in Seq(DecodedAs(i, type))
           /\ d # <<>>
           /\ \A k : \A kind \in Writes : Cardinality(OpsOn(k, kind, d)) = Carried(e, kind, k)
<1> DEFINE d == decodeEntry(Indexed(i, e))
           Good == /\ \E type \in EntryTypes : d \in Seq(DecodedAs(i, type))
                   /\ d # <<>>
                   /\ \A k : \A kind \in Writes :
                        Cardinality(OpsOn(k, kind, d)) = Carried(e, kind, k)
<1> SUFFICES Good
  OBVIOUS
<1>1. Indexed(i, e).index = i /\ Indexed(i, e).form = e.form /\ Indexed(i, e).path = e.path
      /\ Indexed(i, e).rr = e.rr
  BY DEF Indexed
<1>2. /\ e.form \in {"IRR", "Request", "ConfigChange", "Normal", "Unknown"}
      /\ e.path \in Key \union {NoKey}
      /\ \A f \in DOMAIN e.rr : f \in ToSet(rrFields) /\ \A g \in DOMAIN e.rr : g = f
  BY DEF Proper
<1>3. ASSUME NEW opType \in TypesOfOps, opType \notin Writes, NEW k \in Key \union {NoKey},
             NEW b \in BOOLEAN, NEW type \in EntryTypes, d = <<WalOp(i, opType, k, 0, b, type)>>,
             \A key : \A kind \in Writes : Carried(e, kind, key) = 0
      PROVE  Good
  <2> DEFINE op == WalOp(i, opType, k, 0, b, type)
  <2>1. op \in DecodedAs(i, type) /\ op.OpType = opType
    BY <1>3, OtherOpIs
  <2>2. d = <<op>>
    BY <1>3
  <2> HIDE DEF op, d
  <2>3. op \in Decoded
    BY <2>1 DEF DecodedAs
  <2>4. d \in Seq(DecodedAs(i, type)) /\ d # <<>>
    BY <2>1, <2>2
  <2>5. \A key : \A kind \in Writes : Cardinality(OpsOn(key, kind, d)) = 0
    BY <1>3, <2>1, <2>2, <2>3, OneOther
  <2> QED BY <1>3, <2>4, <2>5
<1>4. CASE e.form = "IRR" /\ DOMAIN e.rr = {}
  <2>1. d = <<KeylessOp(i, "InternalRaftRequest", "IRRUnknown")>>
    BY <1>1, <1>4 DEF decodeEntry, decodeIRR
  <2>2. \A b \in BOOLEAN : b = FALSE => d = <<WalOp(i, "InternalRaftRequest", NoKey, 0, b, "IRRUnknown")>>
    BY <2>1 DEF KeylessOp
  <2>3. \A key : \A kind \in Writes : Carried(e, kind, key) = 0
    BY <1>4 DEF Carried
  <2>4. "InternalRaftRequest" \in TypesOfOps /\ "InternalRaftRequest" \notin Writes
        /\ NoKey \in Key \union {NoKey} /\ "IRRUnknown" \in EntryTypes
    BY DEF TypesOfOps, Others, Writes, EntryTypes
  <2>5. PICK b \in BOOLEAN : b = FALSE
    OBVIOUS
  <2>6. d = <<WalOp(i, "InternalRaftRequest", NoKey, 0, b, "IRRUnknown")>>
    BY <2>2, <2>5
  <2> HIDE DEF d, Good
  <2> QED BY <1>3, <2>3, <2>4, <2>6
<1>5. CASE e.form = "IRR" /\ DOMAIN e.rr # {}
  <2>1. PICK f \in DOMAIN e.rr : TRUE
    BY <1>5
  <2>2. PICK j \in 1..12 : rrFields[j] = f
    BY <1>2, FieldsAre
  <2> DEFINE D == DecodedAs(i, irrType[f])
             x == FieldOps(i, f, e.rr[f])
             s == [n \in 1..Len(rrFields) |->
                    IF rrFields[n] \in DOMAIN e.rr THEN FieldOps(i, rrFields[n], e.rr[rrFields[n]]) ELSE <<>>]
  <2>3. d = FlattenSeq(s)
    <3>1. ToSet(rrFields) \intersect DOMAIN e.rr # {}
      BY <1>2, <2>1
    <3>2. d = decodeIRR(i, e.rr)
      BY <1>1, <1>5 DEF decodeEntry
    <3> QED BY <3>1, <3>2 DEF decodeIRR
  <2>4. /\ x \in Seq(D) /\ x # <<>>
        /\ \A k : \A kind \in Writes : Cardinality(OpsOn(k, kind, x)) = Carried(e, kind, k)
    BY <1>5, <2>1, FieldFacts
  <2>5. s[j] = x
    BY <2>1, <2>2, FieldsAre
  <2>6. \A n \in 1..12 : n # j => s[n] = <<>>
    <3>1. SUFFICES ASSUME NEW n \in 1..12, n # j PROVE s[n] = <<>>
      OBVIOUS
    <3>2. rrFields[n] # f
      BY <2>2, <3>1, FieldsAre
    <3>3. rrFields[n] \notin DOMAIN e.rr
      BY <1>2, <2>1, <3>2
    <3> QED BY <3>3, FieldsAre
  <2>7. DOMAIN s = 1..12
    BY FieldsAre
  <2>8. s = [n \in 1..12 |-> s[n]]
    BY FieldsAre
  <2> HIDE DEF s, x, D
  <2>9. \A n \in 1..12 : s[n] \in Seq(D)
    <3>1. SUFFICES ASSUME NEW n \in 1..12 PROVE s[n] \in Seq(D)
      OBVIOUS
    <3>2. CASE n = j
      BY <2>4, <2>5, <3>2
    <3>3. CASE n # j
      <4>1. s[n] = <<>>
        BY <2>6, <3>3
      <4>2. <<>> \in Seq(D)
        OBVIOUS
      <4> QED BY <4>1, <4>2, Zenon
    <3> QED BY <3>2, <3>3
  <2>10. s \in Seq(Seq(D)) /\ Len(s) = 12
    <3>1. s \in [1..12 -> Seq(D)]
      BY <2>8, <2>9
    <3>2. \A m \in Nat : \A q \in [1..m -> Seq(D)] : q \in Seq(Seq(D)) /\ Len(q) = m
      OBVIOUS
    <3>3. 12 \in Nat
      OBVIOUS
    <3> QED BY <3>1, <3>2, <3>3, Zenon
  <2>11. FlattenSeq(s) = s[j]
    BY <2>6, <2>10, FlattenOne
  <2>12. irrType[f] \in EntryTypes
    BY <1>2, <2>1, EntryTypesAre
  <2>13. d = x
    BY <2>3, <2>5, <2>11
  <2> HIDE DEF d
  <2> QED BY <2>4, <2>12, <2>13 DEF D
<1>6. CASE e.form = "Request"
  <2>1. \A b \in BOOLEAN : b = FALSE => d = <<WalOp(i, "Request", e.path, 0, b, "Request")>>
    BY <1>1, <1>6 DEF decodeEntry
  <2>2. \A key : \A kind \in Writes : Carried(e, kind, key) = 0
    BY <1>6 DEF Carried
  <2>3. "Request" \in TypesOfOps /\ "Request" \notin Writes
        /\ e.path \in Key \union {NoKey} /\ "Request" \in EntryTypes
    BY <1>2 DEF TypesOfOps, Others, Writes, EntryTypes
  <2>4. PICK b \in BOOLEAN : b = FALSE
    OBVIOUS
  <2>5. d = <<WalOp(i, "Request", e.path, 0, b, "Request")>>
    BY <2>1, <2>4
  <2> HIDE DEF d, Good
  <2> QED BY <1>3, <2>2, <2>3, <2>5
<1>7. CASE e.form \in {"ConfigChange", "Normal", "Unknown"}
  <2>1. \A b \in BOOLEAN : b = FALSE => d = <<WalOp(i, e.form, NoKey, 0, b, e.form)>>
    BY <1>1, <1>7 DEF decodeEntry, KeylessOp
  <2>2. \A key : \A kind \in Writes : Carried(e, kind, key) = 0
    BY <1>7 DEF Carried
  <2>3. e.form \in TypesOfOps /\ e.form \notin Writes
        /\ NoKey \in Key \union {NoKey} /\ e.form \in EntryTypes
    BY <1>7 DEF TypesOfOps, Others, Writes, EntryTypes
  <2>4. PICK b \in BOOLEAN : b = FALSE
    OBVIOUS
  <2>5. d = <<WalOp(i, e.form, NoKey, 0, b, e.form)>>
    BY <2>1, <2>4
  <2> HIDE DEF d, Good
  <2> QED BY <1>3, <2>2, <2>3, <2>5
<1> HIDE DEF Good, d
<1> QED BY <1>2, <1>4, <1>5, <1>6, <1>7

(* The sequences that are logs: the entry at a place has its index.         *)
Logged(es) ==
  /\ es \in Seq({Indexed(i, e) : i \in Nat, e \in Entries})
  /\ \A i \in 1..Len(es) : \E e \in Entries : es[i] = Indexed(i, e)

(* The entries of a log, one by one.                                        *)
LEMMA LoggedFacts ==
  ASSUME NEW es, Logged(es)
  PROVE  /\ Len(es) \in Nat
         /\ \A i \in 1..Len(es) :
              /\ \E type \in EntryTypes : decodeEntry(es[i]) \in Seq(DecodedAs(i, type))
              /\ decodeEntry(es[i]) \in Seq(Decoded) /\ decodeEntry(es[i]) # <<>>
              /\ Proper(es[i])
              /\ \A k : \A kind \in Writes :
                   Cardinality(OpsOn(k, kind, decodeEntry(es[i]))) = Carried(es[i], kind, k)
         /\ [i \in 1..Len(es) |-> decodeEntry(es[i])] \in Seq(Seq(Decoded))
         /\ decodeLog(es) \in Seq(Decoded)
<1>1. Len(es) \in Nat
  BY DEF Logged
<1>2. ASSUME NEW i \in 1..Len(es)
      PROVE  /\ \E type \in EntryTypes : decodeEntry(es[i]) \in Seq(DecodedAs(i, type))
             /\ decodeEntry(es[i]) \in Seq(Decoded) /\ decodeEntry(es[i]) # <<>>
             /\ Proper(es[i])
             /\ \A k : \A kind \in Writes :
                  Cardinality(OpsOn(k, kind, decodeEntry(es[i]))) = Carried(es[i], kind, k)
  <2>1. PICK e \in Entries : es[i] = Indexed(i, e)
    BY DEF Logged
  <2>2. Proper(e) /\ i \in Nat
    BY <1>1, WalSummaryAssumption
  <2> DEFINE d == decodeEntry(es[i])
  <2>3. /\ \E type \in EntryTypes : d \in Seq(DecodedAs(i, type))
        /\ d # <<>>
        /\ \A k : \A kind \in Writes : Cardinality(OpsOn(k, kind, d)) = Carried(e, kind, k)
    BY <2>1, <2>2, EntryFacts
  <2>4. es[i].form = e.form /\ es[i].path = e.path /\ es[i].rr = e.rr
    BY <2>1 DEF Indexed
  <2>5. Proper(es[i]) /\ \A k : \A kind \in Writes : Carried(es[i], kind, k) = Carried(e, kind, k)
    BY <2>2, <2>4 DEF Proper, Carried
  <2> HIDE DEF d
  <2>6. d \in Seq(Decoded)
    <3>1. PICK type \in EntryTypes : d \in Seq(DecodedAs(i, type))
      BY <2>3
    <3>2. \A x \in DecodedAs(i, type) : x \in Decoded
      BY DEF DecodedAs
    <3> QED BY <3>1, <3>2
  <2> QED BY <2>3, <2>5, <2>6 DEF d
<1>3. [i \in 1..Len(es) |-> decodeEntry(es[i])] \in Seq(Seq(Decoded))
  <2>1. PICK n \in Nat : n = Len(es)
    BY <1>1
  <2>2. \A i \in 1..n : decodeEntry(es[i]) \in Seq(Decoded)
    BY <1>2, <2>1
  <2>3. [i \in 1..n |-> decodeEntry(es[i])] \in Seq(Seq(Decoded))
    BY <2>2
  <2> QED BY <2>1, <2>3
<1>4. decodeLog(es) \in Seq(Decoded)
  BY <1>3, FlattenType DEF decodeLog
<1> QED BY <1>1, <1>2, <1>3, <1>4

(* The operations on a key are counted entry by entry.                      *)
LEMMA LogCounts ==
  ASSUME NEW es, Logged(es), NEW k, NEW kind \in Writes
  PROVE  Cardinality(OpsOn(k, kind, decodeLog(es)))
           = FoldLeft(+, 0, [n \in 1..Len(es) |-> Carried(es[n], kind, k)])
<1> DEFINE s == [n \in 1..Len(es) |-> decodeEntry(es[n])]
           w == Ones(Decoded, OfKind(k, kind))
<1>1. s \in Seq(Seq(Decoded)) /\ decodeLog(es) = FlattenSeq(s) /\ decodeLog(es) \in Seq(Decoded)
  BY LoggedFacts DEF decodeLog
<1>2. Len(s) = Len(es)
  <2>1. Len(es) \in Nat /\ DOMAIN s = 1..Len(es)
    BY LoggedFacts
  <2> HIDE DEF s
  <2> QED BY <1>1, <2>1
<1>3. w \in [Decoded -> Nat] /\ Cardinality(OpsOn(k, kind, decodeLog(es))) = WeightOf(decodeLog(es), w)
  BY <1>1, OpsOnTotal
<1>4. \A n \in 1..Len(es) : WeightOf(s[n], w) = Carried(es[n], kind, k)
  <2>1. SUFFICES ASSUME NEW n \in 1..Len(es) PROVE WeightOf(s[n], w) = Carried(es[n], kind, k)
    OBVIOUS
  <2>2. /\ s[n] = decodeEntry(es[n]) /\ decodeEntry(es[n]) \in Seq(Decoded)
        /\ Cardinality(OpsOn(k, kind, decodeEntry(es[n]))) = Carried(es[n], kind, k)
    BY LoggedFacts
  <2>3. Cardinality(OpsOn(k, kind, decodeEntry(es[n]))) = WeightOf(decodeEntry(es[n]), w)
    BY <2>2, OpsOnTotal
  <2> HIDE DEF s, w
  <2> QED BY <2>2, <2>3
<1> HIDE DEF s, w
<1>5. WeightOf(FlattenSeq(s), w) = FoldLeft(+, 0, [n \in 1..Len(s) |-> WeightOf(s[n], w)])
  BY <1>1, <1>3, TotalFlatten
<1>6. [n \in 1..Len(s) |-> WeightOf(s[n], w)] = [n \in 1..Len(es) |-> Carried(es[n], kind, k)]
  BY <1>2, <1>4
<1> QED BY <1>1, <1>3, <1>5, <1>6

(* The writes of a kind on a key are counted by their weights.              *)
Onto(kind, k) == {item \in Item : item.kind = kind /\ item.key = k}

LEMMA OnKeyTotal ==
  ASSUME NEW items \in Seq(Item), NEW k, NEW kind
  PROVE  /\ Ones(Item, Onto(kind, k)) \in [Item -> Nat]
         /\ OnKey(items, kind, k) = WeightOf(items, Ones(Item, Onto(kind, k)))
         /\ OnKey(items, kind, k) \in Nat
<1>1. {n \in 1..Len(items) : items[n].kind = kind /\ items[n].key = k}
        = {n \in 1..Len(items) : items[n] \in Onto(kind, k)}
  BY DEF Onto
<1>2. /\ Ones(Item, Onto(kind, k)) \in [Item -> Nat]
      /\ OnKey(items, kind, k) = WeightOf(items, Ones(Item, Onto(kind, k)))
  BY <1>1, CountIsTotal DEF OnKey
<1> QED BY <1>2, TotalType

(* A branch carries no more writes than both branches together.             *)
LEMMA OnBranches ==
  ASSUME NEW s \in Seq(Item), NEW t \in Seq(Item), NEW k, NEW kind
  PROVE  /\ OnKey(s \o t, kind, k) \in Nat
         /\ OnKey(s, kind, k) \in Nat /\ OnKey(s, kind, k) <= OnKey(s \o t, kind, k)
         /\ OnKey(t, kind, k) \in Nat /\ OnKey(t, kind, k) <= OnKey(s \o t, kind, k)
<1> DEFINE w == Ones(Item, Onto(kind, k))
           u == s \o t
<1>1. u \in Seq(Item)
  OBVIOUS
<1>2. w \in [Item -> Nat] /\ OnKey(s, kind, k) = WeightOf(s, w) /\ OnKey(t, kind, k) = WeightOf(t, w)
      /\ OnKey(s, kind, k) \in Nat /\ OnKey(t, kind, k) \in Nat
  BY OnKeyTotal
<1> HIDE DEF u
<1>3. OnKey(u, kind, k) = WeightOf(u, w) /\ OnKey(u, kind, k) \in Nat
  BY <1>1, OnKeyTotal
<1> HIDE DEF w
<1>4. WeightOf(u, w) = WeightOf(s, w) + WeightOf(t, w)
  BY <1>2, TotalConcat DEF u
<1>5. OnKey(u, kind, k) = OnKey(s, kind, k) + OnKey(t, kind, k)
  BY <1>2, <1>3, <1>4
<1>6. OnKey(s, kind, k) <= OnKey(u, kind, k) /\ OnKey(t, kind, k) <= OnKey(u, kind, k)
  BY <1>2, <1>5
<1> QED BY <1>2, <1>3, <1>6 DEF u

(* Without nested transactions there is nothing to choose and nothing to    *)
(* look into.                                                               *)
LEMMA FlatItems ==
  ASSUME NEW items \in Seq(Item), \A n \in 1..Len(items) : items[n].kind # "Txn"
  PROVE  AllItems(items) = items /\ \A r \in Flattenings(items) : r = items
<1> DEFINE one == [n \in 1..Len(items) |-> <<items[n]>>]
           choices(n) == IF items[n].kind = "Txn" THEN Branches(items[n]) ELSE {<<items[n]>>}
<1>1. FlattenSeq(one) = items
  BY FlattenSingletons
<1>2. AllItems(items) = FlattenSeq(one)
  <2>1. [n \in 1..Len(items) |->
           IF items[n].kind = "Txn" THEN items[n].Success \o items[n].Failure ELSE <<items[n]>>] = one
    OBVIOUS
  <2> QED BY <2>1, Zenon DEF AllItems
<1>3. ASSUME NEW r \in Flattenings(items) PROVE r = items
  <2> DEFINE all == UNION {choices(n) : n \in 1..Len(items)}
             S == {s \in [1..Len(items) -> all] : \A n \in 1..Len(items) : s[n] \in choices(n)}
  <2>1. r \in {FlattenSeq(s) : s \in S}
    BY <1>3, Zenon DEF Flattenings
  <2>2. PICK s \in S : r = FlattenSeq(s)
    BY <2>1
  <2> HIDE DEF all
  <2>3. s \in [1..Len(items) -> all] /\ \A n \in 1..Len(items) : s[n] \in choices(n)
    BY <2>2
  <2>4. \A n \in 1..Len(items) : s[n] = <<items[n]>>
    BY <2>3
  <2>5. s = one
    BY <2>3, <2>4
  <2> QED BY <1>1, <2>2, <2>5
<1> QED BY <1>1, <1>2, <1>3

(* Two sequences without nested transactions.                               *)
LEMMA FlatBranches ==
  ASSUME NEW s \in Seq(Item), NEW t \in Seq(Item),
         \A item \in ToSet(s \o t) : item.kind # "Txn"
  PROVE  /\ \A n \in 1..Len(s) : s[n].kind # "Txn"
         /\ \A n \in 1..Len(t) : t[n].kind # "Txn"
         /\ \A n \in 1..Len(s \o t) : (s \o t)[n].kind # "Txn"
<1>1. ToSet(s \o t) = {(s \o t)[n] : n \in DOMAIN (s \o t)}
  BY DEF ToSet
<1> DEFINE u == s \o t
<1>2. PICK l \in Nat : l = Len(s)
  OBVIOUS
<1>3. PICK m \in Nat : m = Len(t)
  OBVIOUS
<1>4. /\ u \in Seq(Item) /\ Len(u) = l + m
      /\ \A n \in 1..(l + m) : u[n] = IF n <= l THEN s[n] ELSE t[n - l]
  BY <1>2, <1>3, ConcatIs
<1> HIDE DEF u
<1>5. \A n \in 1..(l + m) : u[n].kind # "Txn"
  <2>1. DOMAIN u = 1..(l + m)
    BY <1>4
  <2>2. \A n \in 1..(l + m) : u[n] \in ToSet(u)
    BY <2>1 DEF ToSet
  <2> QED BY <2>2 DEF u
<1>6. ASSUME NEW n \in 1..l PROVE s[n].kind # "Txn"
  <2>1. n \in 1..(l + m) /\ n <= l
    OBVIOUS
  <2> QED BY <1>4, <1>5, <2>1
<1>7. ASSUME NEW n \in 1..m PROVE t[n].kind # "Txn"
  <2>1. l + n \in 1..(l + m) /\ ~(l + n <= l) /\ (l + n) - l = n
    OBVIOUS
  <2> QED BY <1>4, <1>5, <2>1
<1> QED BY <1>2, <1>3, <1>4, <1>5, <1>6, <1>7 DEF u

(* Of an entry without nested transactions, what the log shows lies between *)
(* what was applied and what was written.                                   *)
LEMMA EntryBounds ==
  ASSUME NEW e, Proper(e), NEW requests \in Outcomes(e), NEW k, NEW kind \in Writes,
         "Txn" \in DOMAIN e.rr => \A item \in ToSet(Items(e.rr["Txn"])) : item.kind # "Txn"
  PROVE  /\ OnKey(requests, kind, k) \in Nat /\ Carried(e, kind, k) \in Nat
         /\ OnKey(Written(e), kind, k) \in Nat
         /\ OnKey(requests, kind, k) <= Carried(e, kind, k)
         /\ Carried(e, kind, k) <= OnKey(Written(e), kind, k)
<1> DEFINE Good ==
         /\ OnKey(requests, kind, k) \in Nat /\ Carried(e, kind, k) \in Nat
         /\ OnKey(Written(e), kind, k) \in Nat
         /\ OnKey(requests, kind, k) <= Carried(e, kind, k)
         /\ Carried(e, kind, k) <= OnKey(Written(e), kind, k)
<1>1. Writes = {"Put", "DeleteRange"}
  BY DEF Writes
<1>2. OnKey(<<>>, kind, k) = 0
  <2>1. {n \in 1..Len(<<>>) : <<>>[n].kind = kind /\ <<>>[n].key = k} = {}
    OBVIOUS
  <2> QED BY <2>1, FS_EmptySet DEF OnKey
<1>3. \A f, g \in DOMAIN e.rr : f = g
  BY DEF Proper
<1>4. CASE "Txn" \in DOMAIN e.rr
  <2> DEFINE txn == e.rr["Txn"]
             s == txn.Success
             t == txn.Failure
             u == s \o t
  <2>1. txn \in [Success : Seq(Item), Failure : Seq(Item)]
    BY <1>4 DEF Proper
  <2>2. s \in Seq(Item) /\ t \in Seq(Item) /\ Items(txn) = u
    BY <2>1 DEF Items
  <2>3. \A item \in ToSet(u) : item.kind # "Txn"
    BY <1>4, <2>2
  <2>14. DOMAIN e.rr = {"Txn"}
    BY <1>3, <1>4
  <2>15. "Put" \notin DOMAIN e.rr /\ "DeleteRange" \notin DOMAIN e.rr
         /\ DOMAIN e.rr \intersect Writes = {}
    BY <1>1, <2>14
  <2>4. Written(e) = AllItems(u) /\ Branches(txn) = {s, t}
    <3>1. Written(e) = AllItems(u)
      BY <1>4, <2>15, Zenon DEF Written
    <3>2. Branches(txn) = {s, t}
      BY DEF Branches
    <3> QED BY <3>1, <3>2
  <2>5. e.form = "IRR" => requests \in UNION {Flattenings(b) : b \in Branches(txn)}
    <3>1. SUFFICES ASSUME e.form = "IRR"
                   PROVE  requests \in UNION {Flattenings(b) : b \in Branches(txn)}
      OBVIOUS
    <3>2. Outcomes(e) = UNION {Flattenings(b) : b \in Branches(txn)}
      BY <1>4, <2>15, <3>1, Zenon DEF Outcomes
    <3> QED BY <3>2
  <2>6. e.form # "IRR" => requests = <<>>
    BY DEF Outcomes
  <2>7. Carried(e, kind, k) = IF e.form = "IRR" THEN OnKey(Items(txn), kind, k) ELSE 0
    BY <1>4 DEF Carried
  <2> HIDE DEF txn, s, t
  <2>8. u \in Seq(Item)
    BY <2>2
  <2>9. /\ \A n \in 1..Len(s) : s[n].kind # "Txn"
        /\ \A n \in 1..Len(t) : t[n].kind # "Txn"
        /\ \A n \in 1..Len(u) : u[n].kind # "Txn"
    BY <2>2, <2>3, FlatBranches
  <2>10. /\ OnKey(u, kind, k) \in Nat
         /\ OnKey(s, kind, k) \in Nat /\ OnKey(s, kind, k) <= OnKey(u, kind, k)
         /\ OnKey(t, kind, k) \in Nat /\ OnKey(t, kind, k) <= OnKey(u, kind, k)
    BY <2>2, OnBranches
  <2> HIDE DEF u
  <2>11. AllItems(u) = u
    BY <2>8, <2>9, FlatItems
  <2>12. CASE e.form = "IRR"
    <3>1. PICK b \in {s, t} : requests \in Flattenings(b)
      BY <2>4, <2>5, <2>12
    <3>2. requests = b
      BY <2>2, <2>9, <3>1, FlatItems
    <3> QED BY <2>2, <2>4, <2>7, <2>10, <2>11, <2>12, <3>1, <3>2
  <2>13. CASE e.form # "IRR"
    BY <1>2, <2>4, <2>6, <2>7, <2>10, <2>11, <2>13
  <2> QED BY <2>12, <2>13
<1>5. CASE "Txn" \notin DOMAIN e.rr /\ DOMAIN e.rr \intersect Writes # {}
  <2>1. PICK f \in Writes : f \in DOMAIN e.rr
    BY <1>5
  <2>2. DOMAIN e.rr = {f}
    BY <1>3, <2>1
  <2>3. Written(e) = <<e.rr[f]>>
    <3>1. CASE f = "Put"
      <4>1. "DeleteRange" \notin DOMAIN e.rr
        BY <2>2, <3>1
      <4> QED BY <1>5, <2>1, <3>1, <4>1 DEF Written
    <3>2. CASE f = "DeleteRange"
      <4>1. "Put" \notin DOMAIN e.rr
        BY <2>2, <3>2
      <4> QED BY <1>5, <2>1, <3>2, <4>1 DEF Written
    <3> QED BY <1>1, <3>1, <3>2
  <2>4. requests = IF e.form = "IRR" THEN <<e.rr[f]>> ELSE <<>>
    <3>1. CASE e.form = "IRR"
      <4>1. requests \in {<<e.rr[g]>> : g \in DOMAIN e.rr}
        BY <1>5, <3>1 DEF Outcomes
      <4> QED BY <2>2, <3>1, <4>1
    <3>2. CASE e.form # "IRR"
      BY <3>2 DEF Outcomes
    <3> QED BY <3>1, <3>2
  <2>5. e.rr[f].kind = f
    BY <2>1 DEF Proper
  <2>6. OnKey(<<e.rr[f]>>, kind, k) = IF e.rr[f].kind = kind /\ e.rr[f].key = k THEN 1 ELSE 0
    BY OneItem
  <2>7. Carried(e, kind, k) = IF e.form # "IRR" THEN 0 ELSE IF kind = f THEN OnKey(<<e.rr[f]>>, kind, k) ELSE 0
    BY <1>5, <2>2 DEF Carried
  <2>8. CASE e.form = "IRR"
    BY <1>2, <2>3, <2>4, <2>5, <2>6, <2>7, <2>8
  <2>9. CASE e.form # "IRR"
    BY <1>2, <2>3, <2>4, <2>5, <2>6, <2>7, <2>9
  <2> QED BY <2>8, <2>9
<1>6. CASE "Txn" \notin DOMAIN e.rr /\ DOMAIN e.rr \intersect Writes = {}
  <2>1. Written(e) = <<>>
    BY <1>1, <1>6 DEF Written
  <2>2. requests = <<>>
    BY <1>6 DEF Outcomes
  <2>3. Carried(e, kind, k) = 0
    BY <1>6 DEF Carried
  <2> QED BY <1>2, <2>1, <2>2, <2>3
<1> QED BY <1>4, <1>5, <1>6

(* The operations that can be read back from a line of the file.            *)
Readable ==
  {op \in [RaftIndex : Nat, OpType : TypesOfOps, Key : Key \union {JSONKey[k] : k \in Key} \union {NoKey},
           ValueSizeBytes : Nat, IsTxn : BOOLEAN, EntryType : EntryTypes] :
     /\ op.OpType \in Writes => op.Key # NoKey
     /\ op.OpType # "Put" => op.ValueSizeBytes = 0}

(* The lines for operations.                                                *)
Lines(ops) == [n \in 1..Len(ops) |-> JSONLine(ops[n])]

(* What a wal-look collects that has read so many entries of a log.         *)
Collected(es, read, types) == WantedOps(types, decodeLog(SubSeq(es, 1, read)))

(* The line of an operation differs from it in the key.                     *)
LEMMA LineFacts ==
  ASSUME NEW op \in Decoded
  PROVE  /\ op \in Readable
         /\ JSONLine(op) \in Readable
         /\ JSONLine(op).RaftIndex = op.RaftIndex /\ JSONLine(op).OpType = op.OpType
         /\ JSONLine(op).ValueSizeBytes = op.ValueSizeBytes
         /\ JSONLine(op).EntryType = op.EntryType
         /\ JSONLine(op).Key = IF op.Key = NoKey THEN NoKey ELSE JSONKey[op.Key]
<1> DEFINE line == JSONLine(op)
           key == IF op.Key = NoKey THEN NoKey ELSE JSONKey[op.Key]
<1>1. /\ op \in WalOps
      /\ op.OpType \in Writes => op.Key # NoKey
      /\ op.OpType # "Put" => op.ValueSizeBytes = 0
  BY DEF Decoded
<1>2. /\ op.RaftIndex \in Nat /\ op.OpType \in TypesOfOps /\ op.Key \in Key \union {NoKey}
      /\ op.ValueSizeBytes \in Nat /\ op.IsTxn \in BOOLEAN /\ op.EntryType \in EntryTypes
  BY <1>1 DEF WalOps
<1>3. key \in {JSONKey[k] : k \in Key} \union {NoKey} /\ (op.Key # NoKey => key # NoKey)
  BY <1>2, WalSummaryAssumption
<1>4. PICK x \in Key \union {JSONKey[k] : k \in Key} \union {NoKey} : x = key
  BY <1>3
<1>5. line = [op EXCEPT !.Key = x]
  BY <1>4 DEF JSONLine
<1>6. line \in [RaftIndex : Nat, OpType : TypesOfOps,
                Key : Key \union {JSONKey[k] : k \in Key} \union {NoKey},
                ValueSizeBytes : Nat, IsTxn : BOOLEAN, EntryType : EntryTypes]
      /\ line.RaftIndex = op.RaftIndex /\ line.OpType = op.OpType
      /\ line.ValueSizeBytes = op.ValueSizeBytes /\ line.EntryType = op.EntryType
      /\ line.Key = x
  <2> HIDE DEF line, key
  <2> QED BY <1>1, <1>2, <1>5 DEF WalOps
<1>7. op \in Readable
  BY <1>1 DEF WalOps, Readable
<1> HIDE DEF line, key
<1>8. line \in Readable
  BY <1>1, <1>3, <1>4, <1>6 DEF Readable
<1>9. line.Key = key
  BY <1>4, <1>6
<1> QED BY <1>6, <1>7, <1>8, <1>9 DEF line, key

(* As many lines as operations.                                             *)
LEMMA LinesFacts ==
  ASSUME NEW ops \in Seq(Decoded)
  PROVE  /\ Lines(ops) \in Seq(Readable) /\ Len(Lines(ops)) = Len(ops)
         /\ \A n \in 1..Len(ops) : Lines(ops)[n] = JSONLine(ops[n]) /\ ops[n] \in Decoded
<1>1. PICK m \in Nat : m = Len(ops)
  OBVIOUS
<1>2. \A n \in 1..m : ops[n] \in Decoded
  BY <1>1
<1>3. \A n \in 1..m : JSONLine(ops[n]) \in Readable
  BY <1>2, LineFacts
<1>4. Lines(ops) = [n \in 1..m |-> JSONLine(ops[n])]
  BY <1>1 DEF Lines
<1>5. Lines(ops) \in Seq(Readable) /\ Len(Lines(ops)) = m
      /\ \A n \in 1..m : Lines(ops)[n] = JSONLine(ops[n])
  BY <1>3, <1>4
<1> QED BY <1>1, <1>2, <1>5

(* The options of a loop that keeps some operations.                        *)
LEMMA WantedType ==
  ASSUME NEW types, NEW ops \in Seq(Decoded)
  PROVE  /\ WantedOps(types, ops) \in Seq(Decoded)
         /\ [n \in 1..Len(ops) |->
               IF types = {} \/ ops[n].EntryType \in types THEN <<ops[n]>> ELSE <<>>]
              \in Seq(Seq(Decoded))
<1> DEFINE s == [n \in 1..Len(ops) |->
                   IF types = {} \/ ops[n].EntryType \in types THEN <<ops[n]>> ELSE <<>>]
<1>1. PICK m \in Nat : m = Len(ops)
  OBVIOUS
<1>2. \A n \in 1..m : s[n] \in Seq(Decoded)
  <2>1. SUFFICES ASSUME NEW n \in 1..m PROVE s[n] \in Seq(Decoded)
    OBVIOUS
  <2>2. ops[n] \in Decoded /\ s[n] \in {<<ops[n]>>, <<>>}
    BY <1>1
  <2> HIDE DEF s
  <2>3. PICK x \in Decoded : x = ops[n]
    BY <2>2
  <2>4. <<x>> \in Seq(Decoded) /\ <<>> \in Seq(Decoded)
    OBVIOUS
  <2> QED BY <2>2, <2>3, <2>4, Zenon
<1>3. s = [n \in 1..m |-> s[n]]
  BY <1>1
<1> HIDE DEF s
<1>4. s \in Seq(Seq(Decoded))
  BY <1>2, <1>3
<1>5. FlattenSeq(s) \in Seq(Decoded)
  BY <1>4, FlattenType
<1> QED BY <1>4, <1>5 DEF WantedOps, s

(* The front of a log is a log.                                             *)
LEMMA LoggedFront ==
  ASSUME NEW es, Logged(es), NEW n \in 0..Len(es)
  PROVE  /\ Logged(SubSeq(es, 1, n)) /\ Len(SubSeq(es, 1, n)) = n
         /\ \A i \in 1..n : SubSeq(es, 1, n)[i] = es[i]
<1> DEFINE S == {Indexed(i, e) : i \in Nat, e \in Entries}
           u == SubSeq(es, 1, n)
<1>1. es \in Seq(S) /\ \A i \in 1..Len(es) : \E e \in Entries : es[i] = Indexed(i, e)
  BY DEF Logged
<1> HIDE DEF S
<1>2. u \in Seq(S) /\ Len(u) = n /\ \A i \in 1..n : u[i] = es[i]
  <2>1. Len(es) \in Nat
    BY <1>1
  <2> QED BY <1>1, <2>1
<1>3. \A i \in 1..n : i \in 1..Len(es)
  BY <1>1
<1> HIDE DEF u
<1>4. \A i \in 1..Len(u) : \E e \in Entries : u[i] = Indexed(i, e)
  BY <1>1, <1>2, <1>3
<1> QED BY <1>2, <1>4 DEF Logged, u, S

(* What is collected are operations.                                        *)
LEMMA CollectedType ==
  ASSUME NEW es, Logged(es), NEW n \in 0..Len(es), NEW types
  PROVE  Collected(es, n, types) \in Seq(Decoded) /\ decodeLog(SubSeq(es, 1, n)) \in Seq(Decoded)
<1>1. Logged(SubSeq(es, 1, n))
  BY LoggedFront
<1>2. decodeLog(SubSeq(es, 1, n)) \in Seq(Decoded)
  BY <1>1, LoggedFacts
<1> QED BY <1>2, WantedType DEF Collected

----------------------------------------------------------------------------
(* The invariant.  The entries and what was applied of them:                *)
LogInv ==
  /\ Logged(raftLog)
  /\ applied \in Seq(UNION {Outcomes(e) : e \in Entries})
  /\ Len(applied) = Len(raftLog)
  /\ \A i \in 1..Len(raftLog) : applied[i] \in Outcomes(raftLog[i])

(* A wal-look that runs holds what is still to be written.                  *)
LookInv ==
  LET all == Collected(raftLog, look.read, look.types) IN
  /\ look \in [pc : {"idle", "collected", "writing"}, unwritten : Seq(Decoded),
               types : EntryTypeArgs \union {{}}, read : 0..Len(raftLog)]
  /\ look.pc = "collected" => look.unwritten = all
  /\ look.pc = "writing" =>
       /\ file.exists /\ ~origin.whole
       /\ origin.read = look.read /\ origin.types = look.types
       /\ Len(file.lines) + Len(look.unwritten) = Len(all)
       /\ \A n \in 1..Len(look.unwritten) : look.unwritten[n] = all[Len(file.lines) + n]

(* The file holds the first lines of what was collected, the whole file     *)
(* all of them.                                                             *)
FileInv ==
  LET all == Collected(raftLog, origin.read, origin.types) IN
  /\ origin \in [read : 0..Len(raftLog), types : EntryTypeArgs \union {{}}, whole : BOOLEAN]
  /\ file \in [exists : BOOLEAN, lines : Seq(Readable)]
  /\ Len(file.lines) <= Len(all)
  /\ \A n \in 1..Len(file.lines) : file.lines[n] = JSONLine(all[n])
  /\ origin.whole => Len(file.lines) = Len(all)

(* A report is one on the file or on the log as they are.                   *)
Reported(ops, source) ==
  \E sortBy \in SortArgs, top \in TopArgs :
    \E stats \in SortWalKeyStats(AggregateWalOps(ops), sortBy) :
      report = <<printWalSummary(ops, ShownRows(stats, top), source, sortBy, top)>>

ReportInv ==
  report # <<>> => Reported(file.lines, "input") \/ Reported(decodeLog(raftLog), "data-dir")

SummaryInv == LogInv /\ LookInv /\ FileInv /\ ReportInv

(* Nothing is decoded from nothing.                                         *)
LEMMA NothingCollected ==
  ASSUME NEW types
  PROVE  /\ Collected(<<>>, 0, types) = <<>>
         /\ Logged(<<>>)
<1>1. SubSeq(<<>>, 1, 0) = <<>>
  BY SubSeqEmpty
<1>2. decodeLog(<<>>) = <<>>
  <2>1. [n \in 1..Len(<<>>) |-> decodeEntry(<<>>[n])] = <<>>
    OBVIOUS
  <2> QED BY <2>1 DEF decodeLog, FlattenSeq
<1>3. WantedOps(types, <<>>) = <<>>
  <2>1. [n \in 1..Len(<<>>) |->
           IF types = {} \/ <<>>[n].EntryType \in types THEN <<<<>>[n]>> ELSE <<>>] = <<>>
    OBVIOUS
  <2> QED BY <2>1 DEF WantedOps, FlattenSeq
<1>4. Logged(<<>>)
  <2> DEFINE S == {Indexed(i, e) : i \in Nat, e \in Entries}
  <2>1. <<>> \in Seq(S) /\ \A i \in 1..Len(<<>>) : FALSE
    <3> HIDE DEF S
    <3> QED OBVIOUS
  <2> QED BY <2>1 DEF Logged
<1> QED BY <1>1, <1>2, <1>3, <1>4 DEF Collected

(* The invariant holds at first.                                            *)
LEMMA WalInvAtFirst == SummaryInit => SummaryInv
<1> SUFFICES ASSUME SummaryInit PROVE SummaryInv
  OBVIOUS
<1>1. /\ raftLog = <<>> /\ applied = <<>>
      /\ file = [exists |-> FALSE, lines |-> <<>>]
      /\ look = [pc |-> "idle", unwritten |-> <<>>, types |-> {}, read |-> 0]
      /\ origin = [read |-> 0, types |-> {}, whole |-> FALSE]
      /\ report = <<>>
  BY DEF SummaryInit, Idle
<1>2. LogInv
  <2>1. <<>> \in Seq(UNION {Outcomes(e) : e \in Entries}) /\ Len(<<>>) = 0
    OBVIOUS
  <2> QED BY <1>1, <2>1, NothingCollected DEF LogInv
<1>3. Collected(raftLog, 0, {}) = <<>> /\ Len(raftLog) = 0 /\ 0 \in 0..0
  BY <1>1, NothingCollected
<1>4. <<>> \in Seq(Decoded) /\ <<>> \in Seq(Readable) /\ Len(<<>>) = 0
  OBVIOUS
<1>5. {} \in EntryTypeArgs \union {{}}
  OBVIOUS
<1>6. LookInv
  <2>1. PICK u \in Seq(Decoded) : u = <<>>
    BY <1>4
  <2>2. PICK t \in EntryTypeArgs \union {{}} : t = {}
    BY <1>5
  <2>3. PICK r \in 0..Len(raftLog) : r = 0
    BY <1>3
  <2>4. look = [pc |-> "idle", unwritten |-> u, types |-> t, read |-> r]
    BY <1>1, <2>1, <2>2, <2>3
  <2>5. look \in [pc : {"idle", "collected", "writing"}, unwritten : Seq(Decoded),
                  types : EntryTypeArgs \union {{}}, read : 0..Len(raftLog)]
        /\ look.pc = "idle"
    BY <2>4
  <2> QED BY <2>5 DEF LookInv
<1>7. FileInv
  <2>1. PICK u \in Seq(Readable) : u = <<>>
    BY <1>4
  <2>2. PICK t \in EntryTypeArgs \union {{}} : t = {}
    BY <1>5
  <2>3. PICK r \in 0..Len(raftLog) : r = 0
    BY <1>3
  <2>4. PICK b \in BOOLEAN : b = FALSE
    OBVIOUS
  <2>5. origin = [read |-> r, types |-> t, whole |-> b] /\ file = [exists |-> b, lines |-> u]
    BY <1>1, <2>1, <2>2, <2>3, <2>4
  <2>6. /\ origin \in [read : 0..Len(raftLog), types : EntryTypeArgs \union {{}}, whole : BOOLEAN]
        /\ origin.read = r /\ origin.types = t /\ origin.whole = b
        /\ file \in [exists : BOOLEAN, lines : Seq(Readable)] /\ file.lines = u
    BY <2>5
  <2>7. Collected(raftLog, origin.read, origin.types) = <<>> /\ file.lines = <<>>
    BY <1>3, <2>1, <2>2, <2>3, <2>6
  <2>8. Len(file.lines) = 0 /\ Len(Collected(raftLog, origin.read, origin.types)) = 0
    BY <1>4, <2>7
  <2> QED BY <2>6, <2>8 DEF FileInv
<1>8. ReportInv
  BY <1>1 DEF ReportInv
<1> QED BY <1>2, <1>6, <1>7, <1>8 DEF SummaryInv

(* What the wal-looks have collected does not change when entries follow.   *)
LEMMA CollectedBefore ==
  ASSUME NEW S, NEW es \in Seq(S), NEW x \in S, NEW n \in 0..Len(es), NEW types
  PROVE  Collected(Append(es, x), n, types) = Collected(es, n, types)
<1> DEFINE u == SubSeq(es, 1, n)
           v == SubSeq(Append(es, x), 1, n)
<1>1. Len(es) \in Nat /\ n \in Nat /\ n <= Len(es)
  OBVIOUS
<1>2. u \in Seq(S) /\ Len(u) = n /\ \A i \in 1..n : u[i] = es[i]
  BY <1>1
<1>3. Append(es, x) \in Seq(S) /\ Len(Append(es, x)) = Len(es) + 1
      /\ \A i \in 1..Len(es) : Append(es, x)[i] = es[i]
  OBVIOUS
<1>4. v \in Seq(S) /\ Len(v) = n /\ \A i \in 1..n : v[i] = es[i]
  <2>1. PICK t \in Seq(S) : t = Append(es, x)
    BY <1>3
  <2>2. SubSeq(t, 1, n) \in Seq(S) /\ Len(SubSeq(t, 1, n)) = n
        /\ \A i \in 1..n : SubSeq(t, 1, n)[i] = t[i]
    BY <1>1, <1>3, <2>1
  <2> QED BY <1>1, <1>3, <2>1, <2>2
<1>5. u = v
  <2> HIDE DEF u, v
  <2> QED BY <1>2, <1>4, SeqEqual
<1> QED BY <1>5 DEF Collected

(* The member appends.                                                      *)
LEMMA MemberKeepsInv ==
  ASSUME SummaryInv, NEW e \in Entries, MemberAppends(e)
  PROVE  SummaryInv'
<1> DEFINE S == {Indexed(i, x) : i \in Nat, x \in Entries}
           R == UNION {Outcomes(x) : x \in Entries}
           n == Len(raftLog)
           new == Indexed(n + 1, e)
<1>1. LogInv /\ LookInv /\ FileInv /\ report = <<>>
  BY DEF SummaryInv, MemberAppends
<1>2. /\ raftLog \in Seq(S) /\ \A i \in 1..n : \E x \in Entries : raftLog[i] = Indexed(i, x)
      /\ applied \in Seq(R) /\ Len(applied) = n
      /\ \A i \in 1..n : applied[i] \in Outcomes(raftLog[i])
  BY <1>1 DEF LogInv, Logged
<1>3. n \in Nat
  BY <1>2
<1>4. PICK r \in Outcomes(e) : applied' = Append(applied, r)
  BY DEF MemberAppends
<1>5. /\ raftLog' = Append(raftLog, new)
      /\ file' = file /\ look' = look /\ origin' = origin /\ report' = report
  BY DEF MemberAppends, lookVars
<1>6. new \in S /\ r \in R
  <2>1. n + 1 \in Nat
    BY <1>3
  <2>2. new \in S
    BY <2>1
  <2>3. r \in R
    OBVIOUS
  <2> QED BY <2>2, <2>3
<1>7. Outcomes(new) = Outcomes(e)
  <2>1. new.form = e.form /\ new.rr = e.rr
    BY DEF Indexed
  <2> QED BY <2>1, Zenon DEF Outcomes
<1>8. new = Indexed(n + 1, e)
  OBVIOUS
<1> HIDE DEF S, R, new
<1>9. /\ raftLog' \in Seq(S) /\ Len(raftLog') = n + 1 /\ raftLog'[n + 1] = new
      /\ \A i \in 1..n : raftLog'[i] = raftLog[i]
  BY <1>2, <1>3, <1>5, <1>6
<1>10. /\ applied' \in Seq(R) /\ Len(applied') = n + 1 /\ applied'[n + 1] = r
       /\ \A i \in 1..n : applied'[i] = applied[i]
  BY <1>2, <1>3, <1>4, <1>6
<1>11. \A i \in 1..(n + 1) : i \in 1..n \/ i = n + 1
  BY <1>3
<1>12. LogInv'
  <2>1. \A i \in 1..(n + 1) : \E x \in Entries : raftLog'[i] = Indexed(i, x)
    BY <1>2, <1>8, <1>9, <1>11
  <2>2. \A i \in 1..(n + 1) : applied'[i] \in Outcomes(raftLog'[i])
    BY <1>2, <1>7, <1>9, <1>10, <1>11
  <2> QED BY <1>9, <1>10, <2>1, <2>2 DEF LogInv, Logged, S, R
<1>13. \A m \in 0..n : \A types : Collected(raftLog', m, types) = Collected(raftLog, m, types)
  BY <1>2, <1>5, <1>6, CollectedBefore
<1>14. LookInv'
  <2>1. look.read \in 0..n
    BY <1>1 DEF LookInv
  <2>2. Collected(raftLog', look.read, look.types) = Collected(raftLog, look.read, look.types)
    BY <1>13, <2>1
  <2>3. 0..n \subseteq 0..(n + 1)
    BY <1>3
  <2>4. look \in [pc : {"idle", "collected", "writing"}, unwritten : Seq(Decoded),
                  types : EntryTypeArgs \union {{}}, read : 0..(n + 1)]
    BY <1>1, <2>3 DEF LookInv
  <2>5. Len(raftLog') = n + 1
    BY <1>9
  <2> HIDE DEF n
  <2> QED BY <1>1, <1>5, <2>2, <2>4, <2>5 DEF LookInv
<1>15. FileInv'
  <2>1. origin.read \in 0..n
    BY <1>1 DEF FileInv
  <2>2. Collected(raftLog', origin.read, origin.types) = Collected(raftLog, origin.read, origin.types)
    BY <1>13, <2>1
  <2>3. 0..n \subseteq 0..(n + 1)
    BY <1>3
  <2>4. origin \in [read : 0..(n + 1), types : EntryTypeArgs \union {{}}, whole : BOOLEAN]
    BY <1>1, <2>3 DEF FileInv
  <2>5. Len(raftLog') = n + 1
    BY <1>9
  <2> HIDE DEF n
  <2> QED BY <1>1, <1>5, <2>2, <2>4, <2>5 DEF FileInv
<1>16. ReportInv'
  BY <1>1, <1>5 DEF ReportInv
<1> QED BY <1>12, <1>14, <1>15, <1>16 DEF SummaryInv

(* A wal-look collects.                                                     *)
LEMMA CollectsKeepsInv ==
  ASSUME SummaryInv, NEW types \in EntryTypeArgs, LookCollects(types)
  PROVE  SummaryInv'
<1>1. LogInv /\ LookInv /\ FileInv /\ report = <<>>
  BY DEF SummaryInv, LookCollects
<1> DEFINE n == Len(raftLog)
           all == WantedOps(types, decodeLog(raftLog))
<1>2. /\ look' = [pc |-> "collected", types |-> types, read |-> n, unwritten |-> all]
      /\ raftLog' = raftLog /\ applied' = applied /\ file' = file /\ origin' = origin
      /\ report' = report
  BY DEF LookCollects
<1>3. Logged(raftLog) /\ n \in Nat
  BY <1>1 DEF LogInv, Logged
<1>4. SubSeq(raftLog, 1, n) = raftLog
  BY <1>3, SubSeqFull DEF Logged
<1>5. Collected(raftLog, n, types) = all /\ all \in Seq(Decoded)
  <2>1. n \in 0..n
    BY <1>3
  <2>2. Collected(raftLog, n, types) \in Seq(Decoded)
    BY <1>3, <2>1, CollectedType
  <2>3. Collected(raftLog, n, types) = all
    BY <1>4 DEF Collected
  <2> QED BY <2>2, <2>3
<1> HIDE DEF all
<1>6. LookInv'
  <2>1. PICK m \in 0..n : m = n
    BY <1>3
  <2>2. PICK t \in EntryTypeArgs \union {{}} : t = types
    OBVIOUS
  <2>3. PICK u \in Seq(Decoded) : u = all
    BY <1>5
  <2>4. look' = [pc |-> "collected", types |-> t, read |-> m, unwritten |-> u]
    BY <1>2, <2>1, <2>2, <2>3
  <2>5. /\ look' \in [pc : {"idle", "collected", "writing"}, unwritten : Seq(Decoded),
                      types : EntryTypeArgs \union {{}}, read : 0..n]
        /\ look'.pc = "collected" /\ look'.read = m /\ look'.types = t /\ look'.unwritten = u
    BY <2>4
  <2>6. look'.unwritten = Collected(raftLog, look'.read, look'.types)
    BY <1>5, <2>1, <2>2, <2>3, <2>5
  <2> HIDE DEF n
  <2> QED BY <1>2, <2>5, <2>6 DEF LookInv, n
<1> QED BY <1>1, <1>2, <1>6 DEF SummaryInv, LogInv, FileInv, ReportInv

(* The output file is opened.                                               *)
LEMMA OpensKeepsInv ==
  ASSUME SummaryInv, LookOpens
  PROVE  SummaryInv'
<1> DEFINE R == [pc : {"idle", "collected", "writing"}, unwritten : Seq(Decoded),
                 types : EntryTypeArgs \union {{}}, read : 0..Len(raftLog)]
           all == Collected(raftLog, look.read, look.types)
<1>1. LogInv /\ LookInv /\ FileInv /\ report = <<>>
  BY DEF SummaryInv, LookOpens
<1>2. /\ look.pc = "collected"
      /\ file' = [exists |-> TRUE, lines |-> <<>>]
      /\ origin' = [read |-> look.read, types |-> look.types, whole |-> FALSE]
      /\ look' = [look EXCEPT !.pc = "writing"]
      /\ raftLog' = raftLog /\ applied' = applied /\ report' = report
  BY DEF LookOpens, Opened
<1>3. look \in R /\ look.unwritten = all
  BY <1>1, <1>2 DEF LookInv
<1>4. /\ look' \in R /\ look'.pc = "writing" /\ look'.unwritten = look.unwritten
      /\ look'.types = look.types /\ look'.read = look.read
  <2>1. PICK p \in {"idle", "collected", "writing"} : p = "writing"
    OBVIOUS
  <2>2. look' = [look EXCEPT !.pc = p]
    BY <1>2, <2>1
  <2> QED BY <1>3, <2>1, <2>2
<1>5. look.read \in 0..Len(raftLog) /\ look.types \in EntryTypeArgs \union {{}}
      /\ look.unwritten \in Seq(Decoded)
  BY <1>3
<1>6. /\ file'.exists = TRUE /\ file'.lines = <<>> /\ file' \in [exists : BOOLEAN, lines : Seq(Readable)]
  <2>1. \A b \in BOOLEAN : \A u \in Seq(Readable) :
          LET f == [exists |-> b, lines |-> u] IN
            f.exists = b /\ f.lines = u /\ f \in [exists : BOOLEAN, lines : Seq(Readable)]
    OBVIOUS
  <2>2. TRUE \in BOOLEAN /\ <<>> \in Seq(Readable)
    OBVIOUS
  <2> QED BY <1>2, <2>1, <2>2, Zenon
<1>7. /\ origin'.read = look.read /\ origin'.types = look.types /\ origin'.whole = FALSE
      /\ origin' \in [read : 0..Len(raftLog), types : EntryTypeArgs \union {{}}, whole : BOOLEAN]
  <2>1. \A b \in BOOLEAN :
          LET o == [read |-> look.read, types |-> look.types, whole |-> b] IN
            /\ o.read = look.read /\ o.types = look.types /\ o.whole = b
            /\ o \in [read : 0..Len(raftLog), types : EntryTypeArgs \union {{}}, whole : BOOLEAN]
    BY <1>5
  <2>2. FALSE \in BOOLEAN
    OBVIOUS
  <2> QED BY <1>2, <2>1, <2>2, Zenon
<1>8. Len(look.unwritten) \in Nat /\ Len(<<>>) = 0
  BY <1>5
<1> HIDE DEF R, all
<1>9. LookInv'
  <2>1. Collected(raftLog', look'.read, look'.types) = all
    BY <1>2, <1>4 DEF all
  <2>2. Len(file'.lines) = 0
    BY <1>6, <1>8
  <2>3. Len(file'.lines) + Len(look'.unwritten) = Len(all)
    BY <1>3, <1>4, <1>8, <2>2
  <2>4. \A n \in 1..Len(look'.unwritten) : look'.unwritten[n] = all[Len(file'.lines) + n]
    BY <1>3, <1>4, <2>2
  <2> QED BY <1>2, <1>4, <1>6, <1>7, <2>1, <2>3, <2>4 DEF LookInv, R
<1>10. FileInv'
  <2>1. Collected(raftLog', origin'.read, origin'.types) = all
    BY <1>2, <1>7 DEF all
  <2>2. Len(file'.lines) = 0 /\ Len(file'.lines) <= Len(all)
    BY <1>3, <1>6, <1>8
  <2> QED BY <1>2, <1>6, <1>7, <2>1, <2>2 DEF FileInv
<1> QED BY <1>1, <1>2, <1>9, <1>10 DEF SummaryInv, LogInv, ReportInv

(* A line is written.                                                       *)
LEMMA WritesKeepsInv ==
  ASSUME SummaryInv, LookWritesLine
  PROVE  SummaryInv'
<1> DEFINE all == Collected(raftLog, origin.read, origin.types)
           u == look.unwritten
           l == file.lines
           line == JSONLine(Head(u))
<1>1. LogInv /\ LookInv /\ FileInv /\ report = <<>>
  BY DEF SummaryInv, LookWritesLine
<1>2. /\ look.pc = "writing" /\ u # <<>>
      /\ file' = [file EXCEPT !.lines = Append(l, line)]
      /\ look' = [look EXCEPT !.unwritten = Tail(u)]
      /\ raftLog' = raftLog /\ applied' = applied /\ origin' = origin /\ report' = report
  BY DEF LookWritesLine
<1>3. /\ look \in [pc : {"idle", "collected", "writing"}, unwritten : Seq(Decoded),
                   types : EntryTypeArgs \union {{}}, read : 0..Len(raftLog)]
      /\ file.exists /\ ~origin.whole
      /\ origin.read = look.read /\ origin.types = look.types
      /\ Len(l) + Len(u) = Len(all)
      /\ \A n \in 1..Len(u) : u[n] = all[Len(l) + n]
  BY <1>1, <1>2 DEF LookInv
<1>4. /\ origin \in [read : 0..Len(raftLog), types : EntryTypeArgs \union {{}}, whole : BOOLEAN]
      /\ file \in [exists : BOOLEAN, lines : Seq(Readable)]
      /\ \A n \in 1..Len(l) : l[n] = JSONLine(all[n])
  BY <1>1 DEF FileInv
<1>5. u \in Seq(Decoded) /\ l \in Seq(Readable)
  BY <1>3, <1>4
<1> HIDE DEF all, u, l
<1>6. /\ Head(u) = u[1] /\ Head(u) \in Decoded /\ Len(u) \in Nat /\ Len(u) >= 1 /\ Len(l) \in Nat
      /\ Tail(u) \in Seq(Decoded) /\ Len(Tail(u)) = Len(u) - 1
      /\ \A n \in 1..(Len(u) - 1) : Tail(u)[n] = u[n + 1]
  BY <1>2, <1>5
<1>7. line \in Readable
  BY <1>6, LineFacts
<1>8. line = JSONLine(all[Len(l) + 1])
  BY <1>3, <1>6
<1> HIDE DEF line
<1>9. /\ Append(l, line) \in Seq(Readable) /\ Len(Append(l, line)) = Len(l) + 1
      /\ Append(l, line)[Len(l) + 1] = line /\ \A n \in 1..Len(l) : Append(l, line)[n] = l[n]
  BY <1>5, <1>7
<1>10. /\ look' \in [pc : {"idle", "collected", "writing"}, unwritten : Seq(Decoded),
                     types : EntryTypeArgs \union {{}}, read : 0..Len(raftLog)]
       /\ look'.pc = look.pc /\ look'.unwritten = Tail(u)
       /\ look'.types = look.types /\ look'.read = look.read
  BY <1>2, <1>3, <1>6
<1>11. /\ file' \in [exists : BOOLEAN, lines : Seq(Readable)]
       /\ file'.exists = file.exists /\ file'.lines = Append(l, line)
  BY <1>2, <1>4, <1>9
<1>12. Collected(raftLog', origin'.read, origin'.types) = all
       /\ Collected(raftLog', look'.read, look'.types) = all
  BY <1>2, <1>3, <1>10 DEF all
<1>13. LookInv'
  <2>1. Len(file'.lines) + Len(look'.unwritten) = Len(all)
    BY <1>3, <1>6, <1>9, <1>10, <1>11
  <2>2. ASSUME NEW n \in 1..Len(look'.unwritten)
        PROVE  look'.unwritten[n] = all[Len(file'.lines) + n]
    <3>1. n \in 1..(Len(u) - 1) /\ n + 1 \in 1..Len(u)
      BY <1>6, <1>10
    <3>2. look'.unwritten[n] = all[Len(l) + (n + 1)]
      BY <1>3, <1>6, <1>10, <3>1
    <3>3. Len(l) + (n + 1) = Len(file'.lines) + n
      BY <1>6, <1>9, <1>11, <3>1
    <3> QED BY <3>2, <3>3
  <2>3. /\ file'.exists /\ ~origin'.whole
        /\ origin'.read = look'.read /\ origin'.types = look'.types
    BY <1>2, <1>3, <1>10, <1>11
  <2>4. Len(raftLog') = Len(raftLog)
    BY <1>2
  <2> HIDE DEF Collected
  <2>5. look'.pc = "writing"
    BY <1>2, <1>10
  <2> QED BY <1>10, <1>12, <2>1, <2>2, <2>3, <2>4, <2>5 DEF LookInv
<1>14. FileInv'
  <2>1. Len(file'.lines) <= Len(all)
    BY <1>3, <1>6, <1>9, <1>11
  <2>2. ASSUME NEW n \in 1..Len(file'.lines) PROVE file'.lines[n] = JSONLine(all[n])
    <3>1. n \in 1..Len(l) \/ n = Len(l) + 1
      BY <1>6, <1>9, <1>11
    <3> QED BY <1>4, <1>8, <1>9, <1>11, <3>1
  <2> QED BY <1>2, <1>3, <1>4, <1>11, <1>12, <2>1, <2>2 DEF FileInv
<1> QED BY <1>1, <1>2, <1>13, <1>14 DEF SummaryInv, LogInv, ReportInv

(* It ends, or it is interrupted.                                           *)
LEMMA StopsKeepsInv ==
  ASSUME SummaryInv, LookEnds \/ LookInterrupted
  PROVE  SummaryInv'
<1> DEFINE R == [pc : {"idle", "collected", "writing"}, unwritten : Seq(Decoded),
                 types : EntryTypeArgs \union {{}}, read : 0..Len(raftLog)]
           all == Collected(raftLog, origin.read, origin.types)
<1>1. LogInv /\ LookInv /\ FileInv /\ report = <<>>
  BY DEF SummaryInv, LookEnds, LookInterrupted
<1>2. /\ look' = Idle /\ raftLog' = raftLog /\ applied' = applied /\ file' = file
      /\ report' = report
  BY DEF LookEnds, LookInterrupted
<1>3. Len(raftLog) \in Nat
  BY <1>1 DEF LogInv, Logged
<1>4. LookInv'
  <2>1. look' \in R /\ look'.pc = "idle"
    <3>1. {} \in EntryTypeArgs \union {{}} /\ 0 \in 0..Len(raftLog) /\ <<>> \in Seq(Decoded)
      BY <1>3
    <3>2. \A u \in Seq(Decoded) : \A t \in EntryTypeArgs \union {{}} : \A r \in 0..Len(raftLog) :
            [pc |-> "idle", unwritten |-> u, types |-> t, read |-> r] \in R
            /\ [pc |-> "idle", unwritten |-> u, types |-> t, read |-> r].pc = "idle"
      OBVIOUS
    <3>3. Idle \in R /\ Idle.pc = "idle"
      BY <3>1, <3>2, Zenon DEF Idle
    <3> QED BY <1>2, <3>3
  <2> QED BY <1>2, <2>1 DEF LookInv
<1>5. FileInv'
  <2>1. /\ origin \in [read : 0..Len(raftLog), types : EntryTypeArgs \union {{}}, whole : BOOLEAN]
        /\ file \in [exists : BOOLEAN, lines : Seq(Readable)]
        /\ Len(file.lines) <= Len(all)
        /\ \A n \in 1..Len(file.lines) : file.lines[n] = JSONLine(all[n])
        /\ origin.whole => Len(file.lines) = Len(all)
    BY <1>1 DEF FileInv
  <2>2. CASE LookEnds
    <3>1. /\ look.pc = "writing" /\ look.unwritten = <<>>
          /\ origin' = [origin EXCEPT !.whole = TRUE]
      BY <2>2 DEF LookEnds
    <3>2. /\ origin.read = look.read /\ origin.types = look.types
          /\ Len(file.lines) + Len(look.unwritten) = Len(all)
      BY <1>1, <3>1 DEF LookInv
    <3>3. Len(file.lines) \in Nat /\ Len(look.unwritten) = 0
      BY <2>1, <3>1
    <3>4. /\ origin' \in [read : 0..Len(raftLog), types : EntryTypeArgs \union {{}}, whole : BOOLEAN]
          /\ origin'.read = origin.read /\ origin'.types = origin.types
      <4>1. PICK b \in BOOLEAN : b = TRUE
        OBVIOUS
      <4>2. origin' = [origin EXCEPT !.whole = b]
        BY <3>1, <4>1
      <4> QED BY <2>1, <4>2
    <3>5. Len(file.lines) = Len(all)
      BY <3>2, <3>3
    <3> HIDE DEF all
    <3>6. Collected(raftLog', origin'.read, origin'.types) = all
      BY <1>2, <3>4 DEF all
    <3> QED BY <1>2, <2>1, <3>4, <3>5, <3>6 DEF FileInv
  <2>3. CASE LookInterrupted
    <3>1. origin' = origin
      BY <2>3 DEF LookInterrupted
    <3> QED BY <1>1, <1>2, <3>1 DEF FileInv
  <2> QED BY <2>2, <2>3
<1> QED BY <1>1, <1>2, <1>4, <1>5 DEF SummaryInv, LogInv, ReportInv

(* A summary is printed.                                                    *)
LEMMA SummaryKeepsInv ==
  ASSUME SummaryInv, Summarizes
  PROVE  SummaryInv'
<1>1. LogInv /\ LookInv /\ FileInv
  BY DEF SummaryInv
<1>2. PICK sortBy \in SortArgs, top \in TopArgs : SummaryOfLog(sortBy, top) \/ SummaryOfFile(sortBy, top)
  BY DEF Summarizes
<1>3. /\ raftLog' = raftLog /\ applied' = applied /\ file' = file /\ look' = look
      /\ origin' = origin
  BY <1>2 DEF SummaryOfLog, SummaryOfFile, WalSummary, lookVars
<1>4. ReportInv'
  <2>1. CASE SummaryOfLog(sortBy, top)
    <3>1. PICK stats \in SortWalKeyStats(AggregateWalOps(decodeLog(raftLog)), sortBy) :
            report' = <<printWalSummary(decodeLog(raftLog), ShownRows(stats, top), "data-dir", sortBy, top)>>
      BY <2>1 DEF SummaryOfLog, WalSummary
    <3>2. Reported(decodeLog(raftLog), "data-dir")'
      BY <1>3, <3>1, Zenon DEF Reported
    <3> QED BY <3>2 DEF ReportInv
  <2>2. CASE SummaryOfFile(sortBy, top)
    <3>1. PICK stats \in SortWalKeyStats(AggregateWalOps(file.lines), sortBy) :
            report' = <<printWalSummary(file.lines, ShownRows(stats, top), "input", sortBy, top)>>
      BY <2>2 DEF SummaryOfFile, WalSummary
    <3>2. Reported(file.lines, "input")'
      BY <1>3, <3>1, Zenon DEF Reported
    <3> QED BY <3>2 DEF ReportInv
  <2> QED BY <1>2, <2>1, <2>2
<1> QED BY <1>1, <1>3, <1>4 DEF SummaryInv, LogInv, LookInv, FileInv

(* The invariant is inductive, so it holds always.                          *)
THEOREM SummaryInductive == SummarySpec => []SummaryInv
<1>1. SummaryInit => SummaryInv
  BY WalInvAtFirst
<1>2. SummaryInv /\ [SummaryNext]_summaryVars => SummaryInv'
  <2> SUFFICES ASSUME SummaryInv, [SummaryNext]_summaryVars PROVE SummaryInv'
    OBVIOUS
  <2>1. CASE \E e \in Entries : MemberAppends(e)
    BY <2>1, MemberKeepsInv
  <2>2. CASE Look
    BY <2>2, CollectsKeepsInv, OpensKeepsInv, WritesKeepsInv, StopsKeepsInv DEF Look
  <2>3. CASE Summarizes
    BY <2>3, SummaryKeepsInv
  <2>4. CASE Summarized \/ UNCHANGED summaryVars
    <3>1. /\ raftLog' = raftLog /\ applied' = applied /\ file' = file /\ look' = look
          /\ origin' = origin /\ report' = report
      BY <2>4 DEF Summarized, summaryVars, lookVars
    <3>2. LogInv' /\ LookInv' /\ FileInv'
      BY <3>1 DEF SummaryInv, LogInv, LookInv, FileInv
    <3>4. ReportInv'
      BY <3>1, Zenon DEF SummaryInv, ReportInv, Reported
    <3> QED BY <3>2, <3>4 DEF SummaryInv
  <2> QED BY <2>1, <2>2, <2>3, <2>4 DEF SummaryNext
<1> QED BY <1>1, <1>2, PTL DEF SummarySpec

(* The keys that have a row.                                                *)
KeysOf(ops) == {op.Key : op \in ToSet(ops)} \ {NoKey}

(* The values of a function on a finite set are finitely many.              *)
LEMMA FiniteImage ==
  ASSUME NEW S, IsFiniteSet(S), NEW f
  PROVE  IsFiniteSet({f[x] : x \in S})
<1> DEFINE T == {f[x] : x \in S}
           g == [x \in S |-> f[x]]
<1>1. g \in [S -> T] /\ \A y \in T : \E x \in S : g[x] = y
  OBVIOUS
<1> HIDE DEF g, T
<1>2. g \in Surjection(S, T)
  BY <1>1 DEF Surjection
<1>3. IsFiniteSet(T)
  BY <1>2, FS_Surjection
<1> QED BY <1>3 DEF T

(* Keys and their operations.                                               *)
LEMMA KeysOfFacts ==
  ASSUME NEW ops \in Seq(Readable)
  PROVE  /\ IsFiniteSet(KeysOf(ops)) /\ Len(ops) \in Nat
         /\ \A n \in 1..Len(ops) : ops[n] \in Readable /\ ops[n].Key \in KeysOf(ops) \union {NoKey}
         /\ \A k \in KeysOf(ops) : k # NoKey /\ \E n \in 1..Len(ops) : ops[n].Key = k
<1>1. DOMAIN ops = 1..Len(ops) /\ \A n \in 1..Len(ops) : ops[n] \in Readable
  OBVIOUS
<1>2. ToSet(ops) = {ops[n] : n \in 1..Len(ops)}
  BY <1>1 DEF ToSet
<1>3. IsFiniteSet(ToSet(ops))
  BY SetOfSequence
<1>4. IsFiniteSet({op.Key : op \in ToSet(ops)})
  <2> DEFINE f == [op \in ToSet(ops) |-> op.Key]
  <2>1. {op.Key : op \in ToSet(ops)} = {f[op] : op \in ToSet(ops)}
    OBVIOUS
  <2> HIDE DEF f
  <2> QED BY <1>3, <2>1, FiniteImage
<1>5. IsFiniteSet(KeysOf(ops))
  BY <1>4, FS_Subset DEF KeysOf
<1>6. KeysOf(ops) = {ops[n].Key : n \in 1..Len(ops)} \ {NoKey}
  BY <1>2 DEF KeysOf
<1> QED BY <1>1, <1>5, <1>6

(* The counts of a key are natural numbers.                                 *)
LEMMA CountsType ==
  ASSUME NEW ops \in Seq(Readable), NEW k
  PROVE  /\ \A kind : IsFiniteSet(OpsOn(k, kind, ops)) /\ Cardinality(OpsOn(k, kind, ops)) \in Nat
         /\ KeyStats(k, ops).Key = k
         /\ KeyStats(k, ops).PutCount \in Nat /\ KeyStats(k, ops).DeleteCount \in Nat
         /\ KeyStats(k, ops).PutCount = Cardinality(OpsOn(k, "Put", ops))
         /\ KeyStats(k, ops).DeleteCount = Cardinality(OpsOn(k, "DeleteRange", ops))
         /\ KeyStats(k, ops).TotalValueSizeBytes =
              FoldLeft(+, 0, [n \in 1..Len(ops) |->
                IF n \in OpsOn(k, "Put", ops) THEN ops[n].ValueSizeBytes ELSE 0])
<1>1. PICK m \in Nat : m = Len(ops)
  OBVIOUS
<1>2. IsFiniteSet(1..m)
  BY FS_Interval
<1>3. \A kind : OpsOn(k, kind, ops) \subseteq 1..m
  BY <1>1 DEF OpsOn
<1>4. \A kind : IsFiniteSet(OpsOn(k, kind, ops))
  BY <1>2, <1>3, FS_Subset
<1>5. \A kind : Cardinality(OpsOn(k, kind, ops)) \in Nat
  BY <1>4, FS_CardinalityType
<1>6. Cardinality(OpsOn(k, "Put", ops)) \in Nat /\ Cardinality(OpsOn(k, "DeleteRange", ops)) \in Nat
  BY <1>5, Zenon
<1> QED BY <1>4, <1>5, <1>6 DEF KeyStats

(* A key without operations counts nothing.                                 *)
LEMMA NoOps ==
  ASSUME NEW ops \in Seq(Readable), NEW k, k \notin KeysOf(ops), k # NoKey
  PROVE  \A kind : Cardinality(OpsOn(k, kind, ops)) = 0
<1>1. \A kind : OpsOn(k, kind, ops) = {}
  BY KeysOfFacts DEF OpsOn
<1> QED BY <1>1, FS_EmptySet

(* What rows are sorted by.                                                 *)
LEMMA SortValueType ==
  ASSUME NEW ops \in Seq(Readable), NEW k, NEW sortBy
  PROVE  /\ SortValue(KeyStats(k, ops), sortBy) \in Nat
         /\ k \notin KeysOf(ops) /\ k # NoKey => SortValue(KeyStats(k, ops), sortBy) = 0
<1>1. KeyStats(k, ops).PutCount \in Nat /\ KeyStats(k, ops).DeleteCount \in Nat
  BY CountsType
<1>2. k \notin KeysOf(ops) /\ k # NoKey =>
        KeyStats(k, ops).PutCount = 0 /\ KeyStats(k, ops).DeleteCount = 0
  <2>1. SUFFICES ASSUME k \notin KeysOf(ops), k # NoKey
                 PROVE  KeyStats(k, ops).PutCount = 0 /\ KeyStats(k, ops).DeleteCount = 0
    OBVIOUS
  <2>2. \A kind : Cardinality(OpsOn(k, kind, ops)) = 0
    BY <2>1, NoOps
  <2>3. Cardinality(OpsOn(k, "Put", ops)) = 0 /\ Cardinality(OpsOn(k, "DeleteRange", ops)) = 0
    BY <2>2, Zenon
  <2> QED BY <2>3, CountsType
<1> QED BY <1>1, <1>2 DEF SortValue

(* The sorted statistics: one for each key, in the order of their values.   *)
LEMMA StatsFacts ==
  ASSUME NEW ops \in Seq(Readable), NEW sortBy,
         NEW stats \in SortWalKeyStats(AggregateWalOps(ops), sortBy)
  PROVE  /\ Len(stats) \in Nat /\ stats \in Seq(AggregateWalOps(ops))
         /\ \A n \in 1..Len(stats) :
              stats[n].Key \in KeysOf(ops) /\ stats[n] = KeyStats(stats[n].Key, ops)
         /\ \A m, n \in 1..Len(stats) : stats[m].Key = stats[n].Key => m = n
         /\ \A k \in KeysOf(ops) : \E n \in 1..Len(stats) : stats[n].Key = k
         /\ \A m, n \in 1..Len(stats) : m < n =>
              SortValue(stats[m], sortBy) >= SortValue(stats[n], sortBy)
<1> DEFINE D == AggregateWalOps(ops)
<1>1. D = {KeyStats(k, ops) : k \in KeysOf(ops)}
  BY DEF AggregateWalOps, KeysOf
<1>2. IsFiniteSet(D)
  <2>1. IsFiniteSet(KeysOf(ops))
    BY KeysOfFacts
  <2> DEFINE f == [k \in KeysOf(ops) |-> KeyStats(k, ops)]
  <2>2. D = {f[k] : k \in KeysOf(ops)}
    BY <1>1
  <2> HIDE DEF f, D
  <2> QED BY <2>1, <2>2, FiniteImage
<1>3. stats \in SetToSeqs(D) /\ \A m, n \in DOMAIN stats : m < n =>
              SortValue(stats[m], sortBy) >= SortValue(stats[n], sortBy)
  BY DEF SortWalKeyStats
<1> HIDE DEF D
<1>4. /\ stats \in Seq(D) /\ Len(stats) \in Nat /\ DOMAIN stats = 1..Len(stats)
      /\ \A m, n \in 1..Len(stats) : stats[m] = stats[n] => m = n
      /\ \A x \in D : \E n \in 1..Len(stats) : stats[n] = x
  BY <1>2, <1>3, OrderFacts
<1>5. \A k : KeyStats(k, ops).Key = k
  BY CountsType
<1>6. ASSUME NEW n \in 1..Len(stats)
      PROVE  stats[n].Key \in KeysOf(ops) /\ stats[n] = KeyStats(stats[n].Key, ops)
  <2>1. stats[n] \in D
    BY <1>4
  <2>2. PICK k \in KeysOf(ops) : stats[n] = KeyStats(k, ops)
    BY <1>1, <2>1
  <2> QED BY <1>5, <2>2
<1>7. ASSUME NEW m \in 1..Len(stats), NEW n \in 1..Len(stats), stats[m].Key = stats[n].Key
      PROVE  m = n
  <2>1. stats[m] = stats[n]
    BY <1>6, <1>7
  <2> QED BY <1>4, <2>1
<1>8. ASSUME NEW k \in KeysOf(ops) PROVE \E n \in 1..Len(stats) : stats[n].Key = k
  <2>1. PICK n \in 1..Len(stats) : stats[n] = KeyStats(k, ops)
    BY <1>1, <1>4
  <2> QED BY <1>5, <2>1
<1> QED BY <1>3, <1>4, <1>6, <1>7, <1>8 DEF D

(* The rows are the first of them, all if none is cut.                      *)
FirstRows(S, stats, top, rows) ==
  /\ rows \in Seq(S) /\ Len(rows) <= Len(stats)
  /\ \A n \in 1..Len(rows) : rows[n] = stats[n] /\ n \in 1..Len(stats)
  /\ top <= 0 => rows = stats
  /\ ~(top > 0 /\ top < Len(stats)) => rows = stats
  /\ top > 0 /\ top < Len(stats) => Len(rows) = top

(* The cut takes them from the front.                                       *)
LEMMA RowsFacts ==
  ASSUME NEW S, NEW stats \in Seq(S), NEW top \in Int
  PROVE  FirstRows(S, stats, top, ShownRows(stats, top))
<1> DEFINE rows == ShownRows(stats, top)
<1> SUFFICES FirstRows(S, stats, top, rows)
  OBVIOUS
<1>1. Len(stats) \in Nat
  OBVIOUS
<1>2. CASE top > 0 /\ top < Len(stats)
  <2>1. rows = SubSeq(stats, 1, top) /\ top \in 0..Len(stats) /\ top \in Nat
    BY <1>1, <1>2 DEF ShownRows
  <2>2. rows \in Seq(S) /\ Len(rows) = top /\ \A n \in 1..top : rows[n] = stats[n]
    <3>1. SubSeq(stats, 1, top) \in Seq(S) /\ Len(SubSeq(stats, 1, top)) = top
          /\ SubSeq(stats, 1, top) = [n \in 1..top |-> stats[n]]
      BY <2>1, PrefixIs
    <3> QED BY <2>1, <3>1
  <2>3. Len(rows) <= Len(stats) /\ \A n \in 1..Len(rows) : n \in 1..Len(stats)
    BY <1>1, <1>2, <2>1, <2>2
  <2> HIDE DEF rows
  <2> QED BY <1>2, <2>2, <2>3 DEF FirstRows
<1>3. CASE ~(top > 0 /\ top < Len(stats))
  <2>1. rows = stats
    BY <1>3, Zenon DEF ShownRows
  <2>2. /\ rows \in Seq(S) /\ Len(rows) <= Len(stats)
        /\ \A n \in 1..Len(rows) : rows[n] = stats[n] /\ n \in 1..Len(stats)
    BY <1>1, <2>1
  <2> HIDE DEF rows
  <2> QED BY <1>3, <2>1, <2>2 DEF FirstRows
<1> HIDE DEF rows
<1> QED BY <1>2, <1>3

(* What weighs something has a key, and v sums it up by key.                *)
Weighs(ops, w) == \A n \in 1..Len(ops) : w[n] \in Nat /\ (w[n] = 0 \/ ops[n].Key # NoKey)
SumsByKey(ops, w, v) ==
  \A k \in KeysOf(ops) :
    v[k] = FoldLeft(+, 0, [n \in 1..Len(ops) |-> IF ops[n].Key = k THEN w[n] ELSE 0])

(* What the rows weigh.                                                     *)
WeightOfRows(stats, v) == FoldLeft(+, 0, [n \in 1..Len(stats) |-> v[stats[n].Key]])

(* What the rows sum up is summed over the operations that have a key.      *)
LEMMA RowsSum ==
  ASSUME NEW ops \in Seq(Readable), NEW sortBy,
         NEW stats \in SortWalKeyStats(AggregateWalOps(ops), sortBy),
         NEW w, Weighs(ops, w), NEW v, SumsByKey(ops, w, v)
  PROVE  WeightOfRows(stats, v) = WeightOfAll(Len(ops), w)
<1> DEFINE D == KeysOf(ops)
           s == [n \in 1..Len(stats) |-> stats[n].Key]
           label == [n \in 1..Len(ops) |-> ops[n].Key]
           a == ByLabel(Len(ops), D, label, w)
<1>1. PICK m \in Nat : m = Len(ops)
  BY KeysOfFacts
<1>2. PICK z \in Nat : z = Len(stats)
  BY StatsFacts
<1>3. /\ \A n \in 1..z : stats[n].Key \in D
      /\ \A i, n \in 1..z : stats[i].Key = stats[n].Key => i = n
      /\ \A k \in D : \E n \in 1..z : stats[n].Key = k
  <2>1. /\ \A n \in 1..Len(stats) : stats[n].Key \in KeysOf(ops)
        /\ \A i, n \in 1..Len(stats) : stats[i].Key = stats[n].Key => i = n
        /\ \A k \in KeysOf(ops) : \E n \in 1..Len(stats) : stats[n].Key = k
    BY StatsFacts
  <2> QED BY <1>2, <2>1
<1>4. IsFiniteSet(D) /\ \A n \in 1..m : ops[n].Key \in D \union {NoKey}
  BY <1>1, KeysOfFacts
<1> HIDE DEF D
<1>5. /\ s \in Seq(D) /\ Len(s) = z /\ \A n \in 1..z : s[n] = stats[n].Key
      /\ s \in [1..z -> D]
  BY <1>2, <1>3
<1> HIDE DEF s
<1>6. z = Cardinality(D)
  <2>1. /\ \A i, j \in 1..Len(s) : s[i] = s[j] => i = j
        /\ \A x \in D : \E i \in 1..Len(s) : s[i] = x
    <3>1. ASSUME NEW i \in 1..z, NEW j \in 1..z, s[i] = s[j] PROVE i = j
      BY <1>3, <1>5, <3>1
    <3>2. ASSUME NEW x \in D PROVE \E i \in 1..z : s[i] = x
      BY <1>3, <1>5
    <3> QED BY <1>5, <3>1, <3>2
  <2> QED BY <1>4, <1>5, <2>1, DistinctFacts
<1>7. s \in SetToSeqs(D)
  <2>1. \A i, j \in 1..z : i # j => s[i] # s[j]
    BY <1>3, <1>5
  <2> QED BY <1>5, <1>6, <2>1 DEF SetToSeqs
<1>8. \A n \in 1..m : w[n] \in Nat /\ (w[n] = 0 \/ label[n] \in D)
  BY <1>1, <1>4 DEF Weighs
<1>9. SumFunctionOnSet(ByLabel(m, D, label, w), D) = FoldLeft(+, 0, [n \in 1..m |-> w[n]])
  <2> HIDE DEF label
  <2>1. SumFunctionOnSet(ByLabel(m, D, label, w), D) = WeightOfAll(m, w)
    BY <1>4, <1>8, WeightsByLabel
  <2> QED BY <2>1, Zenon DEF WeightOfAll
<1>10. SumFunctionOnSet(a, D) = FoldLeft(+, 0, [n \in 1..Len(ops) |-> w[n]])
  BY <1>1, <1>9
<1>11. \A x \in D : a[x] = v[x]
  <2>1. SUFFICES ASSUME NEW x \in D PROVE a[x] = v[x]
    OBVIOUS
  <2>2. [n \in 1..Len(ops) |-> IF label[n] = x THEN w[n] ELSE 0]
          = [n \in 1..Len(ops) |-> IF ops[n].Key = x THEN w[n] ELSE 0]
    OBVIOUS
  <2>3. a[x] = FoldLeft(+, 0, [n \in 1..Len(ops) |-> IF label[n] = x THEN w[n] ELSE 0])
    BY Zenon DEF ByLabel
  <2> QED BY <2>2, <2>3 DEF D, SumsByKey
<1>12. \A x \in D : a[x] \in Nat
  <2>1. SUFFICES ASSUME NEW x \in D PROVE a[x] \in Nat
    OBVIOUS
  <2> DEFINE p == [n \in 1..m |-> IF label[n] = x THEN w[n] ELSE 0]
  <2>2. \A n \in 1..m : (IF label[n] = x THEN w[n] ELSE 0) \in Nat
    BY <1>8
  <2>3. p \in Seq(Nat)
    <3> HIDE DEF label
    <3> QED BY <2>2
  <2>4. a[x] = FoldLeft(+, 0, p)
    BY <1>1 DEF ByLabel
  <2> HIDE DEF p, a
  <2> QED BY <2>3, <2>4, SumType
<1> HIDE DEF a, label
<1>13. FoldLeft(+, 0, [n \in 1..Len(s) |-> a[s[n]]]) = SumFunctionOnSet(a, D)
  BY <1>4, <1>7, <1>12, SumOverOrder
<1>14. [n \in 1..Len(s) |-> a[s[n]]] = [n \in 1..Len(stats) |-> v[stats[n].Key]]
  BY <1>2, <1>3, <1>5, <1>11
<1> QED BY <1>10, <1>13, <1>14, Zenon DEF WeightOfRows, WeightOfAll

(* A report of operations, and the statistics it was made of.               *)
ReportOf(ops, sortBy, top, stats, source) ==
  /\ ops \in Seq(Readable) /\ top \in Int
  /\ stats \in SortWalKeyStats(AggregateWalOps(ops), sortBy)
  /\ report[1].source = source /\ report[1].sortBy = sortBy /\ report[1].top = top
  /\ report[1].totalOps = Len(ops) /\ report[1].rows = ShownRows(stats, top)
  /\ report[1].dist = EntryTypeDist(ops)

(* Whatever was printed is such a report.                                   *)
LEMMA ReportFacts ==
  ASSUME SummaryInv, report # <<>>
  PROVE  /\ decodeLog(raftLog) \in Seq(Readable)
         /\ \E sortBy, top, stats :
              \/ ReportOf(file.lines, sortBy, top, stats, "input")
              \/ ReportOf(decodeLog(raftLog), sortBy, top, stats, "data-dir")
<1>1. decodeLog(raftLog) \in Seq(Readable)
  <2>1. decodeLog(raftLog) \in Seq(Decoded)
    BY LoggedFacts DEF SummaryInv, LogInv
  <2>2. \A op \in Decoded : op \in Readable
    BY LineFacts
  <2> QED BY <2>1, <2>2
<1>2. file.lines \in Seq(Readable)
  BY DEF SummaryInv, FileInv
<1>3. ASSUME NEW ops \in Seq(Readable), NEW source, Reported(ops, source)
      PROVE  \E sortBy, top, stats : ReportOf(ops, sortBy, top, stats, source)
  <2>1. PICK sortBy \in SortArgs, top \in TopArgs :
               \E stats \in SortWalKeyStats(AggregateWalOps(ops), sortBy) :
                 report = <<printWalSummary(ops, ShownRows(stats, top), source, sortBy, top)>>
    BY <1>3 DEF Reported
  <2>2. PICK stats \in SortWalKeyStats(AggregateWalOps(ops), sortBy) :
               report = <<printWalSummary(ops, ShownRows(stats, top), source, sortBy, top)>>
    BY <2>1
  <2>3. top \in Int
    BY WalSummaryAssumption
  <2>4. report[1] = printWalSummary(ops, ShownRows(stats, top), source, sortBy, top)
    BY <2>2
  <2>5. ReportOf(ops, sortBy, top, stats, source)
    BY <2>3, <2>4 DEF ReportOf, printWalSummary
  <2> QED BY <2>5
<1>4. Reported(file.lines, "input") \/ Reported(decodeLog(raftLog), "data-dir")
  BY DEF SummaryInv, ReportInv
<1>5. CASE Reported(file.lines, "input")
  BY <1>1, <1>2, <1>3, <1>5
<1>6. CASE Reported(decodeLog(raftLog), "data-dir")
  BY <1>1, <1>3, <1>6
<1> QED BY <1>4, <1>5, <1>6

(* A report that is not cut has, of each key, all its operations.           *)
LEMMA RowCountIs ==
  ASSUME NEW ops, NEW sortBy, NEW top, NEW stats, NEW source,
         ReportOf(ops, sortBy, top, stats, source), Uncut,
         NEW k, k # NoKey, NEW kind \in Writes
  PROVE  RowCount(k, kind) = Cardinality(OpsOn(k, kind, ops))
<1> DEFINE rows == {r \in ToSet(report[1].rows) : r.Key = k}
           zero == [PutCount |-> 0, DeleteCount |-> 0]
<1>1. /\ ops \in Seq(Readable) /\ top \in Int /\ top <= 0
      /\ stats \in SortWalKeyStats(AggregateWalOps(ops), sortBy)
      /\ report[1].rows = ShownRows(stats, top)
  BY DEF ReportOf, Uncut
<1>2. /\ Len(stats) \in Nat /\ stats \in Seq(AggregateWalOps(ops))
      /\ \A n \in 1..Len(stats) :
           stats[n].Key \in KeysOf(ops) /\ stats[n] = KeyStats(stats[n].Key, ops)
      /\ \A m, n \in 1..Len(stats) : stats[m].Key = stats[n].Key => m = n
      /\ \A x \in KeysOf(ops) : \E n \in 1..Len(stats) : stats[n].Key = x
  BY <1>1, StatsFacts
<1>3. report[1].rows = stats
  <2>1. FirstRows(AggregateWalOps(ops), stats, top, ShownRows(stats, top))
    BY <1>1, <1>2, RowsFacts
  <2> QED BY <1>1, <2>1 DEF FirstRows
<1>4. ToSet(stats) = {stats[n] : n \in 1..Len(stats)}
  <2>1. DOMAIN stats = 1..Len(stats)
    BY <1>2
  <2> QED BY <2>1 DEF ToSet
<1>5. /\ KeyStats(k, ops).PutCount = Cardinality(OpsOn(k, "Put", ops))
      /\ KeyStats(k, ops).DeleteCount = Cardinality(OpsOn(k, "DeleteRange", ops))
  BY <1>1, CountsType
<1>6. kind = "Put" \/ kind = "DeleteRange"
  BY DEF Writes
<1>7. CASE k \in KeysOf(ops)
  <2>1. PICK n \in 1..Len(stats) : stats[n].Key = k
    BY <1>2, <1>7
  <2>2. stats[n] \in rows
    BY <1>3, <1>4, <2>1
  <2>3. ASSUME NEW r \in rows PROVE r = KeyStats(k, ops)
    <3>1. PICK m \in 1..Len(stats) : r = stats[m] /\ stats[m].Key = k
      BY <1>3, <1>4
    <3> QED BY <1>2, <3>1
  <2>4. RowOf(k) = CHOOSE r \in rows : TRUE
    BY <2>2, Zenon DEF RowOf
  <2> HIDE DEF rows
  <2>5. (CHOOSE r \in rows : TRUE) \in rows
    BY <2>2
  <2>6. RowOf(k) = KeyStats(k, ops)
    BY <2>3, <2>4, <2>5
  <2> QED BY <1>5, <1>6, <2>6 DEF RowCount
<1>8. CASE k \notin KeysOf(ops)
  <2>1. rows = {}
    BY <1>2, <1>3, <1>4, <1>8
  <2>2. RowOf(k) = zero
    BY <2>1, Zenon DEF RowOf
  <2>3. \A type : Cardinality(OpsOn(k, type, ops)) = 0
    BY <1>1, <1>8, NoOps
  <2>4. RowOf(k).PutCount = 0 /\ RowOf(k).DeleteCount = 0
    BY <2>2
  <2>5. RowCount(k, kind) = 0
    BY <2>4 DEF RowCount
  <2> QED BY <2>3, <2>5
<1> QED BY <1>7, <1>8

(* The counts of a report on the log are bracketed by the writes that were  *)
(* applied and those that stand in the entries (AggregateWalOps over both   *)
(* branches of the transactions).                                           *)
LEMMA BracketHolds == SummaryInv => CountsBracketWrites
<1> SUFFICES ASSUME SummaryInv, FromLog, Flat, NEW k \in Key, NEW kind \in Writes
             PROVE  AppliedTo(k, kind) <= RowCount(k, kind) /\ RowCount(k, kind) <= WrittenTo(k, kind)
  BY DEF CountsBracketWrites
<1> DEFINE n == Len(raftLog)
           p == [i \in 1..n |-> OnKey(applied[i], kind, k)]
           q == [i \in 1..n |-> Carried(raftLog[i], kind, k)]
           r == [i \in 1..n |-> OnKey(Written(raftLog[i]), kind, k)]
<1>1. /\ Logged(raftLog) /\ Len(applied) = n /\ n \in Nat
      /\ \A i \in 1..n : applied[i] \in Outcomes(raftLog[i])
  BY LoggedFacts DEF SummaryInv, LogInv
<1>2. \A i \in 1..n : Proper(raftLog[i])
  BY <1>1, LoggedFacts
<1>3. ASSUME NEW i \in 1..n
      PROVE  /\ OnKey(applied[i], kind, k) \in Nat /\ Carried(raftLog[i], kind, k) \in Nat
             /\ OnKey(Written(raftLog[i]), kind, k) \in Nat
             /\ OnKey(applied[i], kind, k) <= Carried(raftLog[i], kind, k)
             /\ Carried(raftLog[i], kind, k) <= OnKey(Written(raftLog[i]), kind, k)
  <2>1. "Txn" \in DOMAIN raftLog[i].rr =>
          \A item \in ToSet(Items(raftLog[i].rr["Txn"])) : item.kind # "Txn"
    BY DEF Flat
  <2> QED BY <1>1, <1>2, <2>1, EntryBounds
<1>4. AppliedTo(k, kind) = WeightOfAll(n, p) /\ WrittenTo(k, kind) = WeightOfAll(n, r)
  <2>1. [i \in 1..n |-> p[i]] = [i \in 1..Len(applied) |-> OnKey(applied[i], kind, k)]
    BY <1>1
  <2>2. [i \in 1..n |-> r[i]] = [i \in 1..Len(raftLog) |-> OnKey(Written(raftLog[i]), kind, k)]
    OBVIOUS
  <2> QED BY <2>1, <2>2, Zenon DEF AppliedTo, WrittenTo, WeightOfAll
<1>5. Cardinality(OpsOn(k, kind, decodeLog(raftLog))) = WeightOfAll(n, q)
  <2>1. [i \in 1..n |-> q[i]] = [i \in 1..Len(raftLog) |-> Carried(raftLog[i], kind, k)]
    OBVIOUS
  <2>2. Cardinality(OpsOn(k, kind, decodeLog(raftLog)))
          = FoldLeft(+, 0, [i \in 1..Len(raftLog) |-> Carried(raftLog[i], kind, k)])
    BY <1>1, LogCounts
  <2> QED BY <2>1, <2>2, Zenon DEF WeightOfAll
<1>6. /\ \A i \in 1..n : p[i] \in Nat /\ q[i] \in Nat /\ p[i] <= q[i]
      /\ \A i \in 1..n : q[i] \in Nat /\ r[i] \in Nat /\ q[i] <= r[i]
  BY <1>3
<1> HIDE DEF p, q, r, n
<1>7. WeightOfAll(n, p) <= WeightOfAll(n, q) /\ WeightOfAll(n, q) <= WeightOfAll(n, r)
  BY <1>1, <1>6, SumMonotone DEF WeightOfAll
<1>8. RowCount(k, kind) = Cardinality(OpsOn(k, kind, decodeLog(raftLog)))
  <2>1. report # <<>> /\ report[1].source = "data-dir" /\ Uncut
    BY DEF FromLog
  <2>2. PICK sortBy, top, stats :
               \/ ReportOf(file.lines, sortBy, top, stats, "input")
               \/ ReportOf(decodeLog(raftLog), sortBy, top, stats, "data-dir")
    BY <2>1, ReportFacts
  <2>3. ReportOf(decodeLog(raftLog), sortBy, top, stats, "data-dir")
    BY <2>1, <2>2 DEF ReportOf
  <2>4. k # NoKey
    BY WalSummaryAssumption
  <2> QED BY <2>1, <2>3, <2>4, RowCountIs
<1> QED BY <1>4, <1>5, <1>7, <1>8

(* The rows of the distribution sum up to the operations.                   *)
LEMMA DistributionSum ==
  ASSUME NEW ops \in Seq(Readable)
  PROVE  LET dist == EntryTypeDist(ops) IN SumFunctionOnSet(dist, DOMAIN dist) = Len(ops)
<1> DEFINE D == OrderedTypes(ops)
           label == [i \in 1..Len(ops) |-> ops[i].EntryType]
           ones == [i \in 1..Len(ops) |-> 1]
           a == ByLabel(Len(ops), D, label, ones)
           dist == EntryTypeDist(ops)
<1>1. PICK m \in Nat : m = Len(ops)
  BY KeysOfFacts
<1>2. IsFiniteSet(D)
  <2>1. IsFiniteSet(ToSet(ops))
    BY SetOfSequence
  <2> DEFINE f == [op \in ToSet(ops) |-> op.EntryType]
  <2>2. {op.EntryType : op \in ToSet(ops)} = {f[op] : op \in ToSet(ops)}
    OBVIOUS
  <2>3. IsFiniteSet({op.EntryType : op \in ToSet(ops)})
    <3> HIDE DEF f
    <3> QED BY <2>1, <2>2, FiniteImage
  <2> QED BY <2>3, FS_Subset DEF OrderedTypes
<1>3. \A i \in 1..m : label[i] \in D
  <2>1. SUFFICES ASSUME NEW i \in 1..m PROVE label[i] \in D
    OBVIOUS
  <2>2. ops[i] \in Readable /\ DOMAIN ops = 1..m
    BY <1>1
  <2>3. ops[i] \in ToSet(ops)
    BY <2>2 DEF ToSet
  <2>4. ops[i].EntryType # ""
    BY <2>2, EntryTypesAre DEF Readable
  <2>5. label[i] = ops[i].EntryType
    BY <1>1
  <2> HIDE DEF label
  <2> QED BY <2>3, <2>4, <2>5 DEF OrderedTypes
<1>4. \A i \in 1..m : ones[i] = 1 /\ label[i] = ops[i].EntryType
  BY <1>1
<1>5. SumFunctionOnSet(a, D) = WeightOfAll(m, ones)
  <2>1. ASSUME NEW i \in 1..m PROVE ones[i] \in Nat /\ (ones[i] = 0 \/ label[i] \in D)
    <3>1. ones[i] = 1 /\ label[i] \in D
      BY <1>3, <1>4
    <3> HIDE DEF ones, label, D
    <3> QED BY <3>1
  <2>2. a = ByLabel(m, D, label, ones)
    BY <1>1
  <2> HIDE DEF a, D, label, ones
  <2> QED BY <1>2, <2>1, <2>2, WeightsByLabel
<1>6. WeightOfAll(m, ones) = m
  <2>1. [i \in 1..m |-> ones[i]] = [i \in 1..m |-> IF i \in 1..m THEN 1 ELSE 0]
    BY <1>4
  <2>2. {i \in 1..m : i \in 1..m} = 1..m
    OBVIOUS
  <2>3. Cardinality(1..m) = m
    <3>1. Cardinality(1..m) = IF 1 > m THEN 0 ELSE m - 1 + 1
      BY FS_Interval
    <3> QED BY <3>1
  <2>4. FoldLeft(+, 0, [i \in 1..m |-> IF i \in 1..m THEN 1 ELSE 0]) = Cardinality({i \in 1..m : i \in 1..m})
    BY SumOfOnes
  <2> QED BY <2>1, <2>2, <2>3, <2>4 DEF WeightOfAll
<1>7. \A t \in D : dist[t] = a[t]
  <2>1. SUFFICES ASSUME NEW t \in D PROVE dist[t] = a[t]
    OBVIOUS
  <2> DEFINE R == {i \in 1..m : ops[i].EntryType = t}
  <2>2. dist[t] = Cardinality(R)
    BY <1>1 DEF EntryTypeDist
  <2>3. a[t] = FoldLeft(+, 0, [i \in 1..m |-> IF label[i] = t THEN ones[i] ELSE 0])
    BY <1>1 DEF ByLabel
  <2>4. [i \in 1..m |-> IF label[i] = t THEN ones[i] ELSE 0] = [i \in 1..m |-> IF i \in R THEN 1 ELSE 0]
    BY <1>4
  <2>5. {i \in 1..m : i \in R} = R
    OBVIOUS
  <2>6. FoldLeft(+, 0, [i \in 1..m |-> IF i \in R THEN 1 ELSE 0]) = Cardinality({i \in 1..m : i \in R})
    BY SumOfOnes
  <2> HIDE DEF R, a, dist, label, ones
  <2> QED BY <2>2, <2>3, <2>4, <2>5, <2>6
<1>8. DOMAIN dist = D /\ DOMAIN a = D
  BY DEF EntryTypeDist, ByLabel
<1>9. dist = a
  <2>1. dist = [t \in D |-> dist[t]] /\ a = [t \in D |-> a[t]]
    BY DEF EntryTypeDist, ByLabel
  <2> HIDE DEF dist, a, D
  <2> QED BY <1>7, <2>1
<1> HIDE DEF dist, a, D, ones, label
<1>10. SumFunctionOnSet(dist, DOMAIN dist) = Len(ops)
  BY <1>1, <1>5, <1>6, <1>8, <1>9
<1> QED BY <1>10 DEF dist

(* What the rows count of a kind.                                           *)
CountOfRows(stats, kind, ops) ==
  FoldLeft(+, 0, [n \in 1..Len(stats) |-> Cardinality(OpsOn(stats[n].Key, kind, ops))])

(* The rows count all operations of a kind that writes.                     *)
LEMMA CountRows ==
  ASSUME NEW ops \in Seq(Readable), NEW sortBy,
         NEW stats \in SortWalKeyStats(AggregateWalOps(ops), sortBy), NEW kind \in Writes
  PROVE  CountOfRows(stats, kind, ops) = Cardinality({n \in 1..Len(ops) : ops[n].OpType = kind})
<1> DEFINE R == {n \in 1..Len(ops) : ops[n].OpType = kind}
           w == [n \in 1..Len(ops) |-> IF n \in R THEN 1 ELSE 0]
           v == [k \in KeysOf(ops) |-> Cardinality(OpsOn(k, kind, ops))]
<1>1. PICK m \in Nat : m = Len(ops)
  BY KeysOfFacts
<1>2. \A n \in 1..m : ops[n] \in Readable
  BY <1>1, KeysOfFacts
<1>3. Weighs(ops, w)
  <2>1. \A n \in 1..m : w[n] \in Nat /\ (w[n] = 0 \/ ops[n].Key # NoKey)
    BY <1>1, <1>2 DEF Readable
  <2> HIDE DEF w
  <2> QED BY <1>1, <2>1 DEF Weighs
<1>4. SumsByKey(ops, w, v)
  <2>1. SUFFICES ASSUME NEW k \in KeysOf(ops)
                 PROVE  v[k] = FoldLeft(+, 0, [n \in 1..Len(ops) |-> IF ops[n].Key = k THEN w[n] ELSE 0])
    BY DEF SumsByKey
  <2> DEFINE Q == OpsOn(k, kind, ops)
  <2>2. [n \in 1..Len(ops) |-> IF ops[n].Key = k THEN w[n] ELSE 0]
          = [n \in 1..m |-> IF n \in Q THEN 1 ELSE 0]
    BY <1>1 DEF OpsOn, CountedAs
  <2>3. {n \in 1..m : n \in Q} = Q
    BY <1>1 DEF OpsOn
  <2>4. v[k] = Cardinality(Q)
    OBVIOUS
  <2> HIDE DEF v, Q, w
  <2>5. FoldLeft(+, 0, [n \in 1..m |-> IF n \in Q THEN 1 ELSE 0]) = Cardinality({n \in 1..m : n \in Q})
    BY SumOfOnes
  <2> QED BY <2>2, <2>3, <2>4, <2>5
<1>5. FoldLeft(+, 0, [n \in 1..Len(ops) |-> w[n]]) = Cardinality(R)
  <2>1. [n \in 1..Len(ops) |-> w[n]] = [n \in 1..m |-> IF n \in R THEN 1 ELSE 0]
    BY <1>1
  <2>2. {n \in 1..m : n \in R} = R
    BY <1>1
  <2>3. FoldLeft(+, 0, [n \in 1..m |-> IF n \in R THEN 1 ELSE 0]) = Cardinality({n \in 1..m : n \in R})
    BY SumOfOnes
  <2> QED BY <2>1, <2>2, <2>3
<1>6. [n \in 1..Len(stats) |-> v[stats[n].Key]]
        = [n \in 1..Len(stats) |-> Cardinality(OpsOn(stats[n].Key, kind, ops))]
  <2>1. \A n \in 1..Len(stats) : stats[n].Key \in KeysOf(ops)
    BY StatsFacts
  <2> QED BY <2>1
<1> HIDE DEF v, w, R
<1>7. FoldLeft(+, 0, [n \in 1..Len(stats) |-> v[stats[n].Key]])
           = FoldLeft(+, 0, [n \in 1..Len(ops) |-> w[n]])
  <2>1. WeightOfRows(stats, v) = WeightOfAll(Len(ops), w)
    BY <1>3, <1>4, RowsSum
  <2> QED BY <2>1, Zenon DEF WeightOfRows, WeightOfAll
<1>8. CountOfRows(stats, kind, ops) = Cardinality(R)
  BY <1>5, <1>6, <1>7, Zenon DEF CountOfRows
<1> QED BY <1>8 DEF R

(* And they sum up the sizes of the values.                                 *)
LEMMA SizeRows ==
  ASSUME NEW ops \in Seq(Readable), NEW sortBy,
         NEW stats \in SortWalKeyStats(AggregateWalOps(ops), sortBy)
  PROVE  FoldLeft(+, 0, [n \in 1..Len(stats) |-> KeyStats(stats[n].Key, ops).TotalValueSizeBytes])
           = FoldLeft(+, 0, [n \in 1..Len(ops) |-> ops[n].ValueSizeBytes])
<1> DEFINE w == [n \in 1..Len(ops) |-> ops[n].ValueSizeBytes]
           v == [k \in KeysOf(ops) |-> KeyStats(k, ops).TotalValueSizeBytes]
<1>1. PICK m \in Nat : m = Len(ops)
  BY KeysOfFacts
<1>2. \A n \in 1..m : ops[n] \in Readable
  BY <1>1, KeysOfFacts
<1>3. \A n \in 1..m : /\ ops[n].ValueSizeBytes \in Nat
                      /\ ops[n].OpType # "Put" => ops[n].ValueSizeBytes = 0
                      /\ ops[n].OpType = "Put" => ops[n].Key # NoKey
  BY <1>2 DEF Readable, Writes
<1>4. Weighs(ops, w)
  <2>1. \A n \in 1..m : w[n] \in Nat /\ (w[n] = 0 \/ ops[n].Key # NoKey)
    BY <1>1, <1>3
  <2> HIDE DEF w
  <2> QED BY <1>1, <2>1 DEF Weighs
<1>5. SumsByKey(ops, w, v)
  <2>1. SUFFICES ASSUME NEW k \in KeysOf(ops)
                 PROVE  v[k] = FoldLeft(+, 0, [n \in 1..Len(ops) |-> IF ops[n].Key = k THEN w[n] ELSE 0])
    BY DEF SumsByKey
  <2>2. \A n \in 1..m : (IF ops[n].Key = k THEN w[n] ELSE 0)
                          = IF n \in OpsOn(k, "Put", ops) THEN ops[n].ValueSizeBytes ELSE 0
    BY <1>1, <1>3 DEF OpsOn, CountedAs
  <2>3. [n \in 1..Len(ops) |-> IF ops[n].Key = k THEN w[n] ELSE 0]
          = [n \in 1..Len(ops) |-> IF n \in OpsOn(k, "Put", ops) THEN ops[n].ValueSizeBytes ELSE 0]
    BY <1>1, <2>2
  <2>4. v[k] = FoldLeft(+, 0, [n \in 1..Len(ops) |->
                 IF n \in OpsOn(k, "Put", ops) THEN ops[n].ValueSizeBytes ELSE 0])
    BY CountsType
  <2> QED BY <2>3, <2>4, Zenon
<1>6. [n \in 1..Len(stats) |-> v[stats[n].Key]]
        = [n \in 1..Len(stats) |-> KeyStats(stats[n].Key, ops).TotalValueSizeBytes]
  <2>1. \A n \in 1..Len(stats) : stats[n].Key \in KeysOf(ops)
    BY StatsFacts
  <2> QED BY <2>1
<1>7. [n \in 1..Len(ops) |-> w[n]] = [n \in 1..Len(ops) |-> ops[n].ValueSizeBytes]
  OBVIOUS
<1> HIDE DEF v, w
<1>8. FoldLeft(+, 0, [n \in 1..Len(stats) |-> v[stats[n].Key]])
           = FoldLeft(+, 0, [n \in 1..Len(ops) |-> w[n]])
  <2>1. WeightOfRows(stats, v) = WeightOfAll(Len(ops), w)
    BY <1>4, <1>5, RowsSum
  <2> QED BY <2>1, Zenon DEF WeightOfRows, WeightOfAll
<1> QED BY <1>6, <1>7, <1>8

(* The distribution and the rows account for the operations (EntryTypeDist, *)
(* AggregateWalOps), of a file as of the log.                               *)
LEMMA AccountHolds == SummaryInv => RowsAccountForOps
<1> SUFFICES ASSUME SummaryInv, report # <<>> PROVE RowsAccountForOps
  BY DEF RowsAccountForOps
<1> DEFINE all == IF report[1].source = "input" THEN file.lines ELSE decodeLog(raftLog)
           rows == report[1].rows
           dist == report[1].dist
           of(type) == {n \in 1..Len(all) : all[n].OpType = type}
<1>1. PICK ops, sortBy, top, stats, source : ops = all /\ ReportOf(ops, sortBy, top, stats, source)
  <2>1. PICK sortBy, top, stats :
              \/ ReportOf(file.lines, sortBy, top, stats, "input")
              \/ ReportOf(decodeLog(raftLog), sortBy, top, stats, "data-dir")
    BY ReportFacts
  <2>2. CASE ReportOf(file.lines, sortBy, top, stats, "input")
    <3>1. file.lines = all
      BY <2>2 DEF ReportOf
    <3> QED BY <2>2, <3>1
  <2>3. CASE ReportOf(decodeLog(raftLog), sortBy, top, stats, "data-dir")
    <3>1. decodeLog(raftLog) = all
      BY <2>3 DEF ReportOf
    <3> QED BY <2>3, <3>1
  <2> QED BY <2>1, <2>2, <2>3
<1>2. /\ ops \in Seq(Readable) /\ top \in Int
      /\ stats \in SortWalKeyStats(AggregateWalOps(ops), sortBy)
      /\ report[1].top = top /\ report[1].totalOps = Len(ops) /\ rows = ShownRows(stats, top)
      /\ dist = EntryTypeDist(ops)
  BY <1>1 DEF ReportOf
<1> HIDE DEF all, rows, dist
<1>3. SumFunctionOnSet(dist, DOMAIN dist) = Len(ops)
  BY <1>2, DistributionSum
<1>4. /\ Len(stats) \in Nat /\ stats \in Seq(AggregateWalOps(ops))
      /\ \A n \in 1..Len(stats) :
           stats[n].Key \in KeysOf(ops) /\ stats[n] = KeyStats(stats[n].Key, ops)
      /\ \A m, n \in 1..Len(stats) : stats[m].Key = stats[n].Key => m = n
  BY <1>2, StatsFacts
<1>5. /\ \A n \in 1..Len(rows) : rows[n] = stats[n] /\ n \in 1..Len(stats)
      /\ top <= 0 => rows = stats
  <2>1. PICK S : S = AggregateWalOps(ops)
    OBVIOUS
  <2>2. stats \in Seq(S) /\ top \in Int
    BY <1>2, <1>4, <2>1
  <2>3. PICK list : list = rows
    OBVIOUS
  <2>4. list = ShownRows(stats, top)
    BY <1>2, <2>3
  <2>5. FirstRows(S, stats, top, list)
    BY <2>2, <2>4, RowsFacts
  <2> QED BY ONLY <2>3, <2>5 DEF FirstRows
<1>6. \A m, n \in 1..Len(rows) : rows[m].Key = rows[n].Key => m = n
  BY <1>4, <1>5
<1>7. ASSUME Uncut
      PROVE  /\ FoldLeft(+, 0, [n \in 1..Len(rows) |-> rows[n].PutCount]) = Cardinality(of("Put"))
             /\ FoldLeft(+, 0, [n \in 1..Len(rows) |-> rows[n].DeleteCount])
                  = Cardinality(of("DeleteRange"))
             /\ FoldLeft(+, 0, [n \in 1..Len(rows) |-> rows[n].TotalValueSizeBytes])
                  = FoldLeft(+, 0, [n \in 1..Len(ops) |-> ops[n].ValueSizeBytes])
  <2>1. rows = stats
    BY <1>2, <1>5, <1>7 DEF Uncut
  <2>2. "Put" \in Writes /\ "DeleteRange" \in Writes
    BY DEF Writes
  <2>3. \A n \in 1..Len(stats) :
          /\ stats[n].PutCount = Cardinality(OpsOn(stats[n].Key, "Put", ops))
          /\ stats[n].DeleteCount = Cardinality(OpsOn(stats[n].Key, "DeleteRange", ops))
          /\ stats[n].TotalValueSizeBytes = KeyStats(stats[n].Key, ops).TotalValueSizeBytes
    <3>1. SUFFICES ASSUME NEW n \in 1..Len(stats)
                   PROVE  /\ stats[n].PutCount = Cardinality(OpsOn(stats[n].Key, "Put", ops))
                          /\ stats[n].DeleteCount = Cardinality(OpsOn(stats[n].Key, "DeleteRange", ops))
                          /\ stats[n].TotalValueSizeBytes = KeyStats(stats[n].Key, ops).TotalValueSizeBytes
      OBVIOUS
    <3>2. PICK k : k = stats[n].Key
      OBVIOUS
    <3>3. stats[n] = KeyStats(k, ops)
      BY <1>4, <3>2
    <3>4. /\ KeyStats(k, ops).PutCount = Cardinality(OpsOn(k, "Put", ops))
          /\ KeyStats(k, ops).DeleteCount = Cardinality(OpsOn(k, "DeleteRange", ops))
      BY <1>2, CountsType
    <3> QED BY <3>2, <3>3, <3>4
  <2>4. FoldLeft(+, 0, [n \in 1..Len(rows) |-> rows[n].PutCount]) = Cardinality(of("Put"))
    <3>1. [n \in 1..Len(rows) |-> rows[n].PutCount]
            = [n \in 1..Len(stats) |-> Cardinality(OpsOn(stats[n].Key, "Put", ops))]
      BY <2>1, <2>3
    <3>2. CountOfRows(stats, "Put", ops) = Cardinality({n \in 1..Len(ops) : ops[n].OpType = "Put"})
      BY <1>2, <2>2, CountRows
    <3> QED BY <1>1, <3>1, <3>2, Zenon DEF CountOfRows
  <2>5. FoldLeft(+, 0, [n \in 1..Len(rows) |-> rows[n].DeleteCount]) = Cardinality(of("DeleteRange"))
    <3>1. [n \in 1..Len(rows) |-> rows[n].DeleteCount]
            = [n \in 1..Len(stats) |-> Cardinality(OpsOn(stats[n].Key, "DeleteRange", ops))]
      BY <2>1, <2>3
    <3>2. CountOfRows(stats, "DeleteRange", ops) = Cardinality({n \in 1..Len(ops) : ops[n].OpType = "DeleteRange"})
      BY <1>2, <2>2, CountRows
    <3> QED BY <1>1, <3>1, <3>2, Zenon DEF CountOfRows
  <2>6. FoldLeft(+, 0, [n \in 1..Len(rows) |-> rows[n].TotalValueSizeBytes])
          = FoldLeft(+, 0, [n \in 1..Len(ops) |-> ops[n].ValueSizeBytes])
    <3>1. [n \in 1..Len(rows) |-> rows[n].TotalValueSizeBytes]
            = [n \in 1..Len(stats) |-> KeyStats(stats[n].Key, ops).TotalValueSizeBytes]
      BY <2>1, <2>3
    <3>2. FoldLeft(+, 0, [n \in 1..Len(stats) |-> KeyStats(stats[n].Key, ops).TotalValueSizeBytes])
            = FoldLeft(+, 0, [n \in 1..Len(ops) |-> ops[n].ValueSizeBytes])
      BY <1>2, SizeRows
    <3> QED BY <3>1, <3>2, Zenon
  <2> QED BY <2>4, <2>5, <2>6
<1> QED BY <1>1, <1>2, <1>3, <1>6, <1>7, Zenon DEF RowsAccountForOps, all, rows, dist

(* The cut leaves out the keys with the smallest values (SortWalKeyStats    *)
(* before the cut).                                                         *)
LEMMA BusiestHolds == SummaryInv => BusiestKeysShown
<1> SUFFICES ASSUME SummaryInv, report # <<>>, report[1].source = "data-dir" PROVE BusiestKeysShown
  BY DEF BusiestKeysShown
<1> DEFINE ops == decodeLog(raftLog)
           rows == report[1].rows
           shown == {r.Key : r \in ToSet(rows)}
<1>1. PICK sortBy, top, stats : ReportOf(ops, sortBy, top, stats, "data-dir")
  <2>1. PICK sortBy, top, stats :
              \/ ReportOf(file.lines, sortBy, top, stats, "input")
              \/ ReportOf(decodeLog(raftLog), sortBy, top, stats, "data-dir")
    BY ReportFacts
  <2>2. ReportOf(decodeLog(raftLog), sortBy, top, stats, "data-dir")
    BY <2>1 DEF ReportOf
  <2> QED BY <2>2
<1>2. /\ ops \in Seq(Readable) /\ top \in Int
      /\ stats \in SortWalKeyStats(AggregateWalOps(ops), sortBy)
      /\ report[1].sortBy = sortBy /\ report[1].top = top /\ rows = ShownRows(stats, top)
  BY <1>1 DEF ReportOf
<1> HIDE DEF ops, rows
<1>3. /\ Len(stats) \in Nat /\ stats \in Seq(AggregateWalOps(ops))
      /\ \A n \in 1..Len(stats) :
           stats[n].Key \in KeysOf(ops) /\ stats[n] = KeyStats(stats[n].Key, ops)
      /\ \A m, n \in 1..Len(stats) : stats[m].Key = stats[n].Key => m = n
      /\ \A x \in KeysOf(ops) : \E n \in 1..Len(stats) : stats[n].Key = x
      /\ \A m, n \in 1..Len(stats) : m < n =>
           SortValue(stats[m], sortBy) >= SortValue(stats[n], sortBy)
  BY <1>2, StatsFacts
<1>4. /\ rows \in Seq(AggregateWalOps(ops)) /\ Len(rows) <= Len(stats)
      /\ \A n \in 1..Len(rows) : rows[n] = stats[n] /\ n \in 1..Len(stats)
      /\ ~(top > 0 /\ top < Len(stats)) => rows = stats
      /\ top > 0 /\ top < Len(stats) => Len(rows) = top
  <2>1. PICK S : S = AggregateWalOps(ops)
    OBVIOUS
  <2>2. stats \in Seq(S) /\ top \in Int
    BY <1>2, <1>3, <2>1
  <2>3. PICK list : list = rows
    OBVIOUS
  <2>4. list = ShownRows(stats, top)
    BY <1>2, <2>3
  <2>5. FirstRows(S, stats, top, list)
    BY <2>2, <2>4, RowsFacts
  <2> QED BY ONLY <2>1, <2>3, <2>5 DEF FirstRows
<1>5. ToSet(rows) = {rows[n] : n \in 1..Len(rows)} /\ Len(rows) \in Nat
  <2>1. DOMAIN rows = 1..Len(rows) /\ Len(rows) \in Nat
    BY <1>4
  <2> QED BY <2>1 DEF ToSet
<1>6. shown = {rows[n].Key : n \in 1..Len(rows)}
  BY <1>5
<1>7. ASSUME NEW k \in Key \ shown, NEW r \in ToSet(rows)
      PROVE  SortValue(KeyStats(k, ops), sortBy) <= SortValue(r, sortBy)
  <2>1. PICK n \in 1..Len(rows) : r = rows[n]
    BY <1>5
  <2>2. r = stats[n] /\ n \in 1..Len(stats)
    BY <1>4, <2>1
  <2>3. SortValue(r, sortBy) \in Nat /\ SortValue(KeyStats(k, ops), sortBy) \in Nat
    <3>1. r = KeyStats(stats[n].Key, ops)
      BY <1>3, <2>2
    <3> QED BY <1>2, <3>1, SortValueType
  <2>4. CASE k \in KeysOf(ops)
    <3>1. PICK m \in 1..Len(stats) : stats[m].Key = k
      BY <1>3, <2>4
    <3>2. ~(m <= Len(rows))
      BY <1>3, <1>4, <1>5, <1>6, <1>7, <3>1
    <3>3. n < m
      BY <1>3, <1>5, <2>1, <3>2
    <3>4. stats[m] = KeyStats(k, ops)
      BY <1>3, <3>1
    <3>5. SortValue(stats[n], sortBy) >= SortValue(stats[m], sortBy)
      BY <1>3, <2>2, <3>3
    <3> QED BY <2>2, <2>3, <3>4, <3>5
  <2>5. CASE k \notin KeysOf(ops)
    <3>1. k # NoKey
      BY WalSummaryAssumption
    <3>2. SortValue(KeyStats(k, ops), sortBy) = 0
      BY <1>2, <2>5, <3>1, SortValueType
    <3> QED BY <2>3, <3>2
  <2> QED BY <2>4, <2>5
<1>8. ASSUME ~Uncut, Cardinality(shown) < top, NEW op \in ToSet(ops)
      PROVE  op.Key \in shown \union {NoKey}
  <2>1. Cardinality(shown) = Len(rows)
    <3> DEFINE keys == [n \in 1..Len(rows) |-> rows[n].Key]
    <3>1. \A n \in 1..Len(rows) : keys[n] = rows[n].Key /\ rows[n].Key \in shown
      BY <1>6
    <3>2. keys \in Seq(shown) /\ Len(keys) = Len(rows)
      <4> HIDE DEF shown
      <4> QED BY <1>5, <3>1
    <3>3. \A i, j \in 1..Len(keys) : keys[i] = keys[j] => i = j
      <4>1. SUFFICES ASSUME NEW i \in 1..Len(rows), NEW j \in 1..Len(rows), keys[i] = keys[j]
                     PROVE  i = j
        BY <3>2
      <4>2. stats[i].Key = stats[j].Key
        BY <1>4, <3>1, <4>1
      <4> QED BY <1>3, <1>4, <4>2
    <3>4. \A x \in shown : \E i \in 1..Len(keys) : keys[i] = x
      BY <1>6, <3>1, <3>2
    <3>5. IsFiniteSet(shown)
      <4>1. IsFiniteSet(1..Len(rows))
        BY <1>5, FS_Interval
      <4>2. shown = {keys[n] : n \in 1..Len(rows)}
        BY <1>6, <3>1
      <4> HIDE DEF keys, shown
      <4> QED BY <4>1, <4>2, FiniteImage
    <3> HIDE DEF keys, shown
    <3> QED BY <3>2, <3>3, <3>4, <3>5, DistinctFacts
  <2>2. rows = stats
    BY <1>2, <1>3, <1>4, <1>8, <2>1
  <2>3. PICK n \in 1..Len(ops) : op = ops[n]
    <3>1. DOMAIN ops = 1..Len(ops)
      BY <1>2
    <3> QED BY <3>1 DEF ToSet
  <2>4. op.Key \in KeysOf(ops) \union {NoKey}
    BY <1>2, <2>3, KeysOfFacts
  <2>5. op.Key \in KeysOf(ops) => \E m \in 1..Len(stats) : stats[m].Key = op.Key
    BY <1>3
  <2> QED BY <1>6, <2>2, <2>4, <2>5
<1>9. /\ \A k \in Key \ shown : \A r \in ToSet(rows) :
             SortValue(KeyStats(k, ops), report[1].sortBy) <= SortValue(r, report[1].sortBy)
      /\ ~Uncut /\ Cardinality(shown) < report[1].top =>
             \A op \in ToSet(ops) : op.Key \in shown \union {NoKey}
  BY <1>2, <1>7, <1>8
<1> QED BY <1>9, Zenon DEF BusiestKeysShown, ops, rows

(* How many places of a sequence hold an element of Q.                      *)
Places(s, Q) == Cardinality({n \in 1..Len(s) : s[n] \in Q})

(* A filter takes nothing twice, and no filter takes everything.            *)
LEMMA WantedCount ==
  ASSUME NEW types, NEW ops \in Seq(Decoded), NEW Q
  PROVE  /\ Places(WantedOps(types, ops), Q) <= Places(ops, Q)
         /\ types = {} => WantedOps(types, ops) = ops
<1> DEFINE s == [n \in 1..Len(ops) |->
                   IF types = {} \/ ops[n].EntryType \in types THEN <<ops[n]>> ELSE <<>>]
           w == Ones(Decoded, Q)
           kept == WantedOps(types, ops)
           p == [n \in 1..Len(ops) |-> WeightOf(s[n], w)]
           q == [n \in 1..Len(ops) |-> w[ops[n]]]
<1>1. PICK m \in Nat : m = Len(ops)
  OBVIOUS
<1>2. \A n \in 1..m : ops[n] \in Decoded
  BY <1>1
<1>3. s \in Seq(Seq(Decoded)) /\ kept = FlattenSeq(s) /\ kept \in Seq(Decoded)
  BY WantedType DEF WantedOps
<1>4. Len(s) = m /\ \A n \in 1..m : s[n] \in {<<ops[n]>>, <<>>}
  BY <1>1
<1>5. w \in [Decoded -> Nat]
      /\ Cardinality({n \in 1..Len(kept) : kept[n] \in Q}) = WeightOf(kept, w)
      /\ Cardinality({n \in 1..Len(ops) : ops[n] \in Q}) = WeightOf(ops, w)
  BY <1>3, CountIsTotal
<1>6. types = {} => kept = ops
  <2>1. SUFFICES ASSUME types = {} PROVE kept = ops
    OBVIOUS
  <2>2. s = [n \in 1..Len(ops) |-> <<ops[n]>>]
    BY <2>1
  <2>3. FlattenSeq([n \in 1..Len(ops) |-> <<ops[n]>>]) = ops
    BY FlattenSingletons
  <2> HIDE DEF s, kept
  <2> QED BY <1>3, <2>2, <2>3
<1> HIDE DEF s, w, kept
<1>7. \A n \in 1..m : p[n] \in Nat /\ q[n] \in Nat /\ p[n] <= q[n]
  <2>1. SUFFICES ASSUME NEW n \in 1..m PROVE p[n] \in Nat /\ q[n] \in Nat /\ p[n] <= q[n]
    OBVIOUS
  <2>2. p[n] = WeightOf(s[n], w) /\ q[n] = w[ops[n]]
    BY <1>1
  <2>3. PICK x \in Decoded : x = ops[n]
    BY <1>2
  <2>4. WeightOf(<<>>, w) = 0 /\ WeightOf(<<x>>, w) = w[x] /\ w[x] \in Nat
    BY <1>5, TotalSmall
  <2>5. s[n] = <<x>> \/ s[n] = <<>>
    BY <1>4, <2>3
  <2> HIDE DEF p, q
  <2> QED BY <2>2, <2>3, <2>4, <2>5
<1>8. WeightOf(kept, w) = FoldLeft(+, 0, [n \in 1..m |-> p[n]])
  <2>1. WeightOf(FlattenSeq(s), w) = FoldLeft(+, 0, [n \in 1..Len(s) |-> WeightOf(s[n], w)])
    BY <1>3, <1>5, TotalFlatten
  <2>2. [n \in 1..Len(s) |-> WeightOf(s[n], w)] = [n \in 1..m |-> p[n]]
    BY <1>1, <1>4
  <2> QED BY <1>3, <2>1, <2>2
<1>9. WeightOf(ops, w) = FoldLeft(+, 0, [n \in 1..m |-> q[n]])
  <2>1. [n \in 1..Len(ops) |-> w[ops[n]]] = [n \in 1..m |-> q[n]]
    BY <1>1
  <2> QED BY <2>1 DEF WeightOf
<1> HIDE DEF p, q
<1>10. FoldLeft(+, 0, [n \in 1..m |-> p[n]]) <= FoldLeft(+, 0, [n \in 1..m |-> q[n]])
  BY <1>7, SumMonotone
<1>11. Places(kept, Q) <= Places(ops, Q)
  BY <1>5, <1>8, <1>9, <1>10 DEF Places
<1> QED BY <1>6, <1>11 DEF kept

(* The distribution does not depend on the keys.                            *)
LEMMA LinesDistribution ==
  ASSUME NEW ops \in Seq(Decoded)
  PROVE  EntryTypeDist(Lines(ops)) = EntryTypeDist(ops)
<1> DEFINE t == Lines(ops)
<1>1. PICK m \in Nat : m = Len(ops)
  OBVIOUS
<1>2. t \in Seq(Readable) /\ Len(t) = m /\ \A n \in 1..m : t[n] = JSONLine(ops[n]) /\ ops[n] \in Decoded
  BY <1>1, LinesFacts
<1>3. \A n \in 1..m : t[n].EntryType = ops[n].EntryType
  BY <1>2, LineFacts
<1> HIDE DEF t
<1>4. ToSet(t) = {t[n] : n \in 1..m} /\ ToSet(ops) = {ops[n] : n \in 1..m}
  <2>1. DOMAIN t = 1..m /\ DOMAIN ops = 1..m
    BY <1>1, <1>2
  <2> QED BY <2>1 DEF ToSet
<1>5. OrderedTypes(t) = OrderedTypes(ops)
  <2>1. {op.EntryType : op \in ToSet(t)} = {t[n].EntryType : n \in 1..m}
    BY <1>4
  <2>2. {op.EntryType : op \in ToSet(ops)} = {ops[n].EntryType : n \in 1..m}
    BY <1>4
  <2>3. {t[n].EntryType : n \in 1..m} = {ops[n].EntryType : n \in 1..m}
    BY <1>3
  <2> QED BY <2>1, <2>2, <2>3 DEF OrderedTypes
<1>6. \A type : {n \in 1..Len(t) : t[n].EntryType = type} = {n \in 1..Len(ops) : ops[n].EntryType = type}
  BY <1>1, <1>2, <1>3
<1>7. EntryTypeDist(t) = EntryTypeDist(ops)
  <2>1. [type \in OrderedTypes(t) |-> Cardinality({n \in 1..Len(t) : t[n].EntryType = type})]
          = [type \in OrderedTypes(ops) |-> Cardinality({n \in 1..Len(ops) : ops[n].EntryType = type})]
    BY <1>5, <1>6
  <2> QED BY <2>1, Zenon DEF EntryTypeDist
<1> QED BY <1>7 DEF t

(* The operations whose line is of a kind on a key.                         *)
OnLine(k, kind) == {op \in Decoded : op.OpType = kind /\ JSONLine(op).Key = k}

(* A report from the file counts no more than the log held, and the same if *)
(* the file is whole and unfiltered (wal-look's JSONL, wal-summary --input).*)
LEMMA OfflineHolds == SummaryInv => OfflineAgreesWithDirect
<1> SUFFICES ASSUME SummaryInv, FromFile PROVE OfflineAgreesWithDirect
  BY DEF OfflineAgreesWithDirect
<1> DEFINE ops == decodeLog(SubSeq(raftLog, 1, origin.read))
           all == Collected(raftLog, origin.read, origin.types)
           on(k, kind) == {n \in 1..Len(ops) : ops[n].OpType = kind /\ JSONLine(ops[n]).Key = k}
           complete == origin.whole /\ origin.types = {}
           lines == file.lines
<1>1. PICK sortBy, top, stats : ReportOf(lines, sortBy, top, stats, "input")
  <2>1. report # <<>> /\ report[1].source = "input"
    BY DEF FromFile
  <2>2. PICK sortBy, top, stats :
              \/ ReportOf(file.lines, sortBy, top, stats, "input")
              \/ ReportOf(decodeLog(raftLog), sortBy, top, stats, "data-dir")
    BY <2>1, ReportFacts
  <2> QED BY <2>1, <2>2 DEF ReportOf
<1>2. Logged(raftLog) /\ origin.read \in 0..Len(raftLog)
  BY DEF SummaryInv, LogInv, FileInv
<1>3. /\ lines \in Seq(Readable) /\ Len(lines) <= Len(all)
      /\ \A n \in 1..Len(lines) : lines[n] = JSONLine(all[n])
      /\ origin.whole => Len(lines) = Len(all)
  BY DEF SummaryInv, FileInv
<1>4. all \in Seq(Decoded) /\ ops \in Seq(Decoded)
  BY <1>2, CollectedType
<1>5. all = WantedOps(origin.types, ops)
  BY DEF Collected
<1>6. complete => all = ops
  <2>1. origin.types = {} => WantedOps(origin.types, ops) = ops
    BY <1>4, WantedCount
  <2> HIDE DEF ops
  <2> QED BY <1>5, <2>1
<1>7. /\ Len(lines) \in Nat /\ Len(all) \in Nat /\ Len(ops) \in Nat
      /\ \A n \in 1..Len(all) : all[n] \in Decoded
      /\ \A n \in 1..Len(ops) : ops[n] \in Decoded
  BY <1>3, <1>4
<1> HIDE DEF lines, all, ops
<1>8. \A n \in 1..Len(lines) : n \in 1..Len(all) /\ lines[n] = JSONLine(all[n]) /\ all[n] \in Decoded
  BY <1>3, <1>7
<1>9. \A n \in 1..Len(lines) : lines[n].OpType = all[n].OpType
  BY <1>8, LineFacts
<1>10. ASSUME NEW j \in Key, NEW k, k = JSONKey[j], NEW kind \in Writes
       PROVE  /\ RowCount(k, kind) <= Cardinality(on(k, kind))
              /\ complete => RowCount(k, kind) = Cardinality(on(k, kind))
  <2> DEFINE Q == OnLine(k, kind)
             a == {n \in 1..Len(all) : all[n] \in Q}
             b == OpsOn(k, kind, lines)
  <2>1. RowCount(k, kind) = Cardinality(b)
    <3>1. Uncut
      BY DEF FromFile
    <3>2. k # NoKey
      BY <1>10, WalSummaryAssumption
    <3> QED BY <1>1, <3>1, <3>2, RowCountIs
  <2>2. on(k, kind) = {n \in 1..Len(ops) : ops[n] \in Q}
    BY <1>7 DEF OnLine
  <2>3. \A n : n \in b <=> n \in 1..Len(lines) /\ all[n] \in Q
    <3>1. \A n : n \in b <=> n \in 1..Len(lines) /\ lines[n].Key = k /\ lines[n].OpType = kind
      BY DEF OpsOn, CountedAs
    <3> HIDE DEF b
    <3> QED BY <1>8, <1>9, <3>1 DEF OnLine
  <2>4. b \subseteq a
    <3> HIDE DEF b, Q
    <3> QED BY <1>8, <2>3
  <2>5. origin.whole => b = a
    <3> HIDE DEF b, Q
    <3> QED BY <1>3, <1>7, <2>3
  <2>6. IsFiniteSet(a) /\ Cardinality(a) \in Nat /\ Cardinality(b) \in Nat /\ Cardinality(b) <= Cardinality(a)
    <3>1. IsFiniteSet(1..Len(all)) /\ a \subseteq 1..Len(all)
      BY <1>7, FS_Interval
    <3> HIDE DEF a, b
    <3>2. IsFiniteSet(a)
      BY <3>1, FS_Subset
    <3> QED BY <2>4, <3>2, FS_Subset, FS_CardinalityType
  <2>7. Cardinality(a) <= Cardinality(on(k, kind)) /\ Cardinality(on(k, kind)) \in Nat
    <3>1. Places(WantedOps(origin.types, ops), Q) <= Places(ops, Q)
      <4> HIDE DEF Q
      <4> QED BY <1>4, WantedCount
    <3>2. Cardinality({n \in 1..Len(all) : all[n] \in Q}) <= Cardinality({n \in 1..Len(ops) : ops[n] \in Q})
      BY <1>5, <3>1 DEF Places
    <3>3. IsFiniteSet(1..Len(ops)) /\ on(k, kind) \subseteq 1..Len(ops)
      BY <1>7, FS_Interval
    <3>4. Cardinality(on(k, kind)) \in Nat
      <4> HIDE DEF on
      <4> QED BY <3>3, FS_Subset, FS_CardinalityType
    <3>5. Cardinality(a) <= Cardinality(on(k, kind))
      BY <2>2, <3>2
    <3> HIDE DEF a, on
    <3> QED BY <3>4, <3>5
  <2>8. complete => b = on(k, kind)
    <3>1. SUFFICES ASSUME complete PROVE b = on(k, kind)
      OBVIOUS
    <3>2. all = ops
      BY <1>6, <3>1
    <3>3. b = {n \in 1..Len(all) : all[n] \in Q}
      BY <2>5, <3>1
    <3> HIDE DEF b, Q, on
    <3> QED BY <2>2, <3>2, <3>3
  <2> HIDE DEF a, b, on, complete
  <2> QED BY <2>1, <2>6, <2>7, <2>8
<1>11. complete => report[1].dist = EntryTypeDist(ops)
  <2>1. SUFFICES ASSUME complete PROVE report[1].dist = EntryTypeDist(ops)
    OBVIOUS
  <2>2. report[1].dist = EntryTypeDist(lines)
    BY <1>1 DEF ReportOf
  <2>3. all = ops /\ Len(lines) = Len(ops)
    BY <1>3, <1>6, <2>1
  <2>4. lines = Lines(ops)
    <3>1. Lines(ops) \in Seq(Readable) /\ Len(Lines(ops)) = Len(ops)
          /\ \A n \in 1..Len(ops) : Lines(ops)[n] = JSONLine(ops[n])
      BY <1>4, LinesFacts
    <3>2. \A n \in 1..Len(lines) : lines[n] = Lines(ops)[n]
      BY <1>3, <2>3, <3>1
    <3>3. lines \in Seq(Readable)
      BY <1>3
    <3> QED BY <2>3, <3>1, <3>2, <3>3, SeqEqual
  <2> QED BY <1>4, <2>2, <2>4, LinesDistribution
<1>12. /\ \A k \in {JSONKey[j] : j \in Key}, kind \in Writes :
            /\ RowCount(k, kind) <= Cardinality(on(k, kind))
            /\ complete => RowCount(k, kind) = Cardinality(on(k, kind))
       /\ complete => report[1].dist = EntryTypeDist(ops)
  <2>1. SUFFICES ASSUME NEW k \in {JSONKey[j] : j \in Key}, NEW kind \in Writes
                 PROVE  /\ RowCount(k, kind) <= Cardinality(on(k, kind))
                        /\ complete => RowCount(k, kind) = Cardinality(on(k, kind))
    BY <1>11
  <2>2. PICK j \in Key : k = JSONKey[j]
    BY <2>1
  <2> HIDE DEF on, complete
  <2> QED BY <1>10, <2>2
<1> QED BY <1>12, Zenon DEF OfflineAgreesWithDirect, ops

(* A filter of two lists one behind the other.                              *)
LEMMA WantedConcat ==
  ASSUME NEW types, NEW a \in Seq(Decoded), NEW b \in Seq(Decoded)
  PROVE  WantedOps(types, a \o b) = WantedOps(types, a) \o WantedOps(types, b)
<1> DEFINE Options(ops) == [n \in 1..Len(ops) |->
             IF types = {} \/ ops[n].EntryType \in types THEN <<ops[n]>> ELSE <<>>]
           s == Options(a)
           t == Options(b)
           u == Options(a \o b)
<1>1. PICK k \in Nat : k = Len(a)
  OBVIOUS
<1>2. PICK l \in Nat : l = Len(b)
  OBVIOUS
<1>3. /\ a \o b \in Seq(Decoded) /\ Len(a \o b) = k + l
      /\ \A i \in 1..(k + l) : (a \o b)[i] = IF i <= k THEN a[i] ELSE b[i - k]
  BY <1>1, <1>2, ConcatIs
<1>4. s \in Seq(Seq(Decoded)) /\ t \in Seq(Seq(Decoded)) /\ u \in Seq(Seq(Decoded))
  BY <1>3, WantedType
<1>5. Len(s) = k /\ Len(t) = l /\ Len(u) = k + l
  BY <1>1, <1>2, <1>3
<1>6. /\ \A i \in 1..k : s[i] = IF types = {} \/ a[i].EntryType \in types THEN <<a[i]>> ELSE <<>>
      /\ \A i \in 1..l : t[i] = IF types = {} \/ b[i].EntryType \in types THEN <<b[i]>> ELSE <<>>
      /\ \A i \in 1..(k + l) :
           u[i] = IF types = {} \/ (a \o b)[i].EntryType \in types THEN <<(a \o b)[i]>> ELSE <<>>
  BY <1>1, <1>2, <1>3
<1>7. WantedOps(types, a) = FlattenSeq(s) /\ WantedOps(types, b) = FlattenSeq(t)
      /\ WantedOps(types, a \o b) = FlattenSeq(u)
  BY DEF WantedOps
<1> HIDE DEF s, t, u
<1>8. u = s \o t
  <2>1. /\ s \o t \in Seq(Seq(Decoded)) /\ Len(s \o t) = k + l
        /\ \A i \in 1..(k + l) : (s \o t)[i] = IF i <= k THEN s[i] ELSE t[i - k]
    <3>1. PICK S : S = Seq(Decoded)
      OBVIOUS
    <3>2. s \in Seq(S) /\ t \in Seq(S) /\ k = Len(s) /\ l = Len(t)
      BY <1>4, <1>5, <3>1
    <3>3. /\ s \o t \in Seq(S) /\ Len(s \o t) = k + l
          /\ \A i \in 1..(k + l) : (s \o t)[i] = IF i <= k THEN s[i] ELSE t[i - k]
      BY ONLY <3>2, k \in Nat, l \in Nat, ConcatIs
    <3> QED BY <3>1, <3>3
  <2>2. ASSUME NEW i \in 1..(k + l) PROVE u[i] = (s \o t)[i]
    <3>1. CASE i <= k
      <4>1. i \in 1..k /\ (a \o b)[i] = a[i] /\ (s \o t)[i] = s[i]
        BY <1>3, <2>1, <3>1
      <4> QED BY <1>6, <4>1
    <3>2. CASE ~(i <= k)
      <4>1. (a \o b)[i] = b[i - k] /\ (s \o t)[i] = t[i - k]
        BY <1>3, <2>1, <3>2
      <4>2. i - k \in 1..l
        BY <3>2
      <4> QED BY <1>6, <4>1, <4>2
    <3> QED BY <3>1, <3>2
  <2> QED BY <1>4, <1>5, <2>1, <2>2, SeqEqual
<1> QED BY <1>4, <1>7, <1>8, FlattenConcat

(* What the filter leaves of an entry: all of its operations or none.       *)
LEMMA WantedBlock ==
  ASSUME NEW types, NEW i, NEW type, NEW d \in Seq(DecodedAs(i, type))
  PROVE  WantedOps(types, d) \in {d, <<>>}
<1>1. d \in Seq(Decoded) /\ \A n \in 1..Len(d) : d[n].EntryType = type
  <2>1. \A x \in DecodedAs(i, type) : x \in Decoded /\ x.EntryType = type
    BY DEF DecodedAs
  <2> QED BY <2>1
<1> DEFINE s == [n \in 1..Len(d) |-> IF types = {} \/ d[n].EntryType \in types THEN <<d[n]>> ELSE <<>>]
<1>2. s \in Seq(Seq(Decoded)) /\ WantedOps(types, d) = FlattenSeq(s)
  BY <1>1, WantedType DEF WantedOps
<1>3. CASE types = {} \/ type \in types
  <2>1. s = [n \in 1..Len(d) |-> <<d[n]>>]
    BY <1>1, <1>3
  <2>2. FlattenSeq([n \in 1..Len(d) |-> <<d[n]>>]) = d
    BY <1>1, FlattenSingletons
  <2> HIDE DEF s
  <2> QED BY <1>2, <2>1, <2>2
<1>4. CASE ~(types = {} \/ type \in types)
  <2>1. \A n \in 1..Len(s) : s[n] = <<>>
    <3>1. Len(d) \in Nat
      BY <1>1
    <3>2. Len(s) = Len(d)
      BY <3>1
    <3> QED BY <1>1, <1>4, <3>2
  <2> HIDE DEF s
  <2> QED BY <1>2, <2>1, FlattenEmpty
<1> QED BY <1>3, <1>4

(* One entry more is read.                                                  *)
LEMMA CollectedNext ==
  ASSUME NEW es, Logged(es), NEW n \in 0..(Len(es) - 1), NEW types
  PROVE  /\ Collected(es, n + 1, types)
              = Collected(es, n, types) \o WantedOps(types, decodeEntry(es[n + 1]))
         /\ Collected(es, n, types) \in Seq(Decoded)
<1> DEFINE s == [i \in 1..Len(es) |-> decodeEntry(es[i])]
           D(m) == decodeLog(SubSeq(es, 1, m))
<1>1. PICK l \in Nat : l = Len(es)
  BY LoggedFacts
<1>2. s \in Seq(Seq(Decoded)) /\ Len(s) = l
  <2>1. s \in Seq(Seq(Decoded))
    BY LoggedFacts
  <2> QED BY <1>1, <2>1
<1>3. ASSUME NEW m \in 0..l PROVE D(m) = FlattenSeq(SubSeq(s, 1, m))
  <2> DEFINE front == SubSeq(es, 1, m)
  <2>1. Len(front) = m /\ \A i \in 1..m : front[i] = es[i]
    BY <1>1, LoggedFront
  <2> HIDE DEF front
  <2>2. [i \in 1..Len(front) |-> decodeEntry(front[i])] = [i \in 1..m |-> decodeEntry(es[i])]
    BY <2>1
  <2>3. [i \in 1..m |-> decodeEntry(es[i])] = [i \in 1..m |-> s[i]]
    BY <1>1
  <2>4. SubSeq(s, 1, m) = [i \in 1..m |-> s[i]]
    <3> HIDE DEF s
    <3> QED BY <1>2, PrefixIs
  <2>5. [i \in 1..Len(front) |-> decodeEntry(front[i])] = SubSeq(s, 1, m)
    BY <2>2, <2>3, <2>4
  <2> QED BY <2>5 DEF decodeLog, front
<1>4. /\ n \in 0..(l - 1) /\ n \in 0..l /\ n + 1 \in 0..l /\ n + 1 \in 1..l /\ n \in Nat
      /\ n \in 0..Len(es)
  BY <1>1
<1>5. s[n + 1] = decodeEntry(es[n + 1])
  BY <1>1, <1>4
<1> HIDE DEF s
<1>6. D(n + 1) = D(n) \o s[n + 1]
  <2>1. FlattenSeq(SubSeq(s, 1, n + 1)) = FlattenSeq(SubSeq(s, 1, n)) \o s[n + 1]
    BY <1>2, <1>4, FlattenPrefix
  <2> QED BY <1>3, <1>4, <2>1
<1>7. D(n) \in Seq(Decoded) /\ s[n + 1] \in Seq(Decoded)
  <2>1. D(n) \in Seq(Decoded)
    BY <1>4, CollectedType
  <2> QED BY <1>2, <1>4, <2>1
<1> HIDE DEF D
<1>8. WantedOps(types, D(n + 1)) = WantedOps(types, D(n)) \o WantedOps(types, s[n + 1])
  BY <1>6, <1>7, WantedConcat
<1>9. Collected(es, n, types) \in Seq(Decoded)
  BY <1>4, CollectedType
<1> QED BY <1>5, <1>8, <1>9 DEF Collected, D

(* In s, the operations of entry i are those of b, from the place lo on.    *)
HasBlock(s, lo, b, i) ==
  /\ lo + Len(b) <= Len(s)
  /\ \A p \in 1..Len(s) : p <= lo => s[p].RaftIndex < i
  /\ \A p \in 1..Len(s) : p > lo + Len(b) => s[p].RaftIndex > i
  /\ \A j \in 1..Len(b) : s[lo + j] = b[j] /\ b[j].RaftIndex = i

(* The operations of the last entry come behind those of the earlier ones.  *)
LEMMA BlockAtEnd ==
  ASSUME NEW S, NEW s \in Seq(S), NEW b \in Seq(S), NEW i \in Nat,
         \A p \in 1..Len(s) : s[p].RaftIndex \in Nat /\ s[p].RaftIndex < i,
         \A j \in 1..Len(b) : b[j].RaftIndex = i
  PROVE  HasBlock(s \o b, Len(s), b, i)
<1> DEFINE t == s \o b
<1>1. PICK k \in Nat : k = Len(s)
  OBVIOUS
<1>2. PICK l \in Nat : l = Len(b)
  OBVIOUS
<1>3. /\ t \in Seq(S) /\ Len(t) = k + l
      /\ \A p \in 1..(k + l) : t[p] = IF p <= k THEN s[p] ELSE b[p - k]
  BY <1>1, <1>2, ConcatIs
<1> HIDE DEF t
<1>4. \A p \in 1..Len(t) : p <= k => t[p].RaftIndex < i
  <2>1. SUFFICES ASSUME NEW p \in 1..Len(t), p <= k PROVE t[p].RaftIndex < i
    OBVIOUS
  <2>2. t[p] = s[p] /\ p \in 1..Len(s)
    BY <1>1, <1>3, <2>1
  <2> QED BY <2>2
<1>5. \A p \in 1..Len(t) : ~(p > k + l)
  BY <1>3
<1>6. \A j \in 1..l : t[k + j] = b[j] /\ b[j].RaftIndex = i
  <2>1. SUFFICES ASSUME NEW j \in 1..l PROVE t[k + j] = b[j]
    BY <1>2
  <2>2. PICK p \in 1..(k + l) : p = k + j
    OBVIOUS
  <2>3. ~(p <= k) /\ p - k = j
    BY <2>2
  <2> QED BY <1>3, <2>2, <2>3
<1> QED BY <1>1, <1>2, <1>3, <1>4, <1>5, <1>6 DEF HasBlock, t

(* Later entries do not move them.                                          *)
LEMMA BlockStays ==
  ASSUME NEW S, NEW s \in Seq(S), NEW b \in Seq(S), NEW i \in Nat, NEW lo \in Nat,
         HasBlock(s, lo, b, i),
         NEW z \in Seq(S), \A j \in 1..Len(z) : z[j].RaftIndex > i
  PROVE  HasBlock(s \o z, lo, b, i)
<1> DEFINE t == s \o z
<1>1. PICK k \in Nat : k = Len(s)
  OBVIOUS
<1>2. PICK l \in Nat : l = Len(z)
  OBVIOUS
<1>3. PICK m \in Nat : m = Len(b)
  OBVIOUS
<1>4. /\ t \in Seq(S) /\ Len(t) = k + l
      /\ \A p \in 1..(k + l) : t[p] = IF p <= k THEN s[p] ELSE z[p - k]
  BY <1>1, <1>2, ConcatIs
<1> HIDE DEF t
<1>5. /\ lo + m <= k
      /\ \A p \in 1..k : p <= lo => s[p].RaftIndex < i
      /\ \A p \in 1..k : p > lo + m => s[p].RaftIndex > i
      /\ \A j \in 1..m : s[lo + j] = b[j] /\ b[j].RaftIndex = i
  BY <1>1, <1>3 DEF HasBlock
<1>6. \A p \in 1..(k + l) : p <= lo => t[p].RaftIndex < i
  <2>1. SUFFICES ASSUME NEW p \in 1..(k + l), p <= lo PROVE t[p].RaftIndex < i
    OBVIOUS
  <2>2. p \in 1..k /\ p <= k
    BY <1>5, <2>1
  <2>3. t[p] = s[p]
    BY <1>4, <2>2
  <2> QED BY <1>5, <2>1, <2>2, <2>3
<1>7. \A p \in 1..(k + l) : p > lo + m => t[p].RaftIndex > i
  <2>1. SUFFICES ASSUME NEW p \in 1..(k + l), p > lo + m PROVE t[p].RaftIndex > i
    OBVIOUS
  <2>2. CASE p <= k
    <3>1. p \in 1..k
      BY <2>2
    <3>2. t[p] = s[p]
      BY <1>4, <2>2
    <3> QED BY <1>5, <2>1, <3>1, <3>2
  <2>3. CASE ~(p <= k)
    <3>1. PICK q \in 1..l : q = p - k
      BY <2>3
    <3>2. t[p] = z[q]
      BY <1>4, <2>3, <3>1
    <3> QED BY <1>2, <3>2
  <2> QED BY <2>2, <2>3
<1>8. \A j \in 1..m : t[lo + j] = b[j] /\ b[j].RaftIndex = i
  <2>1. SUFFICES ASSUME NEW j \in 1..m PROVE t[lo + j] = b[j]
    BY <1>5
  <2>2. PICK p \in 1..(k + l) : p = lo + j
    BY <1>5
  <2>3. p <= k
    BY <1>5, <2>2
  <2>4. t[p] = s[p]
    BY <1>4, <2>3
  <2> QED BY <1>5, <2>2, <2>4
<1>9. lo + m <= k + l
  BY <1>5
<1> QED BY <1>3, <1>4, <1>6, <1>7, <1>8, <1>9 DEF HasBlock, t

(* The operations of an entry stand together in what is collected.          *)
LEMMA EntryPlaces ==
  ASSUME NEW es, Logged(es), NEW r \in 0..Len(es), NEW types, NEW i \in 1..r
  PROVE  \E lo \in Nat, b \in {decodeEntry(es[i]), <<>>} :
           b \in Seq(Decoded) /\ HasBlock(Collected(es, r, types), lo, b, i)
<1> DEFINE F(n) == Collected(es, n, types)
           B(n) == WantedOps(types, decodeEntry(es[n]))
           Low(n) == \A p \in 1..Len(F(n)) : F(n)[p].RaftIndex \in Nat /\ F(n)[p].RaftIndex < n + 1
<1>1. PICK l \in Nat : l = Len(es)
  BY LoggedFacts
<1>2. \A n \in 0..l : F(n) \in Seq(Decoded)
  BY <1>1, CollectedType
<1>3. ASSUME NEW n \in 1..l
      PROVE  /\ B(n) \in {decodeEntry(es[n]), <<>>} /\ B(n) \in Seq(Decoded)
             /\ \A j \in 1..Len(B(n)) : B(n)[j].RaftIndex = n
  <2>1. PICK type \in EntryTypes : decodeEntry(es[n]) \in Seq(DecodedAs(n, type))
    BY <1>1, LoggedFacts
  <2>2. B(n) \in {decodeEntry(es[n]), <<>>}
    BY <2>1, WantedBlock
  <2>3. B(n) \in Seq(DecodedAs(n, type))
    <3>1. <<>> \in Seq(DecodedAs(n, type))
      OBVIOUS
    <3> HIDE DEF B
    <3> QED BY <2>1, <2>2, <3>1
  <2>4. \A x \in DecodedAs(n, type) : x \in Decoded /\ x.RaftIndex = n
    BY DEF DecodedAs
  <2> HIDE DEF B
  <2> QED BY <2>2, <2>3, <2>4
<1>4. ASSUME NEW n \in 0..(l - 1) PROVE F(n + 1) = F(n) \o B(n + 1)
  BY <1>1, CollectedNext
<1>5. F(0) = <<>>
  <2>1. SubSeq(es, 1, 0) = <<>> /\ SubSeq(<<>>, 1, 0) = <<>>
    BY SubSeqEmpty
  <2>2. Collected(<<>>, 0, types) = <<>>
    BY NothingCollected
  <2> QED BY <2>1, <2>2 DEF Collected
<1> HIDE DEF F, B
<1>6. ASSUME NEW n \in Nat PROVE n <= l => Low(n)
  <2> DEFINE T == {m \in Nat : m <= l => Low(m)}
  <2>1. 0 \in T
    BY <1>5
  <2>2. ASSUME NEW m \in Nat, m \in T PROVE m + 1 \in T
    <3>1. SUFFICES ASSUME m + 1 <= l PROVE Low(m + 1)
      OBVIOUS
    <3>2. m \in 0..(l - 1) /\ m \in 0..l /\ m + 1 \in 1..l /\ m <= l
      BY <1>1, <3>1
    <3>3. \A p \in 1..Len(F(m)) : F(m)[p].RaftIndex \in Nat /\ F(m)[p].RaftIndex < m + 1
      BY <2>2, <3>2
    <3>4. PICK s \in Seq(Decoded) : s = F(m)
      BY <1>2, <3>2
    <3>5. PICK b \in Seq(Decoded) : b = B(m + 1)
      BY <1>3, <3>2
    <3>6. \A j \in 1..Len(b) : b[j].RaftIndex = m + 1
      BY <1>3, <3>2, <3>5
    <3>7. F(m + 1) = s \o b
      BY <1>4, <3>2, <3>4, <3>5
    <3>8. PICK u \in Nat : u = Len(s)
      OBVIOUS
    <3>9. PICK v \in Nat : v = Len(b)
      OBVIOUS
    <3>10. /\ Len(s \o b) = u + v
           /\ \A p \in 1..(u + v) : (s \o b)[p] = IF p <= u THEN s[p] ELSE b[p - u]
      BY <3>8, <3>9, ConcatIs
    <3>11. ASSUME NEW p \in 1..(u + v)
           PROVE  (s \o b)[p].RaftIndex \in Nat /\ (s \o b)[p].RaftIndex < (m + 1) + 1
      <4>1. CASE p <= u
        <5>1. p \in 1..Len(F(m)) /\ (s \o b)[p] = F(m)[p]
          BY <3>4, <3>8, <3>10, <4>1
        <5>2. F(m)[p].RaftIndex \in Nat /\ F(m)[p].RaftIndex < m + 1
          BY <3>3, <5>1
        <5> QED BY <5>1, <5>2
      <4>2. CASE ~(p <= u)
        <5>1. PICK q \in 1..v : q = p - u
          BY <4>2
        <5>2. (s \o b)[p] = b[q]
          BY <3>10, <4>2, <5>1
        <5>3. b[q].RaftIndex = m + 1
          BY <3>6, <3>9
        <5> QED BY <5>2, <5>3
      <4> QED BY <4>1, <4>2
    <3> QED BY <3>7, <3>10, <3>11
  <2>3. n \in T
    <3> HIDE DEF T
    <3> QED BY <2>1, <2>2, SetInduction
  <2> QED BY <2>3
<1>7. /\ i \in Nat /\ i - 1 \in Nat /\ (i - 1) + 1 = i /\ i - 1 <= l /\ i - 1 \in 0..(l - 1)
      /\ i - 1 \in 0..l /\ i \in 1..l /\ r \in Nat /\ r <= l /\ i <= r
  BY <1>1
<1>8. PICK b \in Seq(Decoded) : b = B(i)
  BY <1>3, <1>7
<1>9. b \in {decodeEntry(es[i]), <<>>} /\ \A j \in 1..Len(b) : b[j].RaftIndex = i
  BY <1>3, <1>7, <1>8
<1>10. PICK lo \in Nat : HasBlock(F(i), lo, b, i)
  <2>1. PICK s \in Seq(Decoded) : s = F(i - 1)
    BY <1>2, <1>7
  <2>2. F(i) = s \o b
    BY <1>4, <1>7, <1>8, <2>1
  <2>3. \A p \in 1..Len(s) : s[p].RaftIndex \in Nat /\ s[p].RaftIndex < i
    <3>1. Low(i - 1)
      BY <1>6, <1>7
    <3> QED BY <1>7, <2>1, <3>1
  <2>4. HasBlock(s \o b, Len(s), b, i)
    BY <1>7, <1>9, <2>3, BlockAtEnd
  <2>5. Len(s) \in Nat
    OBVIOUS
  <2> QED BY <2>2, <2>4, <2>5
<1>11. HasBlock(F(r), lo, b, i)
  <2> DEFINE T == {d \in Nat : i + d <= l => HasBlock(F(i + d), lo, b, i)}
  <2>1. 0 \in T
    <3>1. i + 0 = i
      BY <1>7
    <3> QED BY <1>10, <3>1
  <2>2. ASSUME NEW d \in Nat, d \in T PROVE d + 1 \in T
    <3>1. SUFFICES ASSUME i + (d + 1) <= l PROVE HasBlock(F(i + (d + 1)), lo, b, i)
      OBVIOUS
    <3>2. PICK n \in 0..(l - 1) : n = i + d
      BY <1>7, <3>1
    <3>3. n \in 0..l /\ n + 1 \in 1..l /\ i + (d + 1) = n + 1 /\ n + 1 > i /\ i + d <= l
      BY <1>7, <3>1, <3>2
    <3>4. HasBlock(F(n), lo, b, i)
      BY <2>2, <3>2, <3>3
    <3>5. PICK s \in Seq(Decoded) : s = F(n)
      BY <1>2, <3>3
    <3>6. PICK z \in Seq(Decoded) : z = B(n + 1)
      BY <1>3, <3>3
    <3>7. \A j \in 1..Len(z) : z[j].RaftIndex > i
      BY <1>3, <1>7, <3>3, <3>6
    <3>8. HasBlock(s \o z, lo, b, i)
      BY <1>7, <3>4, <3>5, <3>7, BlockStays
    <3> QED BY <1>4, <3>2, <3>3, <3>5, <3>6, <3>8
  <2>3. r - i \in Nat /\ i + (r - i) = r
    BY <1>7
  <2>4. r - i \in T
    <3> HIDE DEF T
    <3>1. \A d \in Nat : d \in T
      BY <2>1, <2>2, SetInduction
    <3> QED BY <2>3, <3>1
  <2> QED BY <1>7, <2>3, <2>4
<1> QED BY <1>9, <1>11 DEF F

(* The first operations of s, written as lines.                             *)
AsLines(lines, s, f) ==
  /\ Len(lines) <= Len(s)
  /\ \A p \in 1..Len(lines) : lines[p] = f[s[p]] /\ lines[p].RaftIndex = s[p].RaftIndex
  /\ \A p \in 1..Len(s) : s[p].RaftIndex \in Nat

(* Of entry i the lines hold the first z of b, all unless they end there.   *)
EntryLines(S, lines, s, f, b, i, z) ==
  /\ Len(OpsOfEntry(i, lines)) = z
  /\ \A j \in 1..z : OpsOfEntry(i, lines)[j] = f[b[j]]
  /\ OpsOfEntry(i, lines) \in Seq(S)
  /\ Len(lines) = Len(s) => z = Len(b)
  /\ (\E p \in 1..Len(lines) : lines[p].RaftIndex > i) => z = Len(b)

(* The lines of an entry in the file: the first lines of its block.         *)
LEMMA BlockLines ==
  ASSUME NEW S, NEW s \in Seq(S), NEW b, NEW len \in Nat, len = Len(b), NEW lo \in Nat, NEW i \in Nat,
         NEW lines \in Seq(S), NEW f, HasBlock(s, lo, b, i), AsLines(lines, s, f)
  PROVE  \E z \in 0..len : EntryLines(S, lines, s, f, b, i, z)
<1> DEFINE P == {p \in 1..Len(lines) : lines[p].RaftIndex = i}
           t == OpsOfEntry(i, lines)
           m == Len(lines)
           n == Len(s)
<1>1. m \in Nat /\ n \in Nat /\ m <= n
  BY DEF AsLines
<1>2. /\ lo + len <= n
      /\ \A p \in 1..n : p <= lo => s[p].RaftIndex < i
      /\ \A p \in 1..n : p > lo + len => s[p].RaftIndex > i
      /\ \A j \in 1..len : s[lo + j] = b[j] /\ b[j].RaftIndex = i
  BY DEF HasBlock
<1>3. t = ElementsAt(lines, P)
  <2>1. [p \in 1..Len(lines) |-> IF lines[p].RaftIndex = i THEN <<lines[p]>> ELSE <<>>]
          = [p \in 1..Len(lines) |-> IF p \in P THEN <<lines[p]>> ELSE <<>>]
    OBVIOUS
  <2> QED BY <2>1, Zenon DEF OpsOfEntry, ElementsAt
<1>4. \A p \in 1..m : /\ p \in 1..n /\ s[p].RaftIndex \in Nat /\ lines[p].RaftIndex = s[p].RaftIndex
                     /\ lines[p] = f[s[p]]
  BY <1>1 DEF AsLines
<1>5. \A p \in 1..m : p \in P <=> p > lo /\ p <= lo + len
  <2>1. SUFFICES ASSUME NEW p \in 1..m PROVE p \in P <=> p > lo /\ p <= lo + len
    OBVIOUS
  <2>2. p \in P <=> s[p].RaftIndex = i
    BY <1>4
  <2>3. p \in 1..n /\ s[p].RaftIndex \in Nat
    BY <1>4
  <2> HIDE DEF P
  <2>4. CASE p <= lo
    BY <1>2, <2>2, <2>3, <2>4
  <2>5. CASE p > lo + len
    BY <1>2, <2>2, <2>3, <2>5
  <2>6. CASE p > lo /\ p <= lo + len
    <3>1. PICK j \in 1..len : lo + j = p
      <4>1. p - lo \in 1..len /\ lo + (p - lo) = p
        BY <2>6
      <4> QED BY <4>1
    <3> QED BY <1>2, <2>2, <2>6, <3>1
  <2> QED BY <2>4, <2>5, <2>6
<1>6. PICK z \in 0..len : /\ lo + z <= m \/ z = 0
                          /\ z = len \/ lo + z = m \/ (z = 0 /\ m <= lo)
  <2>1. CASE m <= lo
    BY <2>1
  <2>2. CASE m > lo /\ m <= lo + len
    <3>1. PICK x \in 0..len : x = m - lo
      <4>1. m - lo \in 0..len
        BY <1>1, <2>2
      <4> QED BY <4>1, Zenon
    <3>2. lo + x = m /\ x <= len /\ lo + x <= m
      BY <1>1, <3>1
    <3> QED BY <3>2
  <2>3. CASE m > lo + len
    <3>1. PICK x \in 0..len : x = len
      OBVIOUS
    <3>2. lo + x <= m
      BY <1>1, <2>3, <3>1
    <3> QED BY <3>1, <3>2
  <2> QED BY <1>1, <2>1, <2>2, <2>3
<1> HIDE DEF P, t
<1> DEFINE g == [j \in 1..z |-> lo + j]
           u == [j \in 1..z |-> lines[lo + j]]
<1>7. \A j \in 1..z : lo + j \in 1..m /\ lines[lo + j] \in S /\ j \in 1..len
  BY <1>1, <1>6
<1>8. u \in Seq(S) /\ Len(u) = z /\ \A j \in 1..z : u[j] = lines[lo + j]
  BY <1>7
<1>9. ListsAt(u, lines, m, P, g)
  <2>1. g \in [1..z -> 1..m] /\ \A j \in 1..z : g[j] = lo + j
    BY <1>7
  <2>2. \A p, q \in 1..z : p < q => g[p] < g[q]
    BY <2>1
  <2>3. \A j \in 1..z : g[j] \in P /\ u[j] = lines[g[j]]
    <3>1. \A j \in 1..z : lo + j > lo /\ lo + j <= lo + len
      OBVIOUS
    <3> HIDE DEF g, u
    <3> QED BY <1>5, <1>7, <1>8, <2>1, <3>1
  <2>4. \A p \in 1..m : p \in P => \E j \in 1..z : g[j] = p
    <3>1. SUFFICES ASSUME NEW p \in 1..m, p \in P PROVE \E j \in 1..z : g[j] = p
      OBVIOUS
    <3>2. p > lo /\ p <= lo + len
      BY <1>5, <3>1
    <3>3. p - lo \in 1..z /\ lo + (p - lo) = p
      BY <1>1, <1>6, <3>2
    <3> HIDE DEF g
    <3> QED BY <2>1, <3>3
  <2> HIDE DEF g, u
  <2> QED BY <1>8, <2>1, <2>2, <2>3, <2>4 DEF ListsAt
<1> HIDE DEF g, u
<1>10. t \in Seq(S) /\ \E h : ListsAt(t, lines, m, P, h)
  BY <1>3, ElementsAtLists
<1>11. t = u
  BY <1>1, <1>8, <1>9, <1>10, ListsSame
<1>12. \A j \in 1..z : t[j] = f[b[j]]
  <2>1. SUFFICES ASSUME NEW j \in 1..z PROVE t[j] = f[b[j]]
    OBVIOUS
  <2>2. t[j] = lines[lo + j] /\ lo + j \in 1..m /\ s[lo + j] = b[j]
    BY <1>2, <1>7, <1>8, <1>11
  <2>3. lines[lo + j] = f[s[lo + j]]
    BY <1>4, <2>2
  <2> QED BY <2>2, <2>3
<1>13. m = n => z = len
  BY <1>1, <1>2, <1>6
<1>14. (\E p \in 1..m : lines[p].RaftIndex > i) => z = len
  <2>1. SUFFICES ASSUME NEW p \in 1..m, lines[p].RaftIndex > i PROVE z = len
    OBVIOUS
  <2>2. s[p].RaftIndex > i /\ p \in 1..n /\ s[p].RaftIndex \in Nat
    BY <1>4, <2>1
  <2>3. p > lo
    BY <1>2, <2>2
  <2>4. ~(p \in P)
    BY <2>1, <2>2 DEF P
  <2>5. p > lo + len
    BY <1>5, <2>3, <2>4
  <2> QED BY <1>1, <1>6, <2>5
<1>15. Len(t) = z
  BY <1>8, <1>11
<1>16. EntryLines(S, lines, s, f, b, i, z)
  BY <1>10, <1>12, <1>13, <1>14, <1>15 DEF EntryLines, t
<1> QED BY <1>16

(* The filter keeps or drops the operations of an entry as a whole, and an  *)
(* interruption truncates the last entry only (wal-look --entry-type).      *)
LEMMA TxnsHold == SummaryInv => TxnsAreWhole
<1> SUFFICES ASSUME SummaryInv, NEW i \in 1..origin.read
             PROVE  LET expected == decodeEntry(raftLog[i])
                        ofEntry == OpsOfEntry(i, file.lines)
                        later == {op \in ToSet(file.lines) : op.RaftIndex > i}
                    IN  IF ofEntry # <<>> /\ (later # {} \/ origin.whole)
                          THEN Len(ofEntry) = Len(expected)
                          ELSE IsPrefix(OpTypes(ofEntry), OpTypes(expected))
  BY DEF TxnsAreWhole
<1> DEFINE all == Collected(raftLog, origin.read, origin.types)
           lines == file.lines
           d == decodeEntry(raftLog[i])
           t == OpsOfEntry(i, lines)
           S == Decoded \union Readable
           f == [op \in S |-> JSONLine(op)]
           later == {op \in ToSet(lines) : op.RaftIndex > i}
<1>1. Logged(raftLog) /\ origin.read \in 0..Len(raftLog) /\ Len(raftLog) \in Nat
  BY LoggedFacts DEF SummaryInv, LogInv, FileInv
<1>2. i \in Nat /\ i \in 1..Len(raftLog)
  BY <1>1
<1>3. /\ lines \in Seq(Readable) /\ Len(lines) <= Len(all)
      /\ \A p \in 1..Len(lines) : lines[p] = JSONLine(all[p])
      /\ origin.whole => Len(lines) = Len(all)
  BY DEF SummaryInv, FileInv
<1>4. all \in Seq(Decoded)
  BY <1>1, CollectedType
<1>5. d \in Seq(Decoded)
  BY <1>1, <1>2, LoggedFacts
<1>6. PICK lo \in Nat, b \in {d, <<>>} : b \in Seq(Decoded) /\ HasBlock(all, lo, b, i)
  BY <1>1, EntryPlaces
<1> HIDE DEF all, lines, d
<1>7. \A p \in 1..Len(all) : all[p] \in Decoded /\ all[p].RaftIndex \in Nat
  <2>1. \A p \in 1..Len(all) : all[p] \in Decoded
    BY <1>4
  <2> QED BY <2>1 DEF Decoded, WalOps
<1>8. Len(lines) \in Nat /\ Len(all) \in Nat
  BY <1>3, <1>4
<1>9. \A p \in 1..Len(lines) : lines[p] = f[all[p]] /\ lines[p].RaftIndex = all[p].RaftIndex
  <2>1. SUFFICES ASSUME NEW p \in 1..Len(lines)
                 PROVE  lines[p] = f[all[p]] /\ lines[p].RaftIndex = all[p].RaftIndex
    OBVIOUS
  <2>2. p \in 1..Len(all) /\ lines[p] = JSONLine(all[p])
    BY <1>3, <1>8
  <2>3. all[p] \in Decoded
    BY <1>7, <2>2
  <2> QED BY <2>2, <2>3, LineFacts
<1>10. all \in Seq(S) /\ lines \in Seq(S)
  BY <1>3, <1>4
<1>11. PICK len \in Nat : len = Len(b)
  BY <1>6
<1>12. PICK z \in 0..len :
         /\ Len(t) = z
         /\ \A j \in 1..z : t[j] = f[b[j]]
         /\ t \in Seq(S)
         /\ Len(lines) = Len(all) => z = len
         /\ (\E p \in 1..Len(lines) : lines[p].RaftIndex > i) => z = len
  <2>1. AsLines(lines, all, f)
    BY <1>3, <1>7, <1>9 DEF AsLines
  <2> HIDE DEF S, f
  <2>2. \E z \in 0..len : EntryLines(S, lines, all, f, b, i, z)
    BY <1>2, <1>6, <1>10, <1>11, <2>1, BlockLines
  <2> QED BY <1>11, <2>2 DEF EntryLines, t
<1>13. later # {} => \E p \in 1..Len(lines) : lines[p].RaftIndex > i
  <2>1. DOMAIN lines = 1..Len(lines)
    BY <1>3
  <2> QED BY <2>1 DEF ToSet
<1> HIDE DEF t, later, S
<1>14. ASSUME t # <<>>, later # {} \/ origin.whole PROVE Len(t) = Len(d)
  <2>1. z = len
    BY <1>3, <1>12, <1>13, <1>14
  <2>2. len # 0
    BY <1>12, <1>14, <2>1
  <2>3. b = d
    BY <1>6, <1>11, <2>2
  <2> QED BY <1>11, <1>12, <2>1, <2>3
<1>15. IsPrefix(OpTypes(t), OpTypes(d))
  <2>1. PICK m \in Nat : m = Len(d)
    BY <1>5
  <2>2. z <= m /\ \A j \in 1..z : b[j] = d[j] /\ d[j] \in Decoded
    <3>1. CASE b = d
      BY <1>5, <1>11, <2>1, <3>1
    <3>2. CASE b = <<>>
      BY <1>11, <2>1, <3>2
    <3> QED BY <1>6, <3>1, <3>2
  <2>3. \A j \in 1..z : t[j].OpType = d[j].OpType
    <3>1. SUFFICES ASSUME NEW j \in 1..z PROVE t[j].OpType = d[j].OpType
      OBVIOUS
    <3>2. t[j] = JSONLine(d[j])
      BY <1>12, <2>2 DEF S
    <3> QED BY <2>2, <3>2, LineFacts
  <2>4. OpTypes(t) = [n \in 1..z |-> t[n].OpType] /\ OpTypes(d) = [n \in 1..m |-> d[n].OpType]
    BY <1>12, <2>1 DEF OpTypes
  <2> DEFINE x == OpTypes(t)
             y == OpTypes(d)
             T == {o.OpType : o \in S} \union {o.OpType : o \in Decoded}
  <2>5. x \in Seq(T) /\ Len(x) = z /\ \A n \in 1..z : x[n] = t[n].OpType
    BY <1>12, <2>4
  <2>6. y \in Seq(T) /\ Len(y) = m /\ \A n \in 1..m : y[n] = d[n].OpType
    <3>1. \A n \in 1..m : d[n] \in Decoded
      BY <1>5, <2>1
    <3> QED BY <2>4, <3>1
  <2> HIDE DEF x, y, T
  <2>7. SubSeq(x, 1, z) = [n \in 1..z |-> x[n]] /\ SubSeq(y, 1, z) = [n \in 1..z |-> y[n]]
    <3>1. z \in 0..Len(x) /\ z \in 0..Len(y)
      BY <2>2, <2>5, <2>6
    <3> QED BY <2>5, <2>6, <3>1, PrefixIs
  <2>8. \A n \in 1..z : x[n] = y[n]
    BY <2>2, <2>3, <2>5, <2>6
  <2>9. SubSeq(x, 1, z) = SubSeq(y, 1, z)
    BY <2>7, <2>8
  <2> QED BY <2>2, <2>5, <2>6, <2>9 DEF IsPrefix, x, y
<1> QED BY <1>14, <1>15 DEF t, d, lines, later

----------------------------------------------------------------------------
(* For a log without nested transactions, of any length, the counts of a    *)
(* key in a report lie between the writes that were applied to it and those *)
(* that stand in the entries (AggregateWalOps).                             *)
THEOREM CountsAreBracketed == SummarySpec => []CountsBracketWrites
<1> QED BY SummaryInductive, BracketHolds, PTL

(* Every report accounts for all the operations it was made from            *)
(* (EntryTypeDist and AggregateWalOps), with any order and any cut.         *)
THEOREM ReportsAccount == SummarySpec => []RowsAccountForOps
<1> QED BY SummaryInductive, AccountHolds, PTL

(* Whatever the order and the cut, no key with more writes is left out for  *)
(* one with fewer (SortWalKeyStats before the cut).                         *)
THEOREM CutKeepsTheBusiest == SummarySpec => []BusiestKeysShown
<1> QED BY SummaryInductive, BusiestHolds, PTL

(* A report on the file of a wal-look, however that was filtered,           *)
(* interrupted or overtaken by the member, counts no more than the log      *)
(* held, and the same if the file is whole and unfiltered.                  *)
THEOREM OfflineIsDirect == SummarySpec => []OfflineAgreesWithDirect
<1> QED BY SummaryInductive, OfflineHolds, PTL

(* In the file of a wal-look the operations of a transaction are together,  *)
(* all of them unless the file ends there (wal-look --entry-type).          *)
THEOREM TransactionsAreWhole == SummarySpec => []TxnsAreWhole
<1> QED BY SummaryInductive, TxnsHold, PTL
==============================================================================
