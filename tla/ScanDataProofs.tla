--------------------------- MODULE ScanDataProofs ---------------------------
(***************************************************************************)
(* Theorems about ScanData that hold for any set of keys, page sizes,      *)
(* channel capacity and number of puts and deletes; last, that it          *)
(* implements CursorScan.                                                  *)
(***************************************************************************)
EXTENDS ScanData, SequenceLemmas

(* What a reply of etcd is: an ascending sequence of at most n of the keys  *)
(* of S; if it leaves keys out then it has n keys and they are all smaller. *)
LEMMA ReplyFacts ==
  ASSUME NEW S \in SUBSET Nat, NEW n \in Nat, NEW s \in Replies(S, n)
  PROVE  /\ s \in Seq(S)
         /\ Len(s) \in Nat /\ Len(s) <= n
         /\ Ascending(s)
         /\ \A k \in S : \/ \E i \in 1..Len(s) : s[i] = k
                         \/ Len(s) = n /\ \A i \in 1..Len(s) : s[i] < k
<1> DEFINE lengths == {m \in 0..Cardinality(S) : m <= n}
<1>1. PICK m \in lengths : s \in [1..m -> S]
  BY DEF Replies
<1>2. m \in Nat /\ m <= n
  OBVIOUS
<1>3. s \in Seq(S) /\ Len(s) = m /\ DOMAIN s = 1..Len(s)
  BY <1>1, <1>2
<1>4. IsReply(s, S, n)
  BY DEF Replies
<1> QED BY <1>2, <1>3, <1>4 DEF IsReply, ToSet

(* The options leave a positive page size and a limit that is not negative. *)
LEMMA ConfigFacts ==
  ASSUME cfg \in Configs
  PROVE  cfg.from \in Nat /\ cfg.to \in Nat /\ cfg.pageSize \in Nat \ {0} /\ cfg.limit \in Nat
BY ArgsAssumption DEF Configs, WithPageSize, WithLimit

(* A reply to a request of ScanData holds keys of the store, at or above    *)
(* the requested one.                                                       *)
LEMMA GetFacts ==
  ASSUME TypeOK, NEW f \in Nat, NEW n \in Nat, NEW s \in EtcdGet(f, n)
  PROVE  /\ s \in Seq(Key)
         /\ Len(s) \in Nat /\ Len(s) <= n
         /\ Ascending(s)
         /\ \A i \in 1..Len(s) : s[i] \in InRange(store) /\ f <= s[i]
         /\ \A k \in InRange(store) : f <= k =>
              \/ \E i \in 1..Len(s) : s[i] = k
              \/ Len(s) = n /\ \A i \in 1..Len(s) : s[i] < k
<1> DEFINE S == {k \in InRange(store) : f <= k}
<1>1. S \in SUBSET Nat /\ S \in SUBSET Key
  BY KeyAssumption DEF TypeOK, InRange
<1>2. s \in Replies(S, n)
  BY DEF EtcdGet
<1> HIDE DEF S
<1>3. /\ s \in Seq(S) /\ Len(s) \in Nat /\ Len(s) <= n /\ Ascending(s)
      /\ \A k \in S : \/ \E i \in 1..Len(s) : s[i] = k
                      \/ Len(s) = n /\ \A i \in 1..Len(s) : s[i] < k
  BY <1>1, <1>2, ReplyFacts
<1>4. \A i \in 1..Len(s) : s[i] \in S
  BY <1>3
<1>5. s \in Seq(Key)
  BY <1>1, <1>3, SeqMonotonic
<1> QED BY <1>3, <1>4, <1>5 DEF S

(* What happens to the channel and to the received keys when the loop takes *)
(* a batch, and to the channel when a batch is appended.                    *)
LEMMA TakeFacts ==
  ASSUME TypeOK, c # <<>>, received' = received \o Head(c), c' = Tail(c)
  PROVE  /\ received' \in Seq(Key) /\ c' \in Seq(Seq(Key))
         /\ Len(c') = Len(c) - 1 /\ Len(c) >= 1 /\ Head(c) = c[1]
         /\ \A b \in 1..Len(c') : c'[b] = c[b + 1]
         /\ Len(received') = Len(received) + Len(c[1])
         /\ \A i \in 1..Len(received) : received'[i] = received[i]
         /\ \A i \in 1..Len(c[1]) : received'[Len(received) + i] = c[1][i]
         /\ c[1] \in Seq(Key)
<1>1. c \in Seq(Seq(Key)) /\ received \in Seq(Key)
  BY DEF TypeOK
<1>2. Len(c) >= 1 /\ Head(c) = c[1] /\ c[1] \in Seq(Key)
  BY <1>1
<1>3. c' \in Seq(Seq(Key)) /\ Len(c') = Len(c) - 1 /\ \A b \in 1..Len(c') : c'[b] = c[b + 1]
  BY <1>1
<1>4. received' = received \o c[1]
  BY <1>2
<1>5. /\ received' \in Seq(Key)
      /\ Len(received') = Len(received) + Len(c[1])
      /\ \A i \in 1..Len(received) : received'[i] = received[i]
      /\ \A i \in 1..Len(c[1]) : received'[Len(received) + i] = c[1][i]
  BY <1>1, <1>2, <1>4
<1> QED BY <1>1, <1>2, <1>3, <1>5

(* Appending a batch to the channel adds it behind the others.              *)
LEMMA BatchAppended ==
  ASSUME TypeOK, NEW s \in Seq(Key), c' = Append(c, s)
  PROVE  /\ c' \in Seq(Seq(Key)) /\ Len(c') = Len(c) + 1
         /\ c'[Len(c) + 1] = s
         /\ \A b \in 1..Len(c) : c'[b] = c[b]
BY DEF TypeOK

(* What Tail leaves of a page of several keys, index by index.              *)
LEMMA TailFacts ==
  ASSUME NEW s \in Seq(Key), Len(s) > 1
  PROVE  /\ Tail(s) \in Seq(Key) /\ Len(Tail(s)) = Len(s) - 1
         /\ \A i \in 1..Len(Tail(s)) : Tail(s)[i] = s[i + 1]
OBVIOUS

(* An ascending sequence of keys lies between its first and last elements.  *)
LEMMA AscendingFacts ==
  ASSUME NEW s \in Seq(Key), Ascending(s), Len(s) >= 1
  PROVE  /\ s[1] \in Nat /\ s[Len(s)] \in Nat
         /\ \A i \in 1..Len(s) : s[1] <= s[i] /\ s[i] <= s[Len(s)] /\ s[i] \in Nat
<1>1. Len(s) \in 1..Len(s) /\ 1 \in 1..Len(s)
  OBVIOUS
<1>2. \A i \in 1..Len(s) : s[i] \in Nat
  BY KeyAssumption, ElementOfSeq
<1>3. ASSUME NEW i \in 1..Len(s) PROVE s[1] <= s[i] /\ s[i] <= s[Len(s)]
  <2>1. i = 1 \/ s[1] < s[i]
    BY <1>1 DEF Ascending
  <2>2. i = Len(s) \/ s[i] < s[Len(s)]
    BY <1>1 DEF Ascending
  <2> QED BY <1>1, <1>2, <2>1, <2>2
<1> QED BY <1>1, <1>2, <1>3

(* Taking a batch moves keys from the queue to the received keys; sending   *)
(* one adds its keys.                                                       *)
LEMMA SentTaken ==
  ASSUME TypeOK, c # <<>>, received' = received \o Head(c), c' = Tail(c)
  PROVE  \A k : Sent(k)' <=> Sent(k)
<1>1. c \in Seq(Seq(Key)) /\ received \in Seq(Key)
  BY DEF TypeOK
<1>2. /\ Len(c') = Len(c) - 1 /\ Len(c) >= 1 /\ Len(c) \in Nat
      /\ \A b \in 1..Len(c') : c'[b] = c[b + 1]
      /\ Len(received') = Len(received) + Len(c[1])
      /\ \A i \in 1..Len(received) : received'[i] = received[i]
      /\ \A i \in 1..Len(c[1]) : received'[Len(received) + i] = c[1][i]
      /\ Len(c[1]) \in Nat /\ Len(received) \in Nat
  BY <1>1, TakeFacts
<1>3. ASSUME NEW k, Sent(k) PROVE Sent(k)'
  <2>1. CASE \E i \in 1..Len(received) : received[i] = k
    BY <1>2, <2>1 DEF Sent
  <2>2. ASSUME NEW b \in 1..Len(c), NEW i \in 1..Len(c[b]), c[b][i] = k PROVE Sent(k)'
    <3>1. CASE b = 1
      <4>1. Len(received) + i \in 1..Len(received')
        BY <1>2, <2>2, <3>1
      <4> QED BY <1>2, <2>2, <3>1, <4>1 DEF Sent
    <3>2. CASE b # 1
      <4>1. b - 1 \in 1..Len(c') /\ c'[b - 1] = c[b]
        BY <1>2, <2>2, <3>2
      <4> QED BY <2>2, <4>1 DEF Sent
    <3> QED BY <3>1, <3>2
  <2> QED BY <1>3, <2>1, <2>2 DEF Sent
<1>4. ASSUME NEW k, Sent(k)' PROVE Sent(k)
  <2>1. ASSUME NEW i \in 1..Len(received'), received'[i] = k PROVE Sent(k)
    <3>1. CASE i <= Len(received)
      BY <1>2, <2>1, <3>1 DEF Sent
    <3>2. CASE i > Len(received)
      <4>1. i - Len(received) \in 1..Len(c[1]) /\ i = Len(received) + (i - Len(received))
        BY <1>2, <2>1, <3>2
      <4>2. c[1][i - Len(received)] = k
        BY <1>2, <2>1, <4>1
      <4> QED BY <1>2, <4>1, <4>2 DEF Sent
    <3> QED BY <1>2, <3>1, <3>2
  <2>2. ASSUME NEW b \in 1..Len(c'), NEW i \in 1..Len(c'[b]), c'[b][i] = k PROVE Sent(k)
    <3>1. b + 1 \in 1..Len(c) /\ c[b + 1] = c'[b]
      BY <1>2, <2>2
    <3> QED BY <2>2, <3>1 DEF Sent
  <2> QED BY <1>4, <2>1, <2>2 DEF Sent
<1> QED BY <1>3, <1>4

(* A batch put on the channel adds its keys to those that are sent.         *)
LEMMA SentAppended ==
  ASSUME TypeOK, NEW s \in Seq(Key), c' = Append(c, s), received' = received
  PROVE  \A k : Sent(k)' <=> Sent(k) \/ \E i \in 1..Len(s) : s[i] = k
<1>1. /\ Len(c) \in Nat /\ Len(c') = Len(c) + 1
      /\ c'[Len(c) + 1] = s
      /\ \A b \in 1..Len(c) : c'[b] = c[b]
  BY BatchAppended DEF TypeOK
<1>2. ASSUME NEW k, Sent(k) PROVE Sent(k)'
  <2>1. CASE \E i \in 1..Len(received) : received[i] = k
    BY <2>1 DEF Sent
  <2>2. ASSUME NEW b \in 1..Len(c), NEW i \in 1..Len(c[b]), c[b][i] = k PROVE Sent(k)'
    <3>1. b \in 1..Len(c') /\ c'[b] = c[b]
      BY <1>1, <2>2
    <3> QED BY <2>2, <3>1 DEF Sent
  <2> QED BY <1>2, <2>1, <2>2 DEF Sent
<1>3. ASSUME NEW k, NEW i \in 1..Len(s), s[i] = k PROVE Sent(k)'
  <2>1. Len(c) + 1 \in 1..Len(c')
    BY <1>1
  <2> QED BY <1>1, <1>3, <2>1 DEF Sent
<1>4. ASSUME NEW k, Sent(k)' PROVE Sent(k) \/ \E i \in 1..Len(s) : s[i] = k
  <2>1. ASSUME NEW b \in 1..Len(c'), NEW i \in 1..Len(c'[b]), c'[b][i] = k
        PROVE  Sent(k) \/ \E j \in 1..Len(s) : s[j] = k
    <3>1. CASE b = Len(c) + 1
      BY <1>1, <2>1, <3>1
    <3>2. CASE b # Len(c) + 1
      <4>1. b \in 1..Len(c) /\ c'[b] = c[b]
        BY <1>1, <3>2
      <4> QED BY <2>1, <4>1 DEF Sent
    <3> QED BY <3>1, <3>2
  <2> QED BY <1>4, <2>1 DEF Sent
<1> QED BY <1>2, <1>3, <1>4

----------------------------------------------------------------------------
(* Types and shape hold at the start, and every step of the scan keeps them. *)
LEMMA TypeInit == Init => TypeOK /\ Shape
  BY ArgsAssumption, ConfigFacts DEF Init, TypeOK, Shape

(* One case per action; the channel grows only while it has room.           *)
LEMMA TypeStep == TypeOK /\ Shape /\ [Next]_vars => TypeOK' /\ Shape'
<1> SUFFICES ASSUME TypeOK, Shape, [Next]_vars PROVE TypeOK' /\ Shape'
  OBVIOUS
<1> USE DEF TypeOK, Shape
<1>0. cfg.from \in Nat /\ cfg.to \in Nat /\ cfg.pageSize \in Nat \ {0} /\ cfg.limit \in Nat
  BY ConfigFacts
<1>1. CASE LimitedScan
  <2>1. nextResp' \in Seq(Key)
    BY <1>0, <1>1, GetFacts DEF LimitedScan
  <2>2. c' \in Seq(Seq(Key)) /\ Len(c') = 1
    BY <1>1, <2>1 DEF LimitedScan
  <2> QED BY <1>1, <2>1, <2>2, ArgsAssumption DEF LimitedScan, clientVars
<1>2. CASE FirstPage
  <2>1. nextResp' \in Seq(Key) /\ Len(nextResp') <= cfg.pageSize
    BY <1>0, <1>2, GetFacts DEF FirstPage
  <2>2. c' \in Seq(Seq(Key)) /\ Len(c') = 1
    BY <1>2, <2>1 DEF FirstPage
  <2> QED BY <1>2, <2>1, <2>2, ArgsAssumption DEF FirstPage, clientVars
<1>3. CASE EndAtShortPage
  BY <1>3 DEF EndAtShortPage, clientVars
<1>4. CASE NextPage
  <2>1. Len(nextResp) >= 1
    BY <1>0, <1>4 DEF NextPage, IsLastPage
  <2>2. lastKey \in Nat
    <3>1. Len(nextResp) \in 1..Len(nextResp)
      BY <2>1
    <3>2. nextResp[Len(nextResp)] \in Key
      BY <3>1, ElementOfSeq
    <3> QED BY <3>2, KeyAssumption DEF lastKey
  <2>3. nextResp' \in Seq(Key) /\ Len(nextResp') <= cfg.pageSize
    BY <1>0, <1>4, <2>2, GetFacts DEF NextPage
  <2>4. scanner' = "sending" => Len(nextResp') > 1
    BY <1>4, <2>3 DEF NextPage, HasNothingNew
  <2> QED BY <1>4, <2>3, <2>4 DEF NextPage, clientVars
<1>5. CASE SendPage
  <2>1. Tail(nextResp) \in Seq(Key)
    BY <1>5, TailFacts DEF SendPage
  <2>2. c' \in Seq(Seq(Key)) /\ Len(c') = Len(c) + 1
    BY <1>5, <2>1, BatchAppended DEF SendPage, HasRoom, WithoutLeadingKey
  <2>3. scanner = "sending" /\ scanner' = "paging" /\ Len(c') <= ChanCap
    BY <1>5, <2>2, ArgsAssumption DEF SendPage, HasRoom
  <2> QED BY <1>5, <2>2, <2>3 DEF SendPage, clientVars
<1>6. CASE RequestFails
  BY <1>6 DEF RequestFails, clientVars
<1>7. CASE Receive
  <2>1. received' \in Seq(Key) /\ c' \in Seq(Seq(Key)) /\ Len(c') = Len(c) - 1
    BY <1>7, TakeFacts DEF Receive
  <2> QED BY <1>7, <2>1, ArgsAssumption DEF Receive, clientVars
<1>8. CASE LoopEnds
  BY <1>8 DEF LoopEnds, clientVars
<1>9. ASSUME NEW k \in Key, Put(k) PROVE TypeOK' /\ Shape'
  BY <1>9, ArgsAssumption DEF Put
<1>10. ASSUME NEW k \in Key, Delete(k) PROVE TypeOK' /\ Shape'
  BY <1>10, ArgsAssumption DEF Delete
<1>11. CASE UNCHANGED vars
  BY <1>11 DEF vars
<1> QED
  BY <1>1, <1>2, <1>3, <1>4, <1>5, <1>6, <1>7, <1>8, <1>9, <1>10, <1>11
  DEF Next, ScanStep, LoopStep, Clients, Stutter

(* The variables keep their types, and the channel never exceeds its        *)
(* capacity.                                                                *)
THEOREM TypeCorrect == Spec => []TypeOK
<1>1. TypeOK /\ Shape /\ [Next]_vars => (TypeOK /\ Shape)'
  BY TypeStep
<1> QED BY TypeInit, <1>1, PTL DEF Spec
----------------------------------------------------------------------------
(* Nothing has been sent at the start.                                      *)
LEMMA OrderInit == Init => Order /\ Frontier
  BY DEF Init, Order, Frontier, Ascending

(* The first batch, of either kind of scan, is the only thing sent.         *)
LEMMA FirstBatch ==
  ASSUME TypeOK, Shape, scanner = "start", NEW n \in Nat, nextResp' \in EtcdGet(cfg.from, n),
         c' = Append(c, nextResp'), received' = received, cfg' = cfg
  PROVE  /\ Order'
         /\ \A k : Sent(k)' <=> \E i \in 1..Len(nextResp') : nextResp'[i] = k
<1>1. c = <<>> /\ received = <<>> /\ cfg.from \in Nat
  BY ConfigFacts DEF Shape, TypeOK
<1>2. nextResp' \in Seq(Key) /\ Ascending(nextResp')
      /\ \A i \in 1..Len(nextResp') : nextResp'[i] \in InRange(store)
  BY <1>1, GetFacts
<1>3. c' = <<nextResp'>> /\ received' = <<>>
  BY <1>1, <1>2
<1>4. \A i \in 1..Len(nextResp') : nextResp'[i] \in InRange(Key)'
  BY <1>2 DEF InRange, TypeOK
<1>5. Order'
  BY <1>2, <1>3, <1>4 DEF Order, Ascending
<1>6. \A k : Sent(k)' <=> \E i \in 1..Len(nextResp') : nextResp'[i] = k
  BY <1>3 DEF Sent
<1> QED BY <1>5, <1>6

(* Every step keeps the order of what is sent and the frontier above it.    *)
LEMMA OrderStep == TypeOK /\ Shape /\ Order /\ Frontier /\ [Next]_vars => Order' /\ Frontier'
<1> SUFFICES ASSUME TypeOK, Shape, Order, Frontier, [Next]_vars PROVE Order' /\ Frontier'
  OBVIOUS
<1>0. /\ cfg.from \in Nat /\ cfg.to \in Nat /\ cfg.pageSize \in Nat \ {0} /\ cfg.limit \in Nat
      /\ nextResp \in Seq(Key) /\ Len(nextResp) \in Nat
  BY ConfigFacts DEF TypeOK
<1>1. CASE LimitedScan
  <2>1. Order'
    BY <1>0, <1>1, FirstBatch DEF LimitedScan
  <2> QED BY <1>1, <2>1 DEF LimitedScan, Frontier
<1>2. CASE FirstPage
  <2>1. Order' /\ \A k : Sent(k)' <=> \E i \in 1..Len(nextResp') : nextResp'[i] = k
    BY <1>0, <1>2, FirstBatch DEF FirstPage
  <2>2. nextResp' \in Seq(Key) /\ Ascending(nextResp') /\ cfg' = cfg /\ scanner' = "paging"
    BY <1>0, <1>2, GetFacts DEF FirstPage
  <2>3. ASSUME ~IsLastPage(nextResp)', NEW k \in Key, Sent(k)'
        PROVE  k <= (nextResp[Len(nextResp)])'
    <3>1. Len(nextResp') >= 1
      BY <1>0, <2>2, <2>3 DEF IsLastPage
    <3> QED BY <2>1, <2>2, <2>3, <3>1, AscendingFacts
  <2> QED BY <2>1, <2>2, <2>3 DEF Frontier
<1>3. CASE EndAtShortPage
  BY <1>3 DEF EndAtShortPage, clientVars, Order, Frontier, Sent, IsLastPage, InRange
<1>4. CASE NextPage
  <2>1. Len(nextResp) >= 1
    BY <1>0, <1>4 DEF NextPage, IsLastPage
  <2>2. lastKey \in Nat
    BY <1>0, <2>1, AscendingFacts DEF lastKey, Order
  <2>3. /\ nextResp' \in Seq(Key) /\ Ascending(nextResp')
        /\ \A i \in 1..Len(nextResp') : nextResp'[i] \in InRange(store) /\ lastKey <= nextResp'[i]
    BY <1>0, <1>4, <2>2, GetFacts DEF NextPage
  <2>4. \A i \in 1..Len(nextResp') : nextResp'[i] \in InRange(Key)'
    BY <1>4, <2>3 DEF NextPage, InRange, TypeOK
  <2>5. Order'
    BY <1>4, <2>3, <2>4 DEF NextPage, Order
  <2>6. \A k : Sent(k)' <=> Sent(k)
    BY <1>4 DEF NextPage, Sent
  <2>7. ASSUME scanner' = "sending", NEW k \in Key, Sent(k)'
        PROVE  k <= nextResp'[1]
    <3>1. k <= lastKey
      BY <1>4, <2>6, <2>7 DEF Frontier, NextPage, lastKey
    <3>2. 1 \in 1..Len(nextResp')
      BY <1>4, <2>3, <2>7 DEF NextPage, HasNothingNew
    <3>3. lastKey <= nextResp'[1] /\ nextResp'[1] \in Nat /\ k \in Nat
      BY <2>3, <3>2, KeyAssumption, ElementOfSeq
    <3> QED BY <2>2, <3>1, <3>3
  <2>8. scanner' # "paging"
    BY <1>4 DEF NextPage
  <2> QED BY <2>5, <2>7, <2>8 DEF Frontier
<1>5. CASE SendPage
  <2> DEFINE s == Tail(nextResp)
  <2>1. /\ Len(nextResp) > 1 /\ s \in Seq(Key) /\ Len(s) = Len(nextResp) - 1
        /\ \A i \in 1..Len(s) : s[i] = nextResp[i + 1]
    BY <1>0, <1>5, TailFacts DEF SendPage, Shape
  <2>2. /\ Ascending(nextResp)
        /\ \A i \in 1..Len(nextResp) : nextResp[i] \in Nat /\ nextResp[i] <= nextResp[Len(nextResp)]
    BY <1>0, <2>1, AscendingFacts DEF Order
  <2>3. Ascending(s) /\ \A i \in 1..Len(s) : nextResp[1] < s[i]
    BY <1>0, <2>1, <2>2 DEF Ascending
  <2>4. c' = Append(c, s) /\ received' = received /\ nextResp' = nextResp /\ cfg' = cfg
        /\ scanner' = "paging"
    BY <1>5 DEF SendPage, WithoutLeadingKey
  <2> HIDE DEF s
  <2>5. /\ Len(c) \in Nat /\ Len(c') = Len(c) + 1 /\ c'[Len(c) + 1] = s
        /\ \A b \in 1..Len(c) : c'[b] = c[b]
    BY <2>1, <2>4, BatchAppended DEF TypeOK
  <2>6. \A k \in Key : Sent(k) => k <= nextResp[1] /\ k \in Nat
    BY <1>5, KeyAssumption DEF Frontier, SendPage
  <2>7. \A i \in 1..Len(received) : \A j \in 1..Len(s) : received[i] < s[j]
    <3> TAKE i \in 1..Len(received)
    <3>1. received[i] \in Key /\ Sent(received[i])
      BY ElementOfSeq DEF Sent, TypeOK
    <3>2. received[i] <= nextResp[1] /\ received[i] \in Nat
      BY <2>6, <3>1
    <3> QED BY <2>1, <2>2, <2>3, <3>2
  <2>8. \A b \in 1..Len(c) : \A i \in 1..Len(c[b]), j \in 1..Len(s) : c[b][i] < s[j]
    <3> TAKE b \in 1..Len(c)
    <3> TAKE i \in 1..Len(c[b]), j \in 1..Len(s)
    <3>1. c[b] \in Seq(Key)
      BY ElementOfSeq DEF TypeOK
    <3>2. c[b][i] \in Key /\ Sent(c[b][i])
      BY <3>1, ElementOfSeq DEF Sent
    <3>3. c[b][i] <= nextResp[1] /\ c[b][i] \in Nat
      BY <2>6, <3>2
    <3>4. s[j] \in Nat /\ nextResp[1] < s[j] /\ nextResp[1] \in Nat
      BY <1>0, <2>1, <2>2, <2>3, SMTT(30)
    <3> QED BY <3>3, <3>4
  <2>9. \A b \in 1..Len(c') : (b \in 1..Len(c) /\ c'[b] = c[b]) \/ (b = Len(c) + 1 /\ c'[b] = s)
    BY <2>5
  <2>10. Order'
    <3>1. Ascending(received)' /\ Ascending(nextResp)'
      BY <2>4 DEF Order
    <3>2. \A b \in 1..Len(c') : Ascending(c'[b])
      BY <2>3, <2>9 DEF Order
    <3>3. \A i \in 1..Len(received), b \in 1..Len(c') : \A j \in 1..Len(c'[b]) : received[i] < c'[b][j]
      BY <2>7, <2>9 DEF Order
    <3>4. \A a, b \in 1..Len(c') : a < b =>
            \A i \in 1..Len(c'[a]), j \in 1..Len(c'[b]) : c'[a][i] < c'[b][j]
      <4> TAKE a, b \in 1..Len(c')
      <4> HAVE a < b
      <4>1. a \in 1..Len(c) /\ c'[a] = c[a]
        BY <2>5, <2>9
      <4> QED BY <2>8, <2>9, <4>1 DEF Order
    <3>5. \A i \in 1..Len(nextResp') : nextResp'[i] \in InRange(Key)'
      BY <2>4 DEF Order, InRange
    <3> QED BY <2>4, <3>1, <3>2, <3>3, <3>4, <3>5 DEF Order
  <2>11. ASSUME NEW k \in Key, Sent(k)' PROVE k <= nextResp[Len(nextResp)]
    <3>1. Sent(k) \/ \E i \in 1..Len(s) : s[i] = k
      BY <2>1, <2>4, <2>11, SentAppended
    <3>2. CASE Sent(k)
      BY <2>1, <2>2, <2>6, <3>2
    <3>3. CASE \E i \in 1..Len(s) : s[i] = k
      BY <2>1, <2>2, <3>3
    <3> QED BY <3>1, <3>2, <3>3
  <2> QED BY <2>4, <2>10, <2>11 DEF Frontier
<1>6. CASE RequestFails
  BY <1>6 DEF RequestFails, clientVars, Order, Frontier, Sent, IsLastPage, InRange
<1>7. CASE Receive
  <2>1. /\ c # <<>> /\ received' = received \o Head(c) /\ c' = Tail(c)
        /\ nextResp' = nextResp /\ scanner' = scanner /\ cfg' = cfg
    BY <1>7 DEF Receive
  <2>2. /\ Len(c') = Len(c) - 1 /\ Len(c) >= 1 /\ Len(c) \in Nat
        /\ \A b \in 1..Len(c') : c'[b] = c[b + 1]
        /\ Len(received') = Len(received) + Len(c[1])
        /\ \A i \in 1..Len(received) : received'[i] = received[i]
        /\ \A i \in 1..Len(c[1]) : received'[Len(received) + i] = c[1][i]
        /\ Len(c[1]) \in Nat /\ Len(received) \in Nat
    BY <2>1, TakeFacts DEF TypeOK
  <2>3. \A i \in 1..Len(received') :
          \/ i \in 1..Len(received) /\ received'[i] = received[i]
          \/ /\ i - Len(received) \in 1..Len(c[1]) /\ i > Len(received)
             /\ received'[i] = c[1][i - Len(received)]
    <3> TAKE i \in 1..Len(received')
    <3>1. CASE i <= Len(received)
      BY <2>2, <3>1
    <3>2. CASE i > Len(received)
      <4>1. i - Len(received) \in 1..Len(c[1]) /\ i = Len(received) + (i - Len(received))
        BY <2>2, <3>2
      <4> QED BY <2>2, <3>2, <4>1
    <3> QED BY <2>2, <3>1, <3>2
  <2>4. \A b \in 1..Len(c') : b + 1 \in 1..Len(c) /\ b + 1 > 1 /\ c'[b] = c[b + 1]
    BY <2>2
  <2>5. 1 \in 1..Len(c)
    BY <2>2
  <2>6. Ascending(received)'
    <3> SUFFICES ASSUME NEW i \in 1..Len(received'), NEW j \in 1..Len(received'), i < j
                 PROVE  received'[i] < received'[j]
      BY DEF Ascending
    <3>1. CASE j \in 1..Len(received)
      BY <2>2, <2>3, <3>1 DEF Order, Ascending
    <3>2. CASE j > Len(received) /\ i \in 1..Len(received)
      BY <2>2, <2>3, <2>5, <3>2 DEF Order
    <3>3. CASE i > Len(received)
      <4>1. Ascending(c[1])
        BY <2>5 DEF Order
      <4>2. i - Len(received) < j - Len(received)
        BY <2>2
      <4> QED BY <2>2, <2>3, <3>3, <4>1, <4>2 DEF Ascending
    <3> QED BY <2>2, <2>3, <3>1, <3>2, <3>3
  <2>7. \A i \in 1..Len(received'), b \in 1..Len(c') : \A j \in 1..Len(c'[b]) : received'[i] < c'[b][j]
    BY <2>3, <2>4, <2>5, ZenonT(30) DEF Order
  <2>8. Order'
    <3>1. \A b \in 1..Len(c') : Ascending(c'[b])
      BY <2>4 DEF Order
    <3>2. \A a, b \in 1..Len(c') : a < b =>
            \A i \in 1..Len(c'[a]), j \in 1..Len(c'[b]) : c'[a][i] < c'[b][j]
      <4> TAKE a, b \in 1..Len(c')
      <4> HAVE a < b
      <4>1. a + 1 \in 1..Len(c) /\ b + 1 \in 1..Len(c) /\ a + 1 < b + 1
        BY <2>2, <2>4
      <4>2. \A i \in 1..Len(c[a + 1]), j \in 1..Len(c[b + 1]) : c[a + 1][i] < c[b + 1][j]
        BY <4>1 DEF Order
      <4> QED BY <2>4, <4>2
    <3>3. Ascending(nextResp)' /\ \A i \in 1..Len(nextResp') : nextResp'[i] \in InRange(Key)'
      BY <2>1 DEF Order, InRange
    <3> QED BY <2>6, <2>7, <3>1, <3>2, <3>3 DEF Order
  <2>9. \A k : Sent(k)' <=> Sent(k)
    BY <2>1, SentTaken
  <2> QED BY <2>1, <2>8, <2>9 DEF Frontier, IsLastPage
<1>8. CASE LoopEnds
  BY <1>8 DEF LoopEnds, clientVars, Order, Frontier, Sent, IsLastPage, InRange
<1>9. ASSUME NEW k \in Key, Put(k) PROVE Order' /\ Frontier'
  BY <1>9 DEF Put, Order, Frontier, Sent, IsLastPage, InRange
<1>10. ASSUME NEW k \in Key, Delete(k) PROVE Order' /\ Frontier'
  BY <1>10 DEF Delete, Order, Frontier, Sent, IsLastPage, InRange
<1>11. CASE UNCHANGED vars
  BY <1>11 DEF vars, Order, Frontier, Sent, IsLastPage, InRange
<1> QED
  BY <1>1, <1>2, <1>3, <1>4, <1>5, <1>6, <1>7, <1>8, <1>9, <1>10, <1>11
  DEF Next, ScanStep, LoopStep, Clients, Stutter

(* Keys are delivered once each and in ascending order, for every set of    *)
(* keys, page size and interleaving of puts and deletes.                    *)
THEOREM DeliveryIsAscending == Spec => []DeliveredAscending
<1> DEFINE Inv == TypeOK /\ Shape /\ Order /\ Frontier
<1>1. Init => Inv
  BY TypeInit, OrderInit
<1>2. Inv /\ [Next]_vars => Inv'
  BY TypeStep, OrderStep
<1>3. Inv => DeliveredAscending
  BY DEF Order, DeliveredAscending
<1> QED BY <1>1, <1>2, <1>3, PTL DEF Spec

(* A page sent after another ends at a larger key, so a scan of finitely    *)
(* many keys sends finitely many pages.                                     *)
THEOREM ScanAdvances == Spec => CursorAdvances
<1> DEFINE Inv == TypeOK /\ Shape /\ Order /\ Frontier
<1>1. Init => Inv
  BY TypeInit, OrderInit
<1>2. Inv /\ [Next]_vars => Inv'
  BY TypeStep, OrderStep
<1>3. Inv /\ [Next]_vars
        => [scanner = "paging" /\ scanner' = "sending" => Last(nextResp') > Last(nextResp)]_vars
  <2> SUFFICES ASSUME Inv, NextPage, scanner' = "sending"
               PROVE  Last(nextResp') > Last(nextResp)
    BY DEF Next, ScanStep, LoopStep, Clients, Stutter, LimitedScan, FirstPage,
           EndAtShortPage, SendPage, RequestFails, Receive, LoopEnds, Put, Delete, vars
  <2>0. /\ cfg.pageSize \in Nat \ {0} /\ nextResp \in Seq(Key) /\ Ascending(nextResp)
        /\ Len(nextResp) \in Nat
    BY ConfigFacts DEF TypeOK, Order
  <2>1. Len(nextResp) >= 1
    BY <2>0 DEF NextPage, IsLastPage
  <2>2. lastKey \in Nat /\ Last(nextResp) = lastKey
    BY <2>0, <2>1, AscendingFacts DEF lastKey, Last
  <2>3. /\ nextResp' \in Seq(Key) /\ Ascending(nextResp')
        /\ \A i \in 1..Len(nextResp') : lastKey <= nextResp'[i]
    BY <2>0, <2>2, GetFacts DEF NextPage
  <2>4. Len(nextResp') > 1
    BY <2>3 DEF NextPage, HasNothingNew
  <2>5. nextResp'[1] < nextResp'[Len(nextResp')] /\ lastKey <= nextResp'[1]
    BY <2>3, <2>4 DEF Ascending
  <2>6. nextResp'[1] \in Nat /\ nextResp'[Len(nextResp')] \in Nat
    BY <2>3, <2>4, AscendingFacts
  <2> QED BY <2>2, <2>5, <2>6 DEF Last
<1> QED BY <1>1, <1>2, <1>3, PTL DEF Spec, CursorAdvances

----------------------------------------------------------------------------
(* No key is stable before the first request.                               *)
LEMMA CoverageInit == Init => Coverage
  BY DEF Init, Coverage, InRange

(* Every step keeps each stable key sent, about to be sent, or ahead.       *)
LEMMA CoverageStep ==
  TypeOK /\ Shape /\ Order /\ Frontier /\ Coverage /\ [Next]_vars => Coverage'
<1> SUFFICES ASSUME TypeOK, Shape, Order, Frontier, Coverage, [Next]_vars,
                    cfg'.limit = 0, cfg'.pageSize > 1, lost' = 0, scanner' # "exited",
                    NEW k \in InRange(stable)'
             PROVE  \/ Sent(k)'
                    \/ scanner' = "sending" /\ \E i \in 2..Len(nextResp') : nextResp'[i] = k
                    \/ /\ scanner' \in {"paging", "sending"}
                       /\ Len(nextResp') = cfg'.pageSize
                       /\ nextResp'[Len(nextResp')] < k
  BY DEF Coverage
<1>0. /\ cfg.from \in Nat /\ cfg.to \in Nat /\ cfg.pageSize \in Nat \ {0} /\ cfg.limit \in Nat
      /\ nextResp \in Seq(Key) /\ Len(nextResp) \in Nat /\ cfg' = cfg /\ lost \in Nat
  BY ConfigFacts
  DEF TypeOK, Next, ScanStep, LoopStep, Clients, Stutter, LimitedScan, FirstPage,
      EndAtShortPage, NextPage, SendPage, RequestFails, Receive, LoopEnds, Put, Delete, vars
<1>a. k \in Nat
  BY <1>0, KeyAssumption, TypeStep DEF InRange, TypeOK
<1> DEFINE Goal == \/ Sent(k)'
                   \/ scanner' = "sending" /\ \E i \in 2..Len(nextResp') : nextResp'[i] = k
                   \/ /\ scanner' \in {"paging", "sending"}
                      /\ Len(nextResp') = cfg'.pageSize
                      /\ nextResp'[Len(nextResp')] < k
<1>1. CASE LimitedScan
  BY <1>0, <1>1 DEF LimitedScan
<1>2. CASE FirstPage
  <2>1. \A j : Sent(j)' <=> \E i \in 1..Len(nextResp') : nextResp'[i] = j
    BY <1>0, <1>2, FirstBatch DEF FirstPage
  <2>2. k \in InRange(store) /\ cfg.from <= k
    BY <1>0, <1>2 DEF FirstPage, InRange
  <2>3. \/ \E i \in 1..Len(nextResp') : nextResp'[i] = k
        \/ Len(nextResp') = cfg.pageSize /\ \A i \in 1..Len(nextResp') : nextResp'[i] < k
    BY <1>0, <1>2, <2>2, GetFacts DEF FirstPage
  <2>4. Len(nextResp') = cfg.pageSize => Len(nextResp') \in 1..Len(nextResp')
    BY <1>0
  <2> QED BY <1>0, <1>2, <2>1, <2>3, <2>4 DEF FirstPage
<1>3. CASE EndAtShortPage
  <2>1. k \in InRange(stable) /\ lost = 0 /\ \A j : Sent(j)' <=> Sent(j)
    BY <1>0, <1>3 DEF EndAtShortPage, InRange, Sent
  <2>2. Sent(k)
    BY <1>0, <1>3, <2>1 DEF EndAtShortPage, IsLastPage, Coverage
  <2> QED BY <2>1, <2>2
<1>4. CASE NextPage
  <2>1. Len(nextResp) >= 1 /\ Len(nextResp) = cfg.pageSize
    BY <1>0, <1>4 DEF NextPage, IsLastPage, Shape
  <2>2. lastKey \in Nat
    BY <1>0, <2>1, AscendingFacts DEF lastKey, Order
  <2>3. /\ nextResp' \in Seq(Key) /\ Len(nextResp') \in Nat /\ Ascending(nextResp')
        /\ \A i \in 1..Len(nextResp') : lastKey <= nextResp'[i]
        /\ \A j \in InRange(store) : lastKey <= j =>
              \/ \E i \in 1..Len(nextResp') : nextResp'[i] = j
              \/ Len(nextResp') = cfg.pageSize /\ \A i \in 1..Len(nextResp') : nextResp'[i] < j
    BY <1>0, <1>4, <2>2, GetFacts DEF NextPage
  <2>4. /\ k \in InRange(stable) /\ k \in InRange(store) /\ lost = 0
        /\ \A j : Sent(j)' <=> Sent(j)
    BY <1>0, <1>4 DEF NextPage, InRange, Sent, TypeOK
  <2>5. lastKey \in InRange(store)
    <3>1. lastKey \in store
      BY <1>0, <1>4, <2>4 DEF NextPage
    <3>2. lastKey \in InRange(Key)
      BY <2>1 DEF Order, lastKey
    <3> QED BY <3>1, <3>2 DEF InRange
  <2>6. \A i \in 1..Len(nextResp') : nextResp'[i] \in Nat
    BY <2>3, KeyAssumption, ElementOfSeq
  <2>7. PICK f \in 1..Len(nextResp') : nextResp'[f] = lastKey
    <3>1. CASE Len(nextResp') = cfg.pageSize /\ \A i \in 1..Len(nextResp') : nextResp'[i] < lastKey
      <4>1. 1 \in 1..Len(nextResp')
        BY <1>0, <3>1
      <4> QED BY <2>2, <2>3, <2>6, <3>1, <4>1
    <3> QED BY <2>2, <2>3, <2>5, <3>1
  <2>8. f = 1
    <3> SUFFICES ASSUME f # 1 PROVE FALSE
      OBVIOUS
    <3>1. 1 \in 1..Len(nextResp') /\ 1 < f
      BY <2>3, <2>7
    <3>2. nextResp'[1] < nextResp'[f] /\ lastKey <= nextResp'[1]
      BY <2>3, <2>7, <3>1 DEF Ascending
    <3> QED BY <2>2, <2>6, <2>7, <3>1, <3>2
  <2>9. CASE Sent(k)
    BY <2>4, <2>9
  <2>10. CASE lastKey < k
    <3>1. lastKey <= k
      BY <1>a, <2>2, <2>10
    <3>2. CASE \E i \in 1..Len(nextResp') : nextResp'[i] = k
      <4>1. PICK i \in 1..Len(nextResp') : nextResp'[i] = k
        BY <3>2
      <4>2. i # 1
        BY <1>a, <2>2, <2>7, <2>8, <2>10, <4>1
      <4>3. i \in 2..Len(nextResp') /\ Len(nextResp') > 1
        BY <2>3, <4>1, <4>2
      <4> QED BY <1>4, <4>1, <4>3 DEF NextPage, HasNothingNew
    <3>3. CASE Len(nextResp') = cfg.pageSize /\ \A i \in 1..Len(nextResp') : nextResp'[i] < k
      <4>1. Len(nextResp') \in 1..Len(nextResp') /\ ~(Len(nextResp') <= 1)
        BY <1>0, <2>3, <3>3
      <4>2. scanner' = "sending"
        BY <1>4, <4>1 DEF NextPage, HasNothingNew
      <4> QED BY <1>0, <3>3, <4>1, <4>2
    <3> QED BY <2>3, <2>4, <3>1, <3>2, <3>3
  <2> QED BY <1>0, <1>4, <2>4, <2>9, <2>10 DEF Coverage, NextPage, lastKey
<1>5. CASE SendPage
  <2> DEFINE s == Tail(nextResp)
  <2>1. /\ Len(nextResp) > 1 /\ s \in Seq(Key) /\ Len(s) = Len(nextResp) - 1
        /\ \A i \in 1..Len(s) : s[i] = nextResp[i + 1]
    BY <1>0, <1>5, TailFacts DEF SendPage, Shape
  <2>2. c' = Append(c, s) /\ received' = received /\ nextResp' = nextResp
        /\ scanner = "sending" /\ scanner' = "paging" /\ stable' = stable /\ lost' = lost
    BY <1>5 DEF SendPage, WithoutLeadingKey
  <2> HIDE DEF s
  <2>3. \A j : Sent(j)' <=> Sent(j) \/ \E i \in 1..Len(s) : s[i] = j
    BY <2>1, <2>2, SentAppended
  <2>4. k \in InRange(stable) /\ lost = 0
    BY <1>0, <2>2 DEF InRange
  <2>5. \/ Sent(k)
        \/ \E i \in 2..Len(nextResp) : nextResp[i] = k
        \/ Len(nextResp) = cfg.pageSize /\ nextResp[Len(nextResp)] < k
    BY <1>0, <2>2, <2>4 DEF Coverage
  <2>6. ASSUME NEW i \in 2..Len(nextResp), nextResp[i] = k PROVE \E j \in 1..Len(s) : s[j] = k
    <3>1. i - 1 \in 1..Len(s) /\ s[i - 1] = nextResp[(i - 1) + 1] /\ (i - 1) + 1 = i
      BY <1>0, <2>1
    <3> QED BY <2>6, <3>1
  <2> QED BY <1>0, <2>2, <2>3, <2>5, <2>6
<1>6. CASE RequestFails
  BY <1>6 DEF RequestFails
<1>7. CASE Receive
  <2>1. /\ c # <<>> /\ received' = received \o Head(c) /\ c' = Tail(c)
        /\ nextResp' = nextResp /\ scanner' = scanner /\ stable' = stable /\ lost' = lost
    BY <1>7 DEF Receive
  <2>2. \A j : Sent(j)' <=> Sent(j)
    BY <2>1, SentTaken
  <2> QED BY <1>0, <2>1, <2>2 DEF Coverage, InRange
<1>8. CASE LoopEnds
  BY <1>0, <1>8 DEF LoopEnds, Coverage, InRange, Sent
<1>9. ASSUME NEW j \in Key, Put(j) PROVE Goal
  BY <1>0, <1>9 DEF Put, Coverage, InRange, Sent
<1>10. ASSUME NEW j \in Key, Delete(j) PROVE Goal
  BY <1>0, <1>10 DEF Delete, Coverage, InRange, Sent
<1>11. CASE UNCHANGED vars
  BY <1>0, <1>11 DEF vars, Coverage, InRange, Sent
<1> QED
  BY <1>1, <1>2, <1>3, <1>4, <1>5, <1>6, <1>7, <1>8, <1>9, <1>10, <1>11
  DEF Next, ScanStep, LoopStep, Clients, Stutter

(* The inductive invariant the model checker also evaluates.                *)
THEOREM Inductive == Spec => []ScanInv
<1>1. Init => ScanInv
  BY TypeInit, OrderInit, CoverageInit DEF ScanInv
<1>2. ScanInv /\ [Next]_vars => ScanInv'
  BY TypeStep, OrderStep, CoverageStep DEF ScanInv
<1> QED BY <1>1, <1>2, PTL DEF Spec

(* A scan whose continuation requests always found their starting key is    *)
(* complete: every key that was in the store throughout has been delivered. *)
THEOREM CompleteScan == Spec => []CompleteUnlessCursorLost
<1>1. ScanInv => CompleteUnlessCursorLost
  <2> SUFFICES ASSUME ScanInv, consumer = "done", Unlimited, lost = 0, NEW k \in InRange(stable)
               PROVE  k \in ToSet(received)
    BY DEF CompleteUnlessCursorLost, Missed
  <2>1. scanner = "closed" /\ c = <<>>
    BY DEF ScanInv, Shape
  <2>2. Sent(k)
    BY <2>1 DEF ScanInv, Coverage, Unlimited
  <2>3. \E i \in 1..Len(received) : received[i] = k
    BY <2>1, <2>2 DEF Sent
  <2>4. DOMAIN received = 1..Len(received)
    BY LenProperties DEF ScanInv, TypeOK
  <2> QED BY <2>3, <2>4 DEF ToSet
<1> QED BY Inductive, <1>1, PTL

----------------------------------------------------------------------------
(* What a scan costs when its cursor key is deleted.                       *)

(* A key that is sent, about to be sent, or ahead of a full last response.  *)
Covered(k) ==
  \/ Sent(k)
  \/ scanner = "sending" /\ \E i \in 2..Len(nextResp) : nextResp[i] = k
  \/ /\ scanner \in {"paging", "sending"}
     /\ Len(nextResp) = cfg.pageSize
     /\ nextResp[Len(nextResp)] < k

Uncovered == {k \in InRange(stable) : ~Covered(k)}

(* Each request from a key that is gone leaves at most one key behind.      *)
LossInv == Unlimited /\ scanner # "exited" => Cardinality(Uncovered) <= lost

(* What the scan has taken from the store so far, as CursorScan sees it.    *)
taken == received \o FlattenSeq(c) \o inFlight

CursorInv ==
  /\ taken \in Seq(Key) /\ Ascending(taken)
  /\ scanner = "start" => taken = <<>>
  /\ scanner \in {"paging", "sending"} /\ nextResp # <<>> =>
       taken # <<>> /\ taken[Len(taken)] = nextResp[Len(nextResp)]

----------------------------------------------------------------------------
(* The reply to a continuation request: every key that lay ahead is in it,  *)
(* or ahead of it, except that its first key is not sent.                   *)
LEMMA NextPageFacts ==
  ASSUME TypeOK, Shape, Order, NextPage
  PROVE  /\ cfg.pageSize \in Nat \ {0} /\ lastKey \in Nat /\ lastKey \in InRange(Key)
         /\ nextResp # <<>> /\ Len(nextResp) = cfg.pageSize /\ cfg.limit = 0
         /\ nextResp' \in Seq(Key) /\ Len(nextResp') \in Nat /\ Ascending(nextResp')
         /\ Len(nextResp') <= cfg.pageSize
         /\ \A i \in 1..Len(nextResp') : nextResp'[i] \in InRange(store) /\ lastKey <= nextResp'[i]
         /\ \A j \in InRange(store) : lastKey <= j =>
              \/ \E i \in 1..Len(nextResp') : nextResp'[i] = j
              \/ Len(nextResp') = cfg.pageSize /\ \A i \in 1..Len(nextResp') : nextResp'[i] < j
         /\ lastKey \in store => nextResp' # <<>> /\ nextResp'[1] = lastKey
<1>0. /\ cfg.pageSize \in Nat \ {0} /\ cfg.limit \in Nat /\ nextResp \in Seq(Key) /\ Len(nextResp) \in Nat
  BY ConfigFacts DEF TypeOK
<1>1. Len(nextResp) >= 1 /\ Len(nextResp) = cfg.pageSize /\ cfg.limit = 0 /\ nextResp # <<>>
  <2>1. cfg.limit = 0
    BY <1>0 DEF NextPage, Shape
  <2> QED BY <1>0, <2>1 DEF NextPage, IsLastPage, Shape
<1>2. lastKey \in Nat /\ lastKey \in InRange(Key)
  BY <1>0, <1>1, AscendingFacts DEF lastKey, Order
<1>3. /\ nextResp' \in Seq(Key) /\ Len(nextResp') \in Nat /\ Ascending(nextResp')
      /\ Len(nextResp') <= cfg.pageSize
      /\ \A i \in 1..Len(nextResp') : nextResp'[i] \in InRange(store) /\ lastKey <= nextResp'[i]
      /\ \A j \in InRange(store) : lastKey <= j =>
           \/ \E i \in 1..Len(nextResp') : nextResp'[i] = j
           \/ Len(nextResp') = cfg.pageSize /\ \A i \in 1..Len(nextResp') : nextResp'[i] < j
  BY <1>0, <1>2, GetFacts DEF NextPage
<1>4. \A i \in 1..Len(nextResp') : nextResp'[i] \in Nat
  BY <1>3, KeyAssumption, ElementOfSeq
<1>5. ASSUME lastKey \in store PROVE nextResp' # <<>> /\ nextResp'[1] = lastKey
  <2>1. lastKey \in InRange(store) /\ lastKey <= lastKey
    BY <1>2, <1>5 DEF InRange
  <2>2. PICK f \in 1..Len(nextResp') : nextResp'[f] = lastKey
    <3>1. CASE Len(nextResp') = cfg.pageSize /\ \A i \in 1..Len(nextResp') : nextResp'[i] < lastKey
      <4>1. 1 \in 1..Len(nextResp')
        BY <1>0, <3>1
      <4>2. nextResp'[1] < lastKey /\ lastKey <= nextResp'[1] /\ nextResp'[1] \in Nat
        BY <1>3, <1>4, <3>1, <4>1
      <4> QED BY <1>2, <4>2
    <3> QED BY <1>3, <2>1, <3>1
  <2>3. 1 \in 1..Len(nextResp') /\ nextResp' # <<>>
    BY <1>3, <2>2
  <2>4. nextResp'[1] \in Nat /\ lastKey <= nextResp'[1]
    BY <1>3, <1>4, <2>3
  <2>5. f = 1 \/ nextResp'[1] < nextResp'[f]
    BY <1>3, <2>2, <2>3 DEF Ascending
  <2> QED BY <1>2, <2>2, <2>3, <2>4, <2>5
<1> QED BY <1>0, <1>1, <1>2, <1>3, <1>5

(* Types, order and frontier of a state and of the next one.                *)
Sound == TypeOK /\ Shape /\ Order /\ Frontier

(* A key that is covered stays so, but for the first key of a reply.        *)
LEMMA CoveredStays ==
  ASSUME Sound, [Next]_vars, cfg.limit = 0, cfg.pageSize > 1, scanner' # "exited",
         NEW k \in InRange(stable)'
  PROVE  \/ Covered(k)'
         \/ k \in InRange(stable) /\ ~Covered(k)
         \/ NextPage /\ lastKey \notin store /\ k = nextResp'[1]
<1> SUFFICES ASSUME k \in InRange(stable) => Covered(k),
                    ~(NextPage /\ lastKey \notin store /\ k = nextResp'[1])
             PROVE  Covered(k)'
  OBVIOUS
<1>0. /\ cfg.from \in Nat /\ cfg.to \in Nat /\ cfg.pageSize \in Nat \ {0} /\ cfg.limit \in Nat
      /\ nextResp \in Seq(Key) /\ Len(nextResp) \in Nat /\ cfg' = cfg
      /\ TypeOK /\ Shape /\ Order /\ Frontier
  BY ConfigFacts
  DEF Sound, TypeOK, Next, ScanStep, LoopStep, Clients, Stutter, LimitedScan, FirstPage,
      EndAtShortPage, NextPage, SendPage, RequestFails, Receive, LoopEnds, Put, Delete, vars
<1>a. k \in Nat
  BY <1>0, KeyAssumption, TypeStep DEF InRange, TypeOK
<1>1. CASE LimitedScan
  BY <1>0, <1>1 DEF LimitedScan
<1>2. CASE FirstPage
  <2>1. \A j : Sent(j)' <=> \E i \in 1..Len(nextResp') : nextResp'[i] = j
    BY <1>0, <1>2, FirstBatch DEF FirstPage
  <2>2. k \in InRange(store) /\ cfg.from <= k
    BY <1>0, <1>2 DEF FirstPage, InRange
  <2>3. \/ \E i \in 1..Len(nextResp') : nextResp'[i] = k
        \/ Len(nextResp') = cfg.pageSize /\ \A i \in 1..Len(nextResp') : nextResp'[i] < k
    BY <1>0, <1>2, <2>2, GetFacts DEF FirstPage
  <2>4. Len(nextResp') = cfg.pageSize => Len(nextResp') \in 1..Len(nextResp')
    BY <1>0
  <2> QED BY <1>0, <1>2, <2>1, <2>3, <2>4 DEF FirstPage, Covered
<1>3. CASE EndAtShortPage
  <2>1. k \in InRange(stable) /\ \A j : Sent(j)' <=> Sent(j)
    BY <1>0, <1>3 DEF EndAtShortPage, InRange, Sent
  <2>2. Sent(k)
    BY <1>0, <1>3, <2>1 DEF EndAtShortPage, IsLastPage, Covered
  <2> QED BY <2>1, <2>2 DEF Covered
<1>4. CASE NextPage
  <2>1. /\ lastKey \in Nat
        /\ nextResp' \in Seq(Key) /\ Len(nextResp') \in Nat
        /\ \A j \in InRange(store) : lastKey <= j =>
              \/ \E i \in 1..Len(nextResp') : nextResp'[i] = j
              \/ Len(nextResp') = cfg.pageSize /\ \A i \in 1..Len(nextResp') : nextResp'[i] < j
        /\ lastKey \in store => nextResp' # <<>> /\ nextResp'[1] = lastKey
    BY <1>0, <1>4, NextPageFacts
  <2>2. /\ k \in InRange(stable) /\ k \in InRange(store)
        /\ \A j : Sent(j)' <=> Sent(j)
    BY <1>0, <1>4 DEF NextPage, InRange, Sent, TypeOK
  <2>3. CASE Sent(k)
    BY <2>2, <2>3 DEF Covered
  <2>4. CASE lastKey < k
    <3>1. lastKey <= k /\ k # lastKey
      BY <1>a, <2>1, <2>4
    <3>2. CASE \E i \in 1..Len(nextResp') : nextResp'[i] = k
      <4>1. PICK i \in 1..Len(nextResp') : nextResp'[i] = k
        BY <3>2
      <4>2. i # 1
        BY <1>4, <2>1, <3>1, <4>1
      <4>3. i \in 2..Len(nextResp') /\ Len(nextResp') > 1
        BY <2>1, <4>1, <4>2
      <4> QED BY <1>4, <4>1, <4>3 DEF NextPage, HasNothingNew, Covered
    <3>3. CASE Len(nextResp') = cfg.pageSize /\ \A i \in 1..Len(nextResp') : nextResp'[i] < k
      <4>1. Len(nextResp') \in 1..Len(nextResp') /\ ~(Len(nextResp') <= 1)
        BY <1>0, <2>1, <3>3
      <4>2. scanner' = "sending"
        BY <1>4, <4>1 DEF NextPage, HasNothingNew
      <4> QED BY <1>0, <3>3, <4>1, <4>2 DEF Covered
    <3> QED BY <2>1, <2>2, <3>1, <3>2, <3>3
  <2> QED BY <1>0, <1>4, <2>2, <2>3, <2>4 DEF NextPage, lastKey, Covered
<1>5. CASE SendPage
  <2> DEFINE s == Tail(nextResp)
  <2>1. /\ Len(nextResp) > 1 /\ s \in Seq(Key) /\ Len(s) = Len(nextResp) - 1
        /\ \A i \in 1..Len(s) : s[i] = nextResp[i + 1]
    BY <1>0, <1>5, TailFacts DEF SendPage, Shape
  <2>2. c' = Append(c, s) /\ received' = received /\ nextResp' = nextResp
        /\ scanner = "sending" /\ scanner' = "paging" /\ stable' = stable
    BY <1>5 DEF SendPage, WithoutLeadingKey
  <2> HIDE DEF s
  <2>3. \A j : Sent(j)' <=> Sent(j) \/ \E i \in 1..Len(s) : s[i] = j
    BY <1>0, <2>1, <2>2, SentAppended
  <2>4. k \in InRange(stable)
    BY <1>0, <2>2 DEF InRange
  <2>5. \/ Sent(k)
        \/ \E i \in 2..Len(nextResp) : nextResp[i] = k
        \/ Len(nextResp) = cfg.pageSize /\ nextResp[Len(nextResp)] < k
    BY <1>0, <2>2, <2>4 DEF Covered
  <2>6. ASSUME NEW i \in 2..Len(nextResp), nextResp[i] = k PROVE \E j \in 1..Len(s) : s[j] = k
    <3>1. i - 1 \in 1..Len(s) /\ s[i - 1] = nextResp[(i - 1) + 1] /\ (i - 1) + 1 = i
      BY <1>0, <2>1
    <3> QED BY <2>6, <3>1
  <2> QED BY <1>0, <2>2, <2>3, <2>5, <2>6 DEF Covered
<1>6. CASE RequestFails
  BY <1>6 DEF RequestFails
<1>7. CASE Receive
  <2>1. /\ c # <<>> /\ received' = received \o Head(c) /\ c' = Tail(c)
        /\ nextResp' = nextResp /\ scanner' = scanner /\ stable' = stable
    BY <1>7 DEF Receive
  <2>2. \A j : Sent(j)' <=> Sent(j)
    BY <1>0, <2>1, SentTaken
  <2> QED BY <1>0, <2>1, <2>2 DEF Covered, InRange
<1>8. CASE LoopEnds
  BY <1>0, <1>8 DEF LoopEnds, Covered, InRange, Sent
<1>9. ASSUME NEW j \in Key, Put(j) PROVE Covered(k)'
  BY <1>0, <1>9 DEF Put, Covered, InRange, Sent
<1>10. ASSUME NEW j \in Key, Delete(j) PROVE Covered(k)'
  BY <1>0, <1>10 DEF Delete, Covered, InRange, Sent
<1>11. CASE UNCHANGED vars
  BY <1>0, <1>11 DEF vars, Covered, InRange, Sent
<1> QED
  BY <1>1, <1>2, <1>3, <1>4, <1>5, <1>6, <1>7, <1>8, <1>9, <1>10, <1>11
  DEF Next, ScanStep, LoopStep, Clients, Stutter

(* What is uncovered is a finite set: it lies in the range of the scan.     *)
LEMMA UncoveredFinite ==
  ASSUME TypeOK
  PROVE  IsFiniteSet(Uncovered) /\ Cardinality(Uncovered) \in Nat
<1>1. cfg.from \in Nat /\ cfg.to \in Nat /\ stable \subseteq Nat
  BY ConfigFacts, KeyAssumption DEF TypeOK
<1>2. Uncovered \in SUBSET (cfg.from..cfg.to)
  <2> SUFFICES ASSUME NEW k \in Uncovered PROVE k \in cfg.from..cfg.to
    OBVIOUS
  <2>1. k \in InRange(stable)
    BY DEF Uncovered
  <2> QED BY <1>1, <2>1 DEF InRange
<1>3. IsFiniteSet(cfg.from..cfg.to)
  BY <1>1, FS_Interval
<1> QED BY <1>2, <1>3, FS_Subset, FS_CardinalityType

(* A step leaves at most one key behind, and then it is counted.            *)
LEMMA LossStep == Sound /\ LossInv /\ [Next]_vars => LossInv'
<1> SUFFICES ASSUME Sound, LossInv, [Next]_vars, Unlimited', scanner' # "exited"
             PROVE  Cardinality(Uncovered') <= lost'
  BY DEF LossInv
<1>1. /\ cfg' = cfg /\ TypeOK /\ TypeOK' /\ lost \in Nat /\ Unlimited /\ scanner # "exited"
      /\ cfg.limit = 0 /\ cfg.pageSize > 1
  <2>1. cfg' = cfg /\ scanner # "exited"
    BY DEF Next, ScanStep, LoopStep, Clients, Stutter, LimitedScan, FirstPage,
      EndAtShortPage, NextPage, SendPage, RequestFails, Receive, LoopEnds, Put, Delete, vars
  <2>2. TypeOK /\ TypeOK'
    BY TypeStep DEF Sound
  <2> QED BY <2>1, <2>2 DEF Unlimited, TypeOK
<1>2. /\ IsFiniteSet(Uncovered) /\ Cardinality(Uncovered) \in Nat /\ Cardinality(Uncovered) <= lost
  BY <1>1, UncoveredFinite DEF LossInv
<1>3. ASSUME NEW k \in Uncovered'
      PROVE  k \in Uncovered \/ (NextPage /\ lastKey \notin store /\ k = nextResp'[1])
  <2>1. k \in InRange(stable)' /\ ~Covered(k)'
    BY <1>3 DEF Uncovered
  <2> QED BY <1>1, <2>1, CoveredStays DEF Uncovered
<1>4. CASE NextPage /\ lastKey \notin store
  <2> DEFINE U == Uncovered \union {nextResp'[1]}
  <2>1. Uncovered' \in SUBSET U
    BY <1>3
  <2>2. /\ IsFiniteSet(U)
        /\ Cardinality(U) = Cardinality(Uncovered) \/ Cardinality(U) = Cardinality(Uncovered) + 1
    BY <1>2, FS_AddElement, Zenon
  <2>3. Cardinality(Uncovered') <= Cardinality(U) /\ Cardinality(Uncovered') \in Nat
    <3> HIDE DEF U
    <3> QED BY <2>1, <2>2, FS_Subset, FS_CardinalityType
  <2>4. lost' = lost + 1
    BY <1>4 DEF NextPage
  <2> HIDE DEF U
  <2> QED BY <1>1, <1>2, <2>2, <2>3, <2>4
<1>5. CASE ~(NextPage /\ lastKey \notin store)
  <2>1. Uncovered' \in SUBSET Uncovered
    BY <1>3, <1>5
  <2>2. Cardinality(Uncovered') <= Cardinality(Uncovered) /\ Cardinality(Uncovered') \in Nat
    BY <1>2, <2>1, FS_Subset, FS_CardinalityType
  <2>3. lost' = lost
    BY <1>5 DEF Next, ScanStep, LoopStep, Clients, Stutter, LimitedScan, FirstPage,
      EndAtShortPage, NextPage, SendPage, RequestFails, Receive, LoopEnds, Put, Delete, vars
  <2> QED BY <1>1, <1>2, <2>2, <2>3
<1> QED BY <1>4, <1>5

(* A page boundary costs at most one key: when the loop ends, the keys that *)
(* were present throughout and never delivered are no more than the         *)
(* requests whose starting key had been deleted.                            *)
THEOREM MissesAreBounded == Spec => []MissesBounded
<1> DEFINE Inv == Sound /\ LossInv
<1>1. Init => Inv
  <2>1. Init => Sound
    BY TypeInit, OrderInit DEF Sound
  <2>2. Init => LossInv
    <3> SUFFICES ASSUME Init PROVE Cardinality(Uncovered) <= lost
      BY DEF LossInv
    <3>1. Uncovered = {} /\ lost = 0
      BY DEF Init, Uncovered, InRange
    <3> QED BY <3>1, FS_EmptySet
  <2> QED BY <2>1, <2>2
<1>2. Inv /\ [Next]_vars => Inv'
  BY TypeStep, OrderStep, LossStep DEF Sound
<1>3. Inv => MissesBounded
  <2> SUFFICES ASSUME Inv, consumer = "done", Unlimited PROVE Cardinality(Missed) <= lost
    BY DEF MissesBounded
  <2>1. scanner = "closed" /\ c = <<>> /\ TypeOK
    BY DEF Sound, Shape
  <2>2. Missed \in SUBSET Uncovered
    <3> SUFFICES ASSUME NEW k \in Missed PROVE k \in Uncovered
      OBVIOUS
    <3>1. k \in InRange(stable) /\ k \notin ToSet(received)
      BY DEF Missed
    <3>2. ~Sent(k)
      <4>1. DOMAIN received = 1..Len(received)
        BY <2>1, LenProperties DEF TypeOK
      <4> QED BY <2>1, <3>1, <4>1 DEF Sent, ToSet
    <3> QED BY <2>1, <3>1, <3>2 DEF Covered, Uncovered
  <2>3. IsFiniteSet(Uncovered) /\ Cardinality(Uncovered) \in Nat /\ Cardinality(Uncovered) <= lost
    BY <2>1, UncoveredFinite DEF LossInv
  <2>4. Cardinality(Missed) <= Cardinality(Uncovered) /\ Cardinality(Missed) \in Nat
    BY <2>2, <2>3, FS_Subset, FS_CardinalityType
  <2> QED BY <2>1, <2>3, <2>4 DEF TypeOK
<1> QED BY <1>1, <1>2, <1>3, PTL DEF Spec

----------------------------------------------------------------------------
(* What the first request brings is all that has been taken.                *)
LEMMA TakenFirst ==
  ASSUME Sound, scanner = "start", scanner' \in {"closed", "paging"},
         nextResp' \in Seq(Key), c' = Append(c, nextResp'), received' = received
  PROVE  taken = <<>> /\ taken' = nextResp'
<1>1. c = <<>> /\ received = <<>>
  BY DEF Sound, Shape
<1>2. FlattenSeq(<<>>) = <<>>
  BY DEF FlattenSeq
<1>3. inFlight = <<>> /\ inFlight' = <<>>
  BY DEF inFlight
<1>4. FlattenSeq(c') = nextResp'
  <2>1. <<>> \in Seq(Seq(Key))
    OBVIOUS
  <2>2. FlattenSeq(Append(<<>>, nextResp')) = FlattenSeq(<<>>) \o nextResp'
    BY <2>1, FlattenAppend
  <2>3. <<>> \o nextResp' = nextResp'
    OBVIOUS
  <2> QED BY <1>1, <1>2, <2>2, <2>3, Zenon
<1>5. <<>> \o <<>> = <<>> /\ (<<>> \o nextResp') \o <<>> = nextResp'
  OBVIOUS
<1> QED BY <1>1, <1>2, <1>3, <1>4, <1>5, Zenon DEF taken

(* The parts of what has been taken are sequences of keys.                  *)
LEMMA TakenParts ==
  ASSUME Sound
  PROVE  /\ received \in Seq(Key) /\ c \in Seq(Seq(Key)) /\ FlattenSeq(c) \in Seq(Key)
         /\ inFlight \in Seq(Key) /\ taken \in Seq(Key)
<1>1. received \in Seq(Key) /\ c \in Seq(Seq(Key)) /\ nextResp \in Seq(Key)
      /\ (scanner = "sending" => Len(nextResp) > 1)
  BY DEF Sound, TypeOK, Shape
<1>2. FlattenSeq(c) \in Seq(Key)
  BY <1>1, FlattenType
<1>3. inFlight \in Seq(Key)
  <2>1. CASE scanner = "sending"
    BY <1>1, <2>1, TailFacts DEF inFlight, WithoutLeadingKey
  <2>2. CASE scanner # "sending"
    BY <2>2 DEF inFlight
  <2> QED BY <2>1, <2>2
<1>4. taken \in Seq(Key)
  <2>1. \A a, b \in Seq(Key) : a \o b \in Seq(Key)
    OBVIOUS
  <2> QED BY <1>1, <1>2, <1>3, <2>1, Zenon DEF taken
<1> QED BY <1>1, <1>2, <1>3, <1>4

(* Sending a page and receiving a batch only move keys along.               *)
LEMMA TakenMoves ==
  ASSUME Sound, SendPage \/ Receive
  PROVE  taken' = taken
<1>1. /\ received \in Seq(Key) /\ c \in Seq(Seq(Key)) /\ FlattenSeq(c) \in Seq(Key)
      /\ inFlight \in Seq(Key)
  BY TakenParts
<1>2. \A x, y, z \in Seq(Key) : (x \o y) \o z = x \o (y \o z)
  BY ConcatAssociative
<1>3. \A x \in Seq(Key) : x \o <<>> = x
  OBVIOUS
<1>4. \A x, y \in Seq(Key) : x \o y \in Seq(Key)
  OBVIOUS
<1>5. CASE SendPage
  <2> DEFINE t == Tail(nextResp)
  <2>1. /\ inFlight = t /\ inFlight' = <<>> /\ c' = Append(c, t) /\ received' = received
    BY <1>5 DEF SendPage, inFlight, WithoutLeadingKey
  <2> HIDE DEF t
  <2>2. t \in Seq(Key)
    BY <1>1, <2>1, Zenon
  <2>3. FlattenSeq(c') = FlattenSeq(c) \o t
    BY <1>1, <2>1, <2>2, FlattenAppend
  <2>4. (received \o (FlattenSeq(c) \o t)) \o <<>> = (received \o FlattenSeq(c)) \o t
    <3>1. received \o (FlattenSeq(c) \o t) \in Seq(Key)
      BY <1>1, <1>4, <2>2, Zenon
    <3>2. received \o (FlattenSeq(c) \o t) = (received \o FlattenSeq(c)) \o t
      BY <1>1, <1>2, <2>2, Zenon
    <3> QED BY <1>3, <3>1, <3>2, Zenon
  <2> QED BY <2>1, <2>3, <2>4, Zenon DEF taken
<1>6. CASE Receive
  <2> DEFINE h == Head(c)
             r == FlattenSeq(Tail(c))
  <2>1. /\ c # <<>> /\ received' = received \o h /\ FlattenSeq(c') = r /\ inFlight' = inFlight
    BY <1>6 DEF Receive, inFlight, WithoutLeadingKey
  <2>2. h \in Seq(Key) /\ r \in Seq(Key) /\ FlattenSeq(c) = h \o r
    BY <1>1, <2>1, FlattenHead
  <2> HIDE DEF h, r
  <2>3. (received \o h) \o r = received \o (h \o r)
    BY <1>1, <1>2, <2>2, Zenon
  <2> QED BY <2>1, <2>2, <2>3, Zenon DEF taken
<1> QED BY <1>5, <1>6

(* A continuation request takes what it is about to send: keys above the    *)
(* last one taken, in ascending order.                                      *)
LEMMA TakenNext ==
  ASSUME Sound, CursorInv, NextPage
  PROVE  /\ taken # <<>> /\ taken[Len(taken)] = lastKey
         /\ taken' = taken \o inFlight'
         /\ inFlight' = IF Len(nextResp') <= 1 THEN <<>> ELSE Tail(nextResp')
         /\ inFlight' \in Seq(Key) /\ Ascending(inFlight')
         /\ \A i \in 1..Len(inFlight') : lastKey < inFlight'[i] /\ nextResp'[1] < inFlight'[i]
         /\ \A i \in 1..Len(inFlight') : i + 1 \in 1..Len(nextResp') /\ inFlight'[i] = nextResp'[i + 1]
<1>1. /\ nextResp # <<>> /\ lastKey \in Nat
      /\ nextResp' \in Seq(Key) /\ Len(nextResp') \in Nat /\ Ascending(nextResp')
      /\ \A i \in 1..Len(nextResp') : lastKey <= nextResp'[i]
  BY NextPageFacts DEF Sound
<1>2. /\ scanner = "paging" /\ received' = received /\ c' = c /\ inFlight = <<>>
      /\ scanner' = IF Len(nextResp') <= 1 THEN "closed" ELSE "sending"
  BY DEF NextPage, HasNothingNew, inFlight
<1>3. taken # <<>> /\ taken[Len(taken)] = lastKey
  BY <1>1, <1>2 DEF CursorInv, lastKey
<1>4. inFlight' = IF Len(nextResp') <= 1 THEN <<>> ELSE Tail(nextResp')
  BY <1>2 DEF inFlight, WithoutLeadingKey
<1>5. taken' = taken \o inFlight'
  <2>1. received \in Seq(Key) /\ FlattenSeq(c) \in Seq(Key)
    BY TakenParts
  <2>2. (received \o FlattenSeq(c)) \o <<>> = received \o FlattenSeq(c)
    BY <2>1
  <2> QED BY <1>2, <2>2, Zenon DEF taken
<1>6. CASE Len(nextResp') <= 1
  BY <1>3, <1>4, <1>5, <1>6 DEF Ascending
<1>7. CASE ~(Len(nextResp') <= 1)
  <2> DEFINE t == Tail(nextResp')
  <2>1. /\ t \in Seq(Key) /\ Len(t) = Len(nextResp') - 1
        /\ \A i \in 1..Len(t) : t[i] = nextResp'[i + 1]
    BY <1>1, <1>7, TailFacts
  <2>2. inFlight' = t
    BY <1>4, <1>7
  <2> HIDE DEF t
  <2>3. \A i \in 1..Len(nextResp') : nextResp'[i] \in Nat
    BY <1>1, KeyAssumption, ElementOfSeq
  <2>4. \A i \in 1..Len(t) : i + 1 \in 1..Len(nextResp') /\ 1 \in 1..Len(nextResp') /\ 1 < i + 1
    BY <1>1, <1>7, <2>1
  <2>5. \A i \in 1..Len(t) : lastKey < t[i] /\ nextResp'[1] < t[i]
    <3> TAKE i \in 1..Len(t)
    <3>1. nextResp'[1] < nextResp'[i + 1] /\ lastKey <= nextResp'[1]
      BY <1>1, <2>4 DEF Ascending
    <3>2. nextResp'[1] \in Nat /\ nextResp'[i + 1] \in Nat
      BY <2>3, <2>4
    <3> QED BY <1>1, <2>1, <3>1, <3>2
  <2>6. Ascending(t)
    <3> SUFFICES ASSUME NEW i \in 1..Len(t), NEW j \in 1..Len(t), i < j PROVE t[i] < t[j]
      BY DEF Ascending
    <3>1. i + 1 \in 1..Len(nextResp') /\ j + 1 \in 1..Len(nextResp') /\ i + 1 < j + 1
      BY <2>1, <2>4
    <3> QED BY <1>1, <2>1, <3>1 DEF Ascending
  <2> QED BY <1>3, <1>4, <1>5, <2>1, <2>2, <2>4, <2>5, <2>6, Zenon
<1> QED BY <1>6, <1>7

(* What has been taken is ascending and ends at the last key seen.          *)
LEMMA CursorInvStep == Sound /\ CursorInv /\ [Next]_vars => CursorInv'
<1> SUFFICES ASSUME Sound, CursorInv, [Next]_vars PROVE CursorInv'
  OBVIOUS
<1>0. /\ cfg.from \in Nat /\ cfg.pageSize \in Nat \ {0} /\ cfg.limit \in Nat /\ TypeOK /\ Shape
  BY ConfigFacts DEF Sound, TypeOK
<1>1. CASE LimitedScan
  <2>1. nextResp' \in Seq(Key) /\ Ascending(nextResp')
    BY <1>0, <1>1, GetFacts DEF LimitedScan
  <2>2. taken' = nextResp'
    BY <1>1, <2>1, TakenFirst DEF LimitedScan
  <2>3. scanner' = "closed"
    BY <1>1 DEF LimitedScan
  <2> QED BY <2>1, <2>2, <2>3 DEF CursorInv, Ascending
<1>2. CASE FirstPage
  <2>1. nextResp' \in Seq(Key) /\ Ascending(nextResp')
    BY <1>0, <1>2, GetFacts DEF FirstPage
  <2>2. taken' = nextResp'
    BY <1>2, <2>1, TakenFirst DEF FirstPage
  <2>3. scanner' = "paging"
    BY <1>2 DEF FirstPage
  <2> QED BY <2>1, <2>2, <2>3 DEF CursorInv, Ascending
<1>3. CASE NextPage
  <2> DEFINE t == inFlight'
  <2>1. /\ taken # <<>> /\ taken[Len(taken)] = lastKey
        /\ taken' = taken \o t
        /\ t = IF Len(nextResp') <= 1 THEN <<>> ELSE Tail(nextResp')
        /\ t \in Seq(Key) /\ Ascending(t)
        /\ \A i \in 1..Len(t) : lastKey < t[i]
    BY <1>3, TakenNext
  <2>2. taken \in Seq(Key) /\ Ascending(taken)
    BY DEF CursorInv
  <2>3. nextResp' \in Seq(Key) /\ scanner' = IF Len(nextResp') <= 1 THEN "closed" ELSE "sending"
    BY <1>0, <1>3, NextPageFacts DEF Sound, NextPage, HasNothingNew
  <2> HIDE DEF t
  <2>4. /\ taken \o t \in Seq(Key) /\ Len(taken \o t) = Len(taken) + Len(t)
        /\ \A i \in 1..(Len(taken) + Len(t)) :
             (taken \o t)[i] = IF i <= Len(taken) THEN taken[i] ELSE t[i - Len(taken)]
    BY <2>1, <2>2, ConcatProperties
  <2>5. Len(taken) \in Nat /\ Len(t) \in Nat /\ Len(taken) >= 1
        /\ \A i \in 1..Len(taken) : taken[i] <= lastKey /\ taken[i] \in Nat
    BY <2>1, <2>2, AscendingFacts
  <2>6. Ascending(taken \o t)
    <3> SUFFICES ASSUME NEW i \in 1..(Len(taken) + Len(t)), NEW j \in 1..(Len(taken) + Len(t)), i < j
                 PROVE  (taken \o t)[i] < (taken \o t)[j]
      BY <2>4 DEF Ascending
    <3>1. CASE j <= Len(taken)
      <4>1. i \in 1..Len(taken) /\ j \in 1..Len(taken) /\ i <= Len(taken)
        BY <2>5, <3>1
      <4> QED BY <2>2, <2>4, <3>1, <4>1 DEF Ascending
    <3>2. CASE ~(j <= Len(taken)) /\ i <= Len(taken)
      <4>1. i \in 1..Len(taken) /\ j - Len(taken) \in 1..Len(t)
        BY <2>5, <3>2
      <4>2. t[j - Len(taken)] \in Nat /\ lastKey < t[j - Len(taken)] /\ taken[i] <= lastKey /\ taken[i] \in Nat
        BY <2>1, <2>5, <4>1, KeyAssumption, ElementOfSeq
      <4>3. lastKey \in Nat
        BY <1>3, NextPageFacts DEF Sound
      <4> QED BY <2>4, <3>2, <4>2, <4>3
    <3>3. CASE ~(j <= Len(taken)) /\ ~(i <= Len(taken))
      <4>1. i - Len(taken) \in 1..Len(t) /\ j - Len(taken) \in 1..Len(t) /\ i - Len(taken) < j - Len(taken)
        BY <2>5, <3>3
      <4>2. t[i - Len(taken)] < t[j - Len(taken)]
        BY <2>1, <4>1 DEF Ascending
      <4> QED BY <2>4, <3>3, <4>2
    <3> QED BY <3>1, <3>2, <3>3
  <2>7. ASSUME scanner' = "sending"
        PROVE  taken \o t # <<>> /\ (taken \o t)[Len(taken \o t)] = nextResp'[Len(nextResp')]
    <3>1. Len(nextResp') > 1 /\ t = Tail(nextResp') /\ Len(nextResp') \in Nat
      BY <2>1, <2>3, <2>7
    <3>2. Len(t) = Len(nextResp') - 1 /\ \A i \in 1..Len(t) : t[i] = nextResp'[i + 1]
      BY <2>3, <3>1, TailFacts
    <3>3. t[Len(t)] = nextResp'[Len(nextResp')]
      <4>1. Len(t) \in 1..Len(t) /\ Len(t) + 1 = Len(nextResp')
        BY <3>1, <3>2
      <4> QED BY <3>2, <4>1
    <3>4. /\ Len(taken) + Len(t) \in 1..(Len(taken) + Len(t)) /\ ~(Len(taken) + Len(t) <= Len(taken))
          /\ (Len(taken) + Len(t)) - Len(taken) = Len(t)
      BY <2>5, <3>1, <3>2
    <3>5. (taken \o t)[Len(taken) + Len(t)] = t[Len(t)]
      BY <2>4, <3>4
    <3>6. taken \o t # <<>>
      BY <2>4, <2>5, EmptySeq
    <3> QED BY <2>4, <3>3, <3>5, <3>6
  <2> QED BY <2>1, <2>3, <2>4, <2>6, <2>7 DEF CursorInv
<1>4. CASE SendPage \/ Receive
  <2>1. taken' = taken /\ nextResp' = nextResp
    BY <1>4, TakenMoves DEF SendPage, Receive
  <2>2. scanner # "start" /\ scanner' # "start" /\ (scanner' \in {"paging", "sending"} => scanner \in {"paging", "sending"})
    BY <1>4 DEF SendPage, Receive
  <2> QED BY <2>1, <2>2, Zenon DEF CursorInv, Ascending
<1>5. CASE EndAtShortPage \/ RequestFails \/ LoopEnds \/ Clients \/ UNCHANGED vars
  <2>1. /\ received' = received /\ c' = c /\ nextResp' = nextResp /\ inFlight' = inFlight
        /\ scanner' = scanner \/ scanner' \in {"closed", "exited"}
    BY <1>5 DEF EndAtShortPage, RequestFails, LoopEnds, Clients, Put, Delete, vars, inFlight, WithoutLeadingKey
  <2>2. taken' = taken
    BY <2>1 DEF taken
  <2> QED BY <2>1, <2>2 DEF CursorInv, Ascending
<1> QED
  BY <1>1, <1>2, <1>3, <1>4, <1>5 DEF Next, ScanStep, LoopStep, Stutter

----------------------------------------------------------------------------
(* CursorScan, with the scan's options and with what it has taken.          *)
Visible == Cursor!Visible

(* The keys CursorScan sees ahead; nothing is hidden before the first key.  *)
LEMMA VisibleFacts ==
  ASSUME Sound, CursorInv
  PROVE  /\ IsFiniteSet(Visible) /\ Visible \in SUBSET InRange(store) /\ Visible \in SUBSET Nat
         /\ taken = <<>> => Visible = InRange(store)
         /\ taken # <<>> =>
              \A k : k \in Visible <=>
                /\ k \in InRange(store) /\ taken[Len(taken)] < k
                /\ taken[Len(taken)] \notin store =>
                     \E j \in InRange(store) : taken[Len(taken)] < j /\ j < k
<1>1. /\ TypeOK /\ taken \in Seq(Key) /\ Ascending(taken) /\ Len(taken) \in Nat
      /\ cfg.from \in Nat /\ cfg.to \in Nat /\ store \subseteq Nat
  BY ConfigFacts, KeyAssumption DEF Sound, TypeOK, CursorInv
<1> DEFINE A == Cursor!Ahead
<1>2. A = {k \in store : cfg.from <= k /\ k <= cfg.to /\ \A t \in {taken[i] : i \in 1..Len(taken)} : t < k}
  BY DEF Cursor!Ahead, Cursor!Taken, taken
<1>3. Visible = IF taken # <<>> /\ taken[Len(taken)] \notin store
                  THEN {k \in A : \E j \in A : j < k} ELSE A
  BY DEF Visible, Cursor!Visible, Cursor!CursorGone, taken
<1> HIDE DEF A
<1>4. \A k : k \in A <=> k \in InRange(store) /\ \A i \in 1..Len(taken) : taken[i] < k
  BY <1>2 DEF InRange
<1>5. Visible \in SUBSET InRange(store) /\ Visible \in SUBSET Nat
  <2>1. Visible \in SUBSET A
    BY <1>3
  <2>2. A \in SUBSET InRange(store)
    BY <1>4
  <2> QED BY <1>1, <2>1, <2>2 DEF InRange
<1>6. IsFiniteSet(Visible)
  <2>1. Visible \in SUBSET (cfg.from..cfg.to)
    BY <1>1, <1>5 DEF InRange
  <2>2. \A a, b \in Nat : IsFiniteSet(a..b)
    BY FS_Interval
  <2>3. IsFiniteSet(cfg.from..cfg.to)
    BY <1>1, <2>2, Zenon
  <2> QED BY <2>1, <2>3, FS_Subset
<1>7. ASSUME taken = <<>> PROVE Visible = InRange(store)
  <2>1. \A k : k \in A <=> k \in InRange(store)
    BY <1>4, <1>7
  <2>2. A = InRange(store)
    BY <2>1
  <2> QED BY <1>3, <1>7, <2>2
<1>8. ASSUME taken # <<>>
      PROVE  \A k : k \in Visible <=>
               /\ k \in InRange(store) /\ taken[Len(taken)] < k
               /\ taken[Len(taken)] \notin store =>
                    \E j \in InRange(store) : taken[Len(taken)] < j /\ j < k
  <2>1. Len(taken) >= 1 /\ Len(taken) \in 1..Len(taken)
    BY <1>1, <1>8
  <2>2. \A i \in 1..Len(taken) : taken[i] <= taken[Len(taken)] /\ taken[i] \in Nat
    BY <1>1, <2>1, AscendingFacts
  <2>3. \A k : k \in A <=> k \in InRange(store) /\ taken[Len(taken)] < k
    <3> TAKE k
    <3>1. ASSUME k \in InRange(store), taken[Len(taken)] < k, NEW i \in 1..Len(taken) PROVE taken[i] < k
      <4>1. k \in Nat /\ taken[i] \in Nat /\ taken[Len(taken)] \in Nat /\ taken[i] <= taken[Len(taken)]
        BY <1>1, <2>1, <2>2, <3>1 DEF InRange
      <4> QED BY <3>1, <4>1
    <3> QED BY <1>4, <2>1, <3>1
  <2>4. CASE taken[Len(taken)] \in store
    BY <1>3, <2>3, <2>4
  <2>5. CASE taken[Len(taken)] \notin store
    <3>1. Visible = {k \in A : \E j \in A : j < k}
      BY <1>3, <1>8, <2>5
    <3> QED BY <2>3, <2>5, <3>1
  <2> QED BY <2>4, <2>5
<1> QED BY <1>5, <1>6, <1>7, <1>8

(* When CursorScan has ended.                                               *)
Ended == scanner = "closed" \/ (scanner \in {"paging", "sending"} /\ IsLastPage(nextResp))

(* The two specifications count alike.                                      *)
LEMMA SameCardinality == \A S : Cursor!Cardinality(S) = Cardinality(S)
  BY DEF Cursor!Cardinality, Cardinality

(* A step that takes the next visible keys, and that ends the scan only if  *)
(* they are all of them or reach the quota, is a step of CursorScan.        *)
LEMMA TakeFrom ==
  ASSUME Sound, CursorInv, ~Ended, NEW s \in Seq(Visible), Ascending(s), taken' = taken \o s,
         UNCHANGED <<store, cfg>>,
         \A k \in Visible : (\A i \in 1..Len(s) : s[i] # k) => \A i \in 1..Len(s) : s[i] < k,
         Ended' => \/ \A k \in Visible : \E i \in 1..Len(s) : s[i] = k
                   \/ cfg.limit > 0 /\ Len(taken') = cfg.limit
  PROVE  Cursor!Take
<1>1. IsFiniteSet(Visible) /\ Visible \in SUBSET Nat
  BY VisibleFacts
<1>2. \A i, j \in 1..Len(s) : s[i] = s[j] => i = j
  <2> TAKE i, j \in 1..Len(s)
  <2>1. s[i] \in Nat /\ s[j] \in Nat
    BY <1>1, ElementOfSeq
  <2>2. i < j \/ j < i \/ i = j
    OBVIOUS
  <2> QED BY <2>1, <2>2 DEF Ascending
<1>3. /\ Len(s) \in 0..Cardinality(Visible)
      /\ (\A k \in Visible : \E i \in 1..Len(s) : s[i] = k) => Len(s) = Cardinality(Visible)
  BY <1>1, <1>2, DistinctFacts
<1>4. s \in UNION {[1..n -> Visible] : n \in 0..Cardinality(Visible)}
  <2>1. s \in [1..Len(s) -> Visible]
    OBVIOUS
  <2> QED BY <1>3, <2>1
<1>5. Cursor!NextKeys(s)
  BY DEF Cursor!NextKeys, Visible, Ascending
<1>6. Ended' => Len(s) = Cardinality(Visible) \/ (cfg.limit > 0 /\ Len(taken') = cfg.limit)
  BY <1>3
<1>7. Ended' \in BOOLEAN
  BY DEF Ended
<1>8. /\ ~Ended /\ taken' = taken \o s /\ UNCHANGED <<store, cfg.from, cfg.to, cfg.limit>>
  OBVIOUS
<1>9. Cursor!Cardinality(Visible) = Cardinality(Visible)
  BY SameCardinality, Zenon
<1> QED BY <1>4, <1>5, <1>6, <1>7, <1>8, <1>9, Zenon DEF Cursor!Take, Visible, Ended, taken
(* The first request takes the first keys of the range, and ends the scan   *)
(* if it was capped by the limit, or if the reply is short of a page.       *)
LEMMA FirstRequestTakes ==
  ASSUME Sound, CursorInv, LimitedScan \/ FirstPage
  PROVE  Cursor!Take
<1>0. /\ cfg.from \in Nat /\ cfg.pageSize \in Nat \ {0} /\ cfg.limit \in Nat /\ TypeOK
      /\ InRange(store) \subseteq Nat
  BY ConfigFacts, KeyAssumption DEF Sound, TypeOK, InRange
<1>1. PICK n \in Nat :
        /\ nextResp' \in EtcdGet(cfg.from, n)
        /\ \/ n = cfg.limit /\ n > 0 /\ scanner' = "closed"
           \/ n = cfg.pageSize /\ scanner' = "paging"
  BY <1>0 DEF LimitedScan, FirstPage
<1>2. /\ scanner = "start" /\ c' = Append(c, nextResp') /\ UNCHANGED <<store, cfg, received>>
  BY DEF LimitedScan, FirstPage
<1>3. /\ nextResp' \in Seq(Key) /\ Len(nextResp') \in Nat /\ Len(nextResp') <= n /\ Ascending(nextResp')
      /\ \A i \in 1..Len(nextResp') : nextResp'[i] \in InRange(store)
      /\ \A k \in InRange(store) :
           \/ \E i \in 1..Len(nextResp') : nextResp'[i] = k
           \/ Len(nextResp') = n /\ \A i \in 1..Len(nextResp') : nextResp'[i] < k
  <2>1. \A k \in InRange(store) : cfg.from <= k
    BY DEF InRange
  <2> QED BY <1>0, <1>1, <2>1, GetFacts
<1>4. taken = <<>> /\ taken' = nextResp'
  BY <1>1, <1>2, <1>3, TakenFirst
<1>5. Visible = InRange(store)
  BY <1>4, VisibleFacts
<1>6. nextResp' \in Seq(Visible)
  BY <1>3, <1>5
<1>7. ~Ended
  BY <1>2 DEF Ended
<1>8. <<>> \o nextResp' = nextResp'
  BY <1>3
<1>9. ASSUME Ended'
      PROVE  \/ \A k \in Visible : \E i \in 1..Len(nextResp') : nextResp'[i] = k
             \/ cfg.limit > 0 /\ Len(taken') = cfg.limit
  <2>1. CASE scanner' = "closed" /\ n = cfg.limit /\ n > 0
    BY <1>3, <1>4, <1>5, <2>1
  <2>2. CASE scanner' = "paging" /\ n = cfg.pageSize
    <3>1. Len(nextResp') < n
      BY <1>2, <1>9, <2>2 DEF Ended, IsLastPage
    <3> QED BY <1>3, <1>5, <3>1
  <2> QED BY <1>1, <1>9, <2>1, <2>2 DEF Ended
<1>10. \A k \in Visible : (\A i \in 1..Len(nextResp') : nextResp'[i] # k)
                            => \A i \in 1..Len(nextResp') : nextResp'[i] < k
  BY <1>3, <1>5
<1> QED BY <1>2, <1>3, <1>4, <1>6, <1>7, <1>8, <1>9, <1>10, TakeFrom

(* A continuation request takes the next visible keys: the key it drops is  *)
(* the last one taken, or else the one CursorScan cannot see.               *)
LEMMA NextRequestTakes ==
  ASSUME Sound, CursorInv, NextPage, cfg.pageSize > 1
  PROVE  Cursor!Take
<1>1. /\ cfg.pageSize \in Nat \ {0} /\ lastKey \in Nat
      /\ nextResp' \in Seq(Key) /\ Len(nextResp') \in Nat /\ Ascending(nextResp')
      /\ Len(nextResp') <= cfg.pageSize
      /\ \A i \in 1..Len(nextResp') : nextResp'[i] \in InRange(store) /\ lastKey <= nextResp'[i]
      /\ \A j \in InRange(store) : lastKey <= j =>
           \/ \E i \in 1..Len(nextResp') : nextResp'[i] = j
           \/ Len(nextResp') = cfg.pageSize /\ \A i \in 1..Len(nextResp') : nextResp'[i] < j
      /\ lastKey \in store => nextResp' # <<>> /\ nextResp'[1] = lastKey
  BY NextPageFacts DEF Sound
<1> DEFINE t == inFlight'
<1>2. /\ taken # <<>> /\ taken[Len(taken)] = lastKey
      /\ taken' = taken \o t
      /\ t = IF Len(nextResp') <= 1 THEN <<>> ELSE Tail(nextResp')
      /\ t \in Seq(Key) /\ Ascending(t)
      /\ \A i \in 1..Len(t) : lastKey < t[i] /\ nextResp'[1] < t[i]
      /\ \A i \in 1..Len(t) : i + 1 \in 1..Len(nextResp') /\ t[i] = nextResp'[i + 1]
  BY TakenNext
<1>3. /\ scanner = "paging" /\ ~IsLastPage(nextResp) /\ UNCHANGED <<store, cfg>>
      /\ scanner' = IF Len(nextResp') <= 1 THEN "closed" ELSE "sending"
  BY DEF NextPage, HasNothingNew
<1> HIDE DEF t
<1>4. \A k : k \in Visible <=>
               /\ k \in InRange(store) /\ lastKey < k
               /\ lastKey \notin store => \E j \in InRange(store) : lastKey < j /\ j < k
  BY <1>2, VisibleFacts
<1>5. Visible \subseteq Nat
  BY VisibleFacts
<1>6. \A i \in 1..Len(nextResp') : nextResp'[i] \in Nat
  BY <1>1, KeyAssumption, ElementOfSeq
<1>7. t \in Seq(Visible)
  <2>1. ASSUME NEW i \in 1..Len(t) PROVE t[i] \in Visible
    <3>1. t[i] \in InRange(store) /\ lastKey < t[i] /\ nextResp'[1] < t[i] /\ 1 \in 1..Len(nextResp')
      <4>1. i + 1 \in 1..Len(nextResp') /\ t[i] = nextResp'[i + 1]
            /\ lastKey < t[i] /\ nextResp'[1] < t[i]
        BY <1>2, Zenon
      <4>2. nextResp'[i + 1] \in InRange(store)
        BY <1>1, <4>1, Zenon
      <4>3. 1 \in 1..Len(nextResp')
        BY <1>1, <4>1
      <4> QED BY <4>1, <4>2, <4>3, Zenon
    <3>2. ASSUME lastKey \notin store
          PROVE  nextResp'[1] \in InRange(store) /\ lastKey < nextResp'[1]
      <4>1. nextResp'[1] \in InRange(store) /\ lastKey <= nextResp'[1] /\ nextResp'[1] \in Nat
        BY <1>1, <1>6, <3>1
      <4>2. nextResp'[1] # lastKey
        BY <3>2, <4>1 DEF InRange
      <4> QED BY <1>1, <4>1, <4>2
    <3> QED BY <1>4, <3>1, <3>2
  <2>2. t \in Seq(Key)
    BY <1>2
  <2>3. t \in [1..Len(t) -> Key] /\ Len(t) \in Nat
    BY <2>2
  <2>4. t \in [1..Len(t) -> Visible]
    BY <2>1, <2>3
  <2> QED BY <2>3, <2>4
(* A visible key is in the reply behind its first key, or ahead of it.      *)
<1>8. ASSUME NEW k \in Visible
      PROVE  \/ \E i \in 1..Len(t) : t[i] = k
             \/ Len(nextResp') = cfg.pageSize /\ \A i \in 1..Len(t) : t[i] < k
  <2>1. k \in InRange(store) /\ lastKey < k /\ k \in Nat /\ lastKey <= k
    BY <1>1, <1>4, <1>5
  <2>2. CASE \E i \in 1..Len(nextResp') : nextResp'[i] = k
    <3>1. PICK i \in 1..Len(nextResp') : nextResp'[i] = k
      BY <2>2
    <3>2. i # 1
      <4>1. CASE lastKey \in store
        BY <1>1, <2>1, <3>1, <4>1
      <4>2. CASE lastKey \notin store
        <5>1. PICK j \in InRange(store) : lastKey < j /\ j < k
          BY <1>4, <4>2
        <5>2. j \in Nat /\ lastKey <= j
          BY <1>1, <5>1, KeyAssumption DEF InRange, Sound, TypeOK
        <5>3. CASE \E m \in 1..Len(nextResp') : nextResp'[m] = j
          <6>1. PICK m \in 1..Len(nextResp') : nextResp'[m] = j
            BY <5>3
          <6>2. m = 1 \/ nextResp'[1] < nextResp'[m]
            BY <1>1, <6>1 DEF Ascending
          <6>3. i = 1 => FALSE
            BY <2>1, <3>1, <5>1, <5>2, <6>1, <6>2
          <6> QED BY <6>3
        <5>4. CASE \A m \in 1..Len(nextResp') : nextResp'[m] < j
          <6>1. k < j
            BY <3>1, <5>4
          <6> QED BY <2>1, <5>1, <5>2, <6>1
        <5> QED BY <1>1, <5>1, <5>2, <5>3, <5>4
      <4> QED BY <4>1, <4>2
    <3>3. Len(nextResp') > 1 /\ i - 1 \in 1..(Len(nextResp') - 1) /\ (i - 1) + 1 = i
      BY <1>1, <3>1, <3>2
    <3>4. Len(t) = Len(nextResp') - 1
      BY <1>1, <1>2, <3>3, TailFacts
    <3>5. t[i - 1] = k
      BY <1>2, <3>1, <3>3, <3>4
    <3> QED BY <3>3, <3>4, <3>5
  <2>3. CASE Len(nextResp') = cfg.pageSize /\ \A i \in 1..Len(nextResp') : nextResp'[i] < k
    BY <1>2, <2>3
  <2> QED BY <1>1, <2>1, <2>2, <2>3
<1>9. \A k \in Visible : (\A i \in 1..Len(t) : t[i] # k) => \A i \in 1..Len(t) : t[i] < k
  BY <1>8
<1>10. ASSUME Ended'
       PROVE  \A k \in Visible : \E i \in 1..Len(t) : t[i] = k
  <2>1. Len(nextResp') < cfg.pageSize
    <3>1. CASE Len(nextResp') <= 1
      BY <1>1, <3>1
    <3>2. CASE ~(Len(nextResp') <= 1)
      BY <1>3, <1>10, <3>2 DEF Ended, IsLastPage
    <3> QED BY <3>1, <3>2
  <2> QED BY <1>1, <1>8, <2>1
<1>11. ~Ended
  BY <1>3 DEF Ended
<1> QED BY <1>2, <1>3, <1>7, <1>9, <1>10, <1>11, TakeFrom

(* The options a scan of the whole range may have: not a page size of one,  *)
(* with which each further reply is the repeated key alone.                 *)
Paginates == cfg.limit > 0 \/ cfg.pageSize > 1

(* Every step of the scan is a step of CursorScan, or leaves it as it is.   *)
LEMMA CursorStep ==
  Sound /\ CursorInv /\ Paginates /\ [Next]_vars => [Cursor!Next]_(Cursor!cursorVars)
<1> SUFFICES ASSUME Sound, CursorInv, Paginates, [Next]_vars
             PROVE  [Cursor!Next]_(Cursor!cursorVars)
  OBVIOUS
<1>1. CASE LimitedScan \/ FirstPage
  BY <1>1, FirstRequestTakes DEF Cursor!Next
<1>2. CASE NextPage
  <2>1. cfg.limit = 0
    BY <1>2, NextPageFacts DEF Sound
  <2> QED BY <1>2, <2>1, NextRequestTakes DEF Cursor!Next, Paginates
<1>3. CASE SendPage \/ Receive
  <2>1. taken' = taken /\ store' = store /\ cfg' = cfg
    BY <1>3, TakenMoves DEF SendPage, Receive
  <2>2. Ended' = Ended
    BY <1>3 DEF SendPage, Receive, Ended, IsLastPage
  <2> QED BY <2>1, <2>2 DEF Cursor!cursorVars, taken, Ended
<1>4. CASE EndAtShortPage \/ RequestFails \/ LoopEnds \/ UNCHANGED vars
  <2>1. received' = received /\ c' = c /\ inFlight' = inFlight /\ store' = store /\ cfg' = cfg
    BY <1>4 DEF EndAtShortPage, RequestFails, LoopEnds, vars, inFlight, WithoutLeadingKey
  <2>2. taken' = taken
    BY <2>1 DEF taken
  <2>3. Ended' = Ended
    BY <1>4 DEF EndAtShortPage, RequestFails, LoopEnds, vars, Ended, IsLastPage
  <2> QED BY <2>1, <2>2, <2>3 DEF Cursor!cursorVars, taken, Ended
<1>5. CASE Clients
  <2>1. /\ received' = received /\ c' = c /\ inFlight' = inFlight /\ cfg' = cfg
        /\ \E k \in Key : store' = store \union {k} \/ store' = store \ {k}
    BY <1>5 DEF Clients, Put, Delete, inFlight, WithoutLeadingKey
  <2>2. taken' = taken
    BY <2>1 DEF taken
  <2>3. Ended' = Ended
    BY <1>5 DEF Clients, Put, Delete, Ended, IsLastPage
  <2> QED BY <2>1, <2>2, <2>3 DEF Cursor!Next, Cursor!Insert, Cursor!Remove, taken, Ended
<1> QED
  BY <1>1, <1>2, <1>3, <1>4, <1>5 DEF Next, ScanStep, LoopStep, Stutter

(* Seen from outside, ScanData is a cursor that walks the store while it    *)
(* changes: a put or a delete elsewhere never disturbs it, and a delete of  *)
(* the last key taken costs the key after it and no other.                  *)
THEOREM ScanImplementsCursor == Spec /\ Paginates => IsCursorScan
<1> DEFINE Inv == Sound /\ CursorInv /\ Paginates
<1>1. Init /\ Paginates => Inv
  <2>1. Init => Sound
    BY TypeInit, OrderInit DEF Sound
  <2>2. Init => CursorInv
    <3> SUFFICES ASSUME Init PROVE CursorInv
      OBVIOUS
    <3>1. taken = <<>>
      BY DEF Init, taken, inFlight, FlattenSeq
    <3> QED BY <3>1 DEF Init, CursorInv, Ascending
  <2> QED BY <2>1, <2>2
<1>2. Inv /\ [Next]_vars => Inv'
  <2> SUFFICES ASSUME Inv, [Next]_vars PROVE Inv'
    OBVIOUS
  <2>1. cfg' = cfg
    BY DEF Next, ScanStep, LoopStep, Clients, Stutter, LimitedScan, FirstPage,
      EndAtShortPage, NextPage, SendPage, RequestFails, Receive, LoopEnds, Put, Delete, vars
  <2> QED BY <2>1, TypeStep, OrderStep, CursorInvStep DEF Sound, Paginates
<1>3. Init => Cursor!Init
  <2> SUFFICES ASSUME Init PROVE Cursor!Init
    OBVIOUS
  <2>1. cfg.from \in Nat /\ cfg.to \in Nat /\ cfg.limit \in Nat
    BY ConfigFacts DEF Init
  <2>2. received \o FlattenSeq(c) \o inFlight = <<>>
    BY DEF Init, inFlight, FlattenSeq
  <2> QED BY <2>1, <2>2 DEF Init, Cursor!Init
<1>4. Inv /\ [Next]_vars => [Cursor!Next]_(Cursor!cursorVars)
  BY CursorStep
<1> QED BY <1>1, <1>2, <1>3, <1>4, PTL DEF Spec, IsCursorScan, Cursor!Spec
===============================================================================
