------------------------------ MODULE ScanData ------------------------------
(***************************************************************************)
(* core.ScanData (src/core/data_source.go): the paginated, unpinned read   *)
(* of the etcd key space that feeds `look`, `find`, `distribute` and       *)
(* `summary`.                                                              *)
(*                                                                         *)
(* Three actors run concurrently: the scanning goroutine, which requests   *)
(* pages and puts them on the bounded channel c; the command's own loop,   *)
(* which ranges over c; and the other clients of the cluster, which put    *)
(* and delete keys between two page requests (no revision is pinned, so    *)
(* each page is read from the store as it is at that moment).              *)
(*                                                                         *)
(* A key is a number: only the byte order of keys matters here, and a page *)
(* is the sequence of its keys.  A prefix is an interval of keys.          *)
(***************************************************************************)
EXTENDS Integers, Sequences, FiniteSets, SequencesExt

CONSTANTS
  Key,           \* the keys, numbered in etcd's byte order
  PageSizeArgs,  \* values a command passes to WithPageSize (any integer)
  LimitArgs,     \* values a command passes to WithLimit (any integer)
  PrefixArgs,    \* ranges <<first, last>> a command passes to WithPrefix
  readCount,     \* the default page size
  ChanCap,       \* capacity of the channel c
  MaxPuts,       \* bound: keys other clients create during the scan
  MaxDeletes     \* bound: keys other clients delete during the scan

ASSUME KeyAssumption == Key \subseteq Nat
ASSUME ArgsAssumption ==
  /\ PageSizeArgs \subseteq Int
  /\ LimitArgs \subseteq Int
  /\ PrefixArgs \subseteq Nat \X Nat
  /\ readCount \in Nat \ {0}
  /\ ChanCap \in Nat \ {0}
  /\ MaxPuts \in Nat
  /\ MaxDeletes \in Nat

VARIABLES
  store,     \* the keys present in the member that answers the requests
  cfg,       \* the scanConfig built from the options
  scanner,   \* where ScanData and its goroutine are
  nextResp,  \* the keys of the last response
  c,         \* the channel: a queue of batches
  consumer,  \* where the command's `for data := range c` loop is
  received,  \* every key the loop was given, in order
  stable,    \* history: keys present without interruption since the first request
  lost,      \* history: continuation requests whose reply lacked the last key
  puts, deletes

clientVars == <<puts, deletes>>
vars == <<store, cfg, scanner, nextResp, c, consumer, received, stable, lost,
          puts, deletes>>

----------------------------------------------------------------------------
(* The options.  WithPageSize and WithLimit ignore values that are not      *)
(* positive, which leaves readCount and 0 ("paginate") in place.            *)

WithPageSize(n) == IF n > 0 THEN n ELSE readCount
WithLimit(n) == IF n > 0 THEN n ELSE 0

Configs ==
  { [from |-> r[1], to |-> r[2], pageSize |-> WithPageSize(n), limit |-> WithLimit(l)] :
      r \in PrefixArgs, n \in PageSizeArgs, l \in LimitArgs }

InRange(S) == {k \in S : cfg.from <= k /\ k <= cfg.to}

(* What a Range request of etcd returns for the keys S when it is capped at *)
(* n keys: the first n of them, in ascending order.                         *)

Ascending(s) == \A i, j \in 1..Len(s) : i < j => s[i] < s[j]

IsReply(s, S, n) ==
  /\ Ascending(s)
  /\ \A k \in S \ ToSet(s) : Len(s) = n /\ \A i \in 1..Len(s) : s[i] < k

Replies(S, n) ==
  LET lengths == {m \in 0..Cardinality(S) : m <= n}
  IN  {s \in UNION {[1..m -> S] : m \in lengths} : IsReply(s, S, n)}

EtcdGet(from, n) == Replies({k \in InRange(store) : from <= k}, n)

----------------------------------------------------------------------------
(* Faulty variants of the definitions below them, as a slip in the code     *)
(* would leave them; no behaviour of Spec uses them.                        *)

BugHasNothingNew(page) == Len(page) <= 0
BugWithoutLeadingKey(page) == page
BugIsLastPage(page) == Len(page) <= cfg.pageSize
BugHasRoom == TRUE
----------------------------------------------------------------------------
Init ==
  /\ store \in SUBSET Key
  /\ cfg \in Configs
  /\ scanner = "start"
  /\ nextResp = <<>>
  /\ c = <<>>
  /\ consumer = "ranging"
  /\ received = <<>>
  /\ stable = {}
  /\ lost = 0
  /\ puts = 0
  /\ deletes = 0

Running == scanner # "exited"

(* A single capped request: one batch, then the channel is closed. *)
LimitedScan ==
  /\ scanner = "start"
  /\ cfg.limit > 0
  /\ nextResp' \in EtcdGet(cfg.from, cfg.limit)
  /\ c' = Append(c, nextResp')
  /\ scanner' = "closed"
  /\ stable' = store
  /\ UNCHANGED <<store, cfg, consumer, received, lost, clientVars>>

(* The first page is requested and sent by the caller of ScanData itself,  *)
(* before the goroutine exists; the channel is empty, so it cannot block.  *)
FirstPage ==
  /\ scanner = "start"
  /\ cfg.limit = 0
  /\ nextResp' \in EtcdGet(cfg.from, cfg.pageSize)
  /\ c' = Append(c, nextResp')
  /\ scanner' = "paging"
  /\ stable' = store
  /\ UNCHANGED <<store, cfg, consumer, received, lost, clientVars>>

IsLastPage(page) == Len(page) < cfg.pageSize

(* Faulty variant: the scan returns without closing the channel. *)
BugEndAtShortPage == scanner = "paging" /\ IsLastPage(nextResp) /\ UNCHANGED vars

(* A page shorter than the page size ends the scan: close(c). *)
EndAtShortPage ==
  /\ scanner = "paging"
  /\ IsLastPage(nextResp)
  /\ scanner' = "closed"
  /\ UNCHANGED <<store, cfg, nextResp, c, consumer, received, stable, lost, clientVars>>

lastKey == nextResp[Len(nextResp)]
HasNothingNew(page) == Len(page) <= 1
WithoutLeadingKey(page) == Tail(page)

(* Otherwise the goroutine asks again from the last key it has seen.  A     *)
(* reply of at most one key ends the scan; otherwise all but the leading    *)
(* key are about to be sent.                                                *)
NextPage ==
  /\ scanner = "paging"
  /\ ~IsLastPage(nextResp)
  /\ nextResp' \in EtcdGet(lastKey, cfg.pageSize)
  /\ scanner' = IF HasNothingNew(nextResp') THEN "closed" ELSE "sending"
  /\ lost' = IF lastKey \in store THEN lost ELSE lost + 1
  /\ UNCHANGED <<store, cfg, c, consumer, received, stable, clientVars>>

(* A send on the bounded channel blocks while it is full. *)
HasRoom == Len(c) < ChanCap

SendPage ==
  /\ scanner = "sending"
  /\ HasRoom
  /\ c' = Append(c, WithoutLeadingKey(nextResp))
  /\ scanner' = "paging"
  /\ UNCHANGED <<store, cfg, nextResp, consumer, received, stable, lost, clientVars>>

(* EtcdGetOrFail: a request that fails ends the whole process (core.Exit). *)
RequestFails ==
  /\ scanner = "start" \/ (scanner = "paging" /\ ~IsLastPage(nextResp))
  /\ scanner' = "exited"
  /\ UNCHANGED <<store, cfg, nextResp, c, consumer, received, stable, lost, clientVars>>

(* The caller's loop runs once ScanData has returned the channel. *)
Receive ==
  /\ consumer = "ranging"
  /\ Running /\ scanner # "start"
  /\ c # <<>>
  /\ received' = received \o Head(c)
  /\ c' = Tail(c)
  /\ UNCHANGED <<store, cfg, scanner, nextResp, consumer, stable, lost, clientVars>>

LoopEnds ==
  /\ consumer = "ranging"
  /\ scanner = "closed"
  /\ c = <<>>
  /\ consumer' = "done"
  /\ UNCHANGED <<store, cfg, scanner, nextResp, c, received, stable, lost, clientVars>>

(* The cluster's other clients. *)
Put(k) ==
  /\ puts < MaxPuts
  /\ k \notin store
  /\ store' = store \union {k}
  /\ puts' = puts + 1
  /\ UNCHANGED <<cfg, scanner, nextResp, c, consumer, received, stable, lost, deletes>>

Delete(k) ==
  /\ deletes < MaxDeletes
  /\ k \in store
  /\ store' = store \ {k}
  /\ stable' = stable \ {k}
  /\ deletes' = deletes + 1
  /\ UNCHANGED <<cfg, scanner, nextResp, c, consumer, received, lost, puts>>

ScanStep == LimitedScan \/ FirstPage \/ EndAtShortPage \/ NextPage \/ SendPage
LoopStep == Receive \/ LoopEnds
Clients == \E k \in Key : Put(k) \/ Delete(k)

Finished == scanner = "exited" \/ consumer = "done"
Stutter == Finished /\ UNCHANGED vars

Next == ScanStep \/ RequestFails \/ LoopStep \/ Clients \/ Stutter

(* The Go scheduler runs every runnable goroutine; etcd answers or fails.   *)
Spec == Init /\ [][Next]_vars
FairSpec == Spec /\ WF_vars(ScanStep) /\ WF_vars(LoopStep)
----------------------------------------------------------------------------
(* Properties.                                                              *)

TypeOK ==
  /\ store \in SUBSET Key
  /\ cfg \in Configs
  /\ scanner \in {"start", "paging", "sending", "closed", "exited"}
  /\ nextResp \in Seq(Key)
  /\ c \in Seq(Seq(Key)) /\ Len(c) <= ChanCap
  /\ consumer \in {"ranging", "done"}
  /\ received \in Seq(Key)
  /\ stable \in SUBSET store
  /\ lost \in Nat
  /\ puts \in 0..MaxPuts
  /\ deletes \in 0..MaxDeletes

(* The loop is given each key at most once and in ascending order, whatever *)
(* is put or deleted between the overlapping pages.                         *)
DeliveredAscending == Ascending(received)

Missed == InRange(stable) \ ToSet(received)

(* With --page-size=1 each further reply is the repeated key alone, and the *)
(* scan of any store ends after its first key.                              *)
Unlimited == cfg.limit = 0 /\ cfg.pageSize > 1

(* When the loop ends, the keys that were present throughout the scan and   *)
(* were never delivered are no more than the continuation requests whose    *)
(* starting key had been deleted: a page boundary costs at most one key.    *)
MissesBounded ==
  consumer = "done" /\ Unlimited => Cardinality(Missed) <= lost

(* In particular a scan that always found its last key again is complete.   *)
CompleteUnlessCursorLost ==
  consumer = "done" /\ Unlimited /\ lost = 0 => Missed = {}

(* Each further page that is sent ends at a larger key than the page before *)
(* it, however the store changed in between: the scan cannot go round.      *)
CursorAdvances ==
  [][scanner = "paging" /\ scanner' = "sending"
       => Last(nextResp') > Last(nextResp)]_vars

(* The scan comes to an end: the loop finishes, or a failed request ends    *)
(* the process, even if the loop is slow and the channel fills.             *)
ScanTerminates == <>Finished

(* The inductive invariant behind the properties above.                     *)

Shape ==
  /\ scanner = "start" => c = <<>> /\ received = <<>> /\ stable = {}
  /\ scanner = "sending" => Len(nextResp) > 1
  /\ Len(nextResp) <= cfg.pageSize \/ cfg.limit > 0
  /\ cfg.limit > 0 => scanner \in {"start", "closed", "exited"}
  /\ consumer = "done" => scanner = "closed" /\ c = <<>>

(* Everything handed over lies below the rest of the queue, and below the   *)
(* part of the last response that is not sent yet.                          *)
Order ==
  /\ Ascending(received) /\ Ascending(nextResp)
  /\ \A b \in 1..Len(c) : Ascending(c[b])
  /\ \A i \in 1..Len(received), b \in 1..Len(c) : \A j \in 1..Len(c[b]) :
       received[i] < c[b][j]
  /\ \A a, b \in 1..Len(c) : a < b =>
       \A i \in 1..Len(c[a]), j \in 1..Len(c[b]) : c[a][i] < c[b][j]
  /\ \A i \in 1..Len(nextResp) : nextResp[i] \in InRange(Key)

Sent(k) ==
  \/ \E i \in 1..Len(received) : received[i] = k
  \/ \E b \in 1..Len(c) : \E i \in 1..Len(c[b]) : c[b][i] = k

Frontier ==
  /\ scanner = "paging" /\ ~IsLastPage(nextResp)
       => \A k \in Key : Sent(k) => k <= nextResp[Len(nextResp)]
  /\ scanner = "sending" => \A k \in Key : Sent(k) => k <= nextResp[1]

(* A stable key is sent, about to be sent, or above a full last response.   *)
Coverage ==
  cfg.limit = 0 /\ cfg.pageSize > 1 /\ lost = 0 /\ scanner # "exited" =>
    \A k \in InRange(stable) :
      \/ Sent(k)
      \/ scanner = "sending" /\ \E i \in 2..Len(nextResp) : nextResp[i] = k
      \/ /\ scanner \in {"paging", "sending"}
         /\ Len(nextResp) = cfg.pageSize
         /\ nextResp[Len(nextResp)] < k

ScanInv == TypeOK /\ Shape /\ Order /\ Frontier /\ Coverage

(* The comment above ScanData (data_source.go:111-114): the leading key     *)
(* dropped from a continuation page is a duplicate, a key already sent.     *)
DroppedKeyIsDuplicate ==
  scanner = "sending" =>
    Head(nextResp) \in ToSet(received \o FlattenSeq(c))

(* Seen from outside the scan is a cursor that takes the next keys of the   *)
(* store at each step: the request from the last key and the dropped first  *)
(* key show only when that last key is gone, and then cost the key after it *)
(* and no other; a put or delete elsewhere never disturbs the walk.         *)
inFlight == IF scanner = "sending" THEN WithoutLeadingKey(nextResp) ELSE <<>>

Cursor == INSTANCE CursorScan WITH
  first <- cfg.from,
  last <- cfg.to,
  quota <- cfg.limit,
  emitted <- received \o FlattenSeq(c) \o inFlight,
  ended <- scanner = "closed" \/ (scanner \in {"paging", "sending"} /\ IsLastPage(nextResp))

IsCursorScan == Cursor!Spec
=============================================================================
