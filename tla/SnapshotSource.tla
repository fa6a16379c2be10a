--------------------------- MODULE SnapshotSource ---------------------------
(***************************************************************************)
(* core.SnapshotSource (src/core/snapshot_source.go): the key space and    *)
(* the revision counts read from the file of an etcd snapshot, and the     *)
(* loop of `look --snapshot` (src/cmd/look_cmd.go) that consumes them.     *)
(*                                                                         *)
(* The file holds the "key" bucket of etcd's MVCC store: one row for each  *)
(* put and each delete, in the order of their revisions, less the rows     *)
(* that compaction has removed so far; the rows of one transaction share a *)
(* revision.  The first actions are etcd's, up to the moment the file was  *)
(* saved; that moment may lie in the middle of a compaction.  Afterwards   *)
(* one goroutine walks the bucket, fills the map stats, and sends the      *)
(* surviving key-values in batches, in the random order of a Go map; the   *)
(* command looks the counts up in the same map.  `dump scan-keys` and      *)
(* `dump iterate-bucket` read the same bucket.                             *)
(***************************************************************************)
EXTENDS Integers, Sequences, FiniteSets, SequencesExt

CONSTANTS
  Key,
  PrefixArgs,   \* for each --prefix a user may give: the keys that start with it
  Rejected,     \* the revisions whose key-value the --filter of look rejects
  batchSize,    \* keys in a batch
  ChanCap,      \* capacity of the channel c
  MaxRevision,  \* bound: revisions written before the snapshot was saved
  MaxTxnRows,   \* bound: rows in the file after a transaction
  MaxDamaged    \* bound: rows that do not decode

ASSUME SnapshotAssumption ==
  /\ PrefixArgs \subseteq SUBSET Key
  /\ Rejected \subseteq Nat
  /\ batchSize \in Nat \ {0} /\ ChanCap \in Nat \ {0}
  /\ MaxRevision \in Nat /\ MaxTxnRows \in Nat /\ MaxDamaged \in Nat

VARIABLES
  bucket,     \* the rows of the file, in cursor order
  keyspace,   \* etcd's own view: the revision of each present key
  revision, compactRev,
  prefix,     \* the keys that match --prefix
  walker,     \* where the goroutine of SnapshotSource is
  pos,        \* the row under the cursor
  stats,      \* the map of per-key statistics
  unsent,     \* the keys the range over stats has not visited yet
  batch,
  c,          \* the channel
  consumer,   \* where the command's loop is
  out         \* the records written by the command

etcdVars == <<bucket, keyspace, revision, compactRev>>
walkVars == <<pos, stats, unsent, batch>>
vars == <<etcdVars, prefix, walker, walkVars, c, consumer, out>>

Empty == [k \in {} |-> 0]
nil == 0  \* no revision

Init ==
  /\ bucket = <<>> /\ keyspace = Empty
  /\ revision = 0 /\ compactRev = 0
  /\ prefix \in PrefixArgs
  /\ walker = "etcd"
  /\ pos = 1 /\ stats = Empty /\ unsent = {} /\ batch = <<>>
  /\ c = <<>>
  /\ consumer = "ranging" /\ out = <<>>

----------------------------------------------------------------------------
(* etcd, until the snapshot is saved.                                       *)

Row(k, tombstone) ==
  [rev |-> revision + 1, key |-> k, Tombstone |-> tombstone, readable |-> TRUE]

EtcdPut(k) ==
  /\ walker = "etcd" /\ revision < MaxRevision
  /\ revision' = revision + 1
  /\ bucket' = Append(bucket, Row(k, FALSE))
  /\ keyspace' = [j \in DOMAIN keyspace \union {k} |->
                    IF j = k THEN revision + 1 ELSE keyspace[j]]
  /\ UNCHANGED <<compactRev, prefix, walker, walkVars, c, consumer, out>>

(* A transaction writes several rows of one revision.                       *)
EtcdTxn(k, l) ==
  /\ walker = "etcd" /\ revision < MaxRevision
  /\ k # l /\ Len(bucket) + 2 <= MaxTxnRows
  /\ revision' = revision + 1
  /\ bucket' = bucket \o <<Row(k, FALSE), Row(l, FALSE)>>
  /\ keyspace' = [j \in DOMAIN keyspace \union {k, l} |->
                    IF j \in {k, l} THEN revision + 1 ELSE keyspace[j]]
  /\ UNCHANGED <<compactRev, prefix, walker, walkVars, c, consumer, out>>

EtcdDelete(k) ==
  /\ walker = "etcd" /\ revision < MaxRevision
  /\ k \in DOMAIN keyspace
  /\ revision' = revision + 1
  /\ bucket' = Append(bucket, Row(k, TRUE))
  /\ keyspace' = [j \in DOMAIN keyspace \ {k} |-> keyspace[j]]
  /\ UNCHANGED <<compactRev, prefix, walker, walkVars, c, consumer, out>>

EtcdCompact ==
  /\ walker = "etcd"
  /\ compactRev' \in (compactRev + 1)..revision
  /\ UNCHANGED <<bucket, keyspace, revision, prefix, walker, walkVars, c, consumer, out>>

(* A compaction keeps, of the rows up to its revision, the last one of each *)
(* key, unless that is a tombstone.  It removes the others in the order of  *)
(* their revisions, a few at a time.                                        *)
Superfluous(i) ==
  /\ bucket[i].rev <= compactRev
  /\ \/ bucket[i].Tombstone
     \/ \E j \in (i + 1)..Len(bucket) :
          bucket[j].key = bucket[i].key /\ bucket[j].rev <= compactRev

EtcdScrub ==
  /\ walker = "etcd"
  /\ \E i \in 1..Len(bucket) :
       /\ Superfluous(i) /\ \A j \in 1..(i - 1) : ~Superfluous(j)
       /\ bucket' = RemoveAt(bucket, i)
  /\ UNCHANGED <<keyspace, revision, compactRev, prefix, walker, walkVars, c, consumer, out>>

----------------------------------------------------------------------------
(* SnapshotSource: the file, perhaps damaged on the way, is opened; it then *)
(* never changes.  A file that is no database ends the command.             *)

Open ==
  /\ walker = "etcd"
  /\ \E bad \in SUBSET (1..Len(bucket)) :
       /\ Cardinality(bad) <= MaxDamaged
       /\ bucket' = [i \in 1..Len(bucket) |-> [bucket[i] EXCEPT !.readable = i \notin bad]]
  /\ walker' = "walk"
  /\ UNCHANGED <<keyspace, revision, compactRev, prefix, walkVars, c, consumer, out>>

OpenFails ==
  /\ walker = "etcd"
  /\ walker' = "failed" /\ consumer' = "exited"
  /\ UNCHANGED <<etcdVars, prefix, walkVars, c, out>>

(* Faulty variants of the definitions below: a tombstone leaves the old     *)
(* value in place, or forgets the counts; a batch that was sent is not      *)
(* replaced; the channel is not closed.                                     *)
BugRecord(s, row) ==
  [KV |-> row.rev, RevCount |-> s.RevCount + 1,
   TombstoneCount |-> s.TombstoneCount + (IF row.Tombstone THEN 1 ELSE 0)]
BugFirstSight(row) ==
  IF row.Tombstone \/ row.key \notin DOMAIN stats
    THEN [KV |-> nil, RevCount |-> 0, TombstoneCount |-> 0] ELSE stats[row.key]
BugAfterSend == batch
BugAfterRange == "collect"

FirstSight(row) ==
  IF row.key \in DOMAIN stats
    THEN stats[row.key] ELSE [KV |-> nil, RevCount |-> 0, TombstoneCount |-> 0]

Record(s, row) ==
  [KV |-> IF row.Tombstone THEN nil ELSE row.rev,
   RevCount |-> s.RevCount + 1,
   TombstoneCount |-> s.TombstoneCount + (IF row.Tombstone THEN 1 ELSE 0)]

Counts(row) == row.readable /\ row.key \in prefix

Walk ==
  /\ walker = "walk" /\ pos <= Len(bucket)
  /\ LET row == bucket[pos] IN
       stats' = IF Counts(row)
                  THEN [k \in DOMAIN stats \union {row.key} |->
                          IF k = row.key THEN Record(FirstSight(row), row) ELSE stats[k]]
                  ELSE stats
  /\ pos' = pos + 1
  /\ UNCHANGED <<etcdVars, prefix, walker, unsent, batch, c, consumer, out>>

EndWalk ==
  /\ walker = "walk" /\ pos > Len(bucket)
  /\ unsent' = DOMAIN stats
  /\ walker' = "collect"
  /\ UNCHANGED <<etcdVars, prefix, pos, stats, batch, c, consumer, out>>

(* One round of `for _, s := range stats`.                                  *)
Collect ==
  /\ walker = "collect"
  /\ \E k \in unsent :
       /\ unsent' = unsent \ {k}
       /\ batch' = IF stats[k].KV = nil
                     THEN batch
                     ELSE Append(batch, [key |-> k, ModRevision |-> stats[k].KV])
  /\ walker' = IF Len(batch') >= batchSize THEN "send" ELSE "collect"
  /\ UNCHANGED <<etcdVars, prefix, pos, stats, c, consumer, out>>

AfterSend == <<>>

Send ==
  /\ walker = "send" /\ Len(c) < ChanCap
  /\ c' = Append(c, batch)
  /\ batch' = AfterSend
  /\ walker' = "collect"
  /\ UNCHANGED <<etcdVars, prefix, pos, stats, unsent, consumer, out>>

(* defer close(c). *)
AfterRange == "closed"

SendRest ==
  /\ walker = "collect" /\ unsent = {}
  /\ IF batch # <<>> THEN Len(c) < ChanCap /\ c' = Append(c, batch) ELSE c' = c
  /\ batch' = <<>>
  /\ walker' = AfterRange
  /\ UNCHANGED <<etcdVars, prefix, pos, stats, unsent, consumer, out>>

----------------------------------------------------------------------------
(* lookOffline: each key-value is written with the counts of its key.       *)

KeyMeta(kv) ==
  [key |-> kv.key, ModRevision |-> kv.ModRevision,
   RevCount |-> stats[kv.key].RevCount,
   TombstoneCount |-> stats[kv.key].TombstoneCount]

filterReject(kv) == kv.ModRevision \in Rejected

(* The records of a batch.                                                  *)
Records(data) ==
  FlattenSeq([i \in 1..Len(data) |->
                IF filterReject(data[i]) THEN <<>> ELSE <<KeyMeta(data[i])>>])

Receive ==
  /\ consumer = "ranging" /\ c # <<>>
  /\ out' = out \o Records(Head(c))
  /\ c' = Tail(c)
  /\ UNCHANGED <<etcdVars, prefix, walker, walkVars, consumer>>

LoopEnds ==
  /\ consumer = "ranging" /\ walker = "closed" /\ c = <<>>
  /\ consumer' = "done"
  /\ UNCHANGED <<etcdVars, prefix, walker, walkVars, c, out>>

----------------------------------------------------------------------------
(* The readers of the same file behind the dump commands.  Both go through  *)
(* the bucket once; a limit counts the rows they return.                    *)

UpTo(limit, rows) == IF limit > 0 THEN SubSeq(rows, 1, Min({limit, Len(rows)})) ELSE rows

(* Raw rows, the ones that do not decode included.                          *)
IterateBucket(limit) == UpTo(limit, bucket)

(* Faulty variant: an upper bound that is exclusive.                        *)
BugInRevisions(row, start, end) == (start > 0 => start <= row.rev) /\ (end > 0 => row.rev < end)

(* A bound of zero is no bound.                                             *)
InRevisions(row, start, end) ==
  (start > 0 => start <= row.rev) /\ (end > 0 => row.rev <= end)

ScanKeys(start, end, limit) ==
  UpTo(limit,
    FlattenSeq([i \in 1..Len(bucket) |->
                  IF bucket[i].readable /\ InRevisions(bucket[i], start, end)
                    THEN <<bucket[i]>> ELSE <<>>]))

Terminated == consumer # "ranging" /\ UNCHANGED vars

Etcd ==
  \/ \E k \in Key : EtcdPut(k) \/ EtcdDelete(k)
  \/ \E k, l \in Key : EtcdTxn(k, l)
  \/ EtcdCompact \/ EtcdScrub
Walker == Walk \/ EndWalk \/ Collect \/ Send \/ SendRest
Loop == Receive \/ LoopEnds

Next == Etcd \/ Open \/ OpenFails \/ Walker \/ Loop \/ Terminated

(* Once the command is started, its two goroutines are scheduled.           *)
Spec == Init /\ [][Next]_vars
FairSpec == Spec /\ WF_vars(Walker) /\ WF_vars(Loop)

----------------------------------------------------------------------------
Stats == [KV : Nat, RevCount : Nat \ {0}, TombstoneCount : Nat]

TypeOK ==
  /\ bucket \in Seq([rev : Nat \ {0}, key : Key, Tombstone : BOOLEAN, readable : BOOLEAN])
  /\ DOMAIN keyspace \subseteq Key /\ \A k \in DOMAIN keyspace : keyspace[k] \in Nat \ {0}
  /\ revision \in 0..MaxRevision /\ compactRev \in 0..revision
  /\ prefix \in PrefixArgs
  /\ walker \in {"etcd", "walk", "collect", "send", "closed", "failed"}
  /\ pos \in 1..(Len(bucket) + 1)
  /\ DOMAIN stats \subseteq prefix /\ \A k \in DOMAIN stats : stats[k] \in Stats
  /\ unsent \subseteq DOMAIN stats
  /\ batch \in Seq([key : prefix, ModRevision : Nat \ {0}]) /\ Len(batch) <= batchSize
  /\ c \in Seq(Seq([key : prefix, ModRevision : Nat \ {0}])) /\ Len(c) <= ChanCap
  /\ consumer \in {"ranging", "done", "exited"}

RowsOf(k) == {i \in 1..Len(bucket) : bucket[i].key = k}
Intact(k) == \A i \in RowsOf(k) : bucket[i].readable

(* When the loop ends, each key that was present when the snapshot was      *)
(* saved has been written exactly once, at its last revision, unless that   *)
(* revision is filtered out, and no other key or revision has: wherever a   *)
(* running compaction had got to, and whatever rows of other keys are       *)
(* damaged.                                                                 *)
CurrentKeyspace ==
  consumer = "done" =>
    /\ \A i, j \in 1..Len(out) : out[i].key = out[j].key => i = j
    /\ \A k \in prefix : Intact(k) =>
         IF k \in DOMAIN keyspace /\ keyspace[k] \notin Rejected
           THEN \E i \in 1..Len(out) : out[i].key = k /\ out[i].ModRevision = keyspace[k]
           ELSE \A i \in 1..Len(out) : out[i].key # k

(* The counts that go with a key are those of the whole file, even for the  *)
(* first batch: the map is complete before the consumer looks into it.      *)
(* They are what a user of `dump scan-keys` counts, whether in one dump or  *)
(* in two of adjoining revisions, and `dump iterate-bucket` shows besides   *)
(* only the rows that do not decode.                                        *)
Dumped(k, rows) ==
  FlattenSeq([i \in 1..Len(rows) |-> IF rows[i].key = k THEN <<rows[i]>> ELSE <<>>])

CountsAreOfTheFile ==
  \A i \in 1..Len(out) :
    \A r \in 1..revision :
      LET rows == Dumped(out[i].key, ScanKeys(0, r, 0) \o ScanKeys(r + 1, 0, 0)) IN
        /\ out[i].RevCount = Len(rows)
        /\ out[i].TombstoneCount = Cardinality({q \in 1..Len(rows) : rows[q].Tombstone})
        /\ out[i].ModRevision = Last(rows).rev /\ ~Last(rows).Tombstone
        /\ Len(Dumped(out[i].key, IterateBucket(0))) - Len(rows)
             = Cardinality({q \in RowsOf(out[i].key) : ~bucket[q].readable})

(* The command ends once the file is open, even if its loop is slower than  *)
(* the goroutine that fills the channel.                                    *)
LookEnds == (walker = "walk") ~> (consumer = "done")
=============================================================================
