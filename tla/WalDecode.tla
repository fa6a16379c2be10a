----------------------------- MODULE WalDecode ------------------------------
(***************************************************************************)
(* What one raft entry decodes to (decodeEntry in src/core/wal_source.go), *)
(* and what `wal-summary` makes of a list of operations: counts per key    *)
(* and the distribution of the entry types.                                *)
(*                                                                         *)
(* An entry is a record with its index, its form (how far it can be        *)
(* unmarshalled), the path of a request of the v2 API, and rr, a function  *)
(* from the fields that are set in its InternalRaftRequest to their        *)
(* content.  An item of a transaction is a put, a delete, a range or a     *)
(* nested transaction, whose branches are sequences of items.              *)
(***************************************************************************)
EXTENDS Integers, Sequences, FiniteSets, SequencesExt, Functions

NoKey == ""

WalOp(i, opType, key, size, isTxn, entryType) ==
  [RaftIndex |-> i, OpType |-> opType, Key |-> key, ValueSizeBytes |-> size,
   IsTxn |-> isTxn, EntryType |-> entryType]

KeylessOp(i, opType, entryType) == WalOp(i, opType, NoKey, 0, FALSE, entryType)

ItemOp(i, item, isTxn, entryType) ==
  WalOp(i, item.kind, item.key, IF item.kind = "Put" THEN item.size ELSE 0, isTxn, entryType)

----------------------------------------------------------------------------
(* Faulty variants of the definitions below: the items of one branch only,  *)
(* operations named after their own kind rather than after the transaction, *)
(* deletes that fall into the case of puts, a cut that is off by one.      *)
BugItems(txn) == txn.Success
BugTxnEntryType(item) == "IRR" \o item.kind
BugCountedAs(op) == "Put"
BugShownRows(stats, top) ==
  IF top > 0 /\ top < Len(stats) THEN SubSeq(stats, 2, top + 1) ELSE stats
----------------------------------------------------------------------------

(* Both branches of a transaction, although only one of them was applied:   *)
(* the log does not say which.                                              *)
Items(txn) == txn.Success \o txn.Failure
TxnEntryType(item) == "IRRTxn"

(* Ranges and nested transactions have no case in the switch.               *)
decodeTxnOps(i, txn) ==
  LET items == Items(txn)
  IN  FlattenSeq([n \in 1..Len(items) |->
        IF items[n].kind \in {"Put", "DeleteRange"}
          THEN <<ItemOp(i, items[n], TRUE, TxnEntryType(items[n]))>> ELSE <<>>])

(* The parent of a transaction takes the key of its first decoded item.     *)
TxnParent(i, txnOps) ==
  WalOp(i, "Txn", IF txnOps = <<>> THEN NoKey ELSE txnOps[1].Key, 0, TRUE, "IRRTxn")

(* The fields of an InternalRaftRequest in the order they are looked at.    *)
(* The five requests about users stand as one field, and those about roles. *)
rrFields ==
  << "Range", "Put", "DeleteRange", "Txn", "Compaction", "LeaseGrant", "LeaseRevoke",
     "LeaseCheckpoint", "AuthEnable", "AuthDisable", "AuthUser", "AuthRole" >>

irrType ==
  [ Range |-> "IRRRange", Put |-> "IRRPut", DeleteRange |-> "IRRDeleteRange", Txn |-> "IRRTxn",
    Compaction |-> "IRRCompaction", LeaseGrant |-> "IRRLeaseGrant",
    LeaseRevoke |-> "IRRLeaseRevoke", LeaseCheckpoint |-> "IRRLeaseCheckpoint",
    AuthEnable |-> "IRRAuthEnable", AuthDisable |-> "IRRAuthDisable",
    AuthUser |-> "IRRAuthUser", AuthRole |-> "IRRAuthRole" ]

FieldOps(i, f, content) ==
  CASE f = "Txn" ->
         LET txnOps == decodeTxnOps(i, content) IN <<TxnParent(i, txnOps)>> \o txnOps
    [] f \in {"Range", "Put", "DeleteRange"} -> <<ItemOp(i, content, FALSE, irrType[f])>>
    [] OTHER -> <<KeylessOp(i, f, irrType[f])>>

decodeIRR(i, rr) ==
  IF ToSet(rrFields) \intersect DOMAIN rr = {}
    THEN <<KeylessOp(i, "InternalRaftRequest", "IRRUnknown")>>
    ELSE FlattenSeq([n \in 1..Len(rrFields) |->
           IF rrFields[n] \in DOMAIN rr THEN FieldOps(i, rrFields[n], rr[rrFields[n]]) ELSE <<>>])

decodeEntry(e) ==
  CASE e.form = "IRR" -> decodeIRR(e.index, e.rr)
    [] e.form = "Request" -> <<WalOp(e.index, "Request", e.path, 0, FALSE, "Request")>>
    [] OTHER -> <<KeylessOp(e.index, e.form, e.form)>>   \* ConfigChange, Normal, Unknown

decodeLog(es) == FlattenSeq([n \in 1..Len(es) |-> decodeEntry(es[n])])

----------------------------------------------------------------------------
(* Aggregation.                                                             *)

CountedAs(op) == op.OpType

(* The places of the operations of a type on a key.                         *)
OpsOn(k, type, ops) ==
  {n \in 1..Len(ops) : ops[n].Key = k /\ CountedAs(ops[n]) = type}

(* Operations without a key are skipped.  One of another type, such as the  *)
(* parent of a transaction, still makes a row for its key.                  *)
KeyStats(k, ops) ==
  LET sizes == [n \in 1..Len(ops) |-> IF n \in OpsOn(k, "Put", ops) THEN ops[n].ValueSizeBytes ELSE 0]
  IN  [Key |-> k, PutCount |-> Cardinality(OpsOn(k, "Put", ops)),
       DeleteCount |-> Cardinality(OpsOn(k, "DeleteRange", ops)),
       TotalValueSizeBytes |-> FoldLeft(+, 0, sizes)]

AggregateWalOps(ops) == {KeyStats(k, ops) : k \in {op.Key : op \in ToSet(ops)} \ {NoKey}}

SortValue(s, sortBy) ==
  CASE sortBy = "delete-count" -> s.DeleteCount
    [] sortBy = "total-ops" -> s.PutCount + s.DeleteCount
    [] OTHER -> s.PutCount

(* sort.Slice does not keep the order of rows with equal values.            *)
SortWalKeyStats(stats, sortBy) ==
  { s \in SetToSeqs(stats) :
      \A a, b \in DOMAIN s : a < b => SortValue(s[a], sortBy) >= SortValue(s[b], sortBy) }

ShownRows(stats, top) ==
  IF top > 0 /\ top < Len(stats) THEN SubSeq(stats, 1, top) ELSE stats

(* The rows of the distribution; their order is that of a fixed list, and   *)
(* types that are not in it follow.                                         *)
OrderedTypes(ops) == {op.EntryType : op \in ToSet(ops)} \ {""}

EntryTypeDist(ops) ==
  [t \in OrderedTypes(ops) |-> Cardinality({n \in 1..Len(ops) : ops[n].EntryType = t})]
=============================================================================
