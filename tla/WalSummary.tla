----------------------------- MODULE WalSummary -----------------------------
(***************************************************************************)
(* The commands over the write-ahead log: `wal-look` writes the decoded    *)
(* operations to a file, one JSON object per line                          *)
(* (src/cmd/wal_look_cmd.go), and `wal-summary` counts the writes of each  *)
(* key, from such a file or from the log itself                            *)
(* (src/cmd/wal_summary_cmd.go).                                           *)
(*                                                                         *)
(* Meanwhile the member goes on appending entries, and a wal-look may be   *)
(* interrupted half way.  What of the log a command reads is the subject   *)
(* of WalSource: here it reads every entry there is.                       *)
(***************************************************************************)
EXTENDS WalDecode

CONSTANTS
  Key,            \* the keys of the store
  Item,           \* the puts, deletes, ranges and nested transactions of requests
  Entries,        \* the entries that may be appended, without their index
  JSONKey,        \* for each key, the key that is read back from its JSON line
  EntryTypeArgs,  \* values of --entry-type: sets of entry types, {} for no filter
  SortArgs,       \* values of --sort
  TopArgs,        \* values of --top (any integer)
  MaxEntries      \* bound: entries appended

Writes == {"Put", "DeleteRange"}

(* A request sets one field, and no key that is written is empty.           *)
Proper(e) ==
  /\ e.form \in {"IRR", "Request", "ConfigChange", "Normal", "Unknown"}
  /\ e.path \in Key \union {NoKey}
  /\ \A f \in DOMAIN e.rr :
       /\ f \in ToSet(rrFields) /\ \A g \in DOMAIN e.rr : g = f
       /\ f \in Writes \union {"Range"} => e.rr[f] \in Item /\ e.rr[f].kind = f
       /\ f = "Txn" => e.rr[f] \in [Success : Seq(Item), Failure : Seq(Item)]

ASSUME WalSummaryAssumption ==
  /\ NoKey \notin Key /\ IsFiniteSet(Key)
  /\ \A k \in Key : JSONKey[k] # NoKey
  /\ \A item \in Item :
       /\ item.key \in Key \union {NoKey} /\ item.size \in Nat
       /\ item.kind \in Writes => item.key \in Key
       /\ item.kind = "Txn" => item.Success \in Seq(Item) /\ item.Failure \in Seq(Item)
  /\ \A e \in Entries : Proper(e)
  /\ TopArgs \subseteq Int /\ MaxEntries \in Nat

VARIABLES
  raftLog,  \* the entries of the log
  applied,  \* history: for each entry, the requests the member applied
  file,     \* the output file of wal-look: [exists, lines]
  look,     \* the running wal-look: [pc, unwritten, types, read]
  origin,   \* history: of the file, [read, types, whole]
  report    \* what wal-summary printed, <<>> until it has

lookVars == <<file, look, origin>>
summaryVars == <<raftLog, applied, lookVars, report>>

----------------------------------------------------------------------------
(* The member.  Of a transaction one branch is applied, at every level.     *)

Branches(txn) == {txn.Success, txn.Failure}

Flattenings(items) ==
  LET choices(n) == IF items[n].kind = "Txn" THEN Branches(items[n]) ELSE {<<items[n]>>}
      all == UNION {choices(n) : n \in 1..Len(items)}
  IN  {FlattenSeq(s) : s \in {s \in [1..Len(items) -> all] : \A n \in 1..Len(items) : s[n] \in choices(n)}}

Outcomes(e) ==
  CASE e.form = "IRR" /\ "Txn" \in DOMAIN e.rr ->
         UNION {Flattenings(b) : b \in Branches(e.rr["Txn"])}
    [] e.form = "IRR" /\ DOMAIN e.rr \intersect Writes # {} ->
         {<<e.rr[f]>> : f \in DOMAIN e.rr}
    [] OTHER -> {<<>>}

Indexed(i, e) == [index |-> i, form |-> e.form, path |-> e.path, rr |-> e.rr]

MemberAppends(e) ==
  /\ report = <<>> /\ Len(raftLog) < MaxEntries
  /\ raftLog' = Append(raftLog, Indexed(Len(raftLog) + 1, e))
  /\ \E requests \in Outcomes(e) : applied' = Append(applied, requests)
  /\ UNCHANGED <<lookVars, report>>

----------------------------------------------------------------------------
(* wal-look --write-out=jsonl --output=...                                  *)

Idle == [pc |-> "idle", unwritten |-> <<>>, types |-> {}, read |-> 0]

WantedOps(types, ops) ==
  FlattenSeq([n \in 1..Len(ops) |->
    IF types = {} \/ ops[n].EntryType \in types THEN <<ops[n]>> ELSE <<>>])

(* Everything is collected before the output file is opened.                *)
LookCollects(types) ==
  /\ look.pc = "idle" /\ report = <<>>
  /\ look' = [pc |-> "collected", types |-> types, read |-> Len(raftLog),
              unwritten |-> WantedOps(types, decodeLog(raftLog))]
  /\ UNCHANGED <<raftLog, applied, file, origin, report>>

(* Faulty variant: the file is not truncated.                               *)
BugOpened == [file EXCEPT !.exists = TRUE]
Opened == [exists |-> TRUE, lines |-> <<>>]

LookOpens ==
  /\ look.pc = "collected" /\ report = <<>>
  /\ file' = Opened
  /\ origin' = [read |-> look.read, types |-> look.types, whole |-> FALSE]
  /\ look' = [look EXCEPT !.pc = "writing"]
  /\ UNCHANGED <<raftLog, applied, report>>

(* The encoder replaces bytes of a key that are not UTF-8 by U+FFFD.        *)
JSONLine(op) == [op EXCEPT !.Key = IF op.Key = NoKey THEN NoKey ELSE JSONKey[op.Key]]

(* The lines are not buffered: each one is a write of its own.              *)
LookWritesLine ==
  /\ look.pc = "writing" /\ look.unwritten # <<>> /\ report = <<>>
  /\ file' = [file EXCEPT !.lines = Append(@, JSONLine(Head(look.unwritten)))]
  /\ look' = [look EXCEPT !.unwritten = Tail(@)]
  /\ UNCHANGED <<raftLog, applied, origin, report>>

LookEnds ==
  /\ look.pc = "writing" /\ look.unwritten = <<>> /\ report = <<>>
  /\ look' = Idle
  /\ origin' = [origin EXCEPT !.whole = TRUE]
  /\ UNCHANGED <<raftLog, applied, file, report>>

LookInterrupted ==
  /\ look.pc # "idle" /\ report = <<>>
  /\ look' = Idle
  /\ UNCHANGED <<raftLog, applied, file, origin, report>>

----------------------------------------------------------------------------
(* wal-summary: aggregate, sort, cut, and the distribution of all the       *)
(* operations.  The number of unique keys is taken after the cut.           *)

printWalSummary(ops, rows, source, sortBy, top) ==
  [source |-> source, sortBy |-> sortBy, top |-> top,
   totalOps |-> Len(ops), uniqueKeys |-> Len(rows),
   rows |-> rows, dist |-> EntryTypeDist(ops)]

WalSummary(ops, source, sortBy, top) ==
  /\ report = <<>>
  /\ \E stats \in SortWalKeyStats(AggregateWalOps(ops), sortBy) :
       report' = <<printWalSummary(ops, ShownRows(stats, top), source, sortBy, top)>>
  /\ UNCHANGED <<raftLog, applied, lookVars>>

SummaryOfLog(sortBy, top) == WalSummary(decodeLog(raftLog), "data-dir", sortBy, top)

(* Without the file the command exits; a file that is still being written   *)
(* is read as far as it goes.                                               *)
SummaryOfFile(sortBy, top) == file.exists /\ WalSummary(file.lines, "input", sortBy, top)

Summarized == report # <<>> /\ UNCHANGED summaryVars

SummaryInit ==
  /\ raftLog = <<>> /\ applied = <<>>
  /\ file = [exists |-> FALSE, lines |-> <<>>]
  /\ look = Idle
  /\ origin = [read |-> 0, types |-> {}, whole |-> FALSE]
  /\ report = <<>>

Look ==
  (\E types \in EntryTypeArgs : LookCollects(types)) \/ LookOpens \/ LookWritesLine \/ LookEnds
    \/ LookInterrupted

Summarizes == \E s \in SortArgs, top \in TopArgs : SummaryOfLog(s, top) \/ SummaryOfFile(s, top)

SummaryNext == (\E e \in Entries : MemberAppends(e)) \/ Look \/ Summarizes \/ Summarized

SummarySpec == SummaryInit /\ [][SummaryNext]_summaryVars

----------------------------------------------------------------------------
(* What the properties compare the reports with: the writes of a kind on a  *)
(* key, as they were applied, and as they stand in the entries.             *)

OnKey(items, kind, k) ==
  Cardinality({n \in 1..Len(items) : items[n].kind = kind /\ items[n].key = k})

AppliedTo(k, kind) == FoldLeft(+, 0, [n \in 1..Len(applied) |-> OnKey(applied[n], kind, k)])

AllItems(items) ==
  FlattenSeq([n \in 1..Len(items) |->
    IF items[n].kind = "Txn" THEN items[n].Success \o items[n].Failure ELSE <<items[n]>>])

Written(e) ==
  CASE "Txn" \in DOMAIN e.rr -> AllItems(e.rr["Txn"].Success \o e.rr["Txn"].Failure)
    [] "Put" \in DOMAIN e.rr -> <<e.rr["Put"]>>
    [] "DeleteRange" \in DOMAIN e.rr -> <<e.rr["DeleteRange"]>>
    [] OTHER -> <<>>

WrittenTo(k, kind) ==
  FoldLeft(+, 0, [n \in 1..Len(raftLog) |-> OnKey(Written(raftLog[n]), kind, k)])

Flat ==
  \A n \in 1..Len(raftLog) : "Txn" \in DOMAIN raftLog[n].rr =>
    \A item \in ToSet(Items(raftLog[n].rr["Txn"])) : item.kind # "Txn"

RowOf(k) ==
  LET rows == {r \in ToSet(report[1].rows) : r.Key = k}
  IN  IF rows = {} THEN [PutCount |-> 0, DeleteCount |-> 0] ELSE CHOOSE r \in rows : TRUE

RowCount(k, kind) == IF kind = "Put" THEN RowOf(k).PutCount ELSE RowOf(k).DeleteCount

Uncut == report[1].top <= 0
FromLog == report # <<>> /\ report[1].source = "data-dir" /\ Uncut

(* Which branch of a transaction was applied cannot be told from the log,   *)
(* so the counts are an estimate; but without nested transactions they lie  *)
(* between the writes that were applied to the key and those that were      *)
(* written down for it.                                                     *)
CountsBracketWrites ==
  FromLog /\ Flat =>
    \A k \in Key, kind \in Writes :
      AppliedTo(k, kind) <= RowCount(k, kind) /\ RowCount(k, kind) <= WrittenTo(k, kind)

(* In the file of wal-look, --entry-type keeps or drops a transaction as a  *)
(* whole, although the kinds of its operations differ, and each operation   *)
(* of one follows its parent; an interruption truncates the last only.      *)
OpsOfEntry(i, ops) ==
  FlattenSeq([n \in 1..Len(ops) |-> IF ops[n].RaftIndex = i THEN <<ops[n]>> ELSE <<>>])

OpTypes(ops) == [n \in 1..Len(ops) |-> ops[n].OpType]

TxnsAreWhole ==
  \A i \in 1..origin.read :
    LET expected == decodeEntry(raftLog[i])
        ofEntry == OpsOfEntry(i, file.lines)
        later == {op \in ToSet(file.lines) : op.RaftIndex > i}
    IN  IF ofEntry # <<>> /\ (later # {} \/ origin.whole)
          THEN Len(ofEntry) = Len(expected)
          ELSE IsPrefix(OpTypes(ofEntry), OpTypes(expected))

(* The report accounts for everything it read: the distribution adds up to  *)
(* the number of operations, and the rows, if none is cut, to the puts and  *)
(* deletes among them; a row is the only one of its key.                    *)
RowsAccountForOps ==
  report # <<>> =>
    LET ops == IF report[1].source = "input" THEN file.lines ELSE decodeLog(raftLog)
        of(type) == {n \in 1..Len(ops) : ops[n].OpType = type}
        rows == report[1].rows
        dist == report[1].dist
    IN  /\ SumFunctionOnSet(dist, DOMAIN dist) = Len(ops)
        /\ report[1].totalOps = Len(ops)
        /\ \A m, n \in 1..Len(rows) : rows[m].Key = rows[n].Key => m = n
        /\ Uncut =>
             /\ FoldLeft(+, 0, [n \in 1..Len(rows) |-> rows[n].PutCount]) = Cardinality(of("Put"))
             /\ FoldLeft(+, 0, [n \in 1..Len(rows) |-> rows[n].DeleteCount])
                  = Cardinality(of("DeleteRange"))
             /\ FoldLeft(+, 0, [n \in 1..Len(rows) |-> rows[n].TotalValueSizeBytes])
                  = FoldLeft(+, 0, [n \in 1..Len(ops) |-> ops[n].ValueSizeBytes])

(* The cut keeps the busiest keys: no key of the log that is left out has   *)
(* more of the writes the rows are sorted by than a key that is shown.      *)
BusiestKeysShown ==
  report # <<>> /\ report[1].source = "data-dir" =>
    LET shown == {r.Key : r \in ToSet(report[1].rows)}
        ops == decodeLog(raftLog)
    IN  /\ \A k \in Key \ shown : \A r \in ToSet(report[1].rows) :
             SortValue(KeyStats(k, ops), report[1].sortBy) <= SortValue(r, report[1].sortBy)
        /\ ~Uncut /\ Cardinality(shown) < report[1].top =>
             \A op \in ToSet(ops) : op.Key \in shown \union {NoKey}

(* A report from the file counts no more than the log held when the file    *)
(* was written, whatever was filtered, interrupted or overwritten; from the *)
(* whole file of an unfiltered wal-look it is what wal-summary would have   *)
(* reported from the log.  Keys that JSON cannot tell apart are one key.    *)
FromFile == report # <<>> /\ report[1].source = "input" /\ Uncut

OfflineAgreesWithDirect ==
  FromFile =>
    LET ops == decodeLog(SubSeq(raftLog, 1, origin.read))
        on(k, type) ==
          Cardinality({n \in 1..Len(ops) : ops[n].OpType = type /\ JSONLine(ops[n]).Key = k})
        complete == origin.whole /\ origin.types = {}
    IN  /\ \A k \in {JSONKey[j] : j \in Key}, kind \in Writes :
             /\ RowCount(k, kind) <= on(k, kind)
             /\ complete => RowCount(k, kind) = on(k, kind)
        /\ complete => report[1].dist = EntryTypeDist(ops)

(* src/docs/etcd-analysis-key-commands.md:320: "Txn sub-ops have `op_type`  *)
(* Put/DeleteRange and are already counted in wal-summary's PutCount/       *)
(* DeleteCount - no undercounting".                                         *)
NoUndercounting ==
  FromLog =>
    \A k \in Key, kind \in Writes : AppliedTo(k, kind) <= RowCount(k, kind)
=============================================================================
