------------------------------ MODULE Summary ------------------------------
(***************************************************************************)
(* The `summary` command (src/cmd/summary_cmd.go, src/core/summary.go):    *)
(* records are collected, online from a scan or offline from a file that   *)
(* `look` wrote, filtered, grouped by prefix, sorted, cut to --top, and    *)
(* the groups cut off merged into a row of others.                         *)
(*                                                                         *)
(* The store does not change here; module ScanData has the scan beside     *)
(* other clients.  A file does not have every key as the store has it:     *)
(* bytes that are not UTF-8 are replaced when the line is written, so that *)
(* two keys may be the same key in the file.  At the end the same records  *)
(* go through ComputeGlobalStats, as in `distribute --input`.              *)
(***************************************************************************)
EXTENDS GlobalStats, TLC

CONSTANTS
  Stores,      \* sequences of key-values in key order
  JSONKey,     \* the key that is read back for a key that was written as JSON
  PrefixArgs,  \* for each --prefix: the keys, stored or read back, that start with it
  FilterArgs,  \* values of --filter, --filter-min, --filter-max
  Configs      \* records [GroupDepth, StripSuffix, Top, SortBy, MinCreateRevision,
               \*   MaxCreateRevision, MinModRevision, MaxModRevision]

Path == Seq(Seq(STRING))
KeyValue ==
  { kv \in [Key : Path, keySize : Nat, valueSize : Nat, CreateRevision : Nat,
            ModRevision : Nat \ {0}, Version : Nat \ {0}, Lease : Nat,
            RevCount : Nat \ {0}, TombstoneCount : Nat] : JSONKey[kv.Key] \in Path }

ASSUME SummaryAssumption ==
  /\ Stores \subseteq Seq(KeyValue)
  /\ \A f \in FilterArgs :
       f.Attribute \in {"none", "key", "value", "kv"} /\ f.Min \in Int /\ f.Max \in Int
  /\ \A c \in Configs :
       /\ c.GroupDepth \in Int /\ c.Top \in Int
       /\ \A bound \in {c.MinCreateRevision, c.MaxCreateRevision,
                       c.MinModRevision, c.MaxModRevision} : bound \in Int

VARIABLES
  store,    \* the key-values of the cluster, or of its snapshot
  source,   \* [online, form]: where the records come from
  prefix, filter, cfg,
  pos,      \* the next key-value of the scan, or the next record to group
  metas,    \* the records collected
  groups,   \* a function from each group seen so far to its statistics
  result,   \* the rows
  phase

inputVars == <<store, source, prefix, filter, cfg>>
vars == <<inputVars, pos, metas, groups, result, phase>>

(* A file is in key order, except that one made from a snapshot has the     *)
(* order of a Go map.                                                       *)
Sources == [online : BOOLEAN, form : {"full", "keysOnly"}]
             \union {[online |-> FALSE, form |-> "snapshot"]}

Init ==
  /\ source \in Sources
  /\ \E s \in Stores : store \in IF source.form = "snapshot" THEN SetToSeqs(ToSet(s)) ELSE {s}
  /\ prefix \in PrefixArgs /\ filter \in FilterArgs /\ cfg \in Configs
  /\ pos = 1 /\ metas = <<>>
  /\ groups = NoCounts /\ result = <<>>
  /\ phase = "start"

keysOnlyFlag == source.online /\ source.form = "keysOnly"

sizeColumns == {"TotalSize", "AvgSize", "MaxSize"}
revColumns == {"RevCount", "TombstoneCount"}
summarySortKeys ==
  {"Count", "MaxVersion", "LatestModRevision", "CreatedCount", "ModifiedCount",
   "DistinctLeaseCount"} \union sizeColumns \union revColumns

Start ==
  /\ phase = "start"
  /\ phase' = IF cfg.SortBy \in summarySortKeys /\ CheckFilterCombination(keysOnlyFlag, filter)
                THEN IF source.online THEN "scan" ELSE "read"
                ELSE "exited"
  /\ UNCHANGED <<inputVars, pos, metas, groups, result>>

(* Online: the server selects the prefix, the loop the sizes.               *)
ScanKey ==
  /\ phase = "scan" /\ pos <= Len(store)
  /\ LET kv == store[pos] IN
       metas' = IF kv.Key \in prefix /\ ~Reject(filter, kv)
                  THEN Append(metas, KVToMeta(kv, keysOnlyFlag))
                  ELSE metas
  /\ pos' = pos + 1
  /\ UNCHANGED <<inputVars, groups, result, phase>>

ScanEnds ==
  /\ phase = "scan" /\ pos > Len(store)
  /\ phase' = "filter"
  /\ UNCHANGED <<inputVars, pos, metas, groups, result>>

(* Offline: the file, which `look` wrote without a filter; the key that is  *)
(* read back may be another one, its size is the one that was written.      *)
File ==
  [i \in 1..Len(store) |->
     IF source.form = "snapshot"
       THEN SnapshotKVToMeta(store[i])
       ELSE KVToMeta(store[i], source.form = "keysOnly")]

Unmarshal(m) == [m EXCEPT !.Key = JSONKey[@]]

ReadJSONL ==
  /\ phase = "read"
  /\ metas' = FilterMetasByPrefix([i \in DOMAIN File |-> Unmarshal(File[i])], prefix)
  /\ phase' = "filter"
  /\ UNCHANGED <<inputVars, pos, groups, result>>

(* A broken line ends the command.                                          *)
ReadFails ==
  /\ phase = "read"
  /\ phase' = "exited"
  /\ UNCHANGED <<inputVars, pos, metas, groups, result>>

Filter ==
  /\ phase = "filter"
  /\ metas' = FilterMetas(metas, filter)
  /\ pos' = 1
  /\ phase' = "group"
  /\ UNCHANGED <<inputVars, groups, result>>

----------------------------------------------------------------------------
(* Summarize.                                                               *)

inRange(v, min, max) == ~(min > 0 /\ v < min) /\ ~(max > 0 /\ v > max)
One(b) == IF b THEN 1 ELSE 0

newGroup ==
  [Count |-> 0, TotalSize |-> 0, HasSize |-> FALSE, MaxSize |-> 0, MaxVersion |-> 0,
   LatestModRevision |-> 0, CreatedCount |-> 0, ModifiedCount |-> 0, KeyLeasedCount |-> 0,
   leases |-> {}, MaxLease |-> 0, RevCount |-> 0, TombstoneCount |-> 0]

(* Faulty variant: the first key of a group is counted when the group is    *)
(* made and again when it is added.                                         *)
BugGroupSoFar(g) == IF g \in DOMAIN groups THEN groups[g] ELSE [newGroup EXCEPT !.Count = 1]
GroupSoFar(g) == IF g \in DOMAIN groups THEN groups[g] ELSE newGroup

Grouped(gs, m) ==
  [Count |-> gs.Count + 1,
   TotalSize |-> gs.TotalSize + Larger(m.KvSizeBytes, 0),
   HasSize |-> gs.HasSize \/ m.KvSizeBytes >= 0,
   MaxSize |-> Larger(gs.MaxSize, m.KvSizeBytes),
   MaxVersion |-> Larger(gs.MaxVersion, m.Version),
   LatestModRevision |-> Larger(gs.LatestModRevision, m.ModRevision),
   CreatedCount |-> gs.CreatedCount
     + One(inRange(m.CreateRevision, cfg.MinCreateRevision, cfg.MaxCreateRevision)),
   ModifiedCount |-> gs.ModifiedCount
     + One(inRange(m.ModRevision, cfg.MinModRevision, cfg.MaxModRevision)),
   KeyLeasedCount |-> gs.KeyLeasedCount + One(m.Lease # 0),
   leases |-> gs.leases \union ({m.Lease} \ {0}),
   MaxLease |-> Larger(gs.MaxLease, m.Lease),
   RevCount |-> gs.RevCount + Larger(m.RevCount, 0),
   TombstoneCount |-> gs.TombstoneCount + Larger(m.TombstoneCount, 0)]

GroupDepth == IF cfg.GroupDepth <= 0 THEN 2 ELSE cfg.GroupDepth
Top == IF cfg.Top <= 0 THEN 20 ELSE cfg.Top

GroupOf(m) == GroupPrefix(StripLastSegmentSuffix(m.Key, cfg.StripSuffix), GroupDepth)

GroupKey ==
  /\ phase = "group" /\ pos <= Len(metas)
  /\ LET m == metas[pos]
         g == GroupOf(m)
     IN  groups' = [h \in DOMAIN groups \union {g} |->
                      IF h = g THEN Grouped(GroupSoFar(g), m) ELSE groups[h]]
  /\ pos' = pos + 1
  /\ UNCHANGED <<inputVars, metas, result, phase>>

(* A column of a group, two of which are computed; sortGroups compares the  *)
(* one that --sort names.                                                   *)
AvgSize(gs) == IF gs.HasSize THEN gs.TotalSize \div gs.Count ELSE 0

Column(gs, name) ==
  CASE name = "AvgSize" -> AvgSize(gs)
    [] name = "DistinctLeaseCount" -> Cardinality(gs.leases)
    [] OTHER -> gs[name]

SortValue(gs) == Column(gs, cfg.SortBy)

(* Faulty variants: what is merged starts one group too early; the groups   *)
(* are cut in any order.                                                    *)
BugDropped(order) == SubSeq(order, Top, Len(order))
BugSorted(S) == SetToSeqs(S)

Dropped(order) == SubSeq(order, Top + 1, Len(order))
Sorted(S) == Descending(S, LAMBDA g : SortValue(groups[g]))

Total(numbers) == FoldLeft(+, 0, numbers)
Sum(order, field) == Total([i \in DOMAIN order |-> groups[order[i]][field]])

Others(dropped) ==
  [Group |-> "others", OthersCount |-> Len(dropped),
   HasSize |-> groups[dropped[1]].HasSize,
   Count |-> Sum(dropped, "Count"), TotalSize |-> Sum(dropped, "TotalSize"),
   CreatedCount |-> Sum(dropped, "CreatedCount"),
   ModifiedCount |-> Sum(dropped, "ModifiedCount"),
   KeyLeasedCount |-> Sum(dropped, "KeyLeasedCount"),
   RevCount |-> Sum(dropped, "RevCount"), TombstoneCount |-> Sum(dropped, "TombstoneCount")]

Row(g) ==
  [name \in DOMAIN groups[g] \union {"Group", "OthersCount"} |->
     CASE name = "Group" -> g
       [] name = "OthersCount" -> 0
       [] OTHER -> groups[g][name]]

Cut(order) ==
  LET rows == [r \in 1..Len(order) |-> Row(order[r])] IN
    IF Top < Len(order) THEN Append(SubSeq(rows, 1, Top), Others(Dropped(order))) ELSE rows

SortAndCut ==
  /\ phase = "group" /\ pos > Len(metas)
  /\ \E order \in Sorted(DOMAIN groups) : result' = Cut(order)
  /\ phase' = "done"
  /\ UNCHANGED <<inputVars, pos, metas, groups>>

----------------------------------------------------------------------------
(* What is printed of the rows.                                             *)

dash == -1  \* "-" in a column of the text

IsOthers(row) == row.OthersCount > 0
SumOf(rows, name) == Total([r \in DOMAIN rows |-> rows[r][name]])
RowSum(name) == SumOf(result, name)

additive ==
  {"Count", "TotalSize", "CreatedCount", "ModifiedCount", "KeyLeasedCount"} \union revColumns
columns == additive \union summarySortKeys \union {"MaxLease"}

hasSize == result # <<>> /\ result[1].HasSize
hasRevCount == \E r \in 1..Len(result) : result[r].RevCount > 0 \/ result[r].TombstoneCount > 0

(* The row of others keeps only what adds up.                               *)
Meaningful(row, name) == IsOthers(row) => name \in additive

TextColumn(row, name) ==
  IF /\ Meaningful(row, name)
     /\ name \in sizeColumns => hasSize
     /\ name \in revColumns => hasRevCount
    THEN Column(row, name) ELSE dash

others == IF result # <<>> THEN Last(result).OthersCount ELSE 0
shown == IF others > 0 THEN Len(result) - 1 ELSE Len(result)

printSummaryText ==
  [keys |-> Len(metas), totalGroups |-> shown + others,
   rows |-> [r \in 1..Len(result) |-> [name \in columns |-> TextColumn(result[r], name)]]]

printSummaryJSON ==
  [total_keys |-> Len(metas),
   rows |-> [r \in 1..Len(result) |->
               [name \in columns |->
                  IF Meaningful(result[r], name) THEN Column(result[r], name) ELSE 0]]]

(* The share of a row, as a numerator and a denominator; <<>> for "-".      *)
percentStr(row) ==
  IF cfg.SortBy \in {"Count", "TotalSize"} /\ RowSum(cfg.SortBy) > 0
    THEN <<row[cfg.SortBy], RowSum(cfg.SortBy)>> ELSE <<>>

Terminated == phase \in {"done", "exited"} /\ UNCHANGED vars

Next ==
  \/ Start \/ ScanKey \/ ScanEnds \/ ReadJSONL \/ ReadFails \/ Filter
  \/ GroupKey \/ SortAndCut \/ Terminated

Spec == Init /\ [][Next]_vars

----------------------------------------------------------------------------
TypeOK ==
  /\ source \in Sources /\ prefix \in PrefixArgs /\ filter \in FilterArgs /\ cfg \in Configs
  /\ pos \in 1..(Len(store) + 1)
  /\ Len(metas) <= Len(store)
  /\ \A i \in 1..Len(metas) : metas[i].Version \in Nat \ {0} /\ metas[i].ModRevision \in Nat \ {0}
  /\ \A g \in DOMAIN groups : groups[g].Count \in 1..Len(metas)
  /\ Len(result) <= Top + 1
  /\ phase \in {"start", "scan", "read", "filter", "group", "done", "exited"}

(* Whichever way the records came, the ones that are grouped are those of   *)
(* the keys with the prefix whose size is within the bounds, each once and  *)
(* in the order of the source: the online filter, the server's prefix and   *)
(* the offline filters are one selection.  Only a size that the source does *)
(* not have excludes nothing; and offline the key that counts, also for the *)
(* prefix, is the one that JSON has made of it.                             *)
Within(size) ==
  (filter.Min > 0 => filter.Min <= size) /\ (filter.Max > 0 => size <= filter.Max)

KeyInSource(kv) == IF source.online THEN kv.Key ELSE JSONKey[kv.Key]

Asked(kv) ==
  /\ KeyInSource(kv) \in prefix
  /\ \/ filter.Attribute = "none"
     \/ filter.Attribute = "key" /\ Within(kv.keySize)
     \/ filter.Attribute = "value" /\ (source.form = "keysOnly" \/ Within(kv.valueSize))
     \/ filter.Attribute = "kv"
          /\ (source.form = "keysOnly" \/ Within(kv.keySize + kv.valueSize))

KeysOf(s) == [i \in 1..Len(s) |-> s[i].Key]
KeysAskedFor ==
  FlattenSeq([i \in DOMAIN store |-> IF Asked(store[i]) THEN <<KeyInSource(store[i])>> ELSE <<>>])

SourcesAgree ==
  phase \in {"group", "done"} => KeysOf(metas) = KeysAskedFor

(* The printed rows, the row of others included, account for every key      *)
(* once, the percentages are shares of all keys or of all bytes, and the    *)
(* header counts all groups.  The text and the JSON output say the same:    *)
(* where the text has a number the JSON has it, where the text has a dash   *)
(* the JSON has a zero, and a dash for a size or a revision count means     *)
(* that the records had none.                                               *)
MetaSum(field) == Total([i \in DOMAIN metas |-> Larger(metas[i][field], 0)])
Known(field) == \E i \in 1..Len(metas) : metas[i][field] # absent

RowsAccountForAllKeys ==
  phase = "done" =>
    LET text == printSummaryText
        json == printSummaryJSON
        Printed(name) == SumOf(json.rows, name)
    IN
    /\ Printed("Count") = Len(metas)
    /\ Printed("TotalSize") = MetaSum("KvSizeBytes")
    /\ Printed("RevCount") = MetaSum("RevCount")
    /\ Printed("KeyLeasedCount") = Cardinality({i \in 1..Len(metas) : metas[i].Lease # 0})
    /\ text.totalGroups = Cardinality(DOMAIN groups)
    /\ hasSize = Known("KvSizeBytes") /\ hasRevCount = Known("RevCount")
    /\ \A r \in 1..Len(result) :
         /\ \A name \in columns :
              json.rows[r][name] = Larger(text.rows[r][name], 0)
         /\ percentStr(result[r]) # <<>> =>
              percentStr(result[r])[2] = CASE cfg.SortBy = "Count" -> Len(metas)
                                           [] OTHER -> MetaSum("KvSizeBytes")

(* No group that was cut off ranks above one that is shown, whatever order  *)
(* the sort leaves equal groups in.                                         *)
TopRows == {r \in 1..Len(result) : result[r].OthersCount = 0}

TopRowsAreTheLargest ==
  phase = "done" =>
    \A g \in DOMAIN groups : \A r \in TopRows :
      SortValue(groups[g]) <= SortValue(groups[result[r].Group])
        \/ \E q \in TopRows : q < r /\ result[q].Group = g

(* `distribute` and `summary` tell the same story of the same records: the  *)
(* sizes and revision counts add up alike, and the top prefixes of the      *)
(* Overview are the rows of a summary with the same settings.               *)
SameSettings ==
  GroupDepth = 2 /\ ~cfg.StripSuffix /\ Top = topN /\ cfg.SortBy = "Count"

OverviewAgreesWithSummary ==
  phase = "done" =>
    \A o \in ComputeGlobalStats(metas) :
      /\ o.stats.kv.total = RowSum("TotalSize")
      /\ o.stats.HistoryRevisionsTotal = RowSum("RevCount")
      /\ SumFunction(o.stats.VersionBuckets) = RowSum("Count")
      /\ SameSettings => [r \in 1..Len(o.TopPrefixes) |-> o.TopPrefixes[r].Count]
                           = [r \in 1..Len(result) |-> result[r].Count]

(* The verdicts do not depend on the random order of the map of prefixes or *)
(* on how the sort leaves equal counts; and if the sizes are called OK, at  *)
(* least 99 of 100 keys with a size are below 100 KiB.                      *)
SmallKeys == {i \in 1..Len(metas) : metas[i].KvSizeBytes < 100 * 1024}

VerdictsAreSound ==
  phase = "done" =>
    \A o, q \in ComputeGlobalStats(metas) :
      /\ o.Diagnosis = q.Diagnosis
      /\ o.Diagnosis.Size = "OK" => Cardinality(SmallKeys) * 100 >= 99 * Len(metas)
=============================================================================
