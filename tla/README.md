# etcd-analysis-key in TLA+

`etcd-analysis-key` reads the key space of an etcd cluster - online through paginated
range requests, offline from a snapshot file, from its own JSONL files, or from the
write-ahead log of a member - and reports on it: key lists, size distributions, prefix
summaries, global statistics.  This directory holds TLA+ modules of the program, the TLC
configurations that check them, and TLAPS proofs, for every value of the constants, of all
safety properties that the passing runs check.  Paths such as `src/core/...` are relative to the repository.

* [1. The system](#1-the-system)
* [2. Modules](#2-modules)
* [3. What the runs check](#3-what-the-runs-check)
* [4. Bounds](#4-bounds)
* [5. Fairness](#5-fairness)
* [6. What is proved](#6-what-is-proved)
* [7. Where code and documents disagree](#7-where-code-and-documents-disagree)
* [8. Abstractions, and what is not modelled](#8-abstractions-and-what-is-not-modelled)
* [9. Plan](#9-plan)

## 1. The system

| Component | State it keeps | Operations | What makes it correct |
|---|---|---|---|
| Paginated scan, `ScanData` (`src/core/data_source.go`) | options, last response, a channel of ten batches | one capped request, or first page then continuation pages from the last key seen; each failure exits the process | each key is delivered once and in order; keys that stay present are delivered; it ends |
| Size report (`src/core/report.go`, `src/cmd/distribute_cmd.go`) | `Stats` under `countLock`, `processOver`, the list of metas under its own mutex | `Run`, `processResult`, `String`, `JSON`, `DynamicOutput`, the feeder of `distribute` | a rendering never sees half a batch; Overview and report are about the same keys; nobody waits for ever |
| Histogram (`report.go:185-220`, `321-356`) | two indices, bounds, counts | the walk over sorted sizes; the JSON rows | it ends; rows partition the sizes |
| Percentiles (`src/core/percent.go`) | two indices, a running total | the walk, the fill of the thresholds left | the table is a table of percentiles |
| Snapshot source (`src/core/snapshot_source.go`) | the map of per-key statistics, a cursor, a channel of ten batches | walk of the `key` bucket, then a range over the map | the last revision of each present key, once; counts of the whole file |
| WAL source (`src/core/wal_source.go`) | list of segments, list of snapshots, start index, scope, a channel | listing, loading, opening, reading and decoding, collecting | the operations of a gapless stretch; the scope describes what was read |
| WAL decoding and aggregation (`wal_source.go:380-755`, `src/cmd/wal_*_cmd.go`) | the output file of `wal-look`, maps of counts | decoding of entries, aggregation per key and per type, truncation to `--top`, the file and its reading | counts of a key are explained by the writes to it; totals agree with the stream; the file says what the log says |
| Prefix summary (`src/core/summary.go`, `src/cmd/summary_cmd.go`) | groups, lease sets | `Summarize`: group, sort, cut, merge the rest into "others" | totals over rows equal totals over keys |
| Global statistics (`src/core/overview.go`) | accumulators | `ComputeGlobalStats`, `computeDiagnosis` | statistics of the same keys on the same size basis |
| Records and files (`src/core/meta.go`) | - | `KVToMeta`, `ReadJSONL`, `FilterMetasByPrefix` | what is written is what is read |
| Filters (`src/core/filter.go`) | - | `Reject`, `RejectMeta`, `CheckFilterCombination` | online and offline filters agree |
| `look` (`src/cmd/look_cmd.go`) | an output file, rewritten each round of its hang loop | truncate, scan, write | the file is one round, never a mixture; with `--hang` it follows the store |
| `find` (`src/cmd/find_cmd.go`) | - | scan, match, stop at the limit | the same answer from a file as from the cluster |
| `rename`, `clear` (`src/cmd/*.go`; not registered, `root_cmd.go:64-68`) | - | Get, Put of a backup, Put, Delete | no update of another client is lost |
| `leader` (`src/cmd/leader_cmd.go`; registered, `root_cmd.go:63`) | - | one status query | - |
| `dump scan-keys`, `dump iterate-bucket` (`snapshot_source.go`) | - | walks over the bucket, revision range, limit | they show the rows the counts are made of |
| Other dumps, codecs, configuration | - | printing, decoding, flags | - |

How they interact.  A command starts a *source* (`ScanData`, `SnapshotSource`,
`WalSource`), which runs a goroutine and returns a bounded channel; the command ranges
over it.  `distribute` puts a second goroutine (the feeder) in between, which hands every
batch both to the report's unbuffered channel and to the list of metas.  The only shared
memory is the report's `Stats`, the list of metas and the snapshot's map of statistics.
Everything else that changes concurrently is outside the process: the other clients of
the cluster during a scan, the running member during a read of its log, a compaction
that a snapshot caught half done, a failed request or a kill while an output file is being
written.  Commands also meet through files: `look` and `wal-look` write what `find`,
`distribute`, `summary` and `wal-summary` read with `--input`, perhaps from a run that was cut
short.

What is hard.  No revision is pinned between pages; the cursor of the scan may vanish. The
lock is released between batches, and the refresher and main render in between.  The metas are
read without their lock after `Run`.  The consumer of a snapshot reads the map its producer is
still ranging over.  The directory of a log is listed three times while the member cuts and
purges.  A transaction in the log names both its branches and not the one that was applied.
The output file of `look` is emptied long before it is written.  And several loops end only
because of an arithmetic fact about bounds.  `PROJECT.json` lists these hazards at their lines
with the properties that answer them.

## 2. Modules

| Module | Models | Checked by |
|---|---|---|
| `ScanData` | `ScanData` and its goroutine, the caller's loop, the other clients | `MCScanData`, `ScanData_*.cfg`; proofs in `ScanDataProofs` |
| `CursorScan` | the abstract promise of the scan | as the property `IsCursorScan` of `ScanData`; used by `LookFile` |
| `Report` | feeder, reporter, refresher, main and the lock | `MCReport`, `Report.cfg`; proofs in `ReportProofs` |
| `ReportText` | what `String` renders: `histogram`, then `percentiles`; `histogramJSON` | `MCReportText`, `ReportText*.cfg`; proofs in `ReportTextProofs` |
| `SnapshotSource` | etcd's bucket up to the moment of the snapshot, the source, the loop of `look --snapshot`, the dumps of the bucket | `MCSnapshotSource`, `SnapshotSource.cfg`; proofs in `SnapshotProofs` |
| `WalSource` | a member's log directory, the source, its collector | `MCWalSource`, `WalSource*.cfg`; proofs in `WalProofs` |
| `WalDecode` | what an entry decodes to, and the aggregation of operations | through `WalSummary`; `MCWalSource` |
| `WalSummary` (extends `WalDecode`) | `wal-look` with its file and `wal-summary`, beside a member that appends | `MCWalSummary`, `WalSummary*.cfg`; proofs in `WalProofs` |
| `LookFile` (extends `Records`) | `look` with `--output` and `--hang`; `find` and `distribute`, online and with `--input` | `MCLookFile`, `LookFile.cfg`; proofs in `LookFileProofs` |
| `Records` | `KeyMeta`, the filters, the grouping of keys by path | through `Summary` and `LookFile` |
| `GlobalStats` (extends `Records`) | `ComputeGlobalStats`, `computeDiagnosis` | through `Summary` |
| `Summary` (extends `GlobalStats`) | the `summary` command, online and offline | `MCSummary`, `Summary.cfg`; proofs in `SummaryProofs` |
| `SequenceLemmas` | no code: lemmas on sequences, folds, finite sums and counts that the proof modules share | `tlapm` |

`ScanData`, `SnapshotSource` and `WalSource` stand beside each other, as the sources do in
the program.  `Report` takes a stream of batches as its input, which is what `ScanData`
delivers; `ReportText` takes the statistics that `Report` accumulates (`StatsAreOf` there
says what those are, and the assumptions of `ReportText` ask for no more).  `Summary` takes
the records that a scan or a file delivers, and hands the same records to `GlobalStats`.
`LookFile` composes: its scan is not `ScanData` again but `CursorScan`, which `ScanData` is
shown to implement, so that a look and the clients of the cluster are interleaved page by page
at the price of one action.  `WalSource` takes what an entry decodes to as a constant; the
assumption `OpsOfKindsAssumption` of `MCWalSource` checks that its value is what `WalDecode`
computes.  `WalSummary` in turn leaves the question which entries are read to `WalSource`.

**ScanData.**  A key is a number, because only the byte order matters; a prefix is an
interval; `store` is the content of the member that answers (the requests are
serializable).  `scanner` is the program counter: `start`, `paging` (at the head of the
loop with a response), `sending` (about to send all but the leading key), `closed`,
`exited`.  `LimitedScan` and `FirstPage` include the first send, which happens before any
reader exists and cannot block.  `RequestFails` is `EtcdGetOrFail`: it ends the process.
`stable` and `lost` are history variables: the keys that were never absent since the
first request, and the number of continuation requests whose starting key was gone.
`Replies(S, n)` defines an etcd range reply by what it is: ascending, at most `n` keys,
the least ones.

**CursorScan.**  Clients put and delete while each step takes some of the next keys above
everything taken so far, as the store is at that moment; the scan may end only when none is
left or the limit is reached.  It has one blind spot: when the last key taken is gone, the
key after it is invisible to the next step.  This is what the dropped leading key amounts to
(section 7), and the refinement says that nothing else is visible from outside.  The mapping
takes what the loop was given, what is in the channel and what is about to be sent as what
the cursor has emitted, and a short page as the end.

**Report.**  The lock is a variable naming its holder.  `processResult` is split at the
lock: `LockStats` raises `Count`, `CountKey` handles one key, `UnlockStats` computes the
average and releases - these are the intermediate states nobody may see.  The unbuffered
channel is the joint action `HandOver`.  The read lock `dynamicString` takes for one read
is the guard of `RefresherCount`; between it and `RefresherString` the lock is free, as in
the code.  `String` sorts the slice of sizes in place, and so do `RefresherString`,
`FinalString` and `PrintReport`.  `distribute` itself never calls `DynamicOutput`
(`distribute_cmd.go:137-140`); the report offers it, so the model has runs with and
without it, in text, silent and JSON mode.

**ReportText.**  Sequential, as `String` is: sort the sizes, walk them over the bounds of the
buckets, walk them over the thresholds, fill the thresholds left; one action per branch of
each loop.  The percentages are compared as exact quotients: both sides are integers far
below 2^53.

**SnapshotSource.**  The actions named `Etcd...` write the bucket as etcd's store does: a row
per put and delete, tombstones, and a compaction whose rows are removed one by one, in
order, so that the file may have caught it anywhere.  `Open` may find some rows unreadable
(the decode errors that are skipped at lines 61-68).  `Walk` is one iteration over the
cursor, `Collect` one iteration of the range over the map in any order, then `Send` and
`SendRest`.  `EtcdTxn` writes two rows of one revision.  `ScanKeys` and `IterateBucket` are
operators on the file, and the counts of `look` are compared with what they return.

**WalSource.**  A segment is its first index, a snapshot its index, an entry its kind.  The
member appends, cuts (a segment's name holds the next index), writes a snapshot file in
two steps and purges below the newest snapshot.  `WalSource` is the sequence
`ListSegments`, `ListSnaps`, `LoadSnapshot`, `MakeScope`, `OpenForRead`, after which the
goroutine reads (`ReadAll`) and sends, or fails to read (`ReadFails`: any error of `ReadAll` but
`ErrSnapshotNotFound`) and closes the channel without a word.  Each of these reads the directory, so the member
may move between any two.  A member directory that was copied without `member/snap` is the
case `snapDir = FALSE`; a copy does not change.

**WalDecode**, **WalSummary.**  An entry is its index, how far it can be unmarshalled
(`form`), the path of a v2 request, and the fields that are set in an `InternalRaftRequest`.  A
transaction is two sequences of items, which may be transactions again.  `decodeEntry` and what
it calls are operators; `Outcomes` says which writes the *member* may make of the same entry -
one branch at each level - and is what the counts are compared with.  `wal-look` collects,
opens (and truncates) the file, writes one line at a time and may be interrupted at each;
`JSONKey` is the key a line is read back with, because the encoder replaces bytes that are not
UTF-8.  `wal-summary` aggregates the log or the file, sorts in any order that `sort.Slice` may
leave, cuts and counts the types of all operations.

**LookFile.**  The states of `lookFunc`: `opened` (the file is empty already), `scanned` (the
first page is there), `draining` (truncated), `ticking` (waiting for the next tick of
`--hang`), `done`, `exited`.  `mode` tells a text file, a text log without `--hang`, JSON
lines and a redirected standard output apart.  Text is buffered and written at once by
`RoundEnds`, JSON lines go out one by one.  `round` is a history variable: what the store held
at some moment of the round, what it held throughout, and whether the scan met the blind
spot.  `findFunc`, `findFromJSONL`, `distributeFunc` and `distributeFromJSONL` are operators
on the store and on the file.  The readers go through `ReadJSONL`: the set of the rows it returns is
empty if it returns an error, as it does for log lines and for text (`IsJSON`), and `JSONKey` is the
key that a row is read back with, as in `WalSummary`.

**Records**, **GlobalStats**, **Summary.**  A key is the sequence of its path segments, a
segment the sequence of its pieces between suffix separators, so that `GroupPrefix` and
`StripLastSegmentSuffix` are operations on sequences.  A missing size is -1, as `KvSize()` and
`ValueSize()` have it.  `source` says where the records come from: online with or without
values, or from a file written with values, without them, or from a snapshot (in any order,
because `SnapshotSource` ranges over a map); `JSONKey` is the key that a record of a file is read
back with, so that two keys of the store may be one in the file.  `ScanKey`, `ReadJSONL` and `Filter` apply prefix
and filter where the code does: online the prefix at the server and the sizes on raw
key-values, offline the prefix on records, and in both cases the sizes on records once more.
`GroupKey` is one iteration of `Summarize`; `SortAndCut` takes any order that the unstable
sort may leave.  `printSummaryText` and `printSummaryJSON` are what the two outputs show of a
row: in the row of others only what adds up, and a dash for what no record has.  `GlobalStats`
has no state of its own: its loop is a fold over the records, and its result a set, one member
per order of the sort.

Each component module defines, next to the definitions they vary, a few operators named
`Bug...`: plausible slips in the code.  No specification uses them; they are substituted
to make sure that each property can fail (`"mutants"` in `PROJECT.json`).

## 3. What the runs check

| Run | Question | Answer |
|---|---|---|
| `scan_mixed` | What does a scan deliver while keys come and go? | ascending keys, each once (`DeliveredAscending`); every key present throughout, less at most one per continuation request whose cursor key was deleted (`MissesBounded`, `CompleteUnlessCursorLost`); the cursor strictly advances (`CursorAdvances`) and the scan ends (`ScanTerminates`). Seen from outside it is a `CursorScan` (`IsCursorScan`). `ScanInv` is the inductive invariant of the proofs |
| `scan_dropped` | Is the dropped leading key always a duplicate? | no (section 7) |
| `report` | Feeder, reporter, refresher and main in any interleaving | `RenderShowsWholeBatches`: `Count`, `Total`, `Smallest`, `Largest`, the sizes and their counts are those of a whole number of batches whenever someone renders; `OverviewAgreesWithReport`: the metas that main reads without the lock are complete and describe the same keys; `CommandEnds`: the command ends and so does its refresher |
| `report_text` | Does the rendering end, and what do its rows say? | the histogram ends because the last bound is the largest size exactly (`RenderingEnds`), and its rows partition the sizes (`RowsPartitionTheSizes`); the percentile table never understates, is non-decreasing and made of occurring sizes (`NeverUnderstates`), and each of its lines is exact unless an earlier line shows the size that it should (`ExactUnlessTaken`) |
| `report_text_readme` | What when one size passes several thresholds? | only the first of them gets it (section 7) |
| `summary` | Do the pipelines, the cut, the two outputs and the Overview agree? | `SourcesAgree`: the same keys are grouped whichever way they come - offline as JSON has them, also where `--prefix` is applied to them - and only a size the source lacks excludes nothing; `RowsAccountForAllKeys`: rows and "others", as printed, add up to the records, text and JSON say the same and percentages are shares of everything; `TopRowsAreTheLargest`, for every order of equal groups; `OverviewAgreesWithSummary`: `distribute` and `summary` add up the same records alike; `VerdictsAreSound`: the verdicts do not depend on the order of a map, and sizes called OK are below 100 KiB for 99 of 100 keys |
| `snapshot` | What is read from a snapshot file? | whatever the history and wherever a compaction stood: each present key once, at its last revision (`CurrentKeyspace`); a damaged row affects its own key only; the counts are those of the whole file and of the dumps (`CountsAreOfTheFile`); the command ends (`LookEnds`) |
| `wal` | What is read from a log that is being written? | the operations of a gapless stretch, from the entry after the start index to at least the end of the log as it was at the opening, restricted as the options say, or nothing at all if `ReadAll` fails, from whatever start (`StreamIsStretchOfLog`); the command ends (`CommandEnds`). If the member stands still meanwhile, the opening succeeds and the scope is right (`QuietOpenSucceeds`, `QuietScopeIsTrue`) |
| `wal_scope` | Is the printed scope what was read? | not if the member cuts a segment in between (section 7) |
| `wal_ops` | What do the counts of `wal-summary` mean? | without nested transactions they lie between the writes that were applied and those that were written down (`CountsBracketWrites`); a filter keeps or drops a transaction as a whole and an interruption cuts the last only (`TxnsAreWhole`); rows and distribution account for every operation (`RowsAccountForOps`); the cut keeps the busiest keys (`BusiestKeysShown`); a file never says more than the log did, and a whole one says the same (`OfflineAgreesWithDirect`) |
| `wal_undercount` | Is every applied write counted? | not inside a nested transaction (section 7) |
| `files` | What is in the output file of `look`, and what do readers make of it? | once truncated, rows of one round only; complete when it is not empty (text) or when the command is done (JSON lines), also after failures and kills (`FileIsOneRound`); with `--hang` and an interval that ticks, it is again and again what the store is (`FileCatchesUp`); current JSON lines answer `find` and `distribute` as the cluster would, and any other output is refused (`FindShowsSameKeys`, `DistributeShowsSameSizes`) |

## 4. Bounds

The bounds are constants whose comment says "bound", given in the `.cfg` files.

* **Scan.**  A handful of keys, page sizes around the number of keys and invalid ones, a
  limit, a prefix, a channel that holds one or two batches, and a few puts and deletes.  A
  page boundary needs two keys; two boundaries, the second after a lost cursor, are the
  most that the properties tell apart, and the proofs remove the bounds for all but
  termination.  Five keys with default pages of three
  give two boundaries; the completeness properties exclude a page size
  of one (`Unlimited`; section 7).
* **Report.**  Streams of up to a few batches with empty and repeated sizes.  A batch of two
  keys is the least that has an intermediate state, two batches the least in which the lock
  is released in between.
* **Report text.**  Small sets of sizes in every order of arrival with three buckets and
  small, middling and dominating counts, and tables of eight sizes that give each threshold
  a size of its own.  The walks only compare neighbours.
* **Summary.**  Every store of up to four of six keys, which lie at three depths, with shared
  suffixes and leases, empty, equal and very large values; two prefixes, three filters, five
  configurations, of which one leaves the depth to its default and one has a sort key that the
  command refuses; two of the keys are one in JSON.  Four keys make four groups, one more than the three that are shown:
  a first and a last group merged, and ties on both sides of the cut.
* **Snapshot.**  Three keys, four revisions, one damaged row, batches of two: the least with a
  put, a delete, a second put and another key, and with a full and a partial batch.  A
  transaction is written only while the file has at most two rows with it (`MaxTxnRows`): its
  two rows of one revision may then be followed by any two revisions.
* **WAL.**  Three entries of two kinds, two cuts, two snapshots, a channel of one; a start
  and an end index that each cut something off.  A log can be read from a middle segment, a
  segment purged and another cut during the call, and a purged copy can lack its snapshots.
* **WAL operations.**  Logs of up to two entries out of thirteen: puts, deletes, flat and nested
  transactions, and one entry of each other form; four keys, two of which are one in JSON.
  Counts are sums over entries, so two entries show how a sum can go wrong; a `wal-look` may
  run, be interrupted and run again before the report.
* **Files.**  Three keys, two of which are one in JSON, with two sizes, two changes by others, ten combinations of flags, any
  number of rounds.  Two changes are the least with which a page boundary loses its cursor
  and another key still changes in the same round.

## 5. Fairness

Safety runs assume none.  For the liveness properties:

* the goroutines of the program are scheduled (weak fairness of each goroutine's steps): the
  Go runtime preempts, and no goroutine of this program spins without yielding;
* in `ScanData` a request is answered or fails: `EtcdGet` runs under `context.WithTimeout`
  (`etcd_op.go:23-28`; `--command-timeout`, five seconds unless set, `root_cmd.go:59`), so that one
  without an answer becomes `RequestFails`.  That action ends the process and is no part of the
  fairness condition: the scan must end also if every request is answered;
* in `Report` the reporter and the refresher compete for the `RWMutex`.  Go's implementation
  does not let a waiting writer be overtaken for ever, hence strong fairness for the two;
* in `LookFile` the command's own steps are fair, and so is a last page: that a scan comes to
  its end is the result of `ScanData`, and here an assumption.  Failures and kills are not
  fair, and the other clients are bounded, so "again and again" is about a store that comes to
  rest;
* the other clients, the member and etcd before the snapshot owe nothing.  `WalSummary` has
  safety properties only: its interruptions are as likely as its steps.

## 6. What is proved

The theorems hold for all values of the constants that satisfy the named assumptions of the
modules; TLC evaluates the assumptions on every run.  With one exception all that they ask for is
what the program guarantees.  The exception is `BucketAssumption`: `--bucket=0` is accepted, and
`histogram` then panics in the division of line 188 (section 7).  The others say: capacities,
page sizes and batch sizes are positive, sizes are natural numbers below 2^31 in `Report`
(`SizesAssumption`: `Smallest` starts there, and a size travels in a message), sizes arrive once
each with a positive count and thresholds are ascending percentages in `ReportText`, an entry of
the log of a given kind decodes to the same, not empty, operations in `WalSource`, in
`WalSummary` a raft request sets one field, a write names a key that is not empty (etcd never
makes a request with two and refuses an empty key) and JSON makes no key empty, stores are finite
functions and keys are read back from JSON as keys in `LookFile`, and in `Summary` stores are
sequences of key-values (sizes and revisions are natural numbers, a stored key has a positive
version and modification revision, its path in JSON is a path) while the bounds, depths and
`--top` of the command line may be any integers.  Key spaces may be infinite where the bounds on
changes do not exclude it.

| Module | Theorem | Statement |
|---|---|---|
| `ScanDataProofs` | `TypeCorrect` | `Spec => []TypeOK` |
| | `Inductive` | `Spec => []ScanInv` |
| | `DeliveryIsAscending` | `Spec => []DeliveredAscending` |
| | `ScanAdvances` | `Spec => CursorAdvances` |
| | `CompleteScan` | `Spec => []CompleteUnlessCursorLost` |
| | `MissesAreBounded` | `Spec => []MissesBounded` |
| | `ScanImplementsCursor` | `Spec /\ Paginates => IsCursorScan` |
| `ReportProofs` | `ReportInductive`, `ReportTypeCorrect` | `Spec => []ReportInv`, `Spec => []TypeOK` |
| | `RendersWholeBatches` | `Spec => []RenderShowsWholeBatches` |
| | `OverviewAgrees` | `Spec => []OverviewAgreesWithReport` |
| `ReportTextProofs` | `TextInductive` | `Spec => []TextInv` |
| | `RowsPartition` | `Spec => []RowsPartitionTheSizes` |
| | `NeverTooSmall` | `Spec => []NeverUnderstates` |
| | `ExactTable` | `Spec => []ExactUnlessTaken` |
| `SnapshotProofs` | `SnapshotInductive`, `SnapshotTypeCorrect` | `Spec => []SnapshotInv`, `Spec => []TypeOK` |
| | `WritesCurrentKeyspace` | `Spec => []CurrentKeyspace` |
| | `WritesCountsOfTheFile` | `Spec => []CountsAreOfTheFile` |
| `WalProofs` | `WalInductive`, `WalTypeCorrect` | `Spec => []WalInv`, `Spec => []TypeOK` |
| | `QuietOpens` | `Spec => []QuietOpenSucceeds` |
| | `StreamsAreStretches` | `Spec => []StreamIsStretchOfLog` |
| | `QuietScopes` | `Spec => []QuietScopeIsTrue` |
| | `SummaryInductive` | `SummarySpec => []SummaryInv` |
| | `CountsAreBracketed` | `SummarySpec => []CountsBracketWrites` |
| | `TransactionsAreWhole` | `SummarySpec => []TxnsAreWhole` |
| | `ReportsAccount` | `SummarySpec => []RowsAccountForOps` |
| | `CutKeepsTheBusiest` | `SummarySpec => []BusiestKeysShown` |
| | `OfflineIsDirect` | `SummarySpec => []OfflineAgreesWithDirect` |
| `LookFileProofs` | `LookInductive`, `LookTypeCorrect` | `Spec => []LookInv`, `Spec => []TypeOK` |
| | `OneRound` | `Spec => []FileIsOneRound` |
| | `GapInductive` | `Spec => [](GapInv /\ ShapeInv)` |
| | `FindAgreesWithFile` | `Spec => []FindShowsSameKeys` |
| | `DistributeAgreesWithFile` | `Spec => []DistributeShowsSameSizes` |
| `SummaryProofs` | `SummaryInductive`, `SummaryTypeCorrect` | `Spec => []SummaryInv`, `Spec => []TypeOK` |
| | `GroupedAsAsked` | `Spec => []SourcesAgree` |
| | `TopRowsAreRight` | `Spec => []TopRowsAreTheLargest` |
| | `RowsAccount` | `Spec => []RowsAccountForAllKeys` |
| | `GroupsCountTheirRecords` | `Spec => [](SummaryInv /\ TallyInv)` |
| | `SameStory` | `Spec => []OverviewAgreesWithSummary` |
| | `VerdictsHold` | `Spec => []VerdictsAreSound` |

`[]TypeOK` in `ReportText` is part of `TextInv` (`TypeInv`).  None of the properties is inductive
as it stands.  Each module strengthens them to an invariant made of named parts, which TLC
checked before it was proved; the proof of inductiveness has one lemma per action.

**ScanData.**  `DeliveredAscending` needs to know that what is queued lies above what was received
and that what is about to be sent lies above what is queued; completeness needs to know where a
key may still be.  `ScanInv` is the conjunction of

* `TypeOK`;
* `Shape`: which values go with which program counter (nothing is sent before the first
  request, a response about to be sent has a second key, a limited scan has no pages);
* `Order`: `received`, every queued batch and the last response are ascending, and each lies
  below the next;
* `Frontier`: nothing that was sent is above the last key of a full response at the head of
  the loop, or above the leading key of a response about to be sent;
* `Coverage`: as long as no cursor was lost, a key that was always present has been sent, is
  about to be sent, or lies above the last key of a full response.

The argument for the interesting step, `NextPage`: the reply starts at or above the last key
of the old response, by the definition of a reply, so by `Frontier` everything sent is at
most its leading key; if the cursor key is still in the store it *is* the leading key, so
that dropping it drops nothing new, and a stable key above the old last key is in the
reply or above a full one.  If it is not in the store, `lost` grows and `Coverage` asks for
nothing any more.

`MissesBounded` counts where `Coverage` only excludes.  Its invariant `LossInv` says that the
stable keys which were passed over and not sent are at most `lost` many: a page adds at most
its leading key to them, and only if the cursor was gone.

The refinement `IsCursorScan` needs `CursorInv`: what the mapping calls emitted has no key above
the cursor, the next page begins behind it, and the key that may be invisible is the one that the
next page drops.  Then `FirstPage` and `NextPage` are steps of the cursor that take what is
sent, a short page is the step that ends it, and everything else stutters or is a put or a
delete of a client.  `Paginates` excludes the one exception, a page size of one without a limit:
the loop then ends after one key (section 7).

**Report.**  `ReportInv` adds to the types: `QueueInv`, which batch of the stream is where, given
the program counters of feeder and reporter; `LockInv`, who may be in a critical section; and
`StatsInv`, the tallies are those of the batches counted so far and of the keys of the batch in
work - exactly so when the lock is free.  Rendering takes the lock, hence whole batches; main
goes on only when the reporter has ended, hence the whole stream.

**ReportText.**  `SortInv` (the sizes ascend after the sort), `HistogramInv` (each bucket has
counted the sizes between its bounds among those already walked over, and the bounds ascend to the
largest size) and `TableInv` (the running total is that of the sizes before the index, a filled
threshold was reached with its size, one that is not filled is still ahead).  `ExactTable` needs one
thing more of the walk: the nearest rank of a threshold for which a size dealt with suffices is
`Shown`, in its own line or an earlier one.  A size that is the nearest rank of the line the walk is
at is given to it, one that suffices for a later line suffices for this one too, and at the end of
the walk the largest size suffices for all.

**SnapshotSource.**  `BucketInv`: rows are in the order of revisions and the last row of a key says
what etcd says of it, also while a compaction removes rows.  `StatsInv`: the map holds for each
key the revisions, tombstones and last readable row among the rows behind the cursor.
`ControlInv` relates program counters, channel and batch.  `DeliveryInv`: every key of the map is
unsent, under way or written, once.  `CurrentKeyspace` is their conjunction at the end.  `CountInv`
adds that the counts of a key are those of its readable rows behind the cursor and travel
unchanged; at the end all rows are behind it, and the dumps, which filter the same rows with
`SelectSeq`, list as many (a lemma counts what a selection keeps).

**WalSource.**  `MemberInv`: segments follow each other and the oldest one that is left begins below
the newest snapshot, because purging keeps one that does.  `SeenInv`: as long as the member has
not moved, what was listed is what is there.  `OpenInv`: what was opened is a run of segments that
begins at or below the start index.  `StreamInv`: received, queued and unsent operations together
are those of a stretch of the log, which grows at its end only.  After a failed `ReadAll`, which may
come from any start, they are none (`ControlInv`).

**WalSummary.**  `LogInv`: each logged entry is one of `Entries` with its index, and what the
member applied is one of its `Outcomes`.  `LookInv` and `FileInv`: the file holds the first lines of
what was collected from the entries that had been read, and what is left to write are the others;
a whole file has them all.  `ReportInv`: a report is one on the log or the file as they are, since
nothing moves after it.  A count is then a sum over the operations, a sum over a log is the sum of
its entries' (`EntryBounds` compares it, entry by entry, with what was applied and what was
written), and a filter or an early end can only lose operations, not add one.  The rows are an
order of one record per key, so that their sums are those of the operations with a key
(`CountRows`, `SizeRows`), and the distribution splits the operations by type
(`DistributionSum`).  For `TxnsAreWhole` the operations of an entry stand together in what was
collected, and `--entry-type` keeps all of them or none, because they all have the type of the
field that is set (`BlockLines`): only the last block of a file can be cut.

**LookFile.**  `OutputInv`: what the file and the buffer will hold are rows of keys the round has
seen, ascending and wanted.  `CoverInv`: a wanted key that did not change during the round is in
the output or ahead of the scan, unless the scan met its blind spot.  `FileInv`: what the file
claims once it was truncated.  The other clients may do anything between any two steps, and a
kill may come anywhere, as the proof has a case for each.  For the readers of the file, `GapInv`
says that the blind spot is met only if a pair did not stay, and `ShapeInv` that rows have a size
exactly without `--keys-only`.  A finished look over a store that stayed the same therefore leaves
one row per pair of the scan, in the order of the keys, and the filters of `find` and `distribute`
select from it what they would select from the store.  For `find` this goes through JSON: matching,
cutting and being a beginning commute with the reading back of keys (`MatchingAsJSON`,
`FirstAsJSON`, `PrefixAsJSON`) for a text that JSON neither puts into a key nor takes out of it
(`SameInJSON`).

**Summary.**  `MetaInv`: the records have the fields of the code, a missing number is -1, and a
source has the sizes of all its records or of none, and likewise the counts of revisions; a record
that is read back differs in its key only (`LineFacts`, `MetaFacts`).  `CollectInv`: what has been collected so far
are the records of the key-values that were passed, with the prefix and, online, within the
bounds; and the command went on only with a sort key and a filter that it accepts.
`GroupInv`: no group is empty, the counts, sizes, leased keys and revisions of all groups sum to
those of the records grouped so far, and the size and revision columns of a group are zero when the
source has none.  `ResultInv`: the rows are the `Cut` of the
groups in an order `Sorted` allows.  `SourcesAgree` then compares three filters: the one the server
and the scan apply key by key, the one on records read back, and `Asked`; they agree because a
record without a size is never rejected, and because `CheckFilterCombination` refused the one
combination in which that would matter online.  `RowsAccountForAllKeys` splits each sum over
the order into the rows that are shown and those merged into `others` (`SumSplit`), and shows
column by column that text and JSON have a number, or a dash and a zero, together.  `TallyInv`, that a
group counts the records that belong to it, gives `SameStory`: the fold of `ComputeGlobalStats`
counts prefixes in the same way, and two descending orders of the same counts have the same values at
the top.  `VerdictsHold` follows the walk of `percentiles` over the sorted sizes: the row it fills for
99 percent is a size that at least 99 of 100 keys do not exceed.

**Lemmas.**  `SequenceLemmas` states what the proofs share: how concatenations, sums over
sequences (`FoldLeft`) and over functions, largest and least elements, and removals behave.
The provers cannot use the library's induction theorems; induction is done by `SetInduction`, on
the set of numbers for which a statement fails: it has a least element.

Only model-checked: the properties under fairness - `ScanTerminates`, `CommandEnds` of `Report` and
of `WalSource`, `RenderingEnds`, `LookEnds`, `FileCatchesUp`.  Liveness and `ENABLED` are out of reach
of the proof system.  So is what a recursive definition computes in general, which no theorem here
needs: the folds are treated step by step, and library operators such as `SelectSeq` and
`SetToSortSeq` by what their values satisfy.  That the instance of `WalSource` which TLC checks has
the operations of `WalDecode` is an assumption of `MCWalSource` that TLC evaluates; the
theorems about `WalSource` hold whatever the operations are.

## 7. Where code and documents disagree

The first four are runs that must find their property violated.

* `scan_dropped` / `DroppedKeyIsDuplicate`: the comment above `ScanData`
  (`data_source.go:112-114`) calls the key dropped from each further page a duplicate.  If
  the last key of a page is deleted before the next request, the reply starts with a key that
  was never sent, and it is dropped (line 190).  `MissesBounded` says how much that costs.
* `report_text_readme` / `CommonValueFillsTheTable`: after a size has been given one threshold
  the loop turns to the next size, so a size that passes several thresholds gets only the
  first.  The example in `src/README.md:105-110` shows the table one would expect.
* `wal_scope` / `ScopeIsTrue`: `WalScope` "describes what WalSource actually read"
  (`wal_source.go:53`), but is computed from a listing made before the log is opened.
* `wal_undercount` / `NoUndercounting`: `docs/etcd-analysis-key-commands.md:320` promises "no
  undercounting"; `decodeTxnOps` has no case for a nested transaction, whose writes are
  counted nowhere.

Others were met while the modules were written.  They are in the modules, as the code has
them, and have no run of their own.

* Scan.  `WithPageSize` accepts every positive number, but with `--page-size=1` the second reply
  holds only the repeated key and the scan ends at `data_source.go:187` after one key, without
  an error, although lines 111-112 say that the keyspace is read.  `Unlimited` therefore
  asks for larger pages.
* Report.  `--bucket=0` makes `histogram` divide by zero (`report.go:188`), which the JSON rows
  guard against (line 322).  Row `i` of the JSON histogram combines `counts[i]`, the sizes up to `buckets[i]`, with
  `bucket_start = buckets[i]`; the last count has no row (`report.go:352`, `278-282`).
* Log.  A snapshot that is saved between the listing of snapshots and the loading is the start of
  the read while `SnapUsed` is empty, which the field's documentation explains as "no snapshot
  found".  Without a snapshot the start index is the first index of the oldest segment, which
  `ReadAll` excludes, so that the oldest entry on disk is not read although the comments say
  "reads every segment" and "read everything" (`wal_source.go:240-242`, `263-264`) and the help that
  "every available WAL segment is read from the oldest" (`wal_look_cmd.go:56-57`).
  `StreamIsStretchOfLog` states it as the code has it.  The comment that other read errors "abort
  the stream" (`wal_source.go:246`) is right, but nobody is told: the error is dropped (lines
  322-324), so that `wal-summary` of a damaged log looks like that of an empty one.
* Log operations.  The printed note that the operations of transactions "are already counted in
  IRRPut/IRRDeleteRange" (`wal_summary_cmd.go:111`, `docs/...:349`) does not fit the type
  `IRRTxn` that `decodeTxnOps` gives them; `--entry-type=IRRPut` therefore leaves out the puts of
  transactions.  The number of unique keys is taken after the cut to `--top`.  Both branches
  of a transaction are counted, so a count is an estimate: `CountsBracketWrites` says of what.
* Summary.  `docs/...:28` and the help of the flag (`summary_cmd.go:79`) say that `--prefix` is for
  the online mode only; the code applies it offline as well (`summary_cmd.go:160-171`,
  `meta.go:119-122`), to the keys as JSON has them, and `SourcesAgree` follows the code.
  `docs/...:177-178` uses `--min-mod-revision` with `--sort=count` to find the "most-modified prefixes
  after a point", but the bounds gate `created-count` and `modified-count` only
  (`summary.go:135-139`), so that the command ranks by all keys.
* Files.  `docs/...:141-149` says that what `look` writes as a log or as text cannot be read by the
  offline commands; the code agrees by failing at the first line (`meta.go:155-156`), except that
  the log of a look that found nothing is an empty file, which is read as no keys.  The limit of `find` goes to the server before keys are matched, so the online answer
  may be shorter than the offline one.  `distribute --input` never applies `--prefix`
  (`distribute_cmd.go:168-170`), although the comment at `meta.go:119-122` counts it among the
  commands that do.  The text of an offline `distribute` says that sizes are unavailable where
  its JSON prints zeros.  A redirected standard output is truncated like an output file, also
  after `>>` (`look_cmd.go:228`).  An interval that is not positive makes `--hang` wait for ever.
* Dump.  A bucket that does not exist is an error whose result is discarded
  (`snapshot_source.go:156`): no rows and a total of zero.

## 8. Abstractions, and what is not modelled

* Sizes stand for keys in `Report`; values, leases and versions of keys occur in `Summary`.
* `ScanData`: `WithKeysOnly` and the page sleep change neither the keys nor the order and are
  left out.  The caller's loop is the loop every command has; what it does with a key is
  not part of this module.
* `Report`: rendering is atomic under the lock; the 100 ms sleeps order nothing.  `JSON` sorts the
  sizes without the lock (`report.go:295`) and is atomic here too: it is called after `Run`, and the
  refresher, which alone could still render then, is never combined with JSON by a command.
* `SnapshotSource`: `--filter` is a set of rejected revisions.  `ListBuckets` shows names and is
  left out.  The two loops of the command, for text and for JSONL, differ in layout only.
* `WalSource`: the decoding of an entry is a constant (`OpsOf`).  Left out: file names, times
  in the scope, purging of snapshot files, the overwriting of uncommitted entries by a later
  term, and what the library does to files it cannot read.  The log record of a snapshot is
  taken to be there once the file is complete; why `ReadAll` fails is left open, as it may at any
  time.  `snap.Load()` renames a snapshot file that it cannot read (to `.broken`), although
  `docs/...:268` calls the commands read-only; snapshot files are whole here.
* `Records`, `Summary`: a line of a file is the record it encodes, with the key as it is read back;
  `ReadFails` is a broken one.
  The suffix separator is either off or a single one.  Four of the eleven sort keys occur in
  the run, and one that does not exist.  The store does not change during a scan here; `ScanData`
  has the scan of a changing one.
* `GlobalStats`: percentages are compared as products of integers, where the code divides and
  adds floating-point numbers; a sum of three quotients that is 90 exactly may be rounded to
  either side.  `SizeBasis`, the detail strings and `HasRevCount` select only what is printed.
* A channel send in a process that is being killed and lack of memory are not modelled.
* `WalDecode`: the five requests about users stand as one field, and the four about roles.
  A `Normal` entry that cannot be unmarshalled is one of the forms.  Value previews are left out.
* `WalSummary`: a line of the file is written as a whole; a reader that meets half a line
  exits with an error, which adds nothing to the reports.  The commands are started without an
  index range; that is in `WalSource`.
* `LookFile`: every key is one byte long.  The single write of a buffered text is atomic, as is a
  line of JSON.  Two looks on one file at the same time are not modelled.

Not modelled:

* `rename`, `clear`: the command tree does not register them (`root_cmd.go:64-68`), so no execution
  of the program reaches their code.
* `leader`: a list of the members and the first answer to a status request, printed.  It keeps no
  state, and there is nothing to compare the answer with.
* Value codecs, number formatting, configuration, the flag parser and `main`: conversions without
  state or order of their own.  `dump list-bucket` and the printing of `dump wal` likewise.
* The layout of all text: columns, colours, bars, units.

## 9. Plan

Done, most important first: the online scan, its abstraction and its proofs; the concurrent
report and what it renders; the snapshot file and the dumps; the log, its operations and their
file; the summary, its two outputs and the Overview; `look`, `find` and `distribute` with the
files they share; the proofs of every safety property that a passing run checks.

Open, and why: the liveness properties stay with TLC.  A composition of `WalSource` and
`WalSummary` in one state space, with a purging member and a file at once, would show little that
the two do not: `WalSummary` holds for any log that was read, and `WalSource` says which one it is.
`rename` and `clear` would be worth a module of their own once the command tree registers them.
