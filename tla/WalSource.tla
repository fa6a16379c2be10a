----------------------------- MODULE WalSource ------------------------------
(***************************************************************************)
(* core.WalSource (src/core/wal_source.go): the operations in the          *)
(* write-ahead log of an etcd member, and the account of what was read     *)
(* (WalScope) that `wal-look` and `wal-summary` print.                     *)
(*                                                                         *)
(* The directory is read in several steps - the segments are listed, then  *)
(* the snapshots, then the newest snapshot is loaded, then the log is      *)
(* opened, then a goroutine reads it - and the documentation offers the    *)
(* command for a running member, which meanwhile appends entries, cuts     *)
(* segments, saves snapshots and purges.  The other case is a copy of      *)
(* member/wal without member/snap; nothing changes a copy.                 *)
(*                                                                         *)
(* A segment is represented by its first index, a snapshot by its index.   *)
(***************************************************************************)
EXTENDS Integers, Sequences, FiniteSets, SequencesExt

CONSTANTS
  Kind,       \* the kinds of log entries
  OpsOf,      \* for each kind, the entry types of the operations it decodes to
  StartArgs,  \* values of --start-index
  EndArgs,    \* values of --end-index
  TypeArgs,   \* values of --entry-type: sets of entry types, {} for no filter
  ChanCap,    \* capacity of the channel c
  MaxIndex,   \* bound: entries appended to the log
  MaxCuts,    \* bound: segments cut
  MaxSnaps    \* bound: snapshots saved

EntryType == UNION {ToSet(OpsOf[k]) : k \in Kind}

ASSUME WalAssumption ==
  /\ OpsOf \in [Kind -> Seq(EntryType) \ {<<>>}]
  /\ StartArgs \subseteq Nat /\ EndArgs \subseteq Nat
  /\ ChanCap \in Nat \ {0}
  /\ MaxIndex \in Nat /\ MaxCuts \in Nat /\ MaxSnaps \in Nat

VARIABLES
  log,       \* the entries of the member's log; entry i has raft index i
  cuts,      \* the first index of every segment ever cut, in order
  oldest,    \* the number of the oldest segment that is still there
  snaps,     \* the snapshots that are complete
  writing,   \* the snapshot file that is being written, or none
  snapDir,   \* FALSE: only member/wal was copied
  cfg,       \* the options
  tool,      \* where WalSource is
  segs,      \* what listWalSegments returned: first indices
  listed,    \* what listSnaps returned
  walsnap,   \* the snapshot to read from: [Index, found]
  scope,     \* SnapUsed, ReadSegments, SkippedSegments
  opened,    \* the numbers <<first, last>> of the opened segments
  unsent,    \* operations the goroutine has yet to send
  c, consumer, received,
  quiet,     \* history: the member has not moved since WalSource began
  atOpen     \* history: the length of the log when it was opened

memberVars == <<log, cuts, oldest, snaps, writing, snapDir>>
scopeVars == <<segs, listed, walsnap, scope>>
readVars == <<opened, unsent, atOpen>>
loopVars == <<c, consumer, received>>
vars == <<memberVars, cfg, tool, scopeVars, readVars, loopVars, quiet>>

none == 0
Newest(S) == IF S = {} THEN none ELSE Max(S)

Init ==
  /\ log = <<>> /\ cuts = <<0>> /\ oldest = 1
  /\ snaps = {} /\ writing = none
  /\ snapDir \in BOOLEAN
  /\ cfg \in [startIndex : StartArgs, endIndex : EndArgs, entryTypes : TypeArgs]
  /\ tool = "start"
  /\ segs = <<>> /\ listed = {} /\ walsnap = [Index |-> none, found |-> FALSE]
  /\ scope = [SnapUsed |-> none, ReadSegments |-> <<>>, SkippedSegments |-> <<>>]
  /\ opened = <<0, 0>> /\ unsent = <<>> /\ atOpen = 0
  /\ c = <<>> /\ consumer = "collecting" /\ received = <<>>
  /\ quiet = TRUE

----------------------------------------------------------------------------
(* The member.                                                              *)

MemberStep ==
  /\ snapDir \/ tool = "start"
  /\ quiet' = (tool = "start")
  /\ UNCHANGED <<snapDir, cfg, tool, scopeVars, readVars, loopVars>>

AppendEntry(k) ==
  /\ Len(log) < MaxIndex
  /\ log' = Append(log, k)
  /\ UNCHANGED <<cuts, oldest, snaps, writing>>
  /\ MemberStep

(* A new segment is cut after an entry; its name holds the next index.      *)
CutSegment ==
  /\ Len(cuts) <= MaxCuts
  /\ Len(log) >= cuts[Len(cuts)] /\ log # <<>>
  /\ cuts' = Append(cuts, Len(log) + 1)
  /\ UNCHANGED <<log, oldest, snaps, writing>>
  /\ MemberStep

(* The file of a snapshot appears under its name before it is complete.     *)
BeginSnap ==
  /\ writing = none /\ Cardinality(snaps) < MaxSnaps
  /\ writing' \in (Newest(snaps) + 1)..Len(log)
  /\ UNCHANGED <<log, cuts, oldest, snaps>>
  /\ MemberStep

EndSnap ==
  /\ writing # none
  /\ snaps' = snaps \union {writing} /\ writing' = none
  /\ UNCHANGED <<log, cuts, oldest>>
  /\ MemberStep

(* Purging leaves a segment that begins below the newest snapshot.          *)
Purge ==
  /\ oldest < Len(cuts) /\ cuts[oldest + 1] < Newest(snaps)
  /\ oldest' = oldest + 1
  /\ UNCHANGED <<log, cuts, snaps, writing>>
  /\ MemberStep

----------------------------------------------------------------------------
(* WalSource, before it returns.                                            *)

present == SubSeq(cuts, oldest, Len(cuts))

ListSegments ==
  /\ tool = "start" /\ log # <<>>
  /\ segs' = present
  /\ tool' = "segments"
  /\ UNCHANGED <<memberVars, cfg, listed, walsnap, scope, readVars, loopVars, quiet>>

(* Only the names are read, so an incomplete file is listed too.            *)
ListSnaps ==
  /\ tool = "segments"
  /\ listed' = IF snapDir THEN snaps \union ({writing} \ {none}) ELSE {}
  /\ tool' = "snaps"
  /\ UNCHANGED <<memberVars, cfg, segs, walsnap, scope, readVars, loopVars, quiet>>

(* Faulty variants of the definitions below: no start without a snapshot,   *)
(* the segments split at the wrong one, the end index taken as inclusive, a *)
(* channel that is not closed or has no bound.                              *)
BugOldestIndex == 0
BugReadFrom(i, start) == i = Len(segs) \/ segs[i + 1] >= start
BugSelected(i) == cfg.startIndex <= i /\ i <= cfg.endIndex
BugAfterSending == "sending"
BugHasRoom == TRUE

OldestIndex == segs[1]

(* loadNewestSnapshot skips files it cannot read.                           *)
LoadSnapshot ==
  /\ tool = "snaps"
  /\ walsnap' = IF snapDir /\ snaps # {}
                  THEN [Index |-> Newest(snaps), found |-> TRUE]
                  ELSE [Index |-> OldestIndex, found |-> FALSE]
  /\ tool' = "loaded"
  /\ UNCHANGED <<memberVars, cfg, segs, listed, scope, readVars, loopVars, quiet>>

(* The segments are split at the last one that begins at or below the start *)
(* index (the first one if none does).                                      *)
ReadFrom(i, start) == i = Len(segs) \/ segs[i + 1] > start

FirstRead(start) == Min({i \in 1..Len(segs) : ReadFrom(i, start)})

MakeScope ==
  /\ tool = "loaded"
  /\ LET i == FirstRead(walsnap.Index) IN
       scope' = [SnapUsed |-> IF walsnap.Index \in listed THEN walsnap.Index ELSE none,
                 ReadSegments |-> SubSeq(segs, i, Len(segs)),
                 SkippedSegments |-> SubSeq(segs, 1, i - 1)]
  /\ tool' = "scoped"
  /\ UNCHANGED <<memberVars, cfg, segs, listed, walsnap, readVars, loopVars, quiet>>

(* wal.OpenForRead looks the directory up again, and opens the last segment *)
(* that begins at or below the start index and those after it.              *)
Landing == {n \in oldest..Len(cuts) : cuts[n] <= walsnap.Index}

OpenForRead ==
  /\ tool = "scoped" /\ Landing # {}
  /\ opened' = <<Max(Landing), Len(cuts)>>
  /\ atOpen' = Len(log)
  /\ tool' = "opened"
  /\ UNCHANGED <<memberVars, cfg, scopeVars, unsent, loopVars, quiet>>

OpenFails ==
  /\ tool = "scoped" /\ Landing = {}
  /\ tool' = "failed" /\ consumer' = "exited"
  /\ UNCHANGED <<memberVars, cfg, scopeVars, readVars, c, received, quiet>>

----------------------------------------------------------------------------
(* The goroutine.  ReadAll returns the entries above the start index that   *)
(* the opened files hold by now.                                            *)

firstInFiles == Max({walsnap.Index + 1, cuts[opened[1]]})

lastInFiles ==
  IF opened[2] < Len(cuts) THEN cuts[opened[2] + 1] - 1 ELSE Len(log)

Selected(i) == cfg.startIndex <= i /\ i < cfg.endIndex

Operations(i) == [n \in 1..Len(OpsOf[log[i]]) |-> [RaftIndex |-> i, EntryType |-> OpsOf[log[i]][n]]]

Wanted(op) == cfg.entryTypes = {} \/ op.EntryType \in cfg.entryTypes

(* The operations of an entry that pass a test, in their order.             *)
Kept(ops, Test(_)) ==
  FlattenSeq([n \in 1..Len(ops) |-> IF Test(ops[n]) THEN <<ops[n]>> ELSE <<>>])

Stream(from, to) ==
  FlattenSeq([n \in 1..(to - from) |->
                IF Selected(from + n) THEN Kept(Operations(from + n), Wanted) ELSE <<>>])

ReadAll ==
  /\ tool = "opened"
  /\ unsent' = Stream(firstInFiles - 1, lastInFiles)
  /\ tool' = "sending"
  /\ UNCHANGED <<memberVars, cfg, scopeVars, opened, atOpen, loopVars, quiet>>

(* ReadAll may fail, whatever the start was taken from: a record is damaged *)
(* or a snapshot record has the start index but another term.  The          *)
(* goroutine then closes the channel without a word.  The one error that is *)
(* tolerated, ErrSnapshotNotFound, is ReadAll above.                        *)
ReadFails ==
  /\ tool = "opened"
  /\ tool' = "aborted"
  /\ UNCHANGED <<memberVars, cfg, scopeVars, readVars, loopVars, quiet>>

HasRoom == Len(c) < ChanCap

SendOp ==
  /\ tool = "sending" /\ unsent # <<>>
  /\ HasRoom
  /\ c' = Append(c, Head(unsent)) /\ unsent' = Tail(unsent)
  /\ UNCHANGED <<memberVars, cfg, tool, scopeVars, opened, atOpen, consumer, received, quiet>>

AfterSending == "closed"

EndStream ==
  /\ tool = "sending" /\ unsent = <<>>
  /\ tool' = AfterSending
  /\ UNCHANGED <<memberVars, cfg, scopeVars, readVars, loopVars, quiet>>

----------------------------------------------------------------------------
(* CollectWalOpsWithScope. *)

CollectOp ==
  /\ consumer = "collecting" /\ c # <<>>
  /\ received' = Append(received, Head(c)) /\ c' = Tail(c)
  /\ UNCHANGED <<memberVars, cfg, tool, scopeVars, readVars, consumer, quiet>>

CollectEnds ==
  /\ consumer = "collecting" /\ tool \in {"closed", "aborted"} /\ c = <<>>
  /\ consumer' = "done"
  /\ UNCHANGED <<memberVars, cfg, tool, scopeVars, readVars, c, received, quiet>>

Terminated == consumer # "collecting" /\ UNCHANGED vars

Member == (\E k \in Kind : AppendEntry(k)) \/ CutSegment \/ BeginSnap \/ EndSnap \/ Purge
Setup == ListSnaps \/ LoadSnapshot \/ MakeScope \/ OpenForRead \/ OpenFails
Reader == ReadAll \/ ReadFails \/ SendOp \/ EndStream
Collector == CollectOp \/ CollectEnds

Next == Member \/ ListSegments \/ Setup \/ Reader \/ Collector \/ Terminated

(* The command's goroutines are scheduled; the member may do anything.      *)
Spec == Init /\ [][Next]_vars
FairSpec == Spec /\ WF_vars(Setup) /\ WF_vars(Reader) /\ WF_vars(Collector)

----------------------------------------------------------------------------
Op == [RaftIndex : 1..MaxIndex, EntryType : EntryType]

TypeOK ==
  /\ log \in Seq(Kind) /\ Len(log) <= MaxIndex
  /\ cuts \in Seq(Nat) /\ oldest \in 1..Len(cuts)
  /\ snaps \subseteq 1..Len(log) /\ writing \in 0..Len(log)
  /\ tool \in {"start", "segments", "snaps", "loaded", "scoped", "opened", "sending",
               "closed", "aborted", "failed"}
  /\ segs \in Seq(Nat) /\ listed \subseteq 1..Len(log)
  /\ walsnap \in [Index : 0..Len(log), found : BOOLEAN]
  /\ unsent \in Seq(Op) /\ received \in Seq(Op)
  /\ c \in Seq(Op) /\ Len(c) <= ChanCap
  /\ consumer \in {"collecting", "done", "exited"}

Returned == tool \in {"opened", "sending", "closed", "aborted"}
ReadIsWhatWasOpened == scope.ReadSegments = SubSeq(cuts, opened[1], opened[2])
SkippedIsTheRest == scope.SkippedSegments = SubSeq(cuts, oldest, opened[1] - 1)

(* While the member does not move, the scope that is printed, computed by a *)
(* loop of this program, is what etcd's library opens.                      *)
QuietScopeIsTrue == Returned /\ quiet => ReadIsWhatWasOpened /\ SkippedIsTheRest

(* While the member does not move, the log can be opened: for the newest    *)
(* readable snapshot, and without one, the segment needed is never purged.  *)
QuietOpenSucceeds == tool = "failed" => ~quiet

(* Whatever the member does meanwhile, the operations are those of a        *)
(* gapless stretch of the log, in its order, from the entry after the start *)
(* index to at least the last entry there was when the log was opened, less *)
(* what the options exclude.  The entry with the start index is never among *)
(* them: without a snapshot that is the first one of the oldest segment.    *)
(* If the log cannot be read the channel ends like that of an empty log.    *)
AsAsked(op) ==
  /\ cfg.startIndex <= op.RaftIndex /\ op.RaftIndex < cfg.endIndex
  /\ cfg.entryTypes = {} \/ op.EntryType \in cfg.entryTypes

Stretch(to) ==
  FlattenSeq([n \in 1..(to - walsnap.Index) |-> Kept(Operations(walsnap.Index + n), AsAsked)])

StreamIsStretchOfLog ==
  consumer = "done" =>
    IF tool = "aborted"
      THEN received = <<>>
      ELSE \E to \in atOpen..Len(log) : received = Stretch(to)

(* A call that has listed the segments ends, however much the member        *)
(* appends meanwhile, with the stream read or an error.                     *)
CommandEnds == (tool # "start") ~> (consumer # "collecting")

(* wal_source.go:53: "WalScope describes what WalSource actually read".     *)
ScopeIsTrue == Returned => ReadIsWhatWasOpened
=============================================================================
