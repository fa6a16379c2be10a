------------------------------ MODULE LookFile ------------------------------
(***************************************************************************)
(* The output file of `look` (src/cmd/look_cmd.go), and the commands that  *)
(* read such a file instead of the cluster: `find --input`                 *)
(* (src/cmd/find_cmd.go) and `distribute --input`                          *)
(* (src/cmd/distribute_cmd.go).                                            *)
(*                                                                         *)
(* One look runs beside the other clients of the cluster; with --hang it   *)
(* scans again and again and rewrites the file each time.  Its scan is the *)
(* cursor of CursorScan, which ScanData is shown to implement: a page is   *)
(* some of the next keys.  Any page request may fail, which ends the       *)
(* process, and the process may be killed at any moment; whoever reads the *)
(* file reads it as it then is.                                            *)
(*                                                                         *)
(* Only JSON lines can be read back, and in them bytes of a key that are   *)
(* not UTF-8 have been replaced: a key may be read back as another one.    *)
(*                                                                         *)
(* The store maps each present key to the size of its value.               *)
(***************************************************************************)
EXTENDS Records

CONSTANTS
  Key,        \* the keys, numbered in etcd's byte order
  JSONKey,    \* the key that is read back for a key that was written as JSON
  Size,       \* the sizes of values
  Stores,     \* the stores at the beginning
  Configs,    \* the flags: [mode, keysOnly, showValue, filter, hang, interval, from, to]
  MatchArgs,  \* values of find --match-key: the keys, stored or read back, that contain it
  LimitArgs,  \* values of find --limit (any integer)
  MaxChanges  \* bound: puts and deletes of the other clients

ASSUME LookFileAssumption ==
  /\ Key \subseteq Nat /\ Size \subseteq Nat /\ 0 \notin Key
  /\ JSONKey \in [Key -> Nat]
  /\ LimitArgs \subseteq Int /\ MaxChanges \in Nat
  /\ \A s \in Stores :
       /\ IsFiniteSet(DOMAIN s) /\ DOMAIN s \subseteq Key
       /\ \A k \in DOMAIN s : s[k] \in Size

VARIABLES
  store,      \* the key space
  cfg,        \* the flags of this look
  pc,         \* where lookFunc is
  scanned,    \* the keys received in this round, in order
  ended,      \* whether the scan of this round has no more pages
  pending,    \* the rows not yet written: the buffer, or the lines to come
  file,       \* the rows that the lines of the file were made from
  round,      \* history: of the last round begun, see BeginRound
  changes

scanVars == <<scanned, ended>>
vars == <<store, cfg, pc, scanVars, pending, file, round, changes>>

Cursor == INSTANCE CursorScan WITH
  store <- DOMAIN store,
  first <- cfg.from, last <- cfg.to, quota <- 0,
  emitted <- scanned, ended <- ended

----------------------------------------------------------------------------
(* The rows.                                                                *)

KV(k) == [keySize |-> 1, valueSize |-> store[k]]
filterReject(k) == Reject(cfg.filter, KV(k))
Row(k) == [Key |-> k, ValueSizeBytes |-> IF cfg.keysOnly THEN absent ELSE store[k]]

Rows(keys) ==
  FlattenSeq([i \in DOMAIN keys |-> IF filterReject(keys[i]) THEN <<>> ELSE <<Row(keys[i])>>])

Pairs == {<<k, store[k]>> : k \in DOMAIN store}
InScan(k) == cfg.from <= k /\ k <= cfg.to

LeftOver == <<[Key |-> 0, ValueSizeBytes |-> 0]>>   \* the file of an earlier look

Init ==
  /\ store \in Stores /\ cfg \in Configs
  /\ pc = "start"
  /\ scanned = <<>> /\ ended = FALSE
  /\ pending = <<>>
  /\ file = LeftOver
  /\ round = [seen |-> {}, unchanged |-> {}, gap |-> FALSE, truncated |-> FALSE]
  /\ changes = 0

----------------------------------------------------------------------------
(* lookFunc.                                                                *)

validateLookFlags ==
  /\ CheckFilterCombination(cfg.keysOnly, cfg.filter)
  /\ ~(cfg.keysOnly /\ cfg.showValue)

FlagsRejected ==
  /\ pc = "start" /\ ~validateLookFlags
  /\ pc' = "exited"
  /\ UNCHANGED <<store, cfg, scanVars, pending, file, round, changes>>

(* The file is opened, and emptied, before there is a connection.  The      *)
(* standard output, redirected to the file, is open already.                *)
GetFileWriter ==
  /\ pc = "start" /\ validateLookFlags
  /\ file' = IF cfg.mode = "stdout" THEN file ELSE <<>>
  /\ pc' = "opened"
  /\ UNCHANGED <<store, cfg, scanVars, pending, round, changes>>

(* time.Tick of an interval that is not positive is a nil channel, which    *)
(* never delivers.                                                          *)
Ticks == cfg.interval > 0

(* ScanData returns once it has the first page; only then does appendBuffer *)
(* truncate the file.                                                       *)
BeginRound ==
  /\ pc = "opened" \/ (pc = "ticking" /\ Ticks)
  /\ UNCHANGED <<store, cfg, file, changes>>
  /\ Cursor!Take
  /\ pending' = Rows(scanned')
  /\ pc' = "scanned"
  /\ round' = [seen |-> Pairs, unchanged |-> Pairs, gap |-> FALSE, truncated |-> FALSE]

(* Faulty variants: the file is not truncated; --hang is ignored.           *)
BugTruncated == file
BugAfterRound == "done"

Truncated == <<>>

Truncate ==
  /\ pc = "scanned"
  /\ file' = Truncated
  /\ round' = [round EXCEPT !.truncated = TRUE]
  /\ pc' = "draining"
  /\ UNCHANGED <<store, cfg, scanVars, pending, changes>>

(* The rows that are not written yet are the buffer of the text formats, or *)
(* what has been received and not yet printed as JSON lines.                *)
NextPage ==
  /\ pc = "draining"
  /\ UNCHANGED <<store, cfg, pc, file, changes>>
  /\ Cursor!Take
  /\ pending' = pending \o Rows(SubSeq(scanned', Len(scanned) + 1, Len(scanned')))
  /\ round' = [round EXCEPT !.gap = @ \/ Cursor!CursorGone]

WriteLine ==
  /\ pc = "draining" /\ cfg.mode = "jsonl" /\ pending # <<>>
  /\ file' = Append(file, Head(pending))
  /\ pending' = Tail(pending)
  /\ UNCHANGED <<store, cfg, pc, scanVars, round, changes>>

AfterRound == IF cfg.hang /\ cfg.mode = "file" THEN "ticking" ELSE "done"

(* The end of appendBuffer: what was buffered is written at once, from the  *)
(* offset the file was rewound to.                                          *)
RoundEnds ==
  /\ pc = "draining" /\ ended
  /\ cfg.mode = "jsonl" => pending = <<>>
  /\ file' = file \o pending
  /\ pending' = <<>>
  /\ scanned' = <<>> /\ ended' = FALSE
  /\ pc' = AfterRound
  /\ UNCHANGED <<store, cfg, round, changes>>

(* A request that fails, the connection included, ends the process.         *)
RequestFails ==
  /\ pc = "opened" \/ (pc = "ticking" /\ Ticks) \/ (pc \in {"scanned", "draining"} /\ ~ended)
  /\ pc' = "exited"
  /\ UNCHANGED <<store, cfg, scanVars, pending, file, round, changes>>

Killed ==
  /\ pc \notin {"done", "exited"}
  /\ pc' = "exited"
  /\ UNCHANGED <<store, cfg, scanVars, pending, file, round, changes>>

(* The other clients.                                                       *)
Change(new) ==
  /\ changes < MaxChanges
  /\ store' = new
  /\ LET pairs == {<<k, new[k]>> : k \in DOMAIN new} IN
       round' = [round EXCEPT !.seen = @ \union pairs, !.unchanged = @ \intersect pairs]
  /\ changes' = changes + 1
  /\ UNCHANGED <<cfg, pc, scanVars, pending, file>>

Put(k, size) ==
  /\ k \in DOMAIN store => store[k] # size
  /\ Change([j \in DOMAIN store \union {k} |-> IF j = k THEN size ELSE store[j]])

Delete(k) == k \in DOMAIN store /\ Change([j \in DOMAIN store \ {k} |-> store[j]])

LookStep == FlagsRejected \/ GetFileWriter \/ BeginRound \/ Truncate \/ WriteLine \/ RoundEnds
Fault == RequestFails \/ Killed
Clients == \E k \in Key : Delete(k) \/ \E size \in Size : Put(k, size)
Waiting == pc \in {"done", "exited", "ticking"} /\ UNCHANGED vars

Next == LookStep \/ NextPage \/ Fault \/ Clients \/ Waiting

(* The goroutines are scheduled, requests are answered or fail, and a scan  *)
(* that goes on comes to its last page (module ScanData).                   *)
Spec == Init /\ [][Next]_vars
LastPage == NextPage /\ ended'
FairSpec == Spec /\ WF_vars(LookStep) /\ WF_vars(LastPage)

----------------------------------------------------------------------------
(* The commands that read the file, and what they would show online.        *)

(* core.ReadJSONL on the file of a finished look, as the set of what it may *)
(* return: nothing if it returns an error.  A log line is not JSON, and the *)
(* tables begin with a header, also when they have no rows.                 *)
IsJSON == cfg.mode = "jsonl" \/ (cfg.mode = "log" /\ file = <<>>)

Unmarshal(row) == [row EXCEPT !.Key = JSONKey[@]]

ReadJSONL == {rows \in {[i \in DOMAIN file |-> Unmarshal(file[i])]} : IsJSON}

Keys(rows) == [i \in DOMAIN rows |-> rows[i].Key]

(* The keys that --match-key lets pass.                                     *)
Matching(keys, match) ==
  FlattenSeq([i \in 1..Len(keys) |-> IF keys[i] \in match THEN <<keys[i]>> ELSE <<>>])

(* Faulty variants: the offline loop counts the keys it passes over; a size *)
(* that is not known passes for zero.                                       *)
BugFindFromJSONL(match, limit) ==
  {Matching(SubSeq(Keys(rows), 1, Min({limit + 1, Len(rows)})), match) : rows \in ReadJSONL}
BugSizeAvailable(type, rows) == TRUE

FirstOf(s, n) == SubSeq(s, 1, Larger(0, Min({n, Len(s)})))

(* An error ends the command before it has shown anything.                  *)
findFromJSONL(match, limit) ==
  {FirstOf(Matching(Keys(rows), match), limit) : rows \in ReadJSONL}

(* The server cuts the reply at the limit before the keys are matched; a    *)
(* limit that is not positive is not sent, and then nothing is shown.       *)
appendBufferForFind(reply, match, limit) ==
  FirstOf(Matching(reply, match), limit)

(* The server replies in the order of the keys.                             *)
KeysInOrder ==
  CHOOSE s \in SetToSeqs({k \in DOMAIN store : InScan(k)}) :
    \A i, j \in 1..Len(s) : i < j => s[i] < s[j]

findFunc(match, limit) ==
  appendBufferForFind(IF limit > 0 THEN FirstOf(KeysInOrder, limit) ELSE KeysInOrder, match, limit)

metaSizeOf(type, row) ==
  CASE type = "value" -> Larger(row.ValueSizeBytes, 0)
    [] type = "kv" -> IF row.ValueSizeBytes = absent THEN 0 ELSE row.ValueSizeBytes + 1
    [] OTHER -> 1

sizeAvailable(type, rows) ==
  \E i \in DOMAIN rows : type = "key" \/ rows[i].ValueSizeBytes # absent

(* The sizes in the text report, none if it says that they are unavailable; *)
(* and here too an error is the end.                                        *)
distributeFromJSONL(type) ==
  { IF sizeAvailable(type, rows) THEN [i \in DOMAIN rows |-> metaSizeOf(type, rows[i])] ELSE <<>>
    : rows \in ReadJSONL }

sizeOf(type, k) ==
  CASE type = "value" -> store[k]
    [] type = "kv" -> store[k] + 1
    [] OTHER -> 1

distributeFunc(type) ==
  LET all == KeysInOrder IN [i \in 1..Len(all) |-> sizeOf(type, all[i])]

----------------------------------------------------------------------------
TypeOK ==
  /\ DOMAIN store \subseteq Key /\ \A k \in DOMAIN store : store[k] \in Size
  /\ cfg \in Configs
  /\ pc \in {"start", "opened", "scanned", "draining", "ticking", "done", "exited"}
  /\ scanned \in Seq(Key)
  /\ changes \in 0..MaxChanges

(* The file never mixes rounds, or rows of a round with what the store was  *)
(* before it: keys ascend, and each has a value it had since the round's    *)
(* first page was requested.                                                *)
RowsAreOfTheRound ==
  /\ \A i, j \in DOMAIN file : i < j => file[i].Key < file[j].Key
  /\ \A i \in DOMAIN file : \E p \in round.seen :
       /\ p[1] = file[i].Key /\ InScan(p[1])
       /\ file[i].ValueSizeBytes \in {p[2], absent}
       /\ ~Reject(cfg.filter, [keySize |-> 1, valueSize |-> p[2]])

Complete ==
  \A p \in round.unchanged :
    InScan(p[1]) /\ ~Reject(cfg.filter, [keySize |-> 1, valueSize |-> p[2]])
      => \E i \in DOMAIN file : file[i].Key = p[1]

(* Once truncated, the file holds rows of the present round only.  A text   *)
(* file is empty or holds every key that did not change during the round,   *)
(* also after a failed request or a kill; a JSONL file does when the        *)
(* command is done, and before that it is the beginning of it.  A page that *)
(* began at a key just deleted is the exception (ScanData).                 *)
FileIsOneRound ==
  round.truncated =>
    /\ RowsAreOfTheRound
    /\ pc = "done" \/ (cfg.mode # "jsonl" /\ file # <<>>) => round.gap \/ Complete

(* The file of a finished look over a store that has not changed since.     *)
FileIsCurrent ==
  /\ pc = "done" /\ cfg.filter.Attribute = "none"
  /\ round.seen = Pairs /\ round.unchanged = Pairs

(* On such a file of JSON lines `find --input` shows the keys that `find`   *)
(* shows, as JSON has them, and then perhaps more: online the limit also    *)
(* counts keys that do not match.  The text to match is one that JSON does  *)
(* not put into a key or take out of it.  From any other file, which it was *)
(* not made for, the command shows no key.                                  *)
AsJSON(keys) == [i \in 1..Len(keys) |-> JSONKey[keys[i]]]
SameInJSON(match) == \A k \in Key : k \in match <=> JSONKey[k] \in match

FindShowsSameKeys ==
  FileIsCurrent =>
    \A match \in MatchArgs, limit \in LimitArgs :
      LET online == AsJSON(findFunc(match, limit))
          answers == findFromJSONL(match, limit)
      IN  IF cfg.mode # "jsonl" THEN answers \subseteq {<<>>}
          ELSE SameInJSON(match) =>
                 \E offline \in answers :
                   /\ answers = {offline}
                   /\ IsPrefix(online, offline)
                   /\ Key \subseteq match => online = offline

(* And `distribute --input` counts the sizes that `distribute` counts; or,  *)
(* where the file has no such sizes, says so instead of counting zeros.     *)
(* From any other file it counts nothing.                                   *)
DistributeShowsSameSizes ==
  FileIsCurrent =>
    \A type \in {"key", "value", "kv"} :
      IF cfg.mode # "jsonl" THEN distributeFromJSONL(type) \subseteq {<<>>}
      ELSE distributeFromJSONL(type) =
             {IF cfg.keysOnly /\ type # "key" THEN <<>> ELSE distributeFunc(type)}

(* With --hang and a positive interval the file is, again and again, what   *)
(* the store is, once the other clients are quiet; unless the process has   *)
(* ended.  Any other look ends.                                             *)
FileIsStore == file = Rows(KeysInOrder)

Refreshing == cfg.hang /\ cfg.mode = "file"

FileCatchesUp ==
  []<>(\/ pc = "exited"
       \/ pc = "done" /\ ~Refreshing
       \/ pc = "ticking" /\ Refreshing /\ (Ticks => FileIsStore))
=============================================================================
