------------------------------- MODULE Report -------------------------------
(***************************************************************************)
(* The streaming size report of `distribute`: core.report                  *)
(* (src/core/report.go) together with the goroutine and the main loop of   *)
(* distributeFunc (src/cmd/distribute_cmd.go) that drive it.               *)
(*                                                                         *)
(*   datac --feeder--> results --processResults--> stats --> String/JSON   *)
(*             \------> metas  ----------------------------> Overview      *)
(*                                                                         *)
(* Four goroutines run: the feeder, the reporter started by Run, the       *)
(* optional refresher started by DynamicOutput, and main, which waits for  *)
(* Run's channel.  A key is represented by its size; a batch is a sequence *)
(* of sizes, as ScanData delivers them.                                    *)
(***************************************************************************)
EXTENDS Integers, Sequences, FiniteSets, SequencesExt

CONSTANTS
  Inputs,   \* the streams of batches that may arrive on datac
  Modes     \* records [json, silent, dynamic] of BOOLEANs: the report's options

ASSUME InputsAssumption == Inputs \subseteq Seq(Seq(Nat))
ASSUME ModesAssumption ==
  Modes \subseteq [json : BOOLEAN, silent : BOOLEAN, dynamic : BOOLEAN]

VARIABLES
  input,        \* history: the whole stream
  mode,         \* the options given to NewReport, and whether DynamicOutput is called
  datac,        \* the batches not yet received by the feeder
  feeder,       \* where the feeder is
  data,         \* the batch the feeder holds
  metas,        \* what the feeder collected for ComputeGlobalStats
  results,      \* "open" or "closed": the unbuffered channel of the report
  reporter,     \* where the goroutine of Run is
  res,          \* the batch processResult works on
  next,         \* index of the next key of res
  stats,        \* the scalar fields of Stats
  sizes,        \* the slice of distinct sizes
  sizeToCount,  \* how often each size occurred
  countLock,    \* which goroutine holds countLock exclusively
  processOver,
  refresher,    \* where the goroutine of DynamicOutput is
  main          \* where main is

feederVars == <<datac, feeder, data, metas>>
statsVars == <<stats, sizes, sizeToCount>>
reporterVars == <<results, reporter, res, next, processOver>>
vars == <<input, mode, feederVars, statsVars, reporterVars, countLock, refresher, main>>

MaxInt32 == 2147483647

(* No size exceeds the value Smallest starts with: a page of etcd arrives   *)
(* in one message and a pair of a snapshot is one value of its database,    *)
(* and both are shorter than 2^31 bytes.                                    *)
ASSUME SizesAssumption ==
  \A s \in Inputs : \A b \in DOMAIN s : \A i \in DOMAIN s[b] : s[b][i] <= MaxInt32

NoSizes == [s \in {} |-> 0]

----------------------------------------------------------------------------
(* NewReport, then the start of the feeder and of Run by main.              *)
Init ==
  /\ input \in Inputs
  /\ mode \in Modes
  /\ datac = input
  /\ feeder = "receive" /\ data = <<>> /\ metas = <<>>
  /\ results = "open"
  /\ reporter = "idle" /\ res = <<>> /\ next = 1
  /\ stats = [Count |-> 0, Total |-> 0, Smallest |-> MaxInt32, Largest |-> -1, Average |-> 0]
  /\ sizes = <<>> /\ sizeToCount = NoSizes
  /\ countLock = "free"
  /\ processOver = FALSE
  /\ refresher = IF mode.dynamic THEN "check" ELSE "off"
  /\ main = "run"

----------------------------------------------------------------------------
(* Faulty variants, as a slip in the code would leave them: the channel is  *)
(* not closed, the next batch starts at the old index, the statistics are   *)
(* read without the lock, the refresher never looks at processOver, main    *)
(* does not wait for Run's channel.                                         *)

BugResultsAfterLoop == "open"

BugHandOver ==
  /\ feeder = "send" /\ reporter = "range"
  /\ res' = data /\ next' = next
  /\ feeder' = "record"
  /\ reporter' = IF data = <<>> THEN "range" ELSE "lock"
  /\ UNCHANGED <<input, mode, datac, data, metas, statsVars, results, processOver,
                 countLock, refresher, main>>

BugLockFree == TRUE
BugSeesEnd == FALSE
BugRunFinished == reporter # "idle"

----------------------------------------------------------------------------
(* The feeder: for data := range datac { c1 <- data; metas = append(...) }, *)
(* then close(c1).                                                          *)

ResultsAfterLoop == "closed"

FeederReceive ==
  /\ feeder = "receive"
  /\ IF datac = <<>>
       THEN /\ feeder' = "closed" /\ results' = ResultsAfterLoop
            /\ UNCHANGED <<datac, data>>
       ELSE /\ data' = Head(datac) /\ datac' = Tail(datac)
            /\ feeder' = "send"
            /\ UNCHANGED results
  /\ UNCHANGED <<input, mode, metas, statsVars, reporter, res, next, processOver,
                 countLock, refresher, main>>

(* c1 is unbuffered: the send completes with the reporter's receive.        *)
HandOver ==
  /\ feeder = "send" /\ reporter = "range"
  /\ res' = data /\ next' = 1
  /\ feeder' = "record"
  /\ reporter' = IF data = <<>> THEN "range" ELSE "lock"
  /\ UNCHANGED <<input, mode, datac, data, metas, statsVars, results, processOver,
                 countLock, refresher, main>>

FeederRecord ==
  /\ feeder = "record"
  /\ metas' = metas \o data
  /\ feeder' = "receive"
  /\ UNCHANGED <<input, mode, datac, data, statsVars, reporterVars, countLock,
                 refresher, main>>

----------------------------------------------------------------------------
(* The goroutine of Run.  processResult works under countLock; the lock is  *)
(* what keeps String() away from the intermediate states below.             *)

LockFree == countLock = "free"

LockStats ==
  /\ reporter = "lock" /\ LockFree
  /\ countLock' = "reporter"
  /\ stats' = [stats EXCEPT !.Count = @ + Len(res)]
  /\ reporter' = "count"
  /\ UNCHANGED <<input, mode, feederVars, sizes, sizeToCount, results, res, next,
                 processOver, refresher, main>>

Smaller(a, b) == IF a < b THEN a ELSE b
Larger(a, b) == IF a > b THEN a ELSE b

CountKey ==
  /\ reporter = "count" /\ next <= Len(res)
  /\ LET s == res[next] IN
       /\ stats' = [stats EXCEPT !.Smallest = Smaller(@, s), !.Largest = Larger(@, s),
                                 !.Total = @ + s]
       /\ sizes' = IF s \in DOMAIN sizeToCount THEN sizes ELSE Append(sizes, s)
       /\ sizeToCount' = [t \in DOMAIN sizeToCount \union {s} |->
                            (IF t \in DOMAIN sizeToCount THEN sizeToCount[t] ELSE 0)
                              + (IF t = s THEN 1 ELSE 0)]
  /\ next' = next + 1
  /\ UNCHANGED <<input, mode, feederVars, results, reporter, res, processOver,
                 countLock, refresher, main>>

UnlockStats ==
  /\ reporter = "count" /\ next > Len(res)
  /\ stats' = [stats EXCEPT !.Average = stats.Total \div stats.Count]
  /\ countLock' = "free"
  /\ reporter' = "range"
  /\ UNCHANGED <<input, mode, feederVars, sizes, sizeToCount, results, res, next,
                 processOver, refresher, main>>

(* What sort.Ints leaves of a slice: its elements in ascending order.       *)
Sorted(s) ==
  {t \in {[i \in DOMAIN s |-> s[p[i]]] : p \in SetToSeqs(DOMAIN s)} :
     \A i, j \in DOMAIN t : i < j => t[i] <= t[j]}

(* The range loop ends when the channel is closed.  The 100 ms sleep that   *)
(* follows in text mode orders nothing and is left out, and so is the       *)
(* writer; finalString's first look at Count is that of the goroutine that  *)
(* writes it.                                                               *)
ProcessingEnds ==
  /\ reporter = "range" /\ results = "closed"
  /\ processOver' = TRUE
  /\ reporter' = IF ~mode.json /\ ~mode.silent /\ stats.Count > 0 THEN "final" ELSE "stop"
  /\ UNCHANGED <<input, mode, feederVars, statsVars, results, res, next, countLock,
                 refresher, main>>

(* finalString prints String() itself when the report is not silent.        *)
FinalString ==
  /\ reporter = "final" /\ LockFree
  /\ countLock' = "reporter"
  /\ sizes' \in Sorted(sizes)
  /\ reporter' = "printing"
  /\ UNCHANGED <<input, mode, feederVars, stats, sizeToCount, results, res, next,
                 processOver, refresher, main>>

FinalPrinted ==
  /\ reporter = "printing"
  /\ countLock' = "free"
  /\ reporter' = "stop"
  /\ UNCHANGED <<input, mode, feederVars, statsVars, results, res, next, processOver,
                 refresher, main>>

(* close(donec).                                                            *)
RunReturns ==
  /\ reporter = "stop"
  /\ reporter' = "done"
  /\ UNCHANGED <<input, mode, feederVars, statsVars, results, res, next, processOver,
                 countLock, refresher, main>>

----------------------------------------------------------------------------
(* The goroutine of DynamicOutput.                                          *)

SeesEnd == processOver

RefresherCheck ==
  /\ refresher = "check"
  /\ refresher' = IF SeesEnd THEN "off" ELSE "count"
  /\ UNCHANGED <<input, mode, feederVars, statsVars, reporterVars, countLock, main>>

(* dynamicString reads Count under RLock, gives the lock back, and only     *)
(* then takes it again in String().                                         *)
RefresherCount ==
  /\ refresher = "count" /\ LockFree
  /\ refresher' = IF stats.Count <= 0 THEN "check" ELSE "string"
  /\ UNCHANGED <<input, mode, feederVars, statsVars, reporterVars, countLock, main>>

RefresherString ==
  /\ refresher = "string" /\ LockFree
  /\ countLock' = "refresher"
  /\ sizes' \in Sorted(sizes)
  /\ refresher' = "rendering"
  /\ UNCHANGED <<input, mode, feederVars, stats, sizeToCount, reporterVars, main>>

RefresherFlush ==
  /\ refresher = "rendering"
  /\ countLock' = "free"
  /\ refresher' = "check"
  /\ UNCHANGED <<input, mode, feederVars, statsVars, reporterVars, main>>

----------------------------------------------------------------------------
(* main: <-r.Run(), ComputeGlobalStats(metas), then the report is printed   *)
(* through String() (text) or JSON().                                       *)

StartRun ==
  /\ main = "run"
  /\ reporter' = "range"
  /\ main' = "wait"
  /\ UNCHANGED <<input, mode, feederVars, statsVars, results, res, next, processOver,
                 countLock, refresher>>

RunFinished == reporter = "done"

RunDone ==
  /\ main = "wait" /\ RunFinished
  /\ main' = "overview"
  /\ UNCHANGED <<input, mode, feederVars, statsVars, reporterVars, countLock, refresher>>

(* JSON() sorts and reads the statistics without the lock: nothing writes   *)
(* them any more.  Without keys there is nothing to sort or to show.        *)
PrintReport ==
  /\ main = "overview"
  /\ IF metas = <<>>
       THEN UNCHANGED <<countLock, sizes>>
       ELSE /\ mode.json \/ LockFree
            /\ countLock' = IF mode.json THEN countLock ELSE "main"
            /\ sizes' \in Sorted(sizes)
  /\ main' = "printing"
  /\ UNCHANGED <<input, mode, feederVars, stats, sizeToCount, reporterVars, refresher>>

MainEnds ==
  /\ main = "printing"
  /\ countLock' = IF countLock = "main" THEN "free" ELSE countLock
  /\ main' = "done"
  /\ UNCHANGED <<input, mode, feederVars, statsVars, reporterVars, refresher>>

Terminated ==
  /\ main = "done"
  /\ UNCHANGED vars

Feeder == FeederReceive \/ FeederRecord
Reporter ==
  \/ LockStats \/ CountKey \/ UnlockStats
  \/ ProcessingEnds \/ FinalString \/ FinalPrinted \/ RunReturns
Refresher == RefresherCheck \/ RefresherCount \/ RefresherString \/ RefresherFlush
Main == StartRun \/ RunDone \/ PrintReport \/ MainEnds

Next == Feeder \/ HandOver \/ Reporter \/ Refresher \/ Main \/ Terminated

Spec == Init /\ [][Next]_vars

(* Every goroutine is scheduled.  Go's RWMutex hands the lock to a waiting  *)
(* writer, so a goroutine that waits for it cannot be overtaken for ever;   *)
(* that is strong fairness for the two loops that compete for it.           *)
Fairness ==
  /\ WF_vars(Feeder) /\ WF_vars(HandOver) /\ WF_vars(Main)
  /\ SF_vars(Reporter) /\ SF_vars(Refresher)

FairSpec == Spec /\ Fairness

----------------------------------------------------------------------------
TypeOK ==
  /\ input \in Inputs /\ mode \in Modes
  /\ datac \in Seq(Seq(Nat)) /\ data \in Seq(Nat) /\ metas \in Seq(Nat)
  /\ feeder \in {"receive", "send", "record", "closed"}
  /\ results \in {"open", "closed"}
  /\ reporter \in {"idle", "range", "lock", "count", "final", "printing", "stop", "done"}
  /\ res \in Seq(Nat) /\ next \in 1..(Len(res) + 1)
  /\ stats \in [Count : Nat, Total : Nat, Smallest : Nat, Largest : Int, Average : Nat]
  /\ sizes \in Seq(Nat)
  /\ DOMAIN sizeToCount \subseteq Nat /\ \A s \in DOMAIN sizeToCount : sizeToCount[s] \in Nat
  /\ countLock \in {"free", "reporter", "refresher", "main"}
  /\ processOver \in BOOLEAN
  /\ refresher \in {"off", "check", "count", "string", "rendering"}
  /\ main \in {"run", "wait", "overview", "printing", "done"}

(* What the statistics of a sequence of sizes are.                          *)
Occurrences(keys, s) == Cardinality({i \in 1..Len(keys) : keys[i] = s})

StatsAreOf(keys) ==
  /\ stats.Count = Len(keys)
  /\ stats.Total = FoldLeft(+, 0, keys)
  /\ keys # <<>> =>
       /\ stats.Smallest = Min(ToSet(keys)) /\ stats.Largest = Max(ToSet(keys))
       /\ stats.Average = stats.Total \div stats.Count
  /\ ToSet(sizes) = ToSet(keys) /\ Len(sizes) = Cardinality(ToSet(keys))
  /\ DOMAIN sizeToCount = ToSet(keys)
  /\ \A s \in ToSet(keys) : sizeToCount[s] = Occurrences(keys, s)

Rendering ==
  \/ refresher = "rendering"
  \/ reporter = "printing"
  \/ main = "printing"

(* Whoever renders the report, a refresh in the middle of the scan          *)
(* included, shows the statistics of a whole number of batches: no counter  *)
(* is ahead of another and no size lies above Largest, so the loop of       *)
(* histogram() ends.                                                        *)
RenderShowsWholeBatches ==
  Rendering => \E b \in 0..Len(input) : StatsAreOf(FlattenSeq(SubSeq(input, 1, b)))

(* Once Run has returned, main uses the metas without taking their lock:    *)
(* they are complete, in scan order, and agree with the size report.        *)
OverviewAgreesWithReport ==
  main \in {"overview", "printing", "done"} =>
    metas = FlattenSeq(input) /\ StatsAreOf(metas)

(* The command ends: no goroutine waits for ever on the channel, the lock   *)
(* or Run's channel; and the refresher, which competes with the reporter    *)
(* for the lock, notices the end of the processing and stops rendering.     *)
CommandEnds ==
  /\ <>(main = "done")
  /\ processOver ~> (refresher = "off")
=============================================================================
