-------------------------- MODULE IngestOhlcvDaily --------------------------
(***************************************************************************)
(* The DAG ingest_ohlcv_daily (dags/ingest_ohlcv_daily.py): runs created   *)
(* by the scheduler, by a backfill or by hand, each with the task          *)
(* fetch_ohlcv followed by the task validate_partition, over one raw zone. *)
(*                                                                         *)
(* fetch[r] is the state of r's fetch task: before it runs ("none",        *)
(* "queued": waiting for its first start or for a retry), the line it has  *)
(* reached while it runs, or its final state. check[r] is the same for     *)
(* validate_partition. Python locals of an attempt (waits, asked, frame)   *)
(* are cleared when the attempt ends, as the process and its locals go.    *)
(*                                                                         *)
(* Airflow itself (states, retries, the pool, clearing) and the vendor are *)
(* external: they are modelled from how the DAG file uses them.            *)
(***************************************************************************)
EXTENDS OhlcvFrame

CONSTANTS
  Runs,              \* DAG runs
  Sessions,          \* session dates, a subset of Dates
  SessionOf,         \* data_interval_start.date() of each run
  TickerLists,       \* what the operator may store in the `tickers` Variable
  VendorBodies,      \* what the vendor may answer for each session
  Retries,           \* 3 in default_args
  MaxThrottleWaits,  \* 5 in the code
  MaxClears,         \* bound, per run, on operator clears of its fetch
  NoFile             \* a path with nothing there

ASSUME IngestConstants ==
  /\ Sessions \subseteq Dates
  /\ SessionOf \in [Runs -> Sessions]
  /\ TickerLists \subseteq Seq(Tickers)
  /\ <<>> \in TickerLists
  /\ VendorBodies \in [Sessions -> SUBSET Body]
  /\ Retries \in Nat /\ MaxThrottleWaits \in Nat /\ MaxClears \in [Runs -> Nat]

(* A parquet file: `whole` is false while it is being written. `by` and    *)
(* `asked` are history: the run that wrote it and the ticker list that     *)
(* run's attempt had read.                                                 *)
File == [whole : BOOLEAN, bars : SUBSET Bar, asked : TickerLists, by : Runs]

ASSUME NoFileIsNoFile == NoFile \notin File

VARIABLES
  tickers,      \* the Airflow Variable
  fetch,        \* fetch_ohlcv, per run
  tries,        \* attempts of fetch_ohlcv started, per run
  waits,        \* throttle waits taken by the running attempt
  asked,        \* ticker list the running attempt has read
  frame,        \* df_tick of the running attempt, once through the gates
  check,        \* validate_partition, per run
  checkTries,   \* attempts of validate_partition started, per run
  view,         \* the file the running validate_partition has read
  dirs,         \* sessions whose dt= directory exists
  staging,      \* ohlcv.parquet.tmp, per session
  target,       \* ohlcv.parquet, per session
  interrupted,  \* history: sessions an attempt left with its directory made
  cleared       \* history: how often the operator has cleared a run's fetch

locals == <<waits, asked, frame>>
validation == <<check, checkTries, view>>
disk == <<dirs, staging, target>>
history == <<interrupted, cleared>>
vars == <<tickers, fetch, tries, locals, validation, disk, history>>

(* The points a running fetch attempt can be at, in order.                 *)
Writing == {"open", "write", "replace"}
Running == {"config", "request", "mkdir", "return"} \cup Writing
Finished == {"success", "skipped", "failed"}
FetchStates == {"none", "queued"} \cup Running \cup Finished
CheckFinished == Finished \cup {"upstream_failed"}
CheckStates == {"none", "queued", "reading"} \cup CheckFinished

Statuses == {200, 401, 403, 404, 429, 500}

TypeOK ==
  /\ tickers \in TickerLists
  /\ fetch \in [Runs -> FetchStates]
  /\ tries \in [Runs -> 0 .. Retries + 1]
  /\ waits \in [Runs -> 0 .. MaxThrottleWaits]
  /\ asked \in [Runs -> TickerLists]
  /\ frame \in [Runs -> SUBSET Bar]
  /\ check \in [Runs -> CheckStates]
  /\ checkTries \in [Runs -> 0 .. Retries + 1]
  /\ view \in [Runs -> File \cup {NoFile}]
  /\ dirs \subseteq Sessions
  /\ staging \in [Sessions -> File \cup {NoFile}]
  /\ target \in [Sessions -> File \cup {NoFile}]
  /\ interrupted \subseteq Sessions
  /\ cleared \in [Runs -> Nat] /\ \A r \in Runs : cleared[r] <= MaxClears[r]

Init ==
  /\ tickers \in TickerLists
  /\ fetch = [r \in Runs |-> "none"]
  /\ tries = [r \in Runs |-> 0]
  /\ waits = [r \in Runs |-> 0]
  /\ asked = [r \in Runs |-> <<>>]
  /\ frame = [r \in Runs |-> {}]
  /\ check = [r \in Runs |-> "none"]
  /\ checkTries = [r \in Runs |-> 0]
  /\ view = [r \in Runs |-> NoFile]
  /\ dirs = {}
  /\ staging = [s \in Sessions |-> NoFile]
  /\ target = [s \in Sessions |-> NoFile]
  /\ interrupted = {}
  /\ cleared = [r \in Runs |-> 0]

-----------------------------------------------------------------------------
(* How a fetch attempt moves on and how it ends.                           *)

Goto(r, line) == fetch' = [fetch EXCEPT ![r] = line]

EndAttempt(r, state) ==
  /\ Goto(r, state)
  /\ waits' = [waits EXCEPT ![r] = 0]
  /\ asked' = [asked EXCEPT ![r] = <<>>]
  /\ frame' = [frame EXCEPT ![r] = {}]

(* validate_partition(fetch_ohlcv()): the outcome of fetch decides the     *)
(* state of a validate task that has none yet.                             *)
Downstream(r, state) ==
  check' = IF check[r] = "none" THEN [check EXCEPT ![r] = state] ELSE check

(* AirflowFailException: failed at once, whatever retries are left.        *)
Fail(r) == EndAttempt(r, "failed") /\ Downstream(r, "upstream_failed")

(* AirflowSkipException                                                    *)
Skip(r) == EndAttempt(r, "skipped") /\ Downstream(r, "skipped")

(* Mutant of Retry: one retry too many.                                    *)
RetryOnceMore(r) ==
  /\ tries[r] <= Retries + 1
  /\ EndAttempt(r, "queued")
  /\ UNCHANGED check

(* Any other exception: up for retry while default_args["retries"] allows. *)
Retry(r) ==
  /\ tries[r] <= Retries
  /\ EndAttempt(r, "queued")
  /\ UNCHANGED check

Exhaust(r) == tries[r] > Retries /\ Fail(r)

Raise(r) == Retry(r) \/ Exhaust(r)

-----------------------------------------------------------------------------
(* The operator and the scheduler.                                         *)

EditTickers ==
  /\ tickers' \in TickerLists \ {tickers}
  /\ UNCHANGED <<fetch, tries, locals, validation, disk, history>>

(* A run comes to life. max_active_runs = 1 bounds only the runs the       *)
(* scheduler creates, so runs of different origins overlap freely.         *)
Trigger(r) ==
  /\ fetch[r] = "none"
  /\ Goto(r, "queued")
  /\ UNCHANGED <<tickers, tries, locals, validation, disk, history>>

Settled(r) == fetch[r] \in Finished /\ check[r] \in CheckFinished

(* `airflow tasks clear ... -t fetch_ohlcv` on a run that has come to an   *)
(* end, well or not (nothing says --only-failed): fetch alone is reset,    *)
(* with a fresh retry budget; validate_partition is not matched, and keeps *)
(* the state it is in.                                                     *)
ClearFetch(r) ==
  /\ Settled(r)
  /\ cleared[r] < MaxClears[r]
  /\ cleared' = [cleared EXCEPT ![r] = @ + 1]
  /\ Goto(r, "queued")
  /\ tries' = [tries EXCEPT ![r] = 0]
  /\ UNCHANGED <<tickers, locals, validation, disk, interrupted>>

(* Mutant of PoolFree: the task is not in the pool.                        *)
NoPool == TRUE

(* @task(pool="polygon"): the pool has one slot.                           *)
PoolFree == \A q \in Runs : fetch[q] \notin Running

FetchStart(r) ==
  /\ fetch[r] = "queued"
  /\ PoolFree
  /\ Goto(r, "config")
  /\ tries' = [tries EXCEPT ![r] = @ + 1]
  /\ UNCHANGED <<tickers, locals, validation, disk, history>>

-----------------------------------------------------------------------------
(* fetch_ohlcv, from the top of the function to its return.                *)

(* Mutant of ReadConfig: the partition directory is made at the top.       *)
ReadConfigAndMakeDir(r) ==
  /\ fetch[r] = "config"
  /\ tickers # <<>>
  /\ Goto(r, "request")
  /\ asked' = [asked EXCEPT ![r] = tickers]
  /\ dirs' = dirs \cup {SessionOf[r]}
  /\ UNCHANGED <<tickers, tries, waits, frame, validation, staging, target, history>>

(* The list is read once, here; the throttle waits that follow can be long. *)
ReadConfig(r) ==
  /\ fetch[r] = "config"
  /\ \/ /\ tickers = <<>>
        /\ Raise(r)
     \/ /\ tickers # <<>>
        /\ Goto(r, "request")
        /\ asked' = [asked EXCEPT ![r] = tickers]
        /\ UNCHANGED <<waits, frame, check>>
  /\ UNCHANGED <<tickers, tries, checkTries, view, disk, history>>

(* 429: sleep in place and ask again, still in the pool slot.              *)
Throttle(r) ==
  /\ waits[r] < MaxThrottleWaits
  /\ waits' = [waits EXCEPT ![r] = @ + 1]
  /\ UNCHANGED <<fetch, asked, frame, check>>

(* The gates on a 200, in the order of the code; the frame that passes     *)
(* them all is the one that will be written.                               *)
Judge(r, body) ==
  LET bars == Listed(body.bars, asked[r])
      s == SessionOf[r]
      SizeOK == body.size >= MinMarketRows
  IN  \/ body.size = 0 /\ Skip(r)
      \/ body.size # 0 /\ ~ SizeOK /\ Fail(r)
      \/ body.size # 0 /\ SizeOK /\ Misdated(bars, s) /\ Fail(r)
      \/ /\ body.size # 0 /\ SizeOK /\ ~ Misdated(bars, s)
         /\ TooSparse(bars, asked[r])
         /\ Raise(r)
      \/ /\ body.size # 0 /\ SizeOK /\ ~ Misdated(bars, s)
         /\ ~ TooSparse(bars, asked[r])
         /\ Goto(r, "mkdir")
         /\ frame' = [frame EXCEPT ![r] = bars]
         /\ UNCHANGED <<waits, asked, check>>

(* One requests.get and what the status code leads to.                     *)
Reply(r, status) ==
  /\ fetch[r] = "request"
  /\ \/ status = 429 /\ Throttle(r)
     \/ status = 429 /\ waits[r] = MaxThrottleWaits /\ Raise(r)
     \/ status \in 500 .. 599 /\ Raise(r)
     \/ status \notin {200, 429} \cup 500 .. 599 /\ Fail(r)
     \/ status = 200 /\ \E body \in VendorBodies[SessionOf[r]] : Judge(r, body)
  /\ UNCHANGED <<tickers, tries, checkTries, view, disk, history>>

(* requests.get raises (timeout=10, connection reset), or the body is not  *)
(* the JSON the code expects: an exception the code does not catch.        *)
NoReply(r) ==
  /\ fetch[r] = "request"
  /\ Raise(r)
  /\ UNCHANGED <<tickers, tries, checkTries, view, disk, history>>

MakeDir(r) ==
  /\ fetch[r] = "mkdir"
  /\ Goto(r, "open")
  /\ dirs' = dirs \cup {SessionOf[r]}
  /\ UNCHANGED <<tickers, tries, locals, validation, staging, target, history>>

(* Mutant of OpenStaging: to_parquet(target), overwriting in place.        *)
OpenTarget(r) ==
  /\ fetch[r] = "open"
  /\ Goto(r, "write")
  /\ target' = [target EXCEPT ![SessionOf[r]] =
       [whole |-> FALSE, bars |-> {}, asked |-> asked[r], by |-> r]]
  /\ UNCHANGED <<tickers, tries, locals, validation, dirs, staging, history>>

(* to_parquet, in two steps: the staging path is truncated and filled, ... *)
OpenStaging(r) ==
  /\ fetch[r] = "open"
  /\ Goto(r, "write")
  /\ staging' = [staging EXCEPT ![SessionOf[r]] =
       [whole |-> FALSE, bars |-> {}, asked |-> asked[r], by |-> r]]
  /\ UNCHANGED <<tickers, tries, locals, validation, dirs, target, history>>

(* Mutant of CloseStaging: append to the rows already there.               *)
AppendToStaging(r) ==
  LET s == SessionOf[r]
      kept == IF target[s] = NoFile THEN {}
              ELSE {[b EXCEPT !.copy = 2] : b \in target[s].bars}
  IN
  /\ fetch[r] = "write"
  /\ Goto(r, "replace")
  /\ staging' = [staging EXCEPT ![s] =
       [whole |-> TRUE, bars |-> kept \cup frame[r], asked |-> asked[r], by |-> r]]
  /\ UNCHANGED <<tickers, tries, locals, validation, dirs, target, history>>

(* ... then closed with all its rows and its footer.                       *)
CloseStaging(r) ==
  /\ fetch[r] = "write"
  /\ Goto(r, "replace")
  /\ staging' = [staging EXCEPT ![SessionOf[r]] =
       [whole |-> TRUE, bars |-> frame[r], asked |-> asked[r], by |-> r]]
  /\ UNCHANGED <<tickers, tries, locals, validation, dirs, target, history>>

(* Mutant of Replace: the partition of the latest session, from now(),     *)
(* instead of the one of the run's data interval.                          *)
ReplaceLatest(r) ==
  LET today == CHOOSE s \in Sessions : \A t \in Sessions : t <= s IN
  /\ fetch[r] = "replace"
  /\ Goto(r, "return")
  /\ target' = [target EXCEPT ![today] = staging[SessionOf[r]]]
  /\ staging' = [staging EXCEPT ![SessionOf[r]] = NoFile]
  /\ UNCHANGED <<tickers, tries, locals, validation, dirs, history>>

(* staging.replace(target): one atomic rename. (Without the staging file   *)
(* it would raise: Interrupt.)                                             *)
Replace(r) ==
  LET s == SessionOf[r] IN
  /\ fetch[r] = "replace"
  /\ staging[s] # NoFile
  /\ Goto(r, "return")
  /\ target' = [target EXCEPT ![s] = staging[s]]
  /\ staging' = [staging EXCEPT ![s] = NoFile]
  /\ UNCHANGED <<tickers, tries, locals, validation, dirs, history>>

(* The path is returned and the task instance recorded as successful.      *)
Return(r) ==
  /\ fetch[r] = "return"
  /\ EndAttempt(r, "success")
  /\ Downstream(r, "queued")
  /\ UNCHANGED <<tickers, tries, checkTries, view, disk, history>>

(* Mutant of Interrupt: nothing bounds the HTTP call.                      *)
InterruptOutsideCall(r) ==
  /\ fetch[r] \in Running \ {"request"}
  /\ Raise(r)
  /\ UNCHANGED <<tickers, tries, checkTries, view, disk, history>>

(* execution_timeout, a killed worker or an error of the file system ends  *)
(* the attempt wherever it is; the files stay as they are.                 *)
Interrupt(r) ==
  /\ fetch[r] \in Running
  /\ Raise(r)
  /\ interrupted' = IF fetch[r] \in Writing
                    THEN interrupted \cup {SessionOf[r]}
                    ELSE interrupted
  /\ UNCHANGED <<tickers, tries, checkTries, view, disk, cleared>>

-----------------------------------------------------------------------------
(* validate_partition, in the default pool: beside any fetch.              *)

(* pd.read_parquet opens the path: later renames do not change this view.  *)
CheckRead(r) ==
  /\ check[r] = "queued"
  /\ check' = [check EXCEPT ![r] = "reading"]
  /\ checkTries' = [checkTries EXCEPT ![r] = @ + 1]
  /\ view' = [view EXCEPT ![r] = target[SessionOf[r]]]
  /\ UNCHANGED <<tickers, fetch, tries, locals, disk, history>>

CheckEnd(r, state) ==
  /\ check' = [check EXCEPT ![r] = state]
  /\ view' = [view EXCEPT ![r] = NoFile]

CheckRaise(r) ==
  IF checkTries[r] <= Retries THEN CheckEnd(r, "queued") ELSE CheckEnd(r, "failed")

(* Mutant of CheckVerdict: no check that the frame has rows.               *)
CheckVerdictOfRows(r) ==
  LET file == view[r] IN
  IF ~ file.whole \/ HasDuplicates(file.bars) \/ HasNullClose(file.bars)
  THEN CheckRaise(r)
  ELSE CheckEnd(r, "success")

(* The verdict: an unreadable or empty file raises, then the dates are     *)
(* checked (AirflowFailException), then duplicates and null closes.        *)
CheckVerdict(r) ==
  LET file == view[r]
      Unreadable == file = NoFile \/ ~ file.whole \/ file.bars = {}
  IN  IF Unreadable THEN CheckRaise(r)
      ELSE IF Misdated(file.bars, SessionOf[r]) THEN CheckEnd(r, "failed")
      ELSE IF Defective(file.bars) THEN CheckRaise(r)
      ELSE CheckEnd(r, "success")

CheckFinish(r) ==
  /\ check[r] = "reading"
  /\ CheckVerdict(r)
  /\ UNCHANGED <<tickers, fetch, tries, locals, checkTries, disk, history>>

(* A killed worker.                                                        *)
CheckInterrupt(r) ==
  /\ check[r] = "reading"
  /\ CheckRaise(r)
  /\ UNCHANGED <<tickers, fetch, tries, locals, checkTries, disk, history>>

-----------------------------------------------------------------------------
FetchStep(r) ==
  \/ FetchStart(r) \/ ReadConfig(r)
  \/ \E status \in Statuses : Reply(r, status)
  \/ NoReply(r)
  \/ MakeDir(r) \/ OpenStaging(r) \/ CloseStaging(r) \/ Replace(r)
  \/ Return(r) \/ Interrupt(r)

CheckStep(r) == CheckRead(r) \/ CheckFinish(r) \/ CheckInterrupt(r)

Next ==
  \/ EditTickers
  \/ \E r \in Runs : Trigger(r) \/ ClearFetch(r) \/ FetchStep(r) \/ CheckStep(r)

Spec == Init /\ [][Next]_vars

(* The scheduler starts what is queued, execution_timeout ends every       *)
(* attempt of fetch_ohlcv that does not end by itself, and validate, which *)
(* has no timeout, reads a local file. Nothing makes the vendor answer,    *)
(* the worker survive, or a run be created.                                *)
Fairness ==
  \A r \in Runs :
    /\ WF_vars(FetchStart(r))
    /\ WF_vars(Interrupt(r))
    /\ WF_vars(CheckRead(r))
    /\ WF_vars(CheckFinish(r))

FairSpec == Spec /\ Fairness

-----------------------------------------------------------------------------
(* Safety.                                                                 *)

Published(s) == target[s] # NoFile

(* A reader of ohlcv.parquet never sees a file that is still being         *)
(* written, although every run of a session shares one staging path: the   *)
(* claim of lines 199-206, which rests on the one pool slot of line 96.    *)
PartitionWhole == \A s \in Sessions : Published(s) => target[s].whole

(* Every row of dt=D is dated D, whoever wrote it (lines 173-178): the     *)
(* invariant the 2026-08-30 incident broke.                                *)
PartitionDated ==
  \A s \in Sessions : Published(s) => DatedBy(target[s].bars, s)

(* What replaces a partition covers the list its attempt read to within    *)
(* the completeness gate and holds nothing else (lines 171 and 185-191),   *)
(* even when the operator edits the list while the attempt is waiting: the *)
(* invariant the 2026-09-01 incident broke.                                *)
PartitionCovered ==
  \A s \in Sessions :
    Published(s) => Covers(target[s].bars, target[s].asked)

(* An empty partition, one with a duplicated (date, ticker) or one with a  *)
(* null close is never under a green validate of the run that wrote it,    *)
(* whatever other runs of the session did in the meantime (231-252). Not   *)
(* so once the fetch of that run was cleared: its validate is not run      *)
(* again, and the old verdict stands over the new file.                    *)
DefectIsFlagged ==
  \A s \in Sessions :
    Published(s) /\ ~ Sound(target[s].bars) =>
      check[target[s].by] # "success" \/ cleared[target[s].by] > 0

(* A dt= directory with no partition in it is work in progress or the mark *)
(* of an attempt that was interrupted while writing: no skip and no failed *)
(* gate leaves one behind (the gates of 143-191 all precede line 196).     *)
HollowDirExplained ==
  \A s \in dirs :
    \/ Published(s)
    \/ s \in interrupted
    \/ \E r \in Runs : SessionOf[r] = s /\ fetch[r] \in Writing

(* While a run waits for its validate, between its own rename and the read *)
(* of that validate, the rows of its partition stay what they were: what   *)
(* ROADMAP.md:226 says of the rename ("nothing can change in between").    *)
RowsAt(s) == IF Published(s) THEN target[s].bars ELSE {}
NothingChangesInBetween ==
  [][\A r \in Runs :
       check[r] = "queued" /\ check'[r] = "queued" =>
         RowsAt(SessionOf[r])' = RowsAt(SessionOf[r])]_vars

(* A partition that is written again has the rows it had: "running it      *)
(* twice for D produces a byte-equivalent partition" (lines 9-10).         *)
RerunIsEquivalent ==
  [][\A s \in Sessions :
       Published(s) => Published(s)' /\ RowsAt(s)' = RowsAt(s)]_vars

(* A run whose fetch fails at a gate has not written the partition: a      *)
(* fetch_ohlcv that raised "means the vendor response was wrong and        *)
(* nothing was written" (docs/runbooks/partition-integrity.md).            *)
GateFailureWroteNothing ==
  [][\A r \in Runs :
       Reply(r, 200) /\ fetch'[r] = "failed" =>
         ~ (Published(SessionOf[r]) /\ target[SessionOf[r]].by = r)]_vars

(* A successful fetch hands its file to a validate: the one beside it is   *)
(* never left in a state that will not run.                                *)
EveryFetchIsValidated ==
  \A r \in Runs :
    fetch[r] = "success" => check[r] \notin {"none", "skipped", "upstream_failed"}

-----------------------------------------------------------------------------
(* The partitions as readers see them, for the abstract specification. A   *)
(* file that is not whole is shown as it is, which the store never allows. *)
Visible(s) ==
  IF Published(s)
  THEN IF target[s].whole
       THEN [bars |-> target[s].bars, asked |-> target[s].asked]
       ELSE target[s]
  ELSE NoFile

Store == INSTANCE PartitionStore WITH partition <- [s \in Sessions |-> Visible(s)]

(* The DAG implements the raw zone's contract: partitions change only by   *)
(* atomic, gated overwrites (lines 3-18 and 199-206).                      *)
ImplementsStore == Store!Spec

-----------------------------------------------------------------------------
(* Liveness, under FairSpec.                                               *)

(* Every run that is created comes to an end, even when the vendor never   *)
(* answers and other runs hold the pool: no hung call starves the slot     *)
(* (lines 93-95), and retries are finite.                                  *)
EveryRunSettles == \A r \in Runs : (fetch[r] # "none") ~> Settled(r)
=============================================================================
