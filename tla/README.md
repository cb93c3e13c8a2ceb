# MarketOps in TLA+

A verification project for MarketOps, a daily market-data platform: an Airflow
DAG lands one parquet partition per trading session in a raw zone, dbt builds a
small warehouse over it, alert callbacks write signal files, and an agent
triages them. Paths below are relative to the repository root; line numbers
refer to the files of the modelled commit.

## 1. Inventory

| Part | State it keeps | Operations | Talks to |
|---|---|---|---|
| Ingestion DAG, `dags/ingest_ohlcv_daily.py` | task instance states, retry budgets, the Python locals of a running attempt | `fetch_ohlcv`: read configuration, request with in-place throttle waits, gate the answer, write-then-rename; `validate_partition`: read the file back and judge it | vendor over HTTP, the `tickers` Variable, the pool `polygon`, the raw zone |
| Raw zone, `data/raw/ohlcv/dt=D/` | one directory per session, `ohlcv.parquet`, `ohlcv.parquet.tmp` | mkdir, truncate-and-write of the staging path, atomic rename, read | written by fetch; read by validate, the audit, dbt |
| Scheduling (cron timetable, catchup, backfill, manual runs, deadlines) | DagRuns and their data intervals | create a run, clear a task | starts the tasks |
| Signal files, `market_ops/alerts/signals_io.py` | `data/ops/signals/<id>.json` and its `.tmp` | `write_signal`, `read_signals` | written by the callbacks and the demo command, read by the agent |
| Alert callbacks, `market_ops/alerts/{deadlines,failures}.py` | none | unbuilt (raise `NotBuiltYet`) | would write signals |
| Quality checks, `market_ops/quality/checks.py` | none | unbuilt | would be called by the DAG |
| Audit, `scripts/audit_partitions.py` | none | read every partition twice, report dates and digest | reads the raw zone |
| Warehouse, `dbt/` | `fct_daily_bars` (incremental), `dim_date`, `dim_ticker`, the SCD2 snapshot | `dbt build`: view, tests, models, snapshot | reads the raw zone and the seed |
| Triage agent, `market_ops/agent/` | audit log, briefs | loop, tools, guardrails unbuilt; schemas, `stable_id`, `fallback_brief`, `ScriptedLLM`, `AuditLog.read`, command line built | signals, retrieval |
| Retrieval, `market_ops/retrieval/` | index in memory | `load_corpus`, `HashingEmbedder`, `build_retriever` built; chunking, ranking, fusion unbuilt | docs on disk |
| Evaluation, `market_ops/evals/` | golden sets, report files | `load_jsonl`, report file built; metrics, judge, cost unbuilt | retrieval, agent |

What is hard here is not the amount of code but what runs beside what: several
DAG runs may be alive for one session (`max_active_runs` bounds only the runs
the scheduler creates), attempts die anywhere and are retried, the operator
edits the ticker list and clears tasks, the vendor throttles, hangs and answers
wrongly, and readers hold no lock. The two incidents in `docs/incidents/` were
both green runs over wrong data.

What makes each part correct:

- *raw zone*: a reader sees no partition or a whole one; its rows are dated with
  its session and cover the list its writer was asked for; it changes only by
  one atomic overwrite;
- *ingestion*: retries, crashes and overlapping runs leave one partition per
  session; a defective partition is never under a green validate of its writer;
  every run ends;
- *signal files*: one file per event, whole whenever it is read, the newest one
  last;
- *warehouse*: a green build vouches for the fact, its grain, its calendar and its
  tickers; an undisturbed one agrees with the raw zone inside its window, and is not red without cause;
- *audit*: the verdict of a line is that on the file its digest names, and no
  directory is left out;
- *scheduling*: no run asks for a session that is not over, and downtime loses
  none;
- *retrieval*: what is indexed depends on the files, not on the order or the
  moment they were found in, and a row of the index on its own text;
- *agent and evaluation*: a command reads every input before it stops at the
  backlog, and returns; every event keeps its signal; a signal has a fallback
  brief whenever it can be quoted; the scripted model, the golden set and the audit log give back what was
  put in.

The hazards, each at the line where it bites and with the properties that would
catch it, are listed in `PROJECT.json`.

## 2. Modules

| Module | What it is |
|---|---|
| `OhlcvFrame` | Pure definitions: a bar, a vendor body, every gate of `fetch_ohlcv` and check of `validate_partition`; and, apart from them, what the properties ask of a frame. |
| `PartitionStore` | Abstract specification of the raw zone: per session, no file or acceptable content, changed by one atomic `Put`. |
| `IngestOhlcvDaily` | The DAG: one action per step of the two tasks, with the scheduler, the operator, the vendor and crashes. |
| `MCIngest` | Instances of it for TLC. |
| `IngestProofs` | The theorems about it. |
| `SignalStore` | Abstract specification of the signal directory: per event, no signal or one, overwritten whole and never by an older one. |
| `SignalFiles` | `write_signal` and `read_signals` over a file system of names and inodes, with crashes and a polling agent. |
| `MCSignals`, `SignalProofs` | Its instances for TLC, and the theorems about it. |
| `Warehouse` | `dbt build`, node by node, over a raw zone that is re-derived meanwhile; it knows the raw zone only as `PartitionStore`. |
| `MCWarehouse`, `WarehouseProofs` | Its instances for TLC, and the theorems about it. |
| `Universe` | Seed, SCD2 snapshot and `dim_ticker`, with edits of the seed and killed builds. |
| `Scheduling` | Which DAG runs come to be, and the session of each: timetable, catchup, backfills, manual runs. |
| `PartitionAudit` | `scripts/audit_partitions.py` over a raw zone that is re-derived meanwhile; it knows the raw zone only as `PartitionStore`. |
| `Corpus` | `load_corpus` over a tree that is edited meanwhile. |
| `HashingEmbedder` | The embedder and the matrix of a `DenseIndex`, word by word. |
| `GoldenSet` | `load_jsonl`, as a fold of its loop body over the lines. |
| `TriageSchemas` | The schemas, `stable_id`, `fallback_brief`, `brief_to_markdown`. |
| `AgentCommand` | The four commands, composed from `Corpus`, `TriageSchemas`, `GoldenSet` and `SignalStore`. |
| `ScriptedLLM` | The scripted model with a caller that changes its messages. |
| `AuditLog` | `AuditLog.read` over a file that grows. |
| `OnCall`, `MCOnCall` | Everything started by hand, composed; its instances for TLC. |
| `CalendarProofs` | The theorems about `Scheduling` and `Universe`. |
| `ReaderProofs` | The theorems about `PartitionAudit` and `Corpus`. |
| `AgentProofs` | The theorems about `ScriptedLLM`, `AuditLog` and `HashingEmbedder`. |
| `OnCallProofs` | The theorems about the commands, and about the composition. |
| `Induction` | Lemmas about numbers, folds, sums and orders that several of these need. |

### How `IngestOhlcvDaily` corresponds to the code

`fetch[r]` is the line run `r` has reached in `fetch_ohlcv`, or the state
Airflow records for the task. The lines are the points between which something
else can happen: `config` (lines 107-128), `request` (131-191: the HTTP call,
then everything up to the last gate, which touches no shared state), `mkdir`
(196), `open` and `write` (the two halves of `to_parquet`, 208), `replace`
(209), `return` (211-215). `waits`, `asked` and `frame` are the locals
`attempt`, `tickers` and `df_tick`.

| Code | Model |
|---|---|
| 107-114 `Variable.get`, empty list raises | `ReadConfig` |
| 130-141 throttle loop, `MAX_THROTTLE_WAITS` | `Reply` with 429, `Throttle` |
| 144-152 status taxonomy | `Reply`: fail, raise, or judge the body |
| 131 timeout, connection reset, unparsable body | `NoReply` |
| 154-191 skip on empty, size, date and completeness gates | `Judge`, in this order |
| 193-197 | `MakeDir` |
| 207-208 `to_parquet(staging)` | `OpenStaging`, `CloseStaging` |
| 209 `staging.replace(target)` | `Replace` |
| 211-215 | `Return` |
| 77-88 retries | `Retry`, `Exhaust`, `CheckRaise` |
| `AirflowFailException`, `AirflowSkipException` | `Fail`, `Skip` |
| 96 `pool="polygon"` (one slot, `config/pools.json`) | `PoolFree` in `FetchStart` |
| 96 `execution_timeout`, a killed worker, a full disk | `Interrupt`, at any line |
| 217-254 `validate_partition` | `CheckRead`, `CheckFinish` with `CheckVerdict`, `CheckInterrupt` |
| 259 the dependency | `Downstream` |
| `airflow variables set`, a run being created | `EditTickers`, `Trigger` |
| `airflow tasks clear ingest_ohlcv_daily -t fetch_ohlcv` | `ClearFetch`: of any run whose tasks have finished (`Settled`), failed or not; `validate_partition` keeps its state |

A file on disk carries, besides its rows, whether it is whole and two history
fields (the run that wrote it, the list that run had read); no guard reads them
except `whole`, which stands for pandas' refusal of a truncated parquet file.
A rename gives the staging file to the target name; a reader that has opened
the old target keeps it, which is `view`.

Left out: prices and the other columns, log lines, the delays between retries
(any delay is allowed), the XCom (the path is a function of the session).

### How `SignalFiles` corresponds to the code

| `alerts/signals_io.py` | Model |
|---|---|
| 22-23 `signals_dir.mkdir(exist_ok=True)` | `MakeDir` |
| 26 `staging.write_text(...)`: opens (truncates or creates) and then writes | `OpenStaging`, `Write` |
| 27 `staging.replace(target)` | `Replace`: fails, and ends the process, when the staging name is gone |
| a callback killed anywhere | `Crash` |
| 38-44 the missing directory, `glob("*.json")` | `List`: the names are taken at once |
| 43-44 each file opened, read and parsed | `Read`: raises on text that is not one whole signal |
| 45 sort; `agent/__main__.py` 49-57 `signals[-1]` | `ReadEnd` with `Newest` |
| who calls `write_signal`, for which event | `Fire`, `EventOf` |

A name (`target[i]`, `staging[i]`) is a link to an inode, `text` is what the
inode holds, and a process keeps the inode it has opened (`fd`): a rename moves
the link, so a second process writing to the same staging name writes into the
file the first one has published. The text of a file is the set of signals
written into it: whole means exactly one. `.json.tmp` does not match
`*.json`, so the reader never lists a staging name. The fields of a signal other
than its id and its `detected_at` are left out. A small file is opened and read
in one step, and the directory is listed in one step.

### How `Warehouse` corresponds to the code

| dbt project | Model |
|---|---|
| `_sources.yml` 14, `stg_ohlcv.sql`: a view over the parquet glob | `Staged`, evaluated anew by every node that reads it |
| `_stg_ohlcv.yml`, `assert_bar_date_matches_partition.sql` | `StagingTest` |
| `ticker_universe.csv`, the snapshot, `dim_ticker.sql` | `EditSeed`, `SnapshotTickers`, `BuildDimTicker`: the tickers alone; `Universe` has the versions |
| `dim_date.sql` | `BuildDimDate` (the calendar; the attributes of a date are left out) |
| `fct_daily_bars.sql` 9-26 | `BuildFact`: all rows the first time, then `InWindow` and `Refreshed` (delete+insert on the key) |
| `_marts.yml` 4-28 | `FactTest`: grain, close, the relationship of every session to `dim_date` and of every ticker to `dim_ticker`, the last once `dim_ticker` is made (`not_null` on the keys always holds here) |
| `dbt build` | `Start`, the nodes in any order dbt's graph allows, `Failed` when a test fails, `Kill` |
| the DAG | `Land`: any acceptable content (`Raw!Put`) over any session, at any time |

One node is one step, because DuckDB runs it in one transaction and reads each
file as the rename left it; that a query reads all files at one moment is an
idealisation. One build runs at a time (`profiles.yml` 12-14).

The seed is a set of tickers, so it lists none twice and the tests of
`dim_ticker` itself (`_marts.yml` 35-48) hold by abstraction. Loading the seed and
the snapshot over it are one node here. A snapshot never forgets a ticker, which
is why one that has left the seed fails nothing.

### How `OnCall` and what it composes correspond to the code

`OnCall` composes what a person starts. The parts share no state but the tree
that `triage` and the retrieval eval both load, so a behaviour is about one part,
its `subject`: the composition is their sum, not their product, and TLC explores
each beside its own environment.

| Code | Model |
|---|---|
| DAG 66-73 cron, interval, `start_date`, `catchup` | `Scheduling`: `Fire`, `Interval`, `NextFire`, `SchedulerMakes`; time passes in half days, midnight and 06:00 |
| `seeds/ticker_universe.csv`, `ticker_universe_snapshot.sql` 12-25, `dim_ticker.sql` | `Universe`: `LoadSeed`, `Snapshot` (`Changed`, `Closed`, `Opened`), `BuildDimTicker`, with `KillBuild` between any two |
| `airflow backfill create`, `airflow dags trigger` (the runbooks) | `Backfill`, `ByHand` |
| `audit_partitions.py` 5, 8-10, 11, 12-13 | `AuditStart` and `AuditEnd`, `NoPartition` and `PartitionExists`, `ReadDates`, `ReadDigest` |
| `corpus.py` 47-48, 50, 52-59, 60 | `Glob` in `LoadStart` and `NextSource`, `Look`, `ReadText` or `ReadRaises`, `LoadReturn` |
| `service.py` 23-39 `build_retriever` | `LoadCorpus`, `LoadRaised`, `Index` |
| `agent/__main__.py` 49-65, 68-89 | `LoadSignal` and `NoSignalToLoad`, `WriteDemo`; `ReadSettings`, `GetClient`, `ReadRuns`, `run_triage` |
| `evals/__main__.py` 25-34 and `_briefs` | `ReadDataset`, `run_retrieval_eval`, `Briefs` |
| `_scaffold.py` and the `except NotBuiltYet` of both mains | `todo` |
| `providers.py` `make_client`, the adapters' constructors | `ClientMade` |
| `dataset.py` 70-84 | `LoadLine`, folded by `load_jsonl` |
| `schemas.py` 69-78; `triage.py` 68-96; `render.py` | `stable_id`; `fallback_brief`; `brief_to_markdown` |
| `llm.py` 103-124 | `Complete` = `Record`, `Answer` |
| `dense.py` 50-63, 94-105 | `AddWord`, `Normalize`; `DenseIndex` |
| `audit.py` 69-78 | `read` |

Notes on what is abstracted:

- What dbt does for a snapshot of the check strategy is external: a row without a
  current version that says the same closes that version and opens one; a row that
  is gone from the seed is left as it is (no hard-delete handling is configured).
  A time is a place in the order of snapshots that wrote.
- A glob is read as one snapshot. The five default globs are pairwise disjoint
  (`*` does not cross a `/`), so the comment that a runbook would otherwise be
  typed "doc" (`corpus.py:16-17`) is about no file there is; the model lets globs
  overlap, as the parameter `sources` does.
- In `AgentCommand` the signals are `SignalStore`: `SignalFiles` is shown to
  implement it, so `write_signal` and `read_signals` are single steps.
- A command's inputs are `none`, `good` or `bad`. Usage errors of argparse, which
  also exit with 2, are left out. What `_triage` does after `run_triage` (lines
  91-102) no input reaches.
- A file of the tree holds a text or is `Undecodable`: `read_text(encoding="utf-8")`
  of one that is not UTF-8 raises, which `load_corpus` does not catch.
- A text of the triage schemas is its length and the signal fields it spells out:
  the limits of the schema are about the one, the page about the other. A `dag_id`
  has no limit (`schemas.py:58`). What the model shows of `fallback_brief`: when
  the message is empty the quote is "<kind> for <dag_id>", uncut (`triage.py:77`),
  so a `dag_id` that makes it longer than 400 characters makes the constructor
  of the brief raise (`Quotable`), where the docstring has it "never allowed to drop a
  signal on the floor" (73-74). Airflow keeps a `dag_id` to 250 characters; a
  file given to `triage --signal` need not. And the page does not carry "everything
  the alert knew" (74-75): the run, the task, the try, the session, the attributes and
  what a message has beyond 400 characters are left out.
- `AuditLog.append` is not built: a line is appended by the environment, whole,
  blank or torn.
- Floating-point rounding of the embedder is left out: a row is its sums and the
  square of what they are divided by.
- Airflow is external: it follows the latest automated run and `start_date` only
  when there is none (ROADMAP.md:233), and one automated run exists per fire.
  The comment at DAG line 72, "immediately queue every missed interval since
  start_date", is what that entry and the runbook correct; `ScheduleLeavesNoHole`
  states what does hold. `max_active_runs` bounds how many runs are active, not
  which are made.

## 3. Runs

All runs of `MCIngest` use two DAG runs, three tickers and the gate
`MaxMissingPct = 50`: one missing ticker out of three entries passes, one out of
two is refused at the exact boundary (20% of the code needs five tickers for
its boundary). One retry and one throttle wait stand for three and five: a
budget of one already has a first attempt, a last attempt and an exhausted one.

| Run | Shows |
|---|---|
| `ingest_shared` (`MCIngestShared.cfg`) | Two live runs of one session, every answer of the vendor, three ticker lists edited at any time: an empty one, `<<A, B>>`, and `<<A, A, A>>`, where A missing is one distinct ticker out of three entries, so an empty frame passes the gate and only validate stops it. Types, `PartitionWhole`, `PartitionDated`, `PartitionCovered`, `DefectIsFlagged`, `HollowDirExplained`, and that the DAG implements `PartitionStore`. |
| `ingest_sessions` | Runs of neighbouring sessions, one of which may be cleared: nobody touches the partition a run is about to validate, and every created run settles. |
| `ingest_rerun` | A steady vendor and one list, two retries and a clear of either run: every rewrite has the rows that were there. With a list that is edited between attempts it need not: the promise is for one list and one answer, and the run says nothing of an edited list or of answers that differ. |
| `signals_own` | Two processes that report two events over and over, dying anywhere, beside the polling agent: no listed file fails to parse, finished signals are seen, `--latest` never goes back, and the directory implements `SignalStore`. |
| `signals_reported` | Two processes that report one event at once: whoever comes to its rename leaves the event with a file, also when the other has renamed the staging file away and its own rename fails (`EventIsReported`). |
| `warehouse` | Builds beside ingests of three sessions, one of them outside the lookback of the others; what lands may lack a ticker, have a null close or a duplicated row, and a ticker comes to the seed and leaves it: `FactAgrees`, `GreenFactIsSound`, `QuietBuildIsGreen`. |
| `oncall` | Everything started by hand. *Scheduling*: `SessionsAreOver`, `ScheduleLeavesNoHole`. *Tickers*: `HistoryIsKept`. *Audit*: `AuditLinesTrue`, `AuditIsComplete`. *Corpus*: `UntouchedAreIndexed`, `CorpusIsOrdered`, `UndisturbedLoadSucceeds`. *Commands*: `SignalsKeepTheirEvents`, `FallbackFits`, `InputsBeforeBacklog`, `GoldenAgrees`, `EveryCommandReturns`. *Scripted model*: `RecordedAsAsked`, `ScriptReplayed`. *Embedder*: `RowsStandAlone`, `RowsAreUnitOrZero`. *Audit log*: `TracesAgree`, `AnswersOnlyGrow`. |

Five runs find a sentence of the documentation that the code does not keep
(`findings` in `PROJECT.json` quotes each):

| Run | Sentence | What happens |
|---|---|---|
| `ingest_between` | ROADMAP.md:226 "nothing can change in between" | A second run of the session publishes between the first run's rename and its validate. |
| `ingest_failed` | partition-integrity.md:16: a failed fetch wrote nothing | Attempt 1 publishes and dies before returning; attempt 2 fails a gate. |
| `ingest_cleared` | codebase-map.md:170 with the runbook's clear of fetch alone | The cleared fetch publishes; validate stays `upstream_failed`. (The command also clears a fetch that succeeded; validate then keeps its green verdict on the file before.) |
| `signals_same` | signals_io.py:19-20: a reader sees no file or a complete one | Two processes report one event: the second truncates the staging file between the first one's write and its rename. |
| `warehouse_rebuilt` | data_model.md:59: the window is rebuilt on every run | A ticker that left a re-derived partition stays in the fact: delete+insert deletes only keys that come back. |

Bounds of `MCSignals`: two processes and two values of the clock (`MaxClock`)
give an event that is reported, overwritten by a newer report and crashed over;
six inodes are the two names of two events and a file open in each process, so no
process ever waits for one; four are enough for one event. Bounds of `MCWarehouse`: sessions 1, 3 and 4 with a
lookback of 1 put one session far behind the high-water mark, one just inside the
window, and a day without a partition into the calendar; the seed lists both tickers or one.
A row that a re-derived partition has lost is what `FactAgrees` says nothing about:
it is about the keys the raw zone has, and `WindowRebuilt` about the others.

The operator's clears (`MaxClears`, per run): none in `ingest_shared`, whose two
runs with clears are too many states; one, of one run, in `ingest_sessions`; one of
either run in `ingest_rerun` and `ingest_cleared`. With clears, the invariants of
`ingest_shared` rest on their theorems alone.

Bounds of `MCOnCall`: two sessions, one of which may receive a frame dated the day
before or an empty one; a tree of three paths, of which one is excluded and one
is matched by both globs, and each may become a directory, a file of either text, one
that does not decode or nothing at
any moment, also between two looks at it (beside `triage` the tree is still: both
commands load it by one `build_retriever`); three events, of which two
differ only in where one part of their id ends; for `--signal`, the
signal of an event and two without a message, with the longest `dag_id` that can be
quoted and with one character more; files with a comment, a blank
line, an invalid line and a repeated id; eighteen command lines that reach every
branch; a script of two answers asked four times; texts of up to two words over
three, two of which cancel; a log of three lines and two traces; days 0 to 4 with
`start_date` on day 1, which is what a backfill that jumps ahead of the schedule
and leaves a hole needs, and one manual run; two
tickers whose rows are edited, removed and put back around two snapshots that
write, which is a version closed and one opened.

Deadlock is checked in every run.

### Fairness

`FairSpec` (of `IngestOhlcvDaily`, used by `ingest_sessions`) is weak fairness of
`FetchStart` (the scheduler starts what is queued when the pool has a slot), of `Interrupt` (`execution_timeout`, line 96, ends an
attempt that does not end by itself), of `CheckRead` and of `CheckFinish`
(`validate_partition` has no timeout, and reads a local file). Nothing is
assumed of the vendor, and no run has to be created. `Interrupt` is
enabled throughout a running attempt, so an attempt ends by itself or is ended;
with finitely many attempts the pool is free again in the end, which is why weak
fairness of `FetchStart` is enough.

`OnCallSpec` (used by `oncall`) is weak fairness of the steps of a command and of
the audit script: a Python process that is not killed goes on to its next line.
Nothing is assumed of alerts, edits and ingests beside it, which can be as many as
they like, nor that anybody types a command.

## 4. Proofs

Every invariant and every action property of a passing run is stated by a theorem,
for every value of the constants; both refinements are. Left to TLC are the two
liveness properties, `EveryRunSettles` and `EveryCommandReturns`, since fairness and
ENABLED are out of the prover's reach, and the five runs that look for a violation.

The assumptions are those of the modules, which TLC evaluates on its instances: the
constants have their types, and what stands for nothing (`NoFile`, `NoLog`, `NoSignal`,
`Absent`) is nothing else. Two of them say more. `EventsAreToldApart` says that the parts of an
event's id hold no bar, which Airflow guarantees of its ids, and that the digests of the
events there are do not collide, which SHA-256 cut to 64 bits makes likely and nothing
makes certain. `ASSUME SessionsAreOrdered` is that days are numbers. What a single theorem
needs beyond that is a hypothesis of it, in the tables.

### The DAG (`IngestProofs`)

For every set of runs and sessions, every assignment of runs to sessions, every
vendor, every list and every limit:

| Theorem | |
|---|---|
| `TypeCorrect` | `Spec => []TypeOK` |
| `PartitionsAreWhole` | `Spec => []PartitionWhole` |
| `PartitionsAreDated` | `Spec => []PartitionDated` |
| `PartitionsAreCovered` | `Spec => []PartitionCovered` |
| `IngestImplementsStore` | `Spec => ImplementsStore` |
| `DefectsAreFlagged` | `Spec => []DefectIsFlagged` |
| `HollowDirsAreExplained` | `Spec => []HollowDirExplained` |
| `NothingChangesForOwnSessions` | `Spec => NothingChangesInBetween`, if no two runs have one session (`OwnSessionEach`) |
| `RerunsAreEquivalent` | `Spec => RerunIsEquivalent`, if a session's full answers and the list stay the same (`SameAnswers`) |

`TypeOK` is not inductive: a queued task must have an attempt left
(`TriesLeft`), or the next start would exceed the budget. `TypeInv` is their
conjunction.

The three partition invariants need to know what a run is about to rename.
`PartitionInv` adds: at most one run is in the pool (`OneInPool`); the frame of a
run past its gates satisfies them (`FrameGated`); at line `replace` the staging
path of the run's session holds that run's own, whole file (`StagingReady`) -
which is where the pool is needed, since another run of the session would be at
the same path. Each step is then one of three kinds: quiet (no file moves and
nobody comes to a writing line), the reply that passes the gates, or one of the
four steps of the write. The refinement follows from the same invariant: a
`Replace` is a `Put`, everything else stutters.

`DefectIsFlagged` needs `VerdictInv`: a judged run's fetch has succeeded
(`JudgedAreDone`), so it writes nothing more; if the file on disk is its own, the
file its validate has read is that file (`ViewIsOnDisk`); hence a green verdict
is about it (`GreenIsSound`). Verdicts count only while the fetch of their run has not
been cleared (`Judging`): after a clear a verdict of before stands beside a fetch that
may write again (`ClearKeepsVerdicts`), and `DefectIsFlagged` leaves such runs out. That is the code's doing,
not the model's: nothing re-runs `validate_partition`. `NothingChangesInBetween` follows from the same
invariant: a run that waits for its validate is not at `replace`, and nobody else's
`replace` is at its session. `ingest_between` shows that the hypothesis is needed.

`HollowDirExplained` is inductive over the types: an attempt that writes goes on
writing, renames, or is interrupted, which the history variable `interrupted` keeps.

`RerunIsEquivalent` needs `RerunInv`: the list an attempt has read is not empty, and
both the frame it is about to write and the rows of every published partition are
rows that an answer of the session and a list give (`Written`). The hypothesis says
that these are always the same rows.

### The signal files (`SignalProofs`)

For every number of processes, events and inodes:

| Theorem | |
|---|---|
| `SignalTypesCorrect` | `Spec => []TypeOK` |
| `EventsAreReported` | `Spec => EventIsReported`, whatever the number of writers of an event |
| `SignalsAreWhole` | `OneWriterPerEvent => (Spec => []NeverHalfWritten)` |
| `SignalsImplementStore` | `OneWriterPerEvent => (Spec => ImplementsStore)` |
| `FinishedSignalsAreSeen` | `OneWriterPerEvent => (Spec => []FinishedAreSeen)` |
| `LatestStaysLatest` | `OneWriterPerEvent => (Spec => LatestNeverGoesBack)` |

`OneWriterPerEvent` is not something the code enforces: `signals_same` shows what
happens without it. With it, the invariant says that no two names link to one
inode (`LinksApart`), that the inode a process has
open is the one its staging name links to (`WritersHold`), that every published
text is one whole signal of its event (`TargetsWhole`), and that no process holds a
signal older than the one published (`NoneOlder`).

What a poll sees needs `SeenInv` beside it: every published file lives in the
directory; whatever was finished before the listing, and whatever was shown, is
still there or has given way to something newer (`Since`); and of each such event the
reader has the signal already, or has its name left to read (`Met`).

### The warehouse (`WarehouseProofs`)

For every set of sessions, every lookback and all acceptable deliveries:

| Theorem | |
|---|---|
| `WarehouseTypesCorrect` | `Spec => []TypeOK` |
| `GreenBuildsAreSound` | `Spec => []GreenFactIsSound` |
| `FactFollowsRawZone` | `Spec => []FactAgrees`, if no partition without rows lands (`NothingEmpty`) |
| `QuietBuildsAreGreen` | `Spec => []QuietBuildIsGreen`, if no partition without rows lands |

A fact first
built over empty partitions alone has no high-water mark, `session_date >= null`
selects nothing, and no later build loads anything; the ingestion gate lets an
empty frame pass only when the ticker list repeats entries. The invariants:
`PassedHold` (a fact test that has passed stays true to the end of the build,
because the tables change before the tests only, and `dim_ticker` before the test
of the tickers, `TickersAreDone`); `AgreesInv` with `Fed` (a fact
that exists has rows, and its sessions are sessions of the raw zone: no partition
is ever removed) and the load lemma `LoadAgrees` (what is recent after the load
was in the window before it, since the load never lowers the high-water mark);
`QuietInv` with `OnTrack` (what an undisturbed build over sane data knows at each
stage, in particular that the calendar spans every session of the fact) and
`TickersReach` (every ticker of the view and of the fact is listed or tracked while the branch
of the tickers is under way, and in `dim_ticker` after it; the load brings no other,
`LoadBringsNoTicker`).

### The calendar and the tickers (`CalendarProofs`)

For every `start_date`, horizon, number of runs made by hand, set of tickers and
number of snapshots:

| Theorem | |
|---|---|
| `NoSessionTooEarly` | `ScheduleSpec => []SessionsAreOver` |
| `NoHoles` | `ScheduleSpec => []ScheduleLeavesNoHole` |
| `HistoryStays` | `UniverseSpec => []HistoryIsKept` |

`RunsAtFires`: every run's interval is over when it is made, and the automated runs
are at fire times; the latest one, which the scheduler follows, exists because there
is a greatest one among finitely many (`GreatestInteger`).

`HistoryIsKept` speaks of the times at which a version of `dim_ticker` begins, and is
not inductive: `EverySnapshotAnswers` says of the snapshot table, and of every
snapshot that wrote, that each ticker listed then has exactly one version valid then,
which says what the seed said. It needs that a ticker has one current version at most
(`Placed`). `dim_ticker` is the snapshot table as it was at some earlier node of a build.

### The readers (`ReaderProofs`)

For every set of sessions, tree, list of globs (overlapping or not) and whatever is
edited or re-derived meanwhile:

| Theorem | |
|---|---|
| `LinesAreTrue` | `AuditSpec => []AuditLinesTrue` |
| `AuditsAreComplete` | `AuditSpec => []AuditIsComplete` |
| `TheUntouchedAreIndexed` | `CorpusSpec => []UntouchedAreIndexed` |
| `CorporaAreOrdered` | `CorpusSpec => []CorpusIsOrdered` |
| `UndisturbedLoadsSucceed` | `CorpusSpec => []UndisturbedLoadSucceeds` |

The audit's two reads may see two files. What a verdict looks at is the set of dates,
and by the contract that is the session's one date in every content that has rows
(`VerdictOnDated`, `AtHandIsDated`): so the verdict on the file that was opened is that
on the file the digest names. A frame without rows is the exception, which the ingestion
gate lets pass only when the ticker list repeats entries: re-derived in between, it
leaves MISMATCH beside the digest of a good file, or ok beside that of an empty one
(`RederivedWithoutRows`).

The corpus: what is loaded of a path nobody has touched is right (`SeenAreRight`); what
should be loaded and is not is still listed, or is matched by a later glob and by no
earlier one (`UnseenAreAhead`), which is why the first glob gives the type; the path about to be
read was looked at (`LookedAt`), so a read that raises is of a path touched since, or
of one that does not decode. That the loaded set has an order at all, and one only,
is the lemma that a finite set of numbers can be listed ascending (`AscendingExists`,
`AscendingIsOnto`).

### What the agent is made of (`AgentProofs`)

For every script, caller and log, and every hash, size of a row and list of texts:

| Theorem | |
|---|---|
| `RequestsAreRecorded` | `LLMSpec => []RecordedAsAsked` |
| `TheScriptIsReplayed` | `LLMSpec => []ScriptReplayed` |
| `TracesAlwaysAgree` | `LogSpec => []TracesAgree` |
| `AnswersGrow` | `LogSpec => AnswersOnlyGrow` |
| `RowsAlwaysStandAlone` | `IndexSpec => []RowsStandAlone` |
| `RowsAreNormal` | `IndexSpec => []RowsAreUnitOrZero` |

A recorded request keeps its words because its message objects are never those of
the caller's list (`Apart`): a copy is an object of its own, and what the caller
appends is newer than any copy. What is left of the script is always its end, as
long as what has not been answered (`Remaining`).

The log only grows, so what was read is what its first `readUpTo` lines say
(`ReadsAreSelections`); a selection of a longer file begins with the selection of its
beginning, since the loop body looks at one line and adds at the end.

A row of the matrix is, after each word, what its first words add up to (`RowAtHand`),
and the rows to come are untouched (`RowsToCome`). That the sum does not depend on the
order of the words is what `SumExists` and `SumOfNaturals` give.

### The commands and the composition (`OnCallProofs`)

For every set of events, command lines and files:

| Theorem | |
|---|---|
| `PartsAreUndisturbed` | `OnCallSpec` implies `AuditSpec`, `CorpusSpec`, `LLMSpec`, `IndexSpec`, `LogSpec`, `ScheduleSpec`, `UniverseSpec` |
| `PartsKeepTheirPromises` | what the theorems above say of the parts holds of `OnCallSpec` |
| `EventsKeepTheirSignals` | `OnCallSpec => []SignalsKeepTheirEvents` |
| `BacklogComesLast` | `OnCallSpec => []InputsBeforeBacklog` |
| `GoldenSetsAgree` | `OnCallSpec => []GoldenAgrees` |
| `FallbacksFit` | `OnCallSpec => []FallbackFits` |
| `OnCallTypesCorrect` | `OnCallSpec => []OnCallTypeOK` |

`PartsAreUndisturbed` is seven refinements at once: each step of the composition is a
step of one part and leaves the others alone. For the corpus, which is not a part of its
own but something the commands and the edits drive, it takes one case per line of a
command (`CommandsKeepTrees`).

`StoreInv`: what is in the directory under an id is about an event with the parts that
id was made of. It rests on `KeysTellApart`: parts without a bar are joined by bars to
different keys unless they are the same parts, however many there are and whichever are
empty.

`JobInv`: at each line, what the command has read by then and found good (`HasRead`);
the signal at hand is one the schema admits; the dataset loaded is that of the job.
`FallbackIsBrief` takes the brief apart, text by text, against the limits of the schema:
the quote of a signal without a message is the only one that can break them, exactly when
the signal is not `Quotable`.
`LoadedAgrees` says what `load_jsonl` has after each line of any file: all cases so far,
each at its place, or the first line that is wrong.

### Induction over data

The induction theorems of the library take an operator as a parameter, which the
installed provers cannot instantiate. `Induction` has what the proofs need in another form:
`NaturalsByInduction` is about a *set* of numbers that holds 0 and with each its successor,
which set theory alone proves from the least element of its complement. With it, `FoldExists`
turns a `FoldLeft` into a function that goes step by step, and `SumExists` a
sum over a set into one that takes its elements one after the other; the lemmas about
`load_jsonl`, `KeyOf`, `read` and the rows of the matrix are inductions along these. What
is folded is named (`Keep`, `Join`, `LoadLine`), so that a lemma can speak of it.

## 5. Plan

Done: every part that is built is modelled, and every safety property of its runs
is proved. What can still be added:

1. the composition of the DAG with its readers: `IngestImplementsStore` gives the raw
   zone that `PartitionAudit` and `Warehouse` assume, and `SignalsImplementStore` the
   directory that `AgentCommand` assumes; so far the contract is what connects them;
2. the hazards without a property (`PROJECT.json`), once the intent is documented;
3. what is unbuilt (section 6), as it is built.

## 6. Not modelled

`PROJECT.json` lists every component with its status.

- `market_ops/quality`, the alert callbacks and the deadline, the guardrails, the
  triage loop and its tools, chunking, ranking and fusion, the metrics, the judge,
  the cost and the harness raise `NotBuiltYet` (`market_ops/_scaffold.py`): there
  is no behaviour yet to be faithful to, and their docstrings are a plan. Where a
  command ends in one of them, the model has that it raises, and `map` names the
  function, docstring included.
- `assert_no_missing_sessions` only warns. It
  cannot see a missing newest session, since its spine ends at the last one loaded.
- A record that holds a character at which `str.splitlines` splits (U+2028, U+0085)
  would be read as two torn lines (`audit.py:75`); whether one is written is up to
  `AuditLog.append`, which is not built.
- The container set-up and the SQL drills are configuration and read-only queries.
