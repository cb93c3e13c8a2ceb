------------------------------ MODULE Warehouse ------------------------------
(***************************************************************************)
(* `dbt build` (dbt/) over a raw zone that is re-derived meanwhile.        *)
(*                                                                         *)
(* The raw zone is PartitionStore: all a build may rely on is its          *)
(* contract. A build first tests stg_ohlcv, a view that reads the raw zone *)
(* anew for every node of the build, then makes dim_date and the           *)
(* incremental fct_daily_bars from it, then tests the fact. Beside these   *)
(* it loads the seed ticker_universe, snapshots it and makes dim_ticker,   *)
(* which one of the tests of the fact compares it with; of that branch,    *)
(* here are the tickers (Universe has their versions). One build runs at a *)
(* time (profiles.yml: one writer, one thread). What dbt does with a model *)
(* and a test is external, modelled from how the project uses it.          *)
(***************************************************************************)
EXTENDS OhlcvFrame

CONSTANTS
  Sessions,     \* session dates
  TickerLists,  \* lists the `tickers` Variable may hold
  NoFile,       \* a path with nothing there
  Deliveries,   \* contents an ingest may land, per session
  SeedLists,    \* sets of tickers seeds/ticker_universe.csv may list
  Lookback      \* 7 days in the code

ASSUME WarehouseConstants ==
  /\ Sessions \subseteq Dates /\ Dates \subseteq Nat
  /\ SeedLists \subseteq SUBSET Tickers
  /\ Lookback \in Nat

VARIABLES
  partition,  \* the raw zone
  stage,      \* of the running build
  left,       \* nodes of this stage that have not run
  hasFact,    \* does the table fct_daily_bars exist
  fact,       \* its rows
  dimDate,    \* the calendar dates of dim_date
  listed,     \* tickers in the seed's file
  tracked,    \* tickers the snapshot has a version of
  dimTicker,  \* tickers of dim_ticker
  tickerNode, \* the node the branch of the tickers comes to next
  outcome,    \* of the last build
  quiet,      \* history: no partition has changed since the build began
  clean       \* history: nothing was wrong when it began, and since then it
              \* has not been killed and nobody has edited the seed

tables == <<hasFact, fact, dimDate>>
universe == <<listed, tracked, dimTicker, tickerNode>>
build == <<stage, left, outcome, clean>>
vars == <<partition, build, tables, universe, quiet>>

Raw == INSTANCE PartitionStore

ASSUME NoFileIsNoContent == NoFile \notin Raw!Content

Row == [session : Sessions, bar : Bar]

StagingTests == {"unique", "close", "dated"}
Models == {"dim_date", "fct_daily_bars"}
FactTests == {"unique", "close", "dates", "tickers"}

TypeOK ==
  /\ partition \in [Sessions -> Raw!Content \cup {NoFile}]
  /\ stage \in {"idle", "staging", "models", "fact"}
  /\ left \subseteq StagingTests \cup Models \cup FactTests
  /\ hasFact \in BOOLEAN
  /\ fact \subseteq Row
  /\ dimDate \subseteq Dates
  /\ listed \in SeedLists
  /\ tracked \subseteq Tickers /\ dimTicker \subseteq Tickers
  /\ tickerNode \in {"snapshot", "dim_ticker", "done"}
  /\ outcome \in {"none", "green", "red"}
  /\ quiet \in BOOLEAN
  /\ clean \in BOOLEAN

-----------------------------------------------------------------------------
(* What the nodes compute.                                                 *)

Landed == {s \in Sessions : partition[s] # NoFile}

(* stg_ohlcv: the rows of all partitions, with the partition key.          *)
Staged == UNION {{[session |-> s, bar |-> b] : b \in partition[s].bars} : s \in Landed}

Key(row) == <<row.session, row.bar.ticker>>
KeysOf(rows) == {Key(r) : r \in rows}
TickersIn(rows) == {r.bar.ticker : r \in rows}

(* The data tests; not_null on the keys holds of any row here.             *)
Unique(rows) == \A q, r \in rows : Key(q) = Key(r) => q = r
CloseNotNull(rows) == \A r \in rows : r.bar.close # "null"
DateMatchesPartition(rows) == \A r \in rows : r.bar.date = r.session

(* Mutant of Spine: one day too many.                                      *)
LongSpine(days) == UNION {a .. b + 1 : a, b \in days}

(* generate_series(min(session_date), max(session_date)).                  *)
Spine(days) == {d \in Dates : \E a, b \in days : d \in a .. b}

(* Mutant of InWindow: only what is newer than the high-water mark.        *)
AfterHighWater(session) == fact # {} /\ \A r \in fact : session > r.session

(* session_date >= (select max(session_date) - interval 7 day from this).  *)
(* Of an empty fact the maximum is null, and nothing is selected.          *)
InWindow(session) == fact # {} /\ \A r \in fact : session + Lookback >= r.session

(* delete+insert on unique_key: rows with a key among the new ones go.     *)
Refreshed(new) == {r \in fact : Key(r) \notin KeysOf(new)} \cup new

-----------------------------------------------------------------------------
Init ==
  /\ partition = [s \in Sessions |-> NoFile]
  /\ stage = "idle"
  /\ left = {}
  /\ hasFact = FALSE
  /\ fact = {}
  /\ dimDate = {}
  /\ listed \in SeedLists
  /\ tracked = {} /\ dimTicker = {}
  /\ tickerNode = "done"
  /\ outcome = "none"
  /\ quiet = FALSE
  /\ clean = FALSE

(* An ingest overwrites a partition: first load, re-run or backfill.       *)
Land(s) ==
  /\ \E c \in Deliveries[s] : partition' = [partition EXCEPT ![s] = c]
  /\ Raw!Put(s)
  /\ quiet' = FALSE
  /\ UNCHANGED <<build, tables, universe>>

(* Somebody adds tickers to the seed's file, or removes some.              *)
EditSeed ==
  /\ listed' \in SeedLists \ {listed}
  /\ clean' = FALSE
  /\ UNCHANGED <<partition, stage, left, outcome, tables, quiet>>
  /\ UNCHANGED <<tracked, dimTicker, tickerNode>>

Sane(rows) == Unique(rows) /\ CloseNotNull(rows) /\ DateMatchesPartition(rows)

(* Each ticker is listed, or was when some snapshot was taken.             *)
Known(rows) == TickersIn(rows) \subseteq listed \cup tracked

(* `dbt build`. With no partition to read, the view cannot be created.     *)
Start ==
  /\ stage = "idle" /\ tickerNode = "done"
  /\ IF Landed = {}
     THEN stage' = "idle" /\ left' = {} /\ outcome' = "red" /\ clean' = FALSE
     ELSE /\ stage' = "staging"
          /\ left' = StagingTests
          /\ outcome' = "none"
          /\ clean' = (Sane(Staged) /\ Sane(fact) /\ Known(Staged) /\ Known(fact))
  /\ tickerNode' = "snapshot"
  /\ quiet' = TRUE
  /\ UNCHANGED <<partition, tables, listed, tracked, dimTicker>>

(* One node is done; the last one of a stage opens the next.               *)
Done(node) ==
  LET rest == left \ {node} IN
  \/ /\ rest # {}
     /\ left' = rest
     /\ UNCHANGED <<stage, outcome>>
  \/ /\ rest = {} /\ stage = "staging"
     /\ stage' = "models" /\ left' = Models
     /\ UNCHANGED outcome
  \/ /\ rest = {} /\ stage = "models"
     /\ stage' = "fact" /\ left' = FactTests
     /\ UNCHANGED outcome
  \/ /\ rest = {} /\ stage = "fact"
     /\ stage' = "idle" /\ left' = {}
     /\ outcome' = "green"

(* A failed test skips what depends on the tested model. The tests of the  *)
(* same model that still run change nothing: this branch ends here.        *)
Failed == stage' = "idle" /\ left' = {} /\ outcome' = "red"

Verdict(test, passes) == IF passes THEN Done(test) ELSE Failed

StagingPasses(test) ==
  /\ test = "unique" => Unique(Staged)
  /\ test = "close"  => CloseNotNull(Staged)
  /\ test = "dated"  => DateMatchesPartition(Staged)

StagingTest(test) ==
  /\ stage = "staging"
  /\ test \in left
  /\ Verdict(test, StagingPasses(test))
  /\ UNCHANGED <<partition, tables, universe, quiet, clean>>

BuildDimDate ==
  /\ stage = "models"
  /\ "dim_date" \in left
  /\ dimDate' = Spine({r.session : r \in Staged})
  /\ Done("dim_date")
  /\ UNCHANGED <<partition, hasFact, fact, universe, quiet, clean>>

(* The first build makes the table of all rows, later ones refresh the     *)
(* window.                                                                 *)
BuildFact ==
  /\ stage = "models"
  /\ "fct_daily_bars" \in left
  /\ hasFact' = TRUE
  /\ fact' = IF hasFact
             THEN Refreshed({r \in Staged : InWindow(r.session)})
             ELSE Staged
  /\ Done("fct_daily_bars")
  /\ UNCHANGED <<partition, dimDate, universe, quiet, clean>>

(* The seed is loaded, and the snapshot over it adds what is new; a ticker *)
(* that is gone from the seed keeps its versions.                          *)
SnapshotTickers ==
  /\ tickerNode = "snapshot"
  /\ tickerNode' = "dim_ticker"
  /\ tracked' = tracked \cup listed
  /\ UNCHANGED <<partition, build, tables, quiet, listed, dimTicker>>

(* Mutant of BuildDimTicker: the seed's tickers, not the snapshot's.       *)
BuildDimTickerOfSeed ==
  /\ tickerNode = "dim_ticker"
  /\ tickerNode' = "done"
  /\ dimTicker' = listed
  /\ UNCHANGED <<partition, build, tables, quiet, listed, tracked>>

BuildDimTicker ==
  /\ tickerNode = "dim_ticker"
  /\ tickerNode' = "done"
  /\ dimTicker' = tracked
  /\ UNCHANGED <<partition, build, tables, quiet, listed, tracked>>

(* Mutant of FactPasses: the grain is tested on stg_ohlcv only.            *)
FactPassesUngrained(test) ==
  /\ test = "close" => CloseNotNull(fact)
  /\ test = "dates" => \A r \in fact : r.session \in dimDate
  /\ test = "tickers" => TickersIn(fact) \subseteq dimTicker

FactPasses(test) ==
  /\ test = "unique" => Unique(fact)
  /\ test = "close"  => CloseNotNull(fact)
  /\ test = "dates"  => \A r \in fact : r.session \in dimDate
  /\ test = "tickers" => TickersIn(fact) \subseteq dimTicker

(* A relationships test waits for the model it refers to.                  *)
FactTest(test) ==
  /\ stage = "fact"
  /\ test \in left
  /\ test = "tickers" => tickerNode = "done"
  /\ Verdict(test, FactPasses(test))
  /\ UNCHANGED <<partition, tables, universe, quiet, clean>>

(* The build is killed between two nodes; a node is one transaction.       *)
Kill ==
  /\ stage # "idle" \/ tickerNode # "done"
  /\ Failed
  /\ clean' = FALSE
  /\ tickerNode' = "done"
  /\ UNCHANGED <<partition, tables, listed, tracked, dimTicker, quiet>>

Next ==
  \/ \E s \in Sessions : Land(s)
  \/ EditSeed \/ Start \/ Kill
  \/ BuildDimDate \/ BuildFact \/ SnapshotTickers \/ BuildDimTicker
  \/ \E test \in StagingTests : StagingTest(test)
  \/ \E test \in FactTests : FactTest(test)

Spec == Init /\ [][Next]_vars

-----------------------------------------------------------------------------
RowsOf(rows, key) == {r \in rows : Key(r) = key}

(* No row of the fact is more than the lookback ahead of the session.      *)
Recent(session) == \A r \in fact : session + Lookback >= r.session

Vouched == outcome = "green" /\ quiet

Agrees ==
  \A r \in Staged :
    Recent(r.session) => RowsOf(fact, Key(r)) = RowsOf(Staged, Key(r))

(* After a green build over a raw zone nobody touched meanwhile, the fact  *)
(* has, for every key of a recent partition, exactly that partition's row: *)
(* corrections behind the high-water mark are loaded, and what they        *)
(* replace is gone (fct_daily_bars.sql:4-8).                               *)
FactAgrees == Vouched => Agrees

(* A green build vouches for the fact, whatever landed between the tests   *)
(* of the view and the load, and whoever edits the seed: one row per       *)
(* (session, ticker), no null close, every session in dim_date and every   *)
(* ticker in dim_ticker (_marts.yml:4-27).                                 *)
GreenFactIsSound ==
  outcome = "green" =>
    /\ Unique(fact)
    /\ CloseNotNull(fact)
    /\ \A r \in fact : r.session \in dimDate
    /\ TickersIn(fact) \subseteq dimTicker

(* No false alarm: a build that begins with nothing wrong in the raw zone  *)
(* or the fact, with every ticker of theirs in the seed or, from an        *)
(* earlier build, in the snapshot, that is not killed, and that no ingest  *)
(* and no edit of the seed disturbs, is green: dim_date and the fact, read *)
(* from the view apart, agree, and a ticker that has left the seed since   *)
(* its bars were loaded fails nothing (_marts.yml:16-26).                  *)
QuietBuildIsGreen == outcome = "red" => ~ (quiet /\ clean)

(* "The model rebuilds a lookback window on every run"                     *)
(* (docs/data_model.md:59, fct_daily_bars.sql:8): after a green build over *)
(* a raw zone nobody touched, the recent rows of the fact are those of the *)
(* raw zone.                                                               *)
WindowRebuilt ==
  Vouched =>
    {r \in fact : Recent(r.session)} = {r \in Staged : Recent(r.session)}
=============================================================================
