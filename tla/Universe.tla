------------------------------ MODULE Universe ------------------------------
(***************************************************************************)
(* Which tickers were tracked when: the seed ticker_universe, the snapshot *)
(* over it (SCD type 2) and dim_ticker, three nodes of `dbt build` that    *)
(* depend on nothing but one another, while the seed's file is edited and  *)
(* builds are killed. What dbt does with a snapshot of the check strategy  *)
(* is external, modelled from how the project configures it.               *)
(*                                                                         *)
(* Time is the number of snapshots that have written: valid_from and       *)
(* valid_to are places in that order.                                      *)
(***************************************************************************)
EXTENDS Naturals, Sequences, FiniteSets

CONSTANTS
  Members,     \* tickers the seed ever has a row for
  MaxSnapshots \* bound: the file is not edited after so many that wrote

ASSUME UniverseConstants == MaxSnapshots \in Nat

VARIABLES
  csv,        \* seeds/ticker_universe.csv
  seed,       \* the table made from it
  versions,   \* snapshots.ticker_universe_snapshot
  dimTicker,  \* the table dim_ticker
  buildAt,    \* the node a build comes to next
  said        \* history: the seed as each snapshot that wrote found it

universeVars == <<csv, seed, versions, dimTicker, buildAt, said>>

(* is_active of a ticker, or that it has no row.                           *)
Membership == {"true", "false", "no row"}
Tracked(list) == {m \in Members : list[m] # "no row"}

Null == 0

Version ==
  [ticker : Members, is_active : {"true", "false"}, valid_from : Nat \ {Null}, valid_to : Nat]

UniverseTypeOK ==
  /\ csv \in [Members -> Membership]
  /\ seed \in [Members -> Membership]
  /\ versions \subseteq Version
  /\ dimTicker \subseteq Version
  /\ buildAt \in {"idle", "seed", "snapshot", "dim_ticker"}
  /\ said \in Seq([Members -> Membership])

UniverseInit ==
  /\ csv \in [Members -> {"true", "no row"}]
  /\ seed = [m \in Members |-> "no row"]
  /\ versions = {}
  /\ dimTicker = {}
  /\ buildAt = "idle"
  /\ said = <<>>

(* Somebody adds a ticker, changes is_active or, which the snapshot's      *)
(* comment asks not to do, removes a row.                                  *)
EditCsv(m, to) ==
  /\ to # csv[m]
  /\ Len(said) < MaxSnapshots
  /\ csv' = [csv EXCEPT ![m] = to]
  /\ UNCHANGED <<seed, versions, dimTicker, buildAt, said>>

-----------------------------------------------------------------------------
StartBuild ==
  /\ buildAt = "idle"
  /\ buildAt' = "seed"
  /\ UNCHANGED <<csv, seed, versions, dimTicker, said>>

LoadSeed ==
  /\ buildAt = "seed"
  /\ seed' = csv
  /\ buildAt' = "snapshot"
  /\ UNCHANGED <<csv, versions, dimTicker, said>>

Current(v) == v.valid_to = Null

(* check_cols=['is_active']: rows without a current version that says so.  *)
(* A row that is gone from the seed is left as it is.                      *)
Changed ==
  {m \in Tracked(seed) :
     ~ \E v \in versions : Current(v) /\ v.ticker = m /\ v.is_active = seed[m]}

Opened(now) ==
  {[ticker |-> m, is_active |-> seed[m], valid_from |-> now, valid_to |-> Null] : m \in Changed}

(* Mutant of Closed: a changed row takes its version with it (type 1).     *)
ClosedOverwriting(now) == {v \in versions : ~ (Current(v) /\ v.ticker \in Changed)}

Closed(now) ==
  {IF Current(v) /\ v.ticker \in Changed THEN [v EXCEPT !.valid_to = now] ELSE v : v \in versions}

Snapshot ==
  /\ buildAt = "snapshot"
  /\ LET now == Len(said) + 1 IN
       IF Changed = {}
       THEN UNCHANGED <<versions, said>>
       ELSE /\ versions' = Closed(now) \cup Opened(now)
            /\ said' = Append(said, seed)
  /\ buildAt' = "dim_ticker"
  /\ UNCHANGED <<csv, seed, dimTicker>>

(* is_current is valid_to being null.                                      *)
BuildDimTicker ==
  /\ buildAt = "dim_ticker"
  /\ dimTicker' = versions
  /\ buildAt' = "idle"
  /\ UNCHANGED <<csv, seed, versions, said>>

(* A node is one transaction; a build is killed between two.               *)
KillBuild ==
  /\ buildAt # "idle"
  /\ buildAt' = "idle"
  /\ UNCHANGED <<csv, seed, versions, dimTicker, said>>

UniverseNext ==
  \/ \E m \in Members, to \in Membership : EditCsv(m, to)
  \/ StartBuild \/ LoadSeed \/ Snapshot \/ BuildDimTicker \/ KillBuild

UniverseSpec == UniverseInit /\ [][UniverseNext]_universeVars

-----------------------------------------------------------------------------
ValidAt(v, time) == v.valid_from <= time /\ (Current(v) \/ time < v.valid_to)

(* "Which tickers were we tracking on 2026-08-01?" has one answer, the     *)
(* same ever after (ticker_universe_snapshot.sql:3-7, docs/data_model.md:  *)
(* 55): for every time dim_ticker knows of, it has one version of each     *)
(* ticker the seed listed then, which says what the seed said - through    *)
(* edits, removed and re-added rows, and builds killed between two nodes.  *)
HistoryIsKept ==
  \A v \in dimTicker : \A m \in Tracked(said[v.valid_from]) :
    LET valid == {w \in dimTicker : w.ticker = m /\ ValidAt(w, v.valid_from)} IN
    /\ Cardinality(valid) = 1
    /\ \A w \in valid : w.is_active = said[v.valid_from][m]
=============================================================================
