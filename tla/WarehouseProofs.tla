--------------------------- MODULE WarehouseProofs ---------------------------
(***************************************************************************)
(* Proofs about Warehouse, for every set of sessions and tickers, every    *)
(* lookback and every sequence of acceptable deliveries.                   *)
(***************************************************************************)
EXTENDS Warehouse, TLAPS

LEMMA StagedRows == TypeOK => Staged \subseteq Row
BY DEF TypeOK, Staged, Landed, Row, Raw!Content, Raw!Bar, Bar

(* The calendar spine has every session it is spanned by.                  *)
LEMMA SpineSpans ==
  ASSUME NEW days \in SUBSET Sessions
  PROVE  days \subseteq Spine(days)
BY WarehouseConstants DEF Spine

(* Where a build can go when a node is done or has failed.                 *)
LEMMA NodeEnds ==
  ASSUME TypeOK, NEW n, Done(n) \/ Failed
  PROVE  /\ stage' \in {"idle", "staging", "models", "fact"}
         /\ left' \subseteq StagingTests \cup Models \cup FactTests
         /\ outcome' \in {"none", "green", "red"}
BY DEF TypeOK, Done, Failed

LEMMA KeepsTypes ==
  ASSUME TypeOK, [Next]_vars
  PROVE  TypeOK'
<1>. USE DEF build, tables, universe
<1>0. CASE EditSeed
  BY <1>0 DEF TypeOK, EditSeed
<1>1. ASSUME NEW s \in Sessions, Land(s) PROVE TypeOK'
  <2>1. partition' \in [Sessions -> Raw!Content \cup {NoFile}]
    BY <1>1 DEF TypeOK, Land, Raw!Put
  <2>. QED
    BY <1>1, <2>1 DEF TypeOK, Land
<1>2. CASE Start
  BY <1>2 DEF TypeOK, Start, Sane, Unique, CloseNotNull, DateMatchesPartition, Known
<1>3. CASE Kill
  BY <1>3 DEF TypeOK, Kill, Failed
<1>4. CASE BuildDimDate
  <2>1. dimDate' \subseteq Dates
    BY <1>4 DEF BuildDimDate, Spine
  <2>. QED
    BY <1>4, <2>1, NodeEnds DEF TypeOK, BuildDimDate
<1>5. CASE BuildFact
  <2>1. fact' \subseteq fact \cup Staged
    BY <1>5 DEF BuildFact, Refreshed
  <2>. QED
    BY <1>5, <2>1, StagedRows, NodeEnds DEF TypeOK, BuildFact
<1>6. ASSUME NEW test \in StagingTests, StagingTest(test) PROVE TypeOK'
  BY <1>6, NodeEnds DEF TypeOK, StagingTest, Verdict
<1>7. ASSUME NEW test \in FactTests, FactTest(test) PROVE TypeOK'
  BY <1>7, NodeEnds DEF TypeOK, FactTest, Verdict
<1>8. CASE SnapshotTickers
  <2>1. tracked' \subseteq Tickers
    BY <1>8, WarehouseConstants DEF SnapshotTickers, TypeOK
  <2>. QED
    BY <1>8, <2>1 DEF TypeOK, SnapshotTickers
<1>9. CASE BuildDimTicker
  BY <1>9 DEF TypeOK, BuildDimTicker
<1>10. CASE UNCHANGED vars
  BY <1>10 DEF TypeOK, vars
<1>. QED
  BY <1>0, <1>1, <1>2, <1>3, <1>4, <1>5, <1>6, <1>7, <1>8, <1>9, <1>10 DEF Next

(* All variables keep their types, in any interleaving of builds with      *)
(* ingests: in particular dim_date holds calendar dates only.              *)
THEOREM WarehouseTypesCorrect == Spec => []TypeOK
<1>1. Init => TypeOK
  BY DEF Init, TypeOK
<1>2. TypeOK /\ [Next]_vars => TypeOK'
  BY KeepsTypes
<1>. QED
  BY <1>1, <1>2, PTL DEF Spec

-----------------------------------------------------------------------------
(* What a green build vouches for.                                         *)

Dated == \A r \in fact : r.session \in dimDate
AllKnown == TickersIn(fact) \subseteq dimTicker

(* A test of the fact that has passed stays true until the tables change,  *)
(* and they change in the models stage only; dim_ticker is done with when  *)
(* it is compared.                                                         *)
PassedHold ==
  stage = "fact" =>
    /\ left \subseteq FactTests
    /\ "unique" \notin left => Unique(fact)
    /\ "close" \notin left => CloseNotNull(fact)
    /\ "dates" \notin left => Dated
    /\ "tickers" \notin left => AllKnown /\ tickerNode = "done"

GreenIsOver == outcome = "green" => stage = "idle"
TickersAreDone == outcome = "green" => tickerNode = "done"

GreenInv == TypeOK /\ PassedHold /\ GreenIsOver /\ TickersAreDone /\ GreenFactIsSound

LEMMA SameTablesSameTests ==
  ASSUME UNCHANGED tables
  PROVE  /\ Unique(fact)' <=> Unique(fact)
         /\ CloseNotNull(fact)' <=> CloseNotNull(fact)
         /\ Dated' <=> Dated
         /\ dimTicker' = dimTicker => (AllKnown' <=> AllKnown)
BY DEF tables, Unique, Key, CloseNotNull, Dated, AllKnown, TickersIn

LEMMA KeepsGreen ==
  ASSUME GreenInv, [Next]_vars
  PROVE  GreenInv'
<1>. USE DEF build, universe
<1>0. TypeOK'
  BY KeepsTypes DEF GreenInv
<1>. USE DEF GreenInv, GreenIsOver, TickersAreDone
<1>1. ASSUME UNCHANGED <<stage, left, outcome, tables, dimTicker, tickerNode>>
      PROVE  GreenInv'
  BY <1>0, <1>1, SameTablesSameTests DEF PassedHold, GreenFactIsSound, Dated, AllKnown
<1>2. ASSUME NEW s \in Sessions, Land(s) PROVE GreenInv'
  BY <1>1, <1>2 DEF Land
<1>3. CASE Start
  BY <1>0, <1>3 DEF Start, PassedHold, GreenFactIsSound
<1>4. CASE Kill
  BY <1>0, <1>4 DEF Kill, Failed, PassedHold, GreenFactIsSound
<1>5. CASE BuildDimDate
  BY <1>0, <1>5 DEF BuildDimDate, Done, PassedHold, GreenFactIsSound, FactTests, Models, TypeOK
<1>6. CASE BuildFact
  BY <1>0, <1>6 DEF BuildFact, Done, PassedHold, GreenFactIsSound, FactTests, Models, TypeOK
<1>7. ASSUME NEW test \in StagingTests, StagingTest(test) PROVE GreenInv'
  BY <1>0, <1>7 DEF StagingTest, Verdict, Done, Failed, PassedHold, GreenFactIsSound
<1>8. ASSUME NEW test \in FactTests, FactTest(test) PROVE GreenInv'
  <2>1. /\ UNCHANGED tables /\ UNCHANGED <<dimTicker, tickerNode>>
        /\ stage = "fact" /\ test \in left
        /\ test = "tickers" => tickerNode = "done"
    BY <1>8 DEF FactTest
  <2>2. CASE Failed
    BY <1>0, <2>2 DEF Failed, PassedHold, GreenFactIsSound
  <2>3. CASE FactPasses(test) /\ Done(test)
    <3>1. /\ "unique" \notin left \ {test} => Unique(fact)
          /\ "close" \notin left \ {test} => CloseNotNull(fact)
          /\ "dates" \notin left \ {test} => Dated
          /\ "tickers" \notin left \ {test} => AllKnown /\ tickerNode = "done"
      BY <2>1, <2>3 DEF PassedHold, FactPasses, FactTests, Dated, AllKnown
    <3>2. CASE left \ {test} # {}
      BY <1>0, <2>1, <2>3, <3>1, <3>2, SameTablesSameTests
      DEF Done, PassedHold, GreenFactIsSound
    <3>3. CASE left \ {test} = {}
      BY <1>0, <2>1, <2>3, <3>1, <3>3, SameTablesSameTests
      DEF Done, PassedHold, GreenFactIsSound, Dated, AllKnown
    <3>. QED
      BY <3>2, <3>3
  <2>. QED
    BY <1>8, <2>2, <2>3 DEF FactTest, Verdict
<1>9. CASE EditSeed
  BY <1>1, <1>9 DEF EditSeed
<1>10. CASE SnapshotTickers
  BY <1>0, <1>10, SameTablesSameTests
  DEF SnapshotTickers, PassedHold, GreenFactIsSound
<1>11. CASE BuildDimTicker
  BY <1>0, <1>11, SameTablesSameTests
  DEF BuildDimTicker, PassedHold, GreenFactIsSound
<1>12. CASE UNCHANGED vars
  BY <1>1, <1>12 DEF vars
<1>. QED
  BY <1>2, <1>3, <1>4, <1>5, <1>6, <1>7, <1>8, <1>9, <1>10, <1>11, <1>12 DEF Next

(* Whatever lands between the tests of the view and the load of the fact,  *)
(* and whoever edits the seed, a build that ends green leaves a fact at    *)
(* its grain, without null close, every session of it in dim_date and      *)
(* every ticker in dim_ticker.                                             *)
THEOREM GreenBuildsAreSound == Spec => []GreenFactIsSound
<1>1. Init => GreenInv
  BY DEF Init, GreenInv, TypeOK, PassedHold, GreenIsOver, TickersAreDone, GreenFactIsSound
<1>2. GreenInv /\ [Next]_vars => GreenInv'
  BY KeepsGreen
<1>3. GreenInv => GreenFactIsSound
  BY DEF GreenInv
<1>. QED
  BY <1>1, <1>2, <1>3, PTL DEF Spec

-----------------------------------------------------------------------------
(* What a build does that no ingest disturbs. An empty partition passes    *)
(* the gates of the DAG when the ticker list repeats entries; a fact first *)
(* built from empty partitions alone has no high-water mark, and no later  *)
(* build would load anything. The next two theorems leave it out.          *)

NothingEmpty == \A s \in Sessions : \A c \in Deliveries[s] : c.bars # {}

(* What is landed has rows, and so has a fact that was ever built; dates   *)
(* of the fact stay dates of the raw zone, for no partition is removed.    *)
Fed ==
  /\ \A s \in Landed : partition[s].bars # {}
  /\ stage # "idle" => Landed # {}
  /\ hasFact => fact # {}
  /\ \A r \in fact : r.session \in Landed

FactBuilt ==
  \/ stage = "models" /\ "fct_daily_bars" \notin left
  \/ stage = "fact"
  \/ outcome = "green"

AgreesInv == TypeOK /\ Fed /\ GreenIsOver /\ (quiet /\ FactBuilt => Agrees)

LEMMA LandedRows ==
  ASSUME TypeOK, Fed
  PROVE  /\ \A r \in Staged : r.session \in Landed
         /\ \A s \in Landed : \E r \in Staged : r.session = s
<1>1. ASSUME NEW r \in Staged PROVE r.session \in Landed
  BY DEF Staged, Landed
<1>2. ASSUME NEW s \in Landed PROVE \E r \in Staged : r.session = s
  <2>1. PICK b \in partition[s].bars : TRUE
    BY DEF Fed
  <2>2. [session |-> s, bar |-> b] \in Staged
    BY <2>1 DEF Staged
  <2>. QED
    BY <2>2
<1>. QED
  BY <1>1, <1>2

LEMMA SameZoneSameView ==
  ASSUME UNCHANGED partition
  PROVE  Staged' = Staged /\ Landed' = Landed
BY DEF Staged, Landed

LEMMA SameZoneSameAgrees ==
  ASSUME UNCHANGED <<partition, fact>>
  PROVE  Agrees' <=> Agrees
BY SameZoneSameView DEF Agrees, Recent, RowsOf, Key

(* The load itself: what is recent afterwards was in the window before, so *)
(* it has been replaced.                                                   *)
LEMMA LoadAgrees ==
  ASSUME TypeOK, Fed, BuildFact
  PROVE  Agrees'
<1>1. partition' = partition /\ Staged' = Staged
  BY SameZoneSameView DEF BuildFact
<1>2. CASE ~ hasFact
  BY <1>1, <1>2 DEF BuildFact, Agrees, RowsOf, Key
<1>3. CASE hasFact
  <2>. DEFINE new == {r \in Staged : InWindow(r.session)}
  <2>1. fact' = {r \in fact : Key(r) \notin KeysOf(new)} \cup new
    BY <1>3 DEF BuildFact, Refreshed
  <2>2. SUFFICES ASSUME NEW r \in Staged, Recent(r.session)'
                 PROVE  RowsOf(fact', Key(r)) = RowsOf(Staged, Key(r))
    BY <1>1 DEF Agrees, RowsOf, Key
  <2>3. InWindow(r.session)
    <3>1. ASSUME NEW q \in fact PROVE \E n \in fact' : n.session = q.session
      BY <2>1 DEF KeysOf, Key
    <3>2. ASSUME NEW q \in fact PROVE r.session + Lookback >= q.session
      BY <2>2, <3>1 DEF Recent
    <3>. QED
      BY <1>3, <3>2 DEF InWindow, Fed
  <2>4. ASSUME NEW q \in RowsOf(Staged, Key(r)) PROVE q \in new
    BY <2>3, <2>4 DEF RowsOf, Key
  <2>5. Key(r) \in KeysOf(new)
    BY <2>3 DEF KeysOf
  <2>6. RowsOf(fact', Key(r)) \subseteq RowsOf(Staged, Key(r))
    BY <2>1, <2>5 DEF RowsOf
  <2>7. RowsOf(Staged, Key(r)) \subseteq RowsOf(fact', Key(r))
    BY <2>1, <2>4 DEF RowsOf
  <2>. QED
    BY <2>6, <2>7
<1>. QED
  BY <1>2, <1>3 DEF TypeOK

LEMMA KeepsFed ==
  ASSUME NothingEmpty, TypeOK, Fed, [Next]_vars
  PROVE  Fed'
<1>. USE DEF build, tables
<1>0. CASE EditSeed \/ SnapshotTickers \/ BuildDimTicker
  BY <1>0, SameZoneSameView DEF EditSeed, SnapshotTickers, BuildDimTicker, Fed
<1>1. ASSUME NEW s \in Sessions, Land(s) PROVE Fed'
  <2>1. PICK c \in Deliveries[s] : partition' = [partition EXCEPT ![s] = c]
    BY <1>1 DEF Land
  <2>2. c.bars # {} /\ partition'[s] = c
    BY <2>1 DEF NothingEmpty, TypeOK
  <2>3. Landed \subseteq Landed'
    BY <1>1, <2>1, NoFileIsNoContent DEF Landed, Land, Raw!Put, TypeOK
  <2>4. \A u \in Landed' : partition'[u].bars # {}
    BY <2>1, <2>2 DEF Landed, Fed, TypeOK
  <2>. QED
    BY <1>1, <2>3, <2>4 DEF Land, Fed
<1>2. CASE Start
  BY <1>2, SameZoneSameView DEF Start, Fed
<1>3. CASE Kill
  BY <1>3, SameZoneSameView DEF Kill, Failed, Fed
<1>4. CASE BuildDimDate
  BY <1>4, SameZoneSameView DEF BuildDimDate, Done, Fed
<1>5. CASE BuildFact
  <2>1. Landed' = Landed /\ partition' = partition
    BY <1>5, SameZoneSameView DEF BuildFact
  <2>2. Staged # {}
    BY <1>5, LandedRows DEF BuildFact, Fed
  <2>3. \A r \in fact' : r.session \in Landed
    BY <1>5, LandedRows DEF BuildFact, Refreshed, Fed
  <2>4. fact' # {}
    <3>1. CASE ~ hasFact
      BY <1>5, <2>2, <3>1 DEF BuildFact
    <3>2. CASE hasFact
      <4>1. PICK r \in fact : TRUE
        BY <3>2 DEF Fed
      <4>2. CASE Key(r) \in KeysOf({q \in Staged : InWindow(q.session)})
        BY <1>5, <3>2, <4>2 DEF BuildFact, Refreshed, KeysOf
      <4>3. CASE Key(r) \notin KeysOf({q \in Staged : InWindow(q.session)})
        BY <1>5, <3>2, <4>1, <4>3 DEF BuildFact, Refreshed
      <4>. QED
        BY <4>2, <4>3
    <3>. QED
      BY <3>1, <3>2
  <2>. QED
    BY <1>5, <2>1, <2>3, <2>4 DEF BuildFact, Fed
<1>6. ASSUME NEW test \in StagingTests, StagingTest(test) PROVE Fed'
  BY <1>6, SameZoneSameView DEF StagingTest, Verdict, Done, Failed, Fed
<1>7. ASSUME NEW test \in FactTests, FactTest(test) PROVE Fed'
  BY <1>7, SameZoneSameView DEF FactTest, Verdict, Done, Failed, Fed
<1>8. CASE UNCHANGED vars
  BY <1>8, SameZoneSameView DEF vars, Fed
<1>. QED
  BY <1>0, <1>1, <1>2, <1>3, <1>4, <1>5, <1>6, <1>7, <1>8 DEF Next

LEMMA KeepsAgrees ==
  ASSUME NothingEmpty, AgreesInv, [Next]_vars
  PROVE  AgreesInv'
<1>. USE DEF build, tables
<1>0. TypeOK' /\ Fed'
  BY KeepsTypes, KeepsFed DEF AgreesInv
<1>. USE <1>0 DEF AgreesInv, GreenIsOver, FactBuilt
<1>1. ASSUME NEW s \in Sessions, Land(s) PROVE AgreesInv'
  BY <1>1 DEF Land
<1>2. CASE Start
  BY <1>2 DEF Start
<1>3. CASE Kill
  BY <1>3 DEF Kill, Failed
<1>4. CASE BuildDimDate
  BY <1>4, SameZoneSameAgrees DEF BuildDimDate, Done, Models, TypeOK
<1>5. CASE BuildFact
  BY <1>5, LoadAgrees DEF BuildFact, Done
<1>6. ASSUME NEW test \in StagingTests, StagingTest(test) PROVE AgreesInv'
  BY <1>6 DEF StagingTest, Verdict, Done, Failed, Models
<1>7. ASSUME NEW test \in FactTests, FactTest(test) PROVE AgreesInv'
  BY <1>7, SameZoneSameAgrees DEF FactTest, Verdict, Done, Failed
<1>8. CASE EditSeed
  BY <1>8, SameZoneSameAgrees DEF EditSeed
<1>9. CASE SnapshotTickers \/ BuildDimTicker
  BY <1>9, SameZoneSameAgrees DEF SnapshotTickers, BuildDimTicker
<1>10. CASE UNCHANGED vars
  BY <1>10, SameZoneSameAgrees DEF vars
<1>. QED
  BY <1>1, <1>2, <1>3, <1>4, <1>5, <1>6, <1>7, <1>8, <1>9, <1>10 DEF Next

(* When no ingest disturbs a build that ends green, the rows of every      *)
(* recent partition are in the fact as they are in the raw zone,           *)
(* corrections behind the high-water mark included, for any lookback.      *)
THEOREM FactFollowsRawZone ==
  ASSUME NothingEmpty
  PROVE  Spec => []FactAgrees
<1>1. Init => AgreesInv
  BY DEF Init, AgreesInv, TypeOK, Fed, Landed, GreenIsOver
<1>2. AgreesInv /\ [Next]_vars => AgreesInv'
  BY KeepsAgrees
<1>3. AgreesInv => FactAgrees
  BY DEF AgreesInv, FactAgrees, Vouched, FactBuilt
<1>. QED
  BY <1>1, <1>2, <1>3, PTL DEF Spec

-----------------------------------------------------------------------------
(* No false alarm.                                                         *)

SpineReaches == Landed \subseteq dimDate

(* What the branch of the tickers has come to covers them all.             *)
TickersReach ==
  LET all == TickersIn(Staged) \cup TickersIn(fact) IN
  /\ tickerNode = "snapshot" => all \subseteq listed \cup tracked
  /\ tickerNode = "dim_ticker" => all \subseteq tracked
  /\ tickerNode = "done" => all \subseteq dimTicker

(* What an undisturbed build over clean data knows on its way.             *)
OnTrack ==
  /\ outcome # "red"
  /\ stage # "idle" => Sane(Staged) /\ Sane(fact) /\ TickersReach
  /\ stage = "models" => left \subseteq Models
  /\ stage = "models" /\ "dim_date" \notin left => SpineReaches
  /\ stage = "fact" => SpineReaches

QuietInv == TypeOK /\ Fed /\ (quiet /\ clean => OnTrack)

LEMMA SameViewSameSanity ==
  /\ UNCHANGED partition => (Sane(Staged)' <=> Sane(Staged))
  /\ UNCHANGED fact => (Sane(fact)' <=> Sane(fact))
BY SameZoneSameView DEF Sane, Unique, Key, CloseNotNull, DateMatchesPartition

LEMMA SameViewSameTickers ==
  ASSUME UNCHANGED <<partition, fact, universe>>
  PROVE  TickersReach' <=> TickersReach
BY SameZoneSameView DEF TickersReach, TickersIn, universe

LEMMA LoadIsSane ==
  ASSUME BuildFact, Sane(Staged), Sane(fact)
  PROVE  Sane(fact)'
<1>1. CASE ~ hasFact
  BY <1>1 DEF BuildFact, Sane, Unique, Key, CloseNotNull, DateMatchesPartition
<1>2. CASE hasFact
  <2>1. Unique(fact)'
    BY <1>2 DEF BuildFact, Refreshed, KeysOf, Sane, Unique
  <2>2. CloseNotNull(fact)' /\ DateMatchesPartition(fact)'
    BY <1>2 DEF BuildFact, Refreshed, Sane, CloseNotNull, DateMatchesPartition
  <2>. QED
    BY <2>1, <2>2 DEF Sane
<1>. QED
  BY <1>1, <1>2

(* The load brings in no ticker that the view does not have.               *)
LEMMA LoadBringsNoTicker ==
  ASSUME BuildFact
  PROVE  TickersReach => TickersReach'
<1>1. Staged' = Staged /\ UNCHANGED universe
  BY SameZoneSameView DEF BuildFact
<1>2. fact' \subseteq fact \cup Staged
  BY DEF BuildFact, Refreshed
<1>3. TickersIn(fact)' \subseteq TickersIn(Staged) \cup TickersIn(fact)
  BY <1>2 DEF TickersIn
<1>4. TickersIn(Staged)' = TickersIn(Staged)
  BY <1>1 DEF TickersIn
<1>. QED
  BY <1>1, <1>3, <1>4 DEF TickersReach, universe

LEMMA KeepsQuiet ==
  ASSUME NothingEmpty, QuietInv, [Next]_vars
  PROVE  QuietInv'
<1>. USE DEF build, tables
<1>0. TypeOK' /\ Fed'
  BY KeepsTypes, KeepsFed DEF QuietInv
<1>. SUFFICES ASSUME quiet', clean' PROVE OnTrack'
  BY <1>0 DEF QuietInv
<1>1. ASSUME NEW s \in Sessions, Land(s) PROVE OnTrack'
  BY <1>1 DEF Land
<1>2. CASE Start
  <2>1. CASE Landed = {}
    BY <1>2, <2>1 DEF Start
  <2>2. CASE Landed # {}
    <3>1. Sane(Staged) /\ Sane(fact) /\ Known(Staged) /\ Known(fact)
      BY <1>2, <2>2 DEF Start
    <3>2. Sane(Staged)' /\ Sane(fact)'
      BY <1>2, <3>1, SameViewSameSanity DEF Start
    <3>3. TickersReach'
      BY <1>2, <3>1, SameZoneSameView DEF Start, TickersReach, TickersIn, Known
    <3>. QED
      BY <1>2, <2>2, <3>2, <3>3 DEF Start, OnTrack
  <2>. QED
    BY <2>1, <2>2
<1>3. CASE Kill
  BY <1>3 DEF Kill
<1>4. CASE BuildDimDate
  <2>1. Landed \subseteq {r.session : r \in Staged}
    BY LandedRows DEF QuietInv
  <2>2. {r.session : r \in Staged} \in SUBSET Sessions
    BY StagedRows DEF QuietInv, Row
  <2>3. SpineReaches'
    BY <1>4, <2>1, <2>2, SpineSpans, SameZoneSameView DEF BuildDimDate, SpineReaches
  <2>. QED
    BY <1>4, <2>3, SameViewSameSanity, SameViewSameTickers
    DEF BuildDimDate, Done, OnTrack, QuietInv
<1>5. CASE BuildFact
  <2>1. Sane(fact)' /\ TickersReach'
    BY <1>5, LoadIsSane, LoadBringsNoTicker DEF QuietInv, OnTrack, BuildFact
  <2>. QED
    BY <1>5, <2>1, SameViewSameSanity, SameZoneSameView
    DEF BuildFact, Done, OnTrack, QuietInv, SpineReaches, Models
<1>6. ASSUME NEW test \in StagingTests, StagingTest(test) PROVE OnTrack'
  <2>1. StagingPasses(test)
    BY <1>6 DEF StagingTest, StagingPasses, QuietInv, OnTrack, Sane
  <2>. QED
    BY <1>6, <2>1, SameViewSameSanity, SameViewSameTickers
    DEF StagingTest, Verdict, Done, OnTrack, QuietInv, Models
<1>7. ASSUME NEW test \in FactTests, FactTest(test) PROVE OnTrack'
  <2>1. \A r \in fact : r.session \in dimDate
    BY <1>7 DEF FactTest, QuietInv, OnTrack, SpineReaches, Fed
  <2>2. test = "tickers" => TickersIn(fact) \subseteq dimTicker
    BY <1>7 DEF FactTest, QuietInv, OnTrack, TickersReach
  <2>3. FactPasses(test)
    BY <1>7, <2>1, <2>2 DEF FactTest, FactPasses, QuietInv, OnTrack, Sane
  <2>. QED
    BY <1>7, <2>3, SameViewSameSanity, SameZoneSameView, SameViewSameTickers
    DEF FactTest, Verdict, Done, OnTrack, QuietInv, SpineReaches
<1>8. CASE EditSeed
  BY <1>8 DEF EditSeed
<1>9. CASE SnapshotTickers \/ BuildDimTicker
  <2>1. UNCHANGED <<partition, build, tables, quiet>>
    BY <1>9 DEF SnapshotTickers, BuildDimTicker
  <2>2. OnTrack /\ Staged' = Staged /\ Landed' = Landed
    BY <2>1, SameZoneSameView DEF QuietInv
  <2>3. TickersIn(Staged)' = TickersIn(Staged) /\ TickersIn(fact)' = TickersIn(fact)
    BY <2>1, <2>2 DEF TickersIn
  <2>4. TickersReach => TickersReach'
    BY <1>9, <2>3 DEF SnapshotTickers, BuildDimTicker, TickersReach
  <2>. QED
    BY <2>1, <2>2, <2>4, SameViewSameSanity DEF OnTrack, SpineReaches
<1>10. CASE UNCHANGED vars
  BY <1>10, SameViewSameSanity, SameZoneSameView, SameViewSameTickers
  DEF vars, OnTrack, QuietInv, SpineReaches
<1>. QED
  BY <1>1, <1>2, <1>3, <1>4, <1>5, <1>6, <1>7, <1>8, <1>9, <1>10 DEF Next

(* A build that starts from sane data whose tickers are all listed or      *)
(* tracked, and that no kill, no ingest and no edit of the seed disturbs,  *)
(* never ends red: the calendar and the fact, read from the view apart,    *)
(* agree, old sessions behind the window included, and dim_ticker knows    *)
(* every ticker of the fact, also one that has left the seed.              *)
THEOREM QuietBuildsAreGreen ==
  ASSUME NothingEmpty
  PROVE  Spec => []QuietBuildIsGreen
<1>1. Init => QuietInv
  BY DEF Init, QuietInv, TypeOK, Fed, Landed
<1>2. QuietInv /\ [Next]_vars => QuietInv'
  BY KeepsQuiet
<1>3. QuietInv => QuietBuildIsGreen
  BY DEF QuietInv, OnTrack, QuietBuildIsGreen
<1>. QED
  BY <1>1, <1>2, <1>3, PTL DEF Spec
=============================================================================
