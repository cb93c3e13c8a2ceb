--------------------------- MODULE CalendarProofs ---------------------------
(***************************************************************************)
(* Proofs about the two components that answer for a date: Scheduling      *)
(* (which sessions have a run), for every start_date and however long the  *)
(* time, and Universe (which tickers were tracked), for every set of       *)
(* tickers and every number of snapshots.                                  *)
(***************************************************************************)
EXTENDS Scheduling, Universe, Induction, FiniteSetTheorems, SequenceTheorems

-----------------------------------------------------------------------------
(* Scheduling                                                              *)

(* Every interval has ended when its run is made, and the automated runs   *)
(* are at fire times: what the properties below need of the runs there are.*)
RunsAtFires ==
  /\ \A r \in dagRuns : FireOf(r) <= now
  /\ \A r \in Automated : \E day \in Nat : FireOf(r) = Fire(day)

ScheduleInv == ScheduleTypeOK /\ RunsAtFires /\ ScheduleLeavesNoHole

LEMMA Halves ==
  ASSUME NEW t \in Int
  PROVE  /\ Day(t) \in Int
         /\ Day(t) = Day(t + Interval) - 1
         /\ 2 * Day(t) <= t /\ t <= 2 * Day(t) + 1
BY DEF Day, Interval

LEMMA DaysInOrder ==
  ASSUME NEW t \in Int, NEW u \in Int, t <= u
  PROVE  Day(t) <= Day(u)
BY DEF Day

LEMMA ScheduleInitially == ScheduleInit => ScheduleInv
BY SchedulingConstants
   DEF ScheduleInit, ScheduleInv, ScheduleTypeOK, RunsAtFires, ScheduleLeavesNoHole, Automated

(* A run that has been made stays, and one that is made later follows it.  *)
LEMMA MoreRuns ==
  ASSUME ScheduleInv, now' = now, NEW by \in {"scheduler", "backfill", "hand"},
         NEW starts, Make(by, starts),
         \A s \in starts : /\ s \in -2 .. 2 * LastDay + 1 /\ s + Interval <= now
                           /\ by # "hand" => \E day \in Nat : s + Interval = Fire(day),
         by = "scheduler" => \A s \in starts :
             s + Interval = Fire(StartDay) \/ \E q \in Automated : Day(q.start) = Day(s) - 1
  PROVE  ScheduleInv'
<1>. DEFINE made == {[by |-> by, start |-> s] : s \in starts}
<1>1. dagRuns' = dagRuns \cup made
  BY DEF Make
<1>2. \A r \in made : r.by = by /\ r.start \in starts
  OBVIOUS
<1>3. ScheduleTypeOK'
  BY <1>1 DEF ScheduleInv, ScheduleTypeOK, DagRun
<1>4. Automated \subseteq Automated'
  BY <1>1 DEF Automated
<1>5. RunsAtFires'
  BY <1>1, <1>2 DEF ScheduleInv, RunsAtFires, Automated, FireOf
<1>6. ASSUME NEW r \in dagRuns', r.by = "scheduler"
      PROVE  FireOf(r) = Fire(StartDay) \/ \E q \in Automated' : SessionOf(q) = SessionOf(r) - 1
  <2>1. CASE r \in dagRuns
    BY <1>4, <1>6, <2>1 DEF ScheduleInv, ScheduleLeavesNoHole
  <2>2. CASE r \in made
    BY <1>2, <1>4, <1>6, <2>2 DEF FireOf, SessionOf
  <2>. QED
    BY <1>1, <2>1, <2>2
<1>. QED
  BY <1>3, <1>5, <1>6 DEF ScheduleInv, ScheduleLeavesNoHole

(* The latest automated run is one of them, so the next one follows it.    *)
LEMMA SchedulerKeepsInv ==
  ASSUME ScheduleInv, SchedulerMakes
  PROVE  ScheduleInv'
<1>. DEFINE s == NextFire - Interval
<1>1. now \in Int /\ NextFire <= now /\ now <= 2 * LastDay + 1
  BY SchedulingConstants DEF ScheduleInv, ScheduleTypeOK, SchedulerMakes
<1>2. CASE Automated = {}
  <2>1. NextFire = Fire(StartDay) /\ s + Interval = Fire(StartDay) /\ s \in -2 .. 2 * LastDay + 1
    BY <1>1, <1>2, SchedulingConstants DEF NextFire, Fire, Interval
  <2>. QED
    BY <1>1, <2>1, MoreRuns, SchedulingConstants DEF SchedulerMakes
<1>3. CASE Automated # {}
  <2>. DEFINE fires == {FireOf(r) : r \in Automated}
  <2>1. \A r \in Automated : FireOf(r) \in Int /\ 0 <= FireOf(r) /\ FireOf(r) <= now
                             /\ r.start \in Int
    BY DEF ScheduleInv, ScheduleTypeOK, RunsAtFires, Automated, DagRun, FireOf, Interval
  <2>2. Max(fires) \in fires
    BY <1>1, <1>3, <2>1, GreatestInteger
  <2>3. PICK q \in Automated : Max(fires) = FireOf(q)
    BY <2>2
  <2>4. NextFire = FireOf(q) + 2
    BY <1>3, <2>1, <2>3 DEF NextFire
  <2>5. s = FireOf(q) /\ s = q.start + Interval /\ s \in -2 .. 2 * LastDay + 1
    BY <1>1, <2>1, <2>4, SchedulingConstants DEF Interval, FireOf
  <2>6. \E day \in Nat : s + Interval = Fire(day)
    <3>1. PICK day \in Nat : FireOf(q) = Fire(day)
      BY DEF ScheduleInv, RunsAtFires
    <3>2. s + Interval = Fire(day + 1)
      BY <2>5, <3>1 DEF Fire, Interval
    <3>. QED
      BY <3>2
  <2>7. Day(q.start) = Day(s) - 1
    BY <2>1, <2>5, Halves
  <2>8. s + Interval = NextFire
    BY <2>1, <2>4 DEF Interval
  <2>. QED
    BY <1>1, <2>5, <2>6, <2>7, <2>8, MoreRuns DEF SchedulerMakes
<1>. QED
  BY <1>2, <1>3

LEMMA ScheduleInductive == ScheduleInv /\ [ScheduleNext]_scheduleVars => ScheduleInv'
<1>. SUFFICES ASSUME ScheduleInv, [ScheduleNext]_scheduleVars
              PROVE  ScheduleInv'
  OBVIOUS
<1>1. now \in 0 .. 2 * LastDay + 1 /\ LastDay \in Nat
  BY SchedulingConstants DEF ScheduleInv, ScheduleTypeOK
<1>2. CASE TimePasses
  <2>1. \A r \in dagRuns : FireOf(r) \in Int
    BY DEF ScheduleInv, ScheduleTypeOK, DagRun, FireOf, Interval
  <2>2. dagRuns' = dagRuns /\ now' = now + 1 /\ now < 2 * LastDay + 1
    BY <1>2 DEF TimePasses
  <2>3. ScheduleTypeOK' /\ ScheduleLeavesNoHole'
    BY <1>1, <2>2 DEF ScheduleInv, ScheduleTypeOK, ScheduleLeavesNoHole, Automated
  <2>4. RunsAtFires'
    BY <1>1, <2>1, <2>2 DEF ScheduleInv, RunsAtFires, Automated
  <2>. QED
    BY <2>3, <2>4 DEF ScheduleInv
<1>3. ASSUME NEW from \in 0 .. now, NEW to \in 0 .. now, Backfill(from, to)
      PROVE  ScheduleInv'
  <2>. DEFINE starts == {f - Interval : f \in {g \in Fires : g \in from .. to}}
                          \ {r.start : r \in Automated}
  <2>1. ASSUME NEW s \in starts
        PROVE  /\ s \in -2 .. 2 * LastDay + 1 /\ s + Interval <= now
               /\ \E day \in Nat : s + Interval = Fire(day)
    <3>1. PICK f \in Fires : f \in from .. to /\ s = f - Interval
      BY <2>1
    <3>2. PICK day \in 0 .. LastDay : f = Fire(day)
      BY <3>1 DEF Fires
    <3>3. f \in Int /\ 0 <= f /\ f <= now /\ s + Interval = f
      BY <1>1, <3>1, <3>2 DEF Interval, Fire
    <3>. QED
      BY <1>1, <3>1, <3>2, <3>3 DEF Interval
  <2>. QED
    BY <1>3, <2>1, MoreRuns DEF Backfill
<1>4. ASSUME NEW logical \in 0 .. now, ByHand(logical)
      PROVE  ScheduleInv'
  <2>1. \A s \in {logical - Interval} : s \in -2 .. 2 * LastDay + 1 /\ s + Interval <= now
    BY <1>1 DEF Interval
  <2>. QED
    BY <1>4, <2>1, MoreRuns DEF ByHand
<1>5. CASE UNCHANGED scheduleVars
  BY <1>5 DEF scheduleVars, ScheduleInv, ScheduleTypeOK, RunsAtFires, ScheduleLeavesNoHole,
              Automated
<1>. QED
  BY <1>2, <1>3, <1>4, <1>5, SchedulerKeepsInv DEF ScheduleNext

LEMMA ScheduleInvariant == ScheduleSpec => []ScheduleInv
BY ScheduleInitially, ScheduleInductive, PTL DEF ScheduleSpec

(* Whoever makes a run and whenever, its session is over, and the          *)
(* scheduler has waited for the next morning.                              *)
THEOREM NoSessionTooEarly == ScheduleSpec => []SessionsAreOver
<1>1. ScheduleInv => SessionsAreOver
  <2>. SUFFICES ASSUME ScheduleInv, NEW r \in dagRuns
                PROVE  /\ SessionOf(r) < Day(now)
                       /\ r.by = "scheduler" => now >= Fire(SessionOf(r) + 1)
    BY DEF SessionsAreOver
  <2>1. r.start \in Int /\ now \in Int /\ r.start + Interval \in Int /\ r.start + Interval <= now
    BY DEF ScheduleInv, ScheduleTypeOK, RunsAtFires, DagRun, FireOf, Interval
  <2>2. SessionOf(r) \in Int /\ Day(now) \in Int /\ SessionOf(r) = Day(r.start + Interval) - 1
        /\ Day(r.start + Interval) \in Int
    BY <2>1, Halves DEF SessionOf
  <2>3. Day(r.start + Interval) <= Day(now)
    BY <2>1, DaysInOrder
  <2>4. ASSUME r.by = "scheduler"
        PROVE  now >= Fire(SessionOf(r) + 1)
    <3>1. PICK day \in Nat : r.start + Interval = Fire(day)
      BY <2>4 DEF ScheduleInv, RunsAtFires, Automated, FireOf
    <3>2. Day(Fire(day)) = day
      BY DEF Fire, Day
    <3>3. Fire(SessionOf(r) + 1) = r.start + Interval
      BY <2>2, <3>1, <3>2
    <3>. QED
      BY <2>1, <3>3
  <2>. QED
    BY <2>2, <2>3, <2>4
<1>. QED
  BY <1>1, ScheduleInvariant, PTL

(* However long the scheduler is down, whatever is backfilled or started   *)
(* by hand meanwhile, its runs leave no hole behind them.                  *)
THEOREM NoHoles == ScheduleSpec => []ScheduleLeavesNoHole
<1>1. ScheduleInv => ScheduleLeavesNoHole
  BY DEF ScheduleInv
<1>. QED
  BY <1>1, ScheduleInvariant, PTL
-----------------------------------------------------------------------------
(* Universe                                                                *)

(* The versions as of the last snapshot: one current version of a ticker   *)
(* at most, no version from a time that no snapshot has.                   *)
Placed ==
  /\ \A v \in versions : v.valid_from <= Len(said) /\ v.valid_to <= Len(said)
  /\ \A v, w \in versions :
       Current(v) /\ Current(w) /\ v.ticker = w.ticker => v = w

(* v is the one version of m that is valid at time n.                      *)
TheVersion(v, m, n) ==
  /\ v.ticker = m /\ ValidAt(v, n) /\ v.is_active = said[n][m]
  /\ \A w \in versions : w.ticker = m /\ ValidAt(w, n) => w = v

(* The versions answer for every snapshot, not only for the times at which *)
(* one of them begins: what HistoryIsKept needs to be inductive.           *)
EverySnapshotAnswers ==
  \A n \in DOMAIN said : \A m \in Tracked(said[n]) : \E v \in versions : TheVersion(v, m, n)

DimInPlace == HistoryIsKept /\ \A v \in dimTicker : v.valid_from <= Len(said)

UniverseInv == UniverseTypeOK /\ Placed /\ EverySnapshotAnswers /\ DimInPlace

LEMMA UniverseInitially == UniverseInit => UniverseInv
<1>. SUFFICES ASSUME UniverseInit
              PROVE  UniverseInv
  OBVIOUS
<1>1. UniverseTypeOK
  <2>1. /\ csv \in [Members -> Membership]
        /\ seed \in [Members -> Membership]
    BY DEF UniverseInit, Membership
  <2>2. said \in Seq([Members -> Membership])
    BY EmptySeq DEF UniverseInit
  <2>. QED
    BY <2>1, <2>2 DEF UniverseInit, UniverseTypeOK
<1>2. DOMAIN said = {} /\ versions = {} /\ dimTicker = {}
  <2>1. said = <<>> /\ versions = {} /\ dimTicker = {}
    BY DEF UniverseInit
  <2>2. DOMAIN <<>> = 1 .. 0
    BY EmptySeq, LenProperties, <<>> \in Seq({})
  <2>. QED
    BY <2>1, <2>2
<1>. QED
  BY <1>1, <1>2 DEF UniverseInv, Placed, EverySnapshotAnswers, DimInPlace, HistoryIsKept

LEMMA VersionParts ==
  ASSUME NEW v \in Version
  PROVE  /\ v.ticker \in Members /\ v.is_active \in {"true", "false"}
         /\ v.valid_from \in Nat /\ v.valid_from > 0 /\ v.valid_to \in Nat
<1>1. v.valid_from \in Nat \ {Null} /\ v.valid_to \in Nat /\ v.ticker \in Members
      /\ v.is_active \in {"true", "false"}
  BY DEF Version
<1>. QED
  BY <1>1 DEF Null

(* What happens to a version when the snapshot is taken: it is closed when *)
(* its row has changed, and otherwise left alone.                          *)
After(v, now_) == IF Current(v) /\ v.ticker \in Changed THEN [v EXCEPT !.valid_to = now_] ELSE v

LEMMA AfterIsVersion ==
  ASSUME NEW v \in Version, NEW t \in Nat \ {Null}
  PROVE  /\ After(v, t) \in Version
         /\ After(v, t).ticker = v.ticker /\ After(v, t).is_active = v.is_active
         /\ After(v, t).valid_from = v.valid_from
         /\ IF Current(v) /\ v.ticker \in Changed
            THEN After(v, t).valid_to = t
            ELSE After(v, t) = v
BY DEF After, Version

(* A snapshot that writes: the times before it are answered as before, by  *)
(* the same versions, and the time of the snapshot by the current ones.    *)
LEMMA SnapshotKeepsVersions ==
  ASSUME UniverseInv, NEW t, t = Len(said) + 1,
         versions' = Closed(t) \cup Opened(t), said' = Append(said, seed)
  PROVE  versions' \subseteq Version /\ Placed' /\ EverySnapshotAnswers'
<1>1. /\ versions \subseteq Version /\ said \in Seq([Members -> Membership])
      /\ seed \in [Members -> Membership]
      /\ Len(said) \in Nat /\ t \in Nat \ {Null} /\ DOMAIN said = 1 .. Len(said)
  BY DEF UniverseInv, UniverseTypeOK, Null
<1>2. /\ Len(said') = t /\ DOMAIN said' = 1 .. t
      /\ said'[t] = seed /\ \A n \in 1 .. Len(said) : said'[n] = said[n]
  BY <1>1
<1>3. Closed(t) = {After(v, t) : v \in versions}
  BY DEF Closed, After
<1>4. Changed \subseteq Members /\ \A m \in Changed : seed[m] \in {"true", "false"}
  BY <1>1 DEF Changed, Tracked, Membership
<1>5. ASSUME NEW v \in Opened(t)
      PROVE  /\ v \in Version /\ v.ticker \in Changed /\ v.is_active = seed[v.ticker]
             /\ v.valid_from = t /\ v.valid_to = Null
  BY <1>1, <1>4 DEF Opened, Version, Null
<1>6. ASSUME NEW m \in Changed
      PROVE  \E v \in Opened(t) : v.ticker = m
  <2>1. [ticker |-> m, is_active |-> seed[m], valid_from |-> t, valid_to |-> Null] \in Opened(t)
    BY DEF Opened
  <2>. QED
    BY <2>1
<1>7. \A v, w \in Opened(t) : v.ticker = w.ticker => v = w
  BY DEF Opened
<1>8. versions' \subseteq Version
  BY <1>1, <1>3, <1>5, AfterIsVersion
<1>9. \A v \in versions : /\ v.valid_from \in Nat /\ v.valid_to \in Nat
                          /\ v.valid_from <= Len(said) /\ v.valid_to <= Len(said)
                          /\ 0 < v.valid_from
  BY <1>1, VersionParts DEF UniverseInv, Placed
<1>10. Placed'
  <2>1. \A v \in versions' : v.valid_from <= t /\ v.valid_to <= t
    <3>1. ASSUME NEW u \in versions
          PROVE  After(u, t).valid_from <= t /\ After(u, t).valid_to <= t
      BY <1>1, <1>9, AfterIsVersion
    <3>2. \A v \in Opened(t) : v.valid_from <= t /\ v.valid_to <= t
      BY <1>1, <1>5 DEF Null
    <3>. QED
      BY <1>3, <3>1, <3>2
  <2>2. ASSUME NEW v \in versions', NEW w \in versions',
               Current(v), Current(w), v.ticker = w.ticker
        PROVE  v = w
    <3>1. ASSUME NEW u \in versions, Current(After(u, t))
          PROVE  After(u, t) = u /\ Current(u) /\ u.ticker \notin Changed
      BY <1>1, <3>1, AfterIsVersion DEF Current
    <3>2. \A u \in Opened(t) : u.ticker \in Changed
      BY <1>5
    <3>. QED
      BY <1>3, <1>7, <2>2, <3>1, <3>2 DEF UniverseInv, Placed
  <2>. QED
    BY <1>2, <2>1, <2>2 DEF Placed, Current
<1>11. ASSUME NEW n \in 1 .. Len(said), NEW m \in Tracked(said[n])
       PROVE  \E v \in versions' : TheVersion(v, m, n)'
  <2>1. PICK v \in versions : TheVersion(v, m, n)
    BY <1>1 DEF UniverseInv, EverySnapshotAnswers
  <2>2. n \in Nat /\ n < t /\ said'[n] = said[n]
    BY <1>1, <1>2
  <2>3. \A u \in versions : ValidAt(After(u, t), n) <=> ValidAt(u, n)
    <3>. SUFFICES ASSUME NEW u \in versions
                  PROVE  ValidAt(After(u, t), n) <=> ValidAt(u, n)
      OBVIOUS
    <3>. QED
      BY <1>1, <1>9, <2>2, AfterIsVersion DEF ValidAt, Current
  <2>4. After(v, t) \in versions' /\ After(v, t).ticker = m /\ ValidAt(After(v, t), n)
        /\ After(v, t).is_active = said'[n][m]
    BY <1>1, <1>3, <2>1, <2>2, <2>3, AfterIsVersion DEF TheVersion
  <2>5. ASSUME NEW w \in versions', w.ticker = m, ValidAt(w, n)
        PROVE  w = After(v, t)
    <3>1. w \notin Opened(t)
      BY <1>1, <1>5, <2>2, <2>5 DEF ValidAt
    <3>2. PICK u \in versions : w = After(u, t)
      BY <1>3, <3>1
    <3>3. u.ticker = m /\ ValidAt(u, n)
      BY <1>1, <2>3, <2>5, <3>2, AfterIsVersion
    <3>. QED
      BY <2>1, <3>2, <3>3 DEF TheVersion
  <2>. QED
    BY <2>4, <2>5 DEF TheVersion, ValidAt, Current
<1>12. ASSUME NEW m \in Tracked(seed)
       PROVE  \E v \in versions' : TheVersion(v, m, t)'
  <2>1. m \in Members
    BY DEF Tracked
  <2>2. \A u \in versions : ValidAt(After(u, t), t) <=> Current(u) /\ u.ticker \notin Changed
    <3>. SUFFICES ASSUME NEW u \in versions
                  PROVE  ValidAt(After(u, t), t) <=> Current(u) /\ u.ticker \notin Changed
      OBVIOUS
    <3>. QED
      BY <1>1, <1>9, AfterIsVersion DEF ValidAt, Current
  <2>3. CASE m \in Changed
    <3>1. PICK v \in Opened(t) : v.ticker = m
      BY <1>6, <2>3
    <3>2. v \in versions' /\ ValidAt(v, t) /\ v.is_active = said'[t][m]
      BY <1>1, <1>2, <1>5, <3>1 DEF ValidAt, Current
    <3>3. ASSUME NEW w \in versions', w.ticker = m, ValidAt(w, t)
          PROVE  w = v
      <4>1. ASSUME NEW u \in versions, w = After(u, t)
            PROVE  FALSE
        BY <1>1, <2>2, <2>3, <3>3, <4>1, AfterIsVersion
      <4>. QED
        BY <1>3, <1>7, <3>1, <3>3, <4>1
    <3>. QED
      BY <3>1, <3>2, <3>3 DEF TheVersion, ValidAt, Current
  <2>4. CASE m \notin Changed
    <3>1. PICK u \in versions : Current(u) /\ u.ticker = m /\ u.is_active = seed[m]
      BY <2>4 DEF Changed
    <3>2. After(u, t) = u /\ u \in versions' /\ ValidAt(u, t) /\ u.is_active = said'[t][m]
      BY <1>1, <1>2, <1>3, <2>2, <2>4, <3>1, AfterIsVersion
    <3>3. ASSUME NEW w \in versions', w.ticker = m, ValidAt(w, t)
          PROVE  w = u
      <4>1. w \notin Opened(t)
        BY <1>5, <2>4, <3>3
      <4>2. PICK x \in versions : w = After(x, t)
        BY <1>3, <4>1
      <4>3. Current(x) /\ x.ticker = m /\ After(x, t) = x
        BY <1>1, <2>2, <3>3, <4>2, AfterIsVersion
      <4>. QED
        BY <3>1, <4>2, <4>3 DEF UniverseInv, Placed
    <3>. QED
      BY <3>1, <3>2, <3>3 DEF TheVersion, ValidAt, Current
  <2>. QED
    BY <2>3, <2>4
<1>13. EverySnapshotAnswers'
  <2>. SUFFICES ASSUME NEW n \in DOMAIN said', NEW m \in Tracked(said'[n])
                PROVE  \E v \in versions' : TheVersion(v, m, n)'
    BY DEF EverySnapshotAnswers, Tracked
  <2>1. n \in 1 .. Len(said) \/ n = t
    BY <1>1, <1>2
  <2>. QED
    BY <1>2, <1>11, <1>12, <2>1
<1>. QED
  BY <1>8, <1>10, <1>13

(* HistoryIsKept, of any dimension and any snapshots.                      *)
Keeps(dim, as_said) ==
  \A v \in dim : \A m \in Tracked(as_said[v.valid_from]) :
    LET valid == {w \in dim : w.ticker = m /\ ValidAt(w, v.valid_from)} IN
    /\ Cardinality(valid) = 1
    /\ \A w \in valid : w.is_active = as_said[v.valid_from][m]

LEMMA HistoryOf ==
  /\ HistoryIsKept <=> Keeps(dimTicker, said)
  /\ HistoryIsKept' <=> Keeps(dimTicker', said')
BY DEF HistoryIsKept, Keeps, Tracked, ValidAt, Current

(* A dim_ticker made of versions that answer, answers.                     *)
LEMMA VersionsAnswer ==
  ASSUME UniverseInv, NEW dim, dim = versions, NEW v \in dim, NEW m \in Tracked(said[v.valid_from])
  PROVE  LET valid == {w \in dim : w.ticker = m /\ ValidAt(w, v.valid_from)} IN
         /\ Cardinality(valid) = 1
         /\ \A w \in valid : w.is_active = said[v.valid_from][m]
<1>. DEFINE n == v.valid_from
            valid == {w \in dim : w.ticker = m /\ ValidAt(w, n)}
<1>1. said \in Seq([Members -> Membership]) /\ v \in Version /\ v \in versions
  BY DEF UniverseInv, UniverseTypeOK
<1>2. n \in DOMAIN said
  <2>1. n \in Nat /\ n > 0 /\ n <= Len(said)
    BY <1>1, VersionParts DEF UniverseInv, Placed
  <2>. QED
    BY <1>1, <2>1
<1>3. PICK u \in versions : TheVersion(u, m, n)
  BY <1>2 DEF UniverseInv, EverySnapshotAnswers
<1>4. valid = {u} /\ u.is_active = said[n][m]
  BY <1>3 DEF TheVersion
<1>. QED
  BY <1>4, FS_Singleton

LEMMA AnswersStay ==
  ASSUME EverySnapshotAnswers, versions' = versions, said' = said
  PROVE  EverySnapshotAnswers'
<1>. SUFFICES ASSUME NEW n \in DOMAIN said, NEW m \in Tracked(said[n])
              PROVE  \E v \in versions' : TheVersion(v, m, n)'
  BY DEF EverySnapshotAnswers, Tracked
<1>1. PICK v \in versions : TheVersion(v, m, n)
  BY DEF EverySnapshotAnswers
<1>. QED
  BY <1>1 DEF TheVersion, ValidAt, Current

LEMMA UniverseInductive == UniverseInv /\ [UniverseNext]_universeVars => UniverseInv'
<1>. SUFFICES ASSUME UniverseInv, [UniverseNext]_universeVars
              PROVE  UniverseInv'
  OBVIOUS
<1>1. UniverseTypeOK
  BY DEF UniverseInv
<1>2. ASSUME UNCHANGED <<versions, said, dimTicker>>
      PROVE  Placed' /\ EverySnapshotAnswers' /\ DimInPlace'
  <2>1. Placed' /\ DimInPlace'
    BY <1>2, HistoryOf DEF UniverseInv, Placed, DimInPlace, Current
  <2>2. EverySnapshotAnswers'
    BY <1>2, AnswersStay DEF UniverseInv
  <2>. QED
    BY <2>1, <2>2
<1>3. ASSUME NEW m \in Members, NEW to \in Membership, EditCsv(m, to)
      PROVE  UniverseInv'
  BY <1>1, <1>2, <1>3 DEF EditCsv, UniverseInv, UniverseTypeOK
<1>4. CASE StartBuild \/ LoadSeed \/ KillBuild \/ UNCHANGED universeVars
  BY <1>1, <1>2, <1>4 DEF StartBuild, LoadSeed, KillBuild, universeVars, UniverseInv, UniverseTypeOK
<1>5. CASE Snapshot
  <2>1. CASE Changed = {}
    BY <1>1, <1>2, <1>5, <2>1 DEF Snapshot, UniverseInv, UniverseTypeOK
  <2>2. CASE Changed # {}
    <3>. DEFINE t == Len(said) + 1
    <3>1. versions' = Closed(t) \cup Opened(t) /\ said' = Append(said, seed)
          /\ UNCHANGED <<csv, seed, dimTicker>> /\ buildAt' = "dim_ticker"
      BY <1>5, <2>2 DEF Snapshot
    <3>2. versions' \subseteq Version /\ Placed' /\ EverySnapshotAnswers'
      BY <3>1, SnapshotKeepsVersions
    <3>3. UniverseTypeOK'
      BY <1>1, <3>1, <3>2 DEF UniverseTypeOK
    <3>4. Len(said) \in Nat /\ Len(said') = Len(said) + 1
          /\ \A n \in 1 .. Len(said) : said'[n] = said[n]
      BY <1>1, <3>1 DEF UniverseTypeOK
    <3>5. \A v \in dimTicker : /\ v.valid_from \in 1 .. Len(said)
                               /\ said'[v.valid_from] = said[v.valid_from]
      <4>. SUFFICES ASSUME NEW v \in dimTicker
                    PROVE  v.valid_from \in 1 .. Len(said)
        BY <3>4
      <4>1. v \in Version /\ v.valid_from <= Len(said)
        BY DEF UniverseInv, UniverseTypeOK, DimInPlace
      <4>. QED
        BY <3>4, <4>1, VersionParts
    <3>6. HistoryIsKept'
      <4>1. Keeps(dimTicker, said)
        BY HistoryOf DEF UniverseInv, DimInPlace
      <4>2. Keeps(dimTicker, said')
        BY <3>5, <4>1 DEF Keeps
      <4>. QED
        BY <3>1, <4>2, HistoryOf
    <3>7. DimInPlace'
      BY <3>1, <3>4, <3>5, <3>6 DEF DimInPlace
    <3>. QED
      BY <3>2, <3>3, <3>7 DEF UniverseInv
  <2>. QED
    BY <2>1, <2>2
<1>6. CASE BuildDimTicker
  <2>1. dimTicker' = versions /\ UNCHANGED <<csv, seed, versions, said>> /\ buildAt' = "idle"
    BY <1>6 DEF BuildDimTicker
  <2>2. UniverseTypeOK'
    BY <1>1, <2>1 DEF UniverseTypeOK
  <2>3. Placed' /\ EverySnapshotAnswers'
    BY <2>1, AnswersStay DEF UniverseInv, Placed, Current
  <2>4. HistoryIsKept'
    <3>1. Keeps(versions, said)
      BY VersionsAnswer DEF Keeps
    <3>. QED
      BY <2>1, <3>1, HistoryOf
  <2>5. \A v \in dimTicker' : v.valid_from <= Len(said')
    BY <2>1 DEF UniverseInv, Placed
  <2>. QED
    BY <2>2, <2>3, <2>4, <2>5 DEF UniverseInv, DimInPlace
<1>. QED
  BY <1>3, <1>4, <1>5, <1>6 DEF UniverseNext

LEMMA UniverseInvariant == UniverseSpec => []UniverseInv
BY UniverseInitially, UniverseInductive, PTL DEF UniverseSpec

(* Through every edit, removal and re-adding of a row, and builds killed   *)
(* anywhere, dim_ticker has for every time it knows of one version of each *)
(* ticker that the seed listed then, which says what the seed said.        *)
THEOREM HistoryStays == UniverseSpec => []HistoryIsKept
<1>1. UniverseInv => HistoryIsKept
  BY DEF UniverseInv, DimInPlace
<1>. QED
  BY <1>1, UniverseInvariant, PTL
=============================================================================
