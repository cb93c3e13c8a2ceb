----------------------------- MODULE Scheduling -----------------------------
(***************************************************************************)
(* Which runs of ingest_ohlcv_daily come to be, and which session each of  *)
(* them asks for: the timetable, catchup after downtime, and the backfills *)
(* and manual runs somebody on call starts. What a run then does is        *)
(* IngestOhlcvDaily, whose Trigger takes any session at any time.          *)
(*                                                                         *)
(* Time passes in ticks, two a day: midnight and 06:00 UTC, the cron's     *)
(* fire time. Airflow is external: it follows the latest automated run,    *)
(* and start_date only when there is none (ROADMAP.md:233).                *)
(***************************************************************************)
EXTENDS Integers, FiniteSets, FiniteSetsExt

CONSTANTS
  StartDay,   \* start_date
  LastDay,    \* bound on the time
  MaxManual   \* bound on manual runs

ASSUME SchedulingConstants ==
  StartDay \in Nat /\ StartDay > 0 /\ LastDay \in Nat /\ MaxManual \in Nat

VARIABLES
  now,
  dagRuns     \* the runs: what made each, and where its interval starts

scheduleVars == <<now, dagRuns>>

(* CronTriggerTimetable("0 6 * * *", interval=timedelta(days=1))           *)
Fire(day) == 2 * day + 1
Fires == {Fire(d) : d \in 0 .. LastDay}

(* Mutant of Interval: a bare cron string, whose interval has no width.    *)
NoInterval == 0

Interval == 2

Day(tick) == tick \div 2

DagRun == [by : {"scheduler", "backfill", "hand"}, start : -2 .. 2 * LastDay + 1]

ScheduleTypeOK ==
  /\ now \in 0 .. 2 * LastDay + 1
  /\ dagRuns \subseteq DagRun

ScheduleInit == now = 0 /\ dagRuns = {}

(* The scheduler may be down for as long as it takes.                      *)
TimePasses == now < 2 * LastDay + 1 /\ now' = now + 1 /\ UNCHANGED dagRuns

(* data_interval_start.date(): the session, and the partition's directory. *)
SessionOf(run) == Day(run.start)

Automated == {r \in dagRuns : r.by # "hand"}
FireOf(run) == run.start + Interval

(* Mutant of NextFire: catchup=False, only the latest missed interval.     *)
NextFireNoCatchup ==
  LET missed == {f \in Fires : f <= now /\ f >= Fire(StartDay) /\ \A r \in Automated : FireOf(r) < f} IN
  IF missed = {} THEN now + 1 ELSE Max(missed)

(* catchup=True: from the latest automated run on, fire by fire.           *)
NextFire ==
  IF Automated = {} THEN Fire(StartDay)
  ELSE 2 + Max({FireOf(r) : r \in Automated})

Make(by, starts) ==
  dagRuns' = dagRuns \cup {[by |-> by, start |-> s] : s \in starts}

SchedulerMakes ==
  /\ NextFire <= now
  /\ Make("scheduler", {NextFire - Interval})
  /\ UNCHANGED now

(* airflow backfill create: the fires in a window of the past. A run that  *)
(* exists is left alone or reprocessed; neither makes another.             *)
Backfill(from, to) ==
  /\ to <= now
  /\ Make("backfill", {f - Interval : f \in {g \in Fires : g \in from .. to}}
                        \ {r.start : r \in Automated})
  /\ UNCHANGED now

(* airflow dags trigger: the interval ends at the logical date given.      *)
ByHand(logical) ==
  /\ logical <= now
  /\ Cardinality(dagRuns \ Automated) < MaxManual
  /\ Make("hand", {logical - Interval})
  /\ UNCHANGED now

ScheduleNext ==
  \/ TimePasses \/ SchedulerMakes
  \/ \E from, to \in 0 .. now : Backfill(from, to)
  \/ \E logical \in 0 .. now : ByHand(logical)

ScheduleSpec == ScheduleInit /\ [][ScheduleNext]_scheduleVars

-----------------------------------------------------------------------------
(* No run asks for a session that is still to come, whoever made it and    *)
(* when: the day of a session is over once it has a run, and the scheduler *)
(* has waited for 06:00 UTC of the next day. An interval of no width was   *)
(* the defect of 2026-08-30 (dags/ingest_ohlcv_daily.py:60-66).            *)
SessionsAreOver ==
  \A r \in dagRuns :
    /\ SessionOf(r) < Day(now)
    /\ r.by = "scheduler" => now >= Fire(SessionOf(r) + 1)

(* Downtime loses no session, however long: each run of the scheduler      *)
(* follows, without a gap, an automated run or start_date. A hole behind   *)
(* it is one that a backfill ahead of the schedule jumped over             *)
(* (docs/runbooks/missing-partition-and-catchup.md:35).                    *)
ScheduleLeavesNoHole ==
  \A r \in dagRuns : r.by = "scheduler" =>
    \/ FireOf(r) = Fire(StartDay)
    \/ \E q \in Automated : SessionOf(q) = SessionOf(r) - 1
=============================================================================
