---------------------------- MODULE IngestProofs ----------------------------
(***************************************************************************)
(* Proofs about IngestOhlcvDaily, for every set of runs and sessions,      *)
(* every assignment of runs to sessions, every ticker list, everything the *)
(* vendor may answer and every value of the retry and throttle limits.     *)
(***************************************************************************)
EXTENDS IngestOhlcvDaily, TLAPS

(* A task that waits for a start has an attempt left.                      *)
TriesLeft ==
  \A r \in Runs :
    /\ fetch[r] \in {"none", "queued"} => tries[r] <= Retries
    /\ check[r] \in {"none", "queued"} => checkTries[r] <= Retries

TypeInv == TypeOK /\ TriesLeft

LEMMA InitTypeInv == Init => TypeInv
BY IngestConstants
   DEF Init, TypeInv, TypeOK, TriesLeft, FetchStates, CheckStates, Running, Writing, Finished

(* The three ways an attempt of fetch_ohlcv ends keep the types.           *)
LEMMA EndKeepsTypes ==
  ASSUME TypeInv, NEW r \in Runs, NEW state \in {"queued"} \cup Finished,
         state = "queued" => tries[r] <= Retries,
         EndAttempt(r, state), tries' = tries, checkTries' = checkTries,
         check' = check \/ \E c \in {"queued", "skipped", "upstream_failed"} :
                             Downstream(r, c)
  PROVE  /\ fetch' \in [Runs -> FetchStates]
         /\ waits' \in [Runs -> 0 .. MaxThrottleWaits]
         /\ asked' \in [Runs -> TickerLists]
         /\ frame' \in [Runs -> SUBSET Bar]
         /\ check' \in [Runs -> CheckStates]
         /\ TriesLeft'
<1>1. check' \in [Runs -> CheckStates]
  BY DEF TypeInv, TypeOK, Downstream, CheckStates, CheckFinished, Finished
<1>2. \A q \in Runs : check'[q] \in {"none", "queued"} => check[q] \in {"none", "queued"}
  BY DEF TypeInv, TypeOK, Downstream
<1>3. TriesLeft'
  BY <1>2 DEF TypeInv, TypeOK, TriesLeft, EndAttempt, Goto, Finished
<1>4. fetch' \in [Runs -> FetchStates]
  BY DEF TypeInv, TypeOK, EndAttempt, Goto, FetchStates
<1>5. waits' \in [Runs -> 0 .. MaxThrottleWaits]
  BY IngestConstants DEF TypeInv, TypeOK, EndAttempt
<1>6. asked' \in [Runs -> TickerLists]
  BY IngestConstants DEF TypeInv, TypeOK, EndAttempt
<1>7. frame' \in [Runs -> SUBSET Bar]
  BY DEF TypeInv, TypeOK, EndAttempt
<1>. QED
  BY <1>1, <1>3, <1>4, <1>5, <1>6, <1>7

(* The part of TypeInv that an ending attempt touches.                     *)
AttemptTypes ==
  /\ fetch \in [Runs -> FetchStates]
  /\ waits \in [Runs -> 0 .. MaxThrottleWaits]
  /\ asked \in [Runs -> TickerLists]
  /\ frame \in [Runs -> SUBSET Bar]
  /\ check \in [Runs -> CheckStates]
  /\ TriesLeft

LEMMA FailKeepsTypes ==
  ASSUME TypeInv, NEW r \in Runs, Fail(r), tries' = tries, checkTries' = checkTries
  PROVE  AttemptTypes'
<1>. DEFINE failed == "failed"
<1>1. failed \in {"queued"} \cup Finished /\ (failed = "queued" => tries[r] <= Retries)
  BY DEF Finished
<1>2. EndAttempt(r, failed) /\ \E c \in {"queued", "skipped", "upstream_failed"} : Downstream(r, c)
  BY DEF Fail
<1>. HIDE DEF failed
<1>. QED
  BY <1>1, <1>2, EndKeepsTypes DEF AttemptTypes

LEMMA SkipKeepsTypes ==
  ASSUME TypeInv, NEW r \in Runs, Skip(r), tries' = tries, checkTries' = checkTries
  PROVE  AttemptTypes'
<1>. DEFINE skipped == "skipped"
<1>1. skipped \in {"queued"} \cup Finished /\ (skipped = "queued" => tries[r] <= Retries)
  BY DEF Finished
<1>2. EndAttempt(r, skipped) /\ \E c \in {"queued", "skipped", "upstream_failed"} : Downstream(r, c)
  BY DEF Skip
<1>. HIDE DEF skipped
<1>. QED
  BY <1>1, <1>2, EndKeepsTypes DEF AttemptTypes

LEMMA RaiseKeepsTypes ==
  ASSUME TypeInv, NEW r \in Runs, Raise(r), tries' = tries, checkTries' = checkTries
  PROVE  AttemptTypes'
<1>1. CASE Exhaust(r)
  BY <1>1, FailKeepsTypes DEF Exhaust
<1>2. CASE Retry(r)
  <2>. DEFINE queued == "queued"
  <2>1. queued \in {"queued"} \cup Finished /\ tries[r] <= Retries
    BY <1>2 DEF Retry
  <2>2. EndAttempt(r, queued) /\ check' = check
    BY <1>2 DEF Retry
  <2>. HIDE DEF queued
  <2>. QED
    BY <2>1, <2>2, EndKeepsTypes DEF AttemptTypes
<1>. QED
  BY <1>1, <1>2 DEF Raise

(* The part of TypeInv that most steps of fetch_ohlcv leave alone.         *)
RestTypes ==
  /\ tickers \in TickerLists
  /\ tries \in [Runs -> 0 .. Retries + 1]
  /\ checkTries \in [Runs -> 0 .. Retries + 1]
  /\ view \in [Runs -> File \cup {NoFile}]
  /\ dirs \subseteq Sessions
  /\ staging \in [Sessions -> File \cup {NoFile}]
  /\ target \in [Sessions -> File \cup {NoFile}]
  /\ interrupted \subseteq Sessions
  /\ cleared \in [Runs -> Nat] /\ \A r \in Runs : cleared[r] <= MaxClears[r]

LEMMA TypeInvSplit == TypeInv <=> AttemptTypes /\ RestTypes
BY DEF TypeInv, TypeOK, AttemptTypes, RestTypes

LEMMA RestUnchanged ==
  ASSUME RestTypes, UNCHANGED <<tickers, tries, checkTries, view, disk, history>>
  PROVE  RestTypes'
BY DEF RestTypes, disk, history

LEMMA ReplyKeepsTypes ==
  ASSUME TypeInv, NEW r \in Runs, NEW status \in Statuses, Reply(r, status)
  PROVE  TypeInv'
<1>1. RestTypes' /\ tries' = tries /\ checkTries' = checkTries
  BY RestUnchanged, TypeInvSplit DEF Reply
<1>2. AttemptTypes'
  <2>1. CASE Throttle(r)
    BY <2>1, <1>1, IngestConstants
       DEF Throttle, TypeInv, TypeOK, TriesLeft, AttemptTypes
  <2>2. CASE Raise(r)
    BY <2>2, <1>1, RaiseKeepsTypes
  <2>3. CASE Fail(r)
    BY <2>3, <1>1, FailKeepsTypes
  <2>4. ASSUME NEW body \in VendorBodies[SessionOf[r]], Judge(r, body)
        PROVE  AttemptTypes'
    <3>1. CASE Skip(r)
      BY <3>1, <1>1, SkipKeepsTypes
    <3>2. CASE /\ Goto(r, "mkdir")
               /\ frame' = [frame EXCEPT ![r] = Listed(body.bars, asked[r])]
               /\ UNCHANGED <<waits, asked, check>>
      <4>1. body \in Body
        BY IngestConstants
      <4>2. Listed(body.bars, asked[r]) \in SUBSET Bar
        BY <4>1 DEF Listed, Body
      <4>3. frame' \in [Runs -> SUBSET Bar]
        BY <3>2, <4>2 DEF TypeInv, TypeOK
      <4>4. fetch' \in [Runs -> FetchStates] /\ TriesLeft'
        BY <3>2, <1>1 DEF Goto, TypeInv, TypeOK, TriesLeft, FetchStates, Running
      <4>. QED
        BY <3>2, <4>3, <4>4 DEF TypeInv, TypeOK, AttemptTypes
    <3>. QED
      BY <2>4, <3>1, <3>2, <2>2, <2>3 DEF Judge
  <2>. QED
    BY <2>1, <2>2, <2>3, <2>4 DEF Reply
<1>. QED
  BY <1>1, <1>2 DEF TypeInv, TypeOK, AttemptTypes, RestTypes

(* The operator, the scheduler, and the steps of fetch_ohlcv that neither  *)
(* end the attempt nor ask the vendor.                                     *)
LEMMA PlainStepsKeepTypes ==
  ASSUME TypeInv, NEW r \in Runs,
         \/ EditTickers \/ Trigger(r) \/ ClearFetch(r) \/ FetchStart(r)
         \/ MakeDir(r) \/ OpenStaging(r) \/ CloseStaging(r) \/ Replace(r)
  PROVE  TypeInv'
<1>. USE DEF TypeInv, TypeOK, TriesLeft, Goto, FetchStates, Running, Writing, Finished,
             locals, validation, disk, history
<1>. SessionOf[r] \in Sessions
  BY IngestConstants
<1>1. CASE EditTickers
  BY <1>1 DEF EditTickers
<1>2. CASE Trigger(r)
  BY <1>2 DEF Trigger
<1>3. CASE ClearFetch(r)
  <2>1. cleared' \in [Runs -> Nat] /\ \A q \in Runs : cleared'[q] <= MaxClears[q]
    <3>1. cleared[r] \in Nat /\ MaxClears[r] \in Nat /\ cleared[r] < MaxClears[r]
          /\ cleared' = [cleared EXCEPT ![r] = cleared[r] + 1]
      BY <1>3, IngestConstants DEF ClearFetch
    <3>2. cleared'[r] = cleared[r] + 1 /\ \A q \in Runs \ {r} : cleared'[q] = cleared[q]
      BY <3>1
    <3>3. cleared[r] + 1 <= MaxClears[r]
      BY <3>1
    <3>. QED
      BY <3>1, <3>2, <3>3
  <2>2. TriesLeft' /\ tries' \in [Runs -> 0 .. Retries + 1] /\ fetch' \in [Runs -> FetchStates]
    BY <1>3, IngestConstants DEF ClearFetch
  <2>. QED
    BY <1>3, <2>1, <2>2 DEF ClearFetch
<1>4. CASE FetchStart(r)
  BY <1>4, IngestConstants DEF FetchStart
<1>5. CASE MakeDir(r)
  BY <1>5 DEF MakeDir
<1>6. CASE OpenStaging(r)
  <2>1. [whole |-> FALSE, bars |-> {}, asked |-> asked[r], by |-> r] \in File
    BY DEF File
  <2>. QED
    BY <1>6, <2>1 DEF OpenStaging
<1>7. CASE CloseStaging(r)
  <2>1. [whole |-> TRUE, bars |-> frame[r], asked |-> asked[r], by |-> r] \in File
    BY DEF File
  <2>. QED
    BY <1>7, <2>1 DEF CloseStaging
<1>8. CASE Replace(r)
  BY <1>8 DEF Replace
<1>. QED
  BY <1>1, <1>2, <1>3, <1>4, <1>5, <1>6, <1>7, <1>8

(* The remaining steps of fetch_ohlcv: those that may end the attempt.     *)
LEMMA EndingStepsKeepTypes ==
  ASSUME TypeInv, NEW r \in Runs,
         ReadConfig(r) \/ NoReply(r) \/ Return(r) \/ Interrupt(r)
  PROVE  TypeInv'
<1>1. CASE ReadConfig(r)
  <2>1. RestTypes' /\ tries' = tries /\ checkTries' = checkTries
    BY <1>1, RestUnchanged, TypeInvSplit DEF ReadConfig
  <2>2. CASE Raise(r)
    BY <2>1, <2>2, RaiseKeepsTypes DEF TypeInv, TypeOK, AttemptTypes, RestTypes
  <2>3. CASE ~ Raise(r)
    <3>1. /\ Goto(r, "request") /\ asked' = [asked EXCEPT ![r] = tickers]
          /\ UNCHANGED <<waits, frame, check>>
      BY <1>1, <2>3 DEF ReadConfig
    <3>2. AttemptTypes'
      BY <2>1, <3>1
         DEF Goto, TypeInv, TypeOK, TriesLeft, AttemptTypes, FetchStates, Running
    <3>. QED
      BY <2>1, <3>2 DEF TypeInv, TypeOK, AttemptTypes, RestTypes
  <2>. QED
    BY <2>2, <2>3
<1>2. CASE NoReply(r)
  <2>1. RestTypes' /\ tries' = tries /\ checkTries' = checkTries
    BY <1>2, RestUnchanged, TypeInvSplit DEF NoReply
  <2>. QED
    BY <2>1, <1>2, RaiseKeepsTypes DEF NoReply, TypeInv, TypeOK, AttemptTypes, RestTypes
<1>3. CASE Return(r)
  <2>1. RestTypes' /\ tries' = tries /\ checkTries' = checkTries
    BY <1>3, RestUnchanged, TypeInvSplit DEF Return
  <2>. DEFINE done == "success"
  <2>2. done \in {"queued"} \cup Finished /\ (done = "queued" => tries[r] <= Retries)
    BY DEF Finished
  <2>3. EndAttempt(r, done) /\ \E c \in {"queued", "skipped", "upstream_failed"} : Downstream(r, c)
    BY <1>3 DEF Return
  <2>. HIDE DEF done
  <2>4. AttemptTypes'
    BY <2>1, <2>2, <2>3, EndKeepsTypes DEF AttemptTypes
  <2>. QED
    BY <2>1, <2>4 DEF TypeInv, TypeOK, AttemptTypes, RestTypes
<1>4. CASE Interrupt(r)
  <2>1. RestTypes' /\ tries' = tries /\ checkTries' = checkTries
    BY <1>4, IngestConstants DEF Interrupt, TypeInv, TypeOK, RestTypes, disk
  <2>. QED
    BY <2>1, <1>4, RaiseKeepsTypes DEF Interrupt, TypeInv, TypeOK, AttemptTypes, RestTypes
<1>. QED
  BY <1>1, <1>2, <1>3, <1>4

LEMMA CheckStepsKeepTypes ==
  ASSUME TypeInv, NEW r \in Runs, CheckStep(r)
  PROVE  TypeInv'
<1>. USE DEF TypeInv, TypeOK, TriesLeft, CheckStates, CheckFinished, Finished,
             locals, disk, history
<1>1. CASE CheckRead(r)
  <2>1. view' \in [Runs -> File \cup {NoFile}]
    BY <1>1, IngestConstants DEF CheckRead
  <2>2. checkTries' \in [Runs -> 0 .. Retries + 1]
    BY <1>1, IngestConstants DEF CheckRead
  <2>3. check' \in [Runs -> CheckStates]
    BY <1>1 DEF CheckRead
  <2>4. TriesLeft'
    BY <1>1 DEF CheckRead
  <2>. QED
    BY <1>1, <2>1, <2>2, <2>3, <2>4 DEF CheckRead
<1>2. ASSUME NEW state \in {"queued"} \cup CheckFinished, CheckEnd(r, state),
             state = "queued" => checkTries[r] <= Retries,
             UNCHANGED <<tickers, fetch, tries, locals, checkTries, disk, history>>
      PROVE  TypeInv'
  BY <1>2 DEF CheckEnd
<1>3. CASE CheckFinish(r) \/ CheckInterrupt(r)
  <2>1. UNCHANGED <<tickers, fetch, tries, locals, checkTries, disk, history>>
    BY <1>3 DEF CheckFinish, CheckInterrupt
  <2>2. \/ CheckEnd(r, "queued") /\ checkTries[r] <= Retries
        \/ CheckEnd(r, "failed") \/ CheckEnd(r, "success")
    BY <1>3 DEF CheckFinish, CheckInterrupt, CheckVerdict, CheckRaise
  <2>. QED
    BY <2>1, <2>2, <1>2
<1>. QED
  BY <1>1, <1>3 DEF CheckStep

LEMMA NextTypeInv == TypeInv /\ [Next]_vars => TypeInv'
<1>. SUFFICES ASSUME TypeInv, [Next]_vars
              PROVE  TypeInv'
  OBVIOUS
<1>1. CASE UNCHANGED vars
  BY <1>1 DEF vars, locals, validation, disk, history, TypeInv, TypeOK, TriesLeft
<1>2. CASE EditTickers
  <2>1. CASE Runs = {}
    BY <1>2, <2>1 DEF EditTickers, locals, validation, disk, history, TypeInv, TypeOK, TriesLeft
  <2>. QED
    BY <1>2, <2>1, PlainStepsKeepTypes
<1>3. ASSUME NEW r \in Runs, Trigger(r) \/ ClearFetch(r) \/ FetchStep(r) \/ CheckStep(r)
      PROVE  TypeInv'
  BY <1>3, PlainStepsKeepTypes, ReplyKeepsTypes, EndingStepsKeepTypes, CheckStepsKeepTypes
     DEF FetchStep
<1>. QED
  BY <1>1, <1>2, <1>3 DEF Next

(* The states of the DAG stay well-typed, and no task is ever started more *)
(* often than its retries allow.                                           *)
THEOREM TypeCorrect == Spec => []TypeOK
<1>1. TypeInv => TypeOK
  BY DEF TypeInv
<1>. QED
  BY <1>1, InitTypeInv, NextTypeInv, PTL DEF Spec

-----------------------------------------------------------------------------
(* The partitions. What makes them whole, dated and covered is not         *)
(* inductive by itself: a rename is only as good as the staging file it    *)
(* moves, the staging file is only the renaming run's own because nobody   *)
(* else is in the pool, and its rows are only good because they have       *)
(* passed the gates.                                                       *)

OneInPool ==
  \A p, q \in Runs : fetch[p] \in Running /\ fetch[q] \in Running => p = q

Gated(r) == DatedBy(frame[r], SessionOf[r]) /\ Covers(frame[r], asked[r])

FrameGated == \A r \in Runs : fetch[r] \in {"mkdir"} \cup Writing => Gated(r)

OwnFile(r) == [whole |-> TRUE, bars |-> frame[r], asked |-> asked[r], by |-> r]

StagingReady ==
  \A r \in Runs : fetch[r] = "replace" => staging[SessionOf[r]] = OwnFile(r)

PartitionInv ==
  /\ TypeInv /\ OneInPool /\ FrameGated /\ StagingReady
  /\ PartitionWhole /\ PartitionDated /\ PartitionCovered

(* The gates of fetch_ohlcv (171-191) establish what readers rely on.      *)
LEMMA GatesEstablish ==
  ASSUME NEW bars, NEW list, NEW s,
         ~ Misdated(Listed(bars, list), s), ~ TooSparse(Listed(bars, list), list)
  PROVE  DatedBy(Listed(bars, list), s) /\ Covers(Listed(bars, list), list)
<1>. DEFINE rows == Listed(bars, list)
            absent == {t \in Range(list) : \A b \in rows : b.ticker # t}
<1>1. DatedBy(rows, s)
  BY DEF Misdated, DatedBy
<1>2. \A b \in rows : b.ticker \in Range(list)
  BY DEF Listed
<1>3. absent = Missing(rows, list)
  BY DEF Missing, TickersOf
<1>4. absent # {} => ~ (100 * Cardinality(absent) >= MaxMissingPct * Len(list))
  BY <1>3 DEF TooSparse
<1>. QED
  BY <1>1, <1>2, <1>4 DEF Covers

LEMMA InitPartitionInv == Init => PartitionInv
BY InitTypeInv
   DEF Init, PartitionInv, OneInPool, FrameGated, StagingReady, Running, Writing,
       PartitionWhole, PartitionDated, PartitionCovered, Published

(* A run in the pool keeps the others out of it: a step of r is in a       *)
(* running attempt only if r already was, or if the pool was free.         *)
LEMMA PoolStep ==
  ASSUME TypeInv, OneInPool, NEW r \in Runs,
         \E line \in FetchStates :
            /\ Goto(r, line)
            /\ line \in Running => fetch[r] \in Running \/ PoolFree
  PROVE  OneInPool'
BY DEF TypeInv, TypeOK, OneInPool, Goto, PoolFree

(* What each step of fetch_ohlcv does to the state of the attempt.         *)
LEMMA FetchLine ==
  ASSUME NEW r \in Runs,
         Trigger(r) \/ ClearFetch(r) \/ FetchStep(r)
  PROVE  \/ \E line \in FetchStates :
              /\ Goto(r, line)
              /\ line \in Running => fetch[r] \in Running \/ PoolFree
         \/ UNCHANGED fetch
<1>. USE DEF FetchStates, Running, Writing, Finished
<1>1. CASE Trigger(r) \/ ClearFetch(r) \/ FetchStart(r)
  BY <1>1 DEF Trigger, ClearFetch, FetchStart
<1>2. CASE MakeDir(r) \/ OpenStaging(r) \/ CloseStaging(r) \/ Replace(r)
  BY <1>2 DEF MakeDir, OpenStaging, CloseStaging, Replace
<1>3. CASE Raise(r) \/ Fail(r) \/ Skip(r)
  BY <1>3 DEF Raise, Retry, Exhaust, Fail, Skip, EndAttempt
<1>4. CASE ReadConfig(r) \/ NoReply(r) \/ Return(r) \/ Interrupt(r)
  BY <1>4, <1>3 DEF ReadConfig, NoReply, Return, Interrupt, EndAttempt
<1>5. ASSUME NEW status \in Statuses, Reply(r, status)
      PROVE  fetch[r] = "request" /\ (Raise(r) \/ Fail(r) \/ Skip(r) \/ Goto(r, "mkdir") \/ UNCHANGED fetch)
  BY <1>5 DEF Reply, Throttle, Judge
<1>. QED
  BY <1>1, <1>2, <1>3, <1>4, <1>5 DEF FetchStep

PartitionsGood == PartitionWhole /\ PartitionDated /\ PartitionCovered

(* The steps that move no file and bring no run to a writing line.         *)
LEMMA QuietStep ==
  ASSUME PartitionInv, UNCHANGED <<staging, target>>,
         \A q \in Runs :
            fetch'[q] \in {"mkdir"} \cup Writing =>
              /\ fetch'[q] = fetch[q]
              /\ frame'[q] = frame[q]
              /\ asked'[q] = asked[q]
  PROVE  FrameGated' /\ StagingReady' /\ PartitionsGood'
<1>1. FrameGated'
  BY DEF PartitionInv, FrameGated, Gated
<1>2. StagingReady'
  BY DEF PartitionInv, StagingReady, OwnFile, Writing
<1>3. PartitionsGood'
  BY DEF PartitionInv, PartitionsGood, PartitionWhole, PartitionDated, PartitionCovered, Published
<1>. QED
  BY <1>1, <1>2, <1>3

(* An attempt that ends is a quiet step.                                   *)
LEMMA EndingIsQuiet ==
  ASSUME PartitionInv, NEW r \in Runs, UNCHANGED <<staging, target>>,
         Raise(r) \/ Fail(r) \/ Skip(r) \/ EndAttempt(r, "success")
  PROVE  FrameGated' /\ StagingReady' /\ PartitionsGood'
<1>1. PICK state \in {"queued"} \cup Finished : EndAttempt(r, state)
  BY DEF Raise, Retry, Exhaust, Fail, Skip, Finished
<1>2. TypeOK
  BY DEF PartitionInv, TypeInv
<1>3. \A q \in Runs : fetch'[q] \in {"mkdir"} \cup Writing =>
        q # r /\ fetch'[q] = fetch[q] /\ frame'[q] = frame[q] /\ asked'[q] = asked[q]
  BY <1>1, <1>2 DEF TypeOK, EndAttempt, Goto, Writing, Finished
<1>. QED
  BY <1>3, QuietStep

(* Trigger, clear, start, and the steps up to the request are quiet.       *)
LEMMA EarlyStepsKeepPartitions ==
  ASSUME PartitionInv, NEW r \in Runs,
         \/ Trigger(r) \/ ClearFetch(r) \/ FetchStart(r) \/ ReadConfig(r)
         \/ NoReply(r) \/ Return(r) \/ Interrupt(r)
  PROVE  FrameGated' /\ StagingReady' /\ PartitionsGood'
<1>1. TypeOK
  BY DEF PartitionInv, TypeInv
<1>2. UNCHANGED <<staging, target>>
  BY DEF Trigger, ClearFetch, FetchStart, ReadConfig, NoReply, Return, Interrupt, disk
<1>3. CASE Trigger(r) \/ ClearFetch(r) \/ FetchStart(r)
  BY <1>1, <1>2, <1>3, QuietStep
     DEF TypeOK, Trigger, ClearFetch, FetchStart, Goto, locals, Writing
<1>4. CASE ReadConfig(r) /\ ~ Raise(r)
  BY <1>1, <1>2, <1>4, QuietStep DEF TypeOK, ReadConfig, Goto, Writing
<1>5. CASE ReadConfig(r) /\ Raise(r)
  BY <1>2, <1>5, EndingIsQuiet
<1>6. CASE NoReply(r) \/ Return(r) \/ Interrupt(r)
  BY <1>2, <1>6, EndingIsQuiet DEF NoReply, Return, Interrupt
<1>. QED
  BY <1>3, <1>4, <1>5, <1>6

(* A reply either ends the attempt, is waited out, or passes the gates.    *)
LEMMA ReplyKeepsPartitions ==
  ASSUME PartitionInv, NEW r \in Runs, NEW status \in Statuses, Reply(r, status)
  PROVE  FrameGated' /\ StagingReady' /\ PartitionsGood'
<1>1. TypeOK
  BY DEF PartitionInv, TypeInv
<1>2. UNCHANGED <<staging, target>>
  BY DEF Reply, disk
<1>3. CASE Raise(r) \/ Fail(r) \/ Skip(r)
  BY <1>2, <1>3, EndingIsQuiet
<1>4. CASE Throttle(r)
  BY <1>2, <1>4, QuietStep DEF Throttle
<1>5. ASSUME NEW body \in VendorBodies[SessionOf[r]],
             ~ Misdated(Listed(body.bars, asked[r]), SessionOf[r]),
             ~ TooSparse(Listed(body.bars, asked[r]), asked[r]),
             Goto(r, "mkdir"),
             frame' = [frame EXCEPT ![r] = Listed(body.bars, asked[r])],
             UNCHANGED asked
      PROVE  FrameGated' /\ StagingReady' /\ PartitionsGood'
  <2>. DEFINE rows == Listed(body.bars, asked[r])
  <2>1. DatedBy(rows, SessionOf[r]) /\ Covers(rows, asked[r])
    BY <1>5, GatesEstablish
  <2>2. frame'[r] = rows /\ asked'[r] = asked[r]
    BY <1>1, <1>5 DEF TypeOK
  <2>3. Gated(r)'
    BY <2>1, <2>2 DEF Gated
  <2>4. \A q \in Runs \ {r} : fetch'[q] = fetch[q] /\ frame'[q] = frame[q] /\ asked'[q] = asked[q]
    BY <1>1, <1>5 DEF TypeOK, Goto
  <2>5. FrameGated'
    BY <2>3, <2>4 DEF PartitionInv, FrameGated, Gated
  <2>6. StagingReady'
    BY <1>1, <1>2, <1>5, <2>4 DEF TypeOK, PartitionInv, StagingReady, OwnFile, Goto
  <2>7. PartitionsGood'
    BY <1>2 DEF PartitionInv, PartitionsGood, PartitionWhole, PartitionDated, PartitionCovered,
                Published
  <2>. QED
    BY <2>5, <2>6, <2>7
<1>. QED
  BY <1>3, <1>4, <1>5 DEF Reply, Judge

(* The four steps of the write. The pool keeps any other run from being    *)
(* at "replace" meanwhile.                                                 *)
LEMMA WritingStepsKeepPartitions ==
  ASSUME PartitionInv, NEW r \in Runs,
         MakeDir(r) \/ OpenStaging(r) \/ CloseStaging(r) \/ Replace(r)
  PROVE  FrameGated' /\ StagingReady' /\ PartitionsGood'
<1>1. TypeOK
  BY DEF PartitionInv, TypeInv
<1>2. UNCHANGED <<frame, asked>>
  BY DEF MakeDir, OpenStaging, CloseStaging, Replace, locals
<1>3. fetch[r] \in {"mkdir"} \cup Writing /\ \E line \in {"return"} \cup Writing : Goto(r, line)
  BY DEF MakeDir, OpenStaging, CloseStaging, Replace, Writing
<1>4. \A q \in Runs : fetch[q] = "replace" => q = r
  BY <1>3 DEF PartitionInv, OneInPool, Running, Writing
<1>5. \A q \in Runs \ {r} : fetch'[q] = fetch[q]
  BY <1>1, <1>3 DEF TypeOK, Goto
<1>6. FrameGated'
  BY <1>2, <1>3, <1>5 DEF PartitionInv, FrameGated, Gated
<1>7. SessionOf[r] \in Sessions
  BY IngestConstants
<1>8. StagingReady'
  <2>1. \A q \in Runs \ {r} : fetch'[q] # "replace"
    BY <1>4, <1>5
  <2>2. fetch'[r] = "replace" => staging'[SessionOf[r]] = OwnFile(r)'
    <3>1. CASE CloseStaging(r)
      BY <3>1, <1>1, <1>2, <1>7 DEF CloseStaging, TypeOK, OwnFile
    <3>2. CASE MakeDir(r) \/ OpenStaging(r) \/ Replace(r)
      BY <3>2, <1>1 DEF MakeDir, OpenStaging, Replace, TypeOK, Goto
    <3>. QED
      BY <3>1, <3>2
  <2>. QED
    BY <2>1, <2>2 DEF StagingReady
<1>9. PartitionsGood'
  <2>1. CASE Replace(r)
    <3>1. staging[SessionOf[r]] = OwnFile(r) /\ Gated(r)
      BY <2>1 DEF Replace, PartitionInv, StagingReady, FrameGated, Writing
    <3>2. target' = [target EXCEPT ![SessionOf[r]] = OwnFile(r)]
      BY <2>1, <3>1 DEF Replace
    <3>. QED
      BY <1>1, <1>7, <3>1, <3>2
         DEF TypeOK, OwnFile, Gated, PartitionInv, PartitionsGood, PartitionWhole,
             PartitionDated, PartitionCovered, Published
  <2>2. CASE MakeDir(r) \/ OpenStaging(r) \/ CloseStaging(r)
    BY <2>2 DEF MakeDir, OpenStaging, CloseStaging, PartitionInv, PartitionsGood,
                PartitionWhole, PartitionDated, PartitionCovered, Published
  <2>. QED
    BY <2>1, <2>2
<1>. QED
  BY <1>6, <1>8, <1>9

LEMMA NextPartitionInv == PartitionInv /\ [Next]_vars => PartitionInv'
<1>. SUFFICES ASSUME PartitionInv, [Next]_vars
              PROVE  PartitionInv'
  OBVIOUS
<1>1. TypeInv /\ TypeInv'
  BY NextTypeInv DEF PartitionInv
<1>2. ASSUME UNCHANGED <<fetch, asked, frame, staging, target>>
      PROVE  PartitionInv'
  <2>1. FrameGated' /\ StagingReady' /\ PartitionsGood'
    BY <1>2, QuietStep
  <2>2. OneInPool'
    BY <1>2 DEF PartitionInv, OneInPool
  <2>. QED
    BY <1>1, <2>1, <2>2 DEF PartitionInv, PartitionsGood
<1>3. CASE UNCHANGED vars
  BY <1>2, <1>3 DEF vars, locals, disk
<1>4. CASE EditTickers
  BY <1>2, <1>4 DEF EditTickers, locals, disk
<1>5. ASSUME NEW r \in Runs, CheckStep(r)
      PROVE  PartitionInv'
  BY <1>2, <1>5 DEF CheckStep, CheckRead, CheckFinish, CheckInterrupt, locals, disk
<1>6. ASSUME NEW r \in Runs, Trigger(r) \/ ClearFetch(r) \/ FetchStep(r)
      PROVE  PartitionInv'
  <2>1. OneInPool'
    <3>1. CASE UNCHANGED fetch
      BY <3>1 DEF PartitionInv, OneInPool
    <3>. QED
      BY <1>1, <1>6, <3>1, FetchLine, PoolStep DEF PartitionInv
  <2>2. FrameGated' /\ StagingReady' /\ PartitionsGood'
    BY <1>6, EarlyStepsKeepPartitions, ReplyKeepsPartitions, WritingStepsKeepPartitions
       DEF FetchStep
  <2>. QED
    BY <1>1, <2>1, <2>2 DEF PartitionInv, PartitionsGood
<1>. QED
  BY <1>3, <1>4, <1>5, <1>6 DEF Next

LEMMA AlwaysPartitionInv == Spec => []PartitionInv
BY InitPartitionInv, NextPartitionInv, PTL DEF Spec

(* A reader never sees a partition that is still being written.            *)
THEOREM PartitionsAreWhole == Spec => []PartitionWhole
<1>1. PartitionInv => PartitionWhole
  BY DEF PartitionInv
<1>. QED
  BY <1>1, AlwaysPartitionInv, PTL

(* Every row of dt=D is dated D.                                           *)
THEOREM PartitionsAreDated == Spec => []PartitionDated
<1>1. PartitionInv => PartitionDated
  BY DEF PartitionInv
<1>. QED
  BY <1>1, AlwaysPartitionInv, PTL

(* Every partition covers the list its attempt read, to within the gate.   *)
THEOREM PartitionsAreCovered == Spec => []PartitionCovered
<1>1. PartitionInv => PartitionCovered
  BY DEF PartitionInv
<1>. QED
  BY <1>1, AlwaysPartitionInv, PTL

-----------------------------------------------------------------------------
(* The DAG implements the contract of the raw zone.                        *)

LEMMA InitStore == Init => Store!Init
BY DEF Init, Store!Init, Visible, Published

(* Only a rename changes what readers see, and it is one Put.              *)
LEMMA ReplaceIsPut ==
  ASSUME PartitionInv, NEW r \in Runs, Replace(r)
  PROVE  Store!Put(SessionOf[r])
<1>. DEFINE s == SessionOf[r]
            content == [bars |-> frame[r], asked |-> asked[r]]
<1>1. TypeOK /\ s \in Sessions
  BY IngestConstants DEF PartitionInv, TypeInv
<1>2. staging[s] = OwnFile(r) /\ Gated(r)
  BY DEF Replace, PartitionInv, StagingReady, FrameGated, Writing
<1>3. target' = [target EXCEPT ![s] = OwnFile(r)]
  BY <1>2 DEF Replace
<1>4. OwnFile(r) # NoFile
  BY <1>2 DEF Replace
<1>5. Visible(s)' = content
  BY <1>1, <1>3, <1>4 DEF TypeOK, Visible, Published, OwnFile
<1>6. \A t \in Sessions \ {s} : Visible(t)' = Visible(t)
  BY <1>1, <1>3 DEF TypeOK, Visible, Published
<1>7. content \in Store!Content /\ Store!Acceptable(s, content)
  <2>1. content \in Store!Content
    BY <1>1, IngestConstants DEF TypeOK, Store!Content, Store!Bar, Bar
  <2>2. Store!DatedBy(frame[r], s) /\ Store!Covers(frame[r], asked[r])
    BY <1>2 DEF Gated, DatedBy, Covers, Store!DatedBy, Store!Covers, Range, Store!Range,
                  Cardinality, Store!Cardinality
  <2>. QED
    BY <2>1, <2>2 DEF Store!Acceptable
<1>. DEFINE seen == [t \in Sessions |-> Visible(t)]
<1>8. seen' = [t \in Sessions |-> IF t = s THEN content ELSE Visible(t)]
  BY <1>5, <1>6
<1>9. seen' = [seen EXCEPT ![s] = content] /\ seen'[s] = content
  BY <1>1, <1>8
<1>. QED
  BY <1>1, <1>7, <1>9 DEF Store!Put

LEMMA OtherStepsKeepStore ==
  ASSUME UNCHANGED target
  PROVE  UNCHANGED [s \in Sessions |-> Visible(s)]
BY DEF Visible, Published

LEMMA NextImplementsStore ==
  PartitionInv /\ [Next]_vars => [Store!Next]_[s \in Sessions |-> Visible(s)]
<1>. SUFFICES ASSUME PartitionInv, [Next]_vars
              PROVE  [Store!Next]_[s \in Sessions |-> Visible(s)]
  OBVIOUS
<1>1. ASSUME NEW r \in Runs, Replace(r)
      PROVE  Store!Next
  BY <1>1, ReplaceIsPut, IngestConstants DEF Store!Next
<1>2. (\E r \in Runs : Replace(r)) \/ UNCHANGED target
  BY DEF Next, vars, disk, EditTickers, Trigger, ClearFetch, FetchStep, CheckStep, FetchStart,
         ReadConfig, Reply, NoReply, MakeDir, OpenStaging, CloseStaging, Return, Interrupt,
         CheckRead, CheckFinish, CheckInterrupt
<1>. QED
  BY <1>1, <1>2, OtherStepsKeepStore

(* Partitions change only by atomic overwrites of whole, dated and covered *)
(* content: the docstring and the comment on write-then-rename.            *)
THEOREM IngestImplementsStore == Spec => ImplementsStore
BY InitStore, NextImplementsStore, AlwaysPartitionInv, PTL DEF Spec, ImplementsStore, Store!Spec

-----------------------------------------------------------------------------
(* The verdict of validate_partition. A green validate says nothing of the *)
(* file on disk unless that file is its own run's; then it does, because   *)
(* a run writes nothing more once its fetch has succeeded, so the file it  *)
(* read is the file still there. A clear of the fetch undoes that, for the *)
(* run that is cleared and once its validate has ended.                    *)

Judging(r) ==
  \/ check[r] \in {"queued", "reading"}
  \/ check[r] \in {"success", "failed"} /\ cleared[r] = 0

WriterOfSession == \A s \in Sessions : Published(s) => SessionOf[target[s].by] = s

JudgedAreDone == \A r \in Runs : Judging(r) => fetch[r] = "success"

ViewIsOnDisk ==
  \A r \in Runs : LET s == SessionOf[r] IN
    check[r] = "reading" /\ Published(s) /\ target[s].by = r => view[r] = target[s]

GreenIsSound ==
  \A r \in Runs : LET s == SessionOf[r] IN
    check[r] = "success" /\ cleared[r] = 0 /\ Published(s) /\ target[s].by = r =>
      Sound(target[s].bars)

VerdictInv ==
  PartitionInv /\ WriterOfSession /\ JudgedAreDone /\ ViewIsOnDisk /\ GreenIsSound

LEMMA VerdictImpliesFlagged == VerdictInv => DefectIsFlagged
<1>. SUFFICES ASSUME VerdictInv, NEW s \in Sessions, Published(s), ~ Sound(target[s].bars),
                     check[target[s].by] = "success"
              PROVE  cleared[target[s].by] > 0
  BY DEF DefectIsFlagged
<1>1. target[s].by \in Runs /\ SessionOf[target[s].by] = s
  BY DEF VerdictInv, PartitionInv, TypeInv, TypeOK, Published, File, WriterOfSession
<1>2. cleared[target[s].by] # 0
  BY <1>1 DEF VerdictInv, GreenIsSound
<1>. QED
  BY <1>1, <1>2, IngestConstants DEF VerdictInv, PartitionInv, TypeInv, TypeOK

LEMMA InitVerdictInv == Init => VerdictInv
BY InitPartitionInv, IngestConstants
   DEF Init, VerdictInv, WriterOfSession, JudgedAreDone, ViewIsOnDisk, GreenIsSound,
       Published, Judging, Finished

(* What a green verdict has established of the file it read (231-252).     *)
LEMMA GreenVerdict ==
  ASSUME TypeOK, NEW r \in Runs, CheckVerdict(r), check'[r] = "success"
  PROVE  view[r] # NoFile /\ Sound(view[r].bars)
<1>1. check' # [check EXCEPT ![r] = "queued"] /\ check' # [check EXCEPT ![r] = "failed"]
  BY DEF TypeOK
<1>2. ~ CheckRaise(r) /\ ~ CheckEnd(r, "failed")
  BY <1>1 DEF CheckRaise, CheckEnd
<1>3. view[r] # NoFile /\ ~ Defective(view[r].bars)
  BY <1>2 DEF CheckVerdict
<1>4. view[r].bars \subseteq Bar
  BY <1>3 DEF TypeOK, File
<1>. QED
  BY <1>3, <1>4 DEF Defective, HasDuplicates, HasNullClose, Sound, Bar

(* A step that leaves views and partitions alone and gives no verdict      *)
(* keeps the verdicts.                                                     *)
LEMMA VerdictsUnmoved ==
  ASSUME VerdictInv, UNCHANGED <<view, target>>,
         \A q \in Runs : cleared'[q] = 0 => cleared[q] = 0,
         \A q \in Runs : Judging(q)' =>
            fetch'[q] = "success" /\ (check'[q] = check[q] \/ check'[q] = "queued")
  PROVE  WriterOfSession' /\ JudgedAreDone' /\ ViewIsOnDisk' /\ GreenIsSound'
<1>1. WriterOfSession'
  BY DEF VerdictInv, WriterOfSession, Published
<1>2. JudgedAreDone'
  BY DEF JudgedAreDone
<1>3. ViewIsOnDisk'
  BY DEF VerdictInv, ViewIsOnDisk, Judging, Published
<1>4. GreenIsSound'
  BY DEF VerdictInv, GreenIsSound, Judging, Finished, Published
<1>. QED
  BY <1>1, <1>2, <1>3, <1>4

LEMMA ReplaceKeepsVerdicts ==
  ASSUME VerdictInv, NEW r \in Runs, Replace(r)
  PROVE  WriterOfSession' /\ JudgedAreDone' /\ ViewIsOnDisk' /\ GreenIsSound'
<1>. DEFINE s == SessionOf[r]
<1>1. TypeOK /\ s \in Sessions
  BY IngestConstants DEF VerdictInv, PartitionInv, TypeInv
<1>2. staging[s] = OwnFile(r)
  BY DEF Replace, VerdictInv, PartitionInv, StagingReady
<1>3. target'[s] = OwnFile(r) /\ \A t \in Sessions \ {s} : target'[t] = target[t]
  BY <1>1, <1>2 DEF Replace, TypeOK
<1>4. ~ Judging(r)
  BY DEF VerdictInv, JudgedAreDone, Replace
<1>5. UNCHANGED <<check, view, cleared>> /\ \A q \in Runs \ {r} : fetch'[q] = fetch[q]
  BY <1>1 DEF Replace, validation, history, Goto, TypeOK
<1>6. OwnFile(r).by = r
  BY DEF OwnFile
<1>7. WriterOfSession'
  BY <1>3, <1>6 DEF VerdictInv, WriterOfSession, Published
<1>8. JudgedAreDone'
  BY <1>4, <1>5 DEF VerdictInv, JudgedAreDone, Judging
<1>9. \A q \in Runs \ {r} : Published(SessionOf[q])' /\ target'[SessionOf[q]].by = q =>
        Published(SessionOf[q]) /\ target'[SessionOf[q]] = target[SessionOf[q]]
  BY <1>3, <1>6, IngestConstants DEF Published
<1>10. ViewIsOnDisk'
  BY <1>4, <1>5, <1>9 DEF VerdictInv, ViewIsOnDisk, Judging
<1>11. GreenIsSound'
  BY <1>4, <1>5, <1>9 DEF VerdictInv, GreenIsSound, Judging, Finished
<1>. QED
  BY <1>7, <1>8, <1>10, <1>11

(* validate_partition itself: the read takes the file as it is on disk,    *)
(* and a green verdict is given on that file.                              *)
LEMMA CheckKeepsVerdicts ==
  ASSUME VerdictInv, NEW r \in Runs, CheckStep(r)
  PROVE  WriterOfSession' /\ JudgedAreDone' /\ ViewIsOnDisk' /\ GreenIsSound'
<1>1. TypeOK /\ SessionOf[r] \in Sessions
  BY IngestConstants DEF VerdictInv, PartitionInv, TypeInv
<1>2. UNCHANGED <<fetch, target, cleared>> /\ Judging(r)
  BY DEF CheckStep, CheckRead, CheckFinish, CheckInterrupt, disk, history, Judging
<1>3. \A q \in Runs \ {r} : check'[q] = check[q] /\ view'[q] = view[q]
  BY <1>1 DEF CheckStep, CheckRead, CheckFinish, CheckInterrupt, CheckVerdict, CheckRaise,
              CheckEnd, TypeOK
<1>4. WriterOfSession'
  BY <1>2 DEF VerdictInv, WriterOfSession, Published
<1>5. JudgedAreDone'
  BY <1>2, <1>3 DEF VerdictInv, JudgedAreDone, Judging
<1>6. check'[r] = "reading" => view'[r] = target'[SessionOf[r]]
  BY <1>1, <1>2 DEF CheckStep, CheckRead, CheckFinish, CheckInterrupt, CheckVerdict,
                    CheckRaise, CheckEnd, TypeOK
<1>7. ViewIsOnDisk'
  BY <1>2, <1>3, <1>6 DEF VerdictInv, ViewIsOnDisk, Published
<1>8. check'[r] = "success" => CheckFinish(r)
  BY <1>1 DEF CheckStep, CheckRead, CheckInterrupt, CheckRaise, CheckEnd, TypeOK
<1>9. ASSUME check'[r] = "success", Published(SessionOf[r]), target[SessionOf[r]].by = r
      PROVE  Sound(target[SessionOf[r]].bars)
  <2>1. check[r] = "reading" /\ CheckVerdict(r)
    BY <1>8, <1>9 DEF CheckFinish
  <2>2. Sound(view[r].bars)
    BY <1>1, <1>9, <2>1, GreenVerdict
  <2>3. view[r] = target[SessionOf[r]]
    BY <1>9, <2>1 DEF VerdictInv, ViewIsOnDisk
  <2>. QED
    BY <2>2, <2>3
<1>10. GreenIsSound'
  BY <1>2, <1>3, <1>9 DEF VerdictInv, GreenIsSound, Published, Sound
<1>. QED
  BY <1>4, <1>5, <1>7, <1>10

(* A run whose fetch is cleared is judged no more: its validate has ended. *)
LEMMA ClearKeepsVerdicts ==
  ASSUME VerdictInv, NEW r \in Runs, ClearFetch(r)
  PROVE  WriterOfSession' /\ JudgedAreDone' /\ ViewIsOnDisk' /\ GreenIsSound'
<1>1. TypeOK
  BY DEF VerdictInv, PartitionInv, TypeInv
<1>2. UNCHANGED <<check, view, target>> /\ check[r] \in CheckFinished
  BY DEF ClearFetch, Settled, validation, disk
<1>3. cleared'[r] = cleared[r] + 1 /\ \A q \in Runs \ {r} : cleared'[q] = cleared[q]
  BY <1>1 DEF ClearFetch, TypeOK
<1>4. \A q \in Runs \ {r} : fetch'[q] = fetch[q]
  BY <1>1 DEF ClearFetch, Goto, TypeOK
<1>5. cleared[r] \in Nat /\ cleared'[r] # 0
  BY <1>1, <1>3, IngestConstants DEF TypeOK
<1>6. ~ Judging(r)'
  BY <1>2, <1>5 DEF Judging, CheckFinished, Finished
<1>7. \A q \in Runs : cleared'[q] = 0 => cleared[q] = 0
  BY <1>3, <1>5
<1>8. \A q \in Runs : Judging(q)' => fetch'[q] = "success" /\ check'[q] = check[q]
  BY <1>2, <1>3, <1>4, <1>6 DEF VerdictInv, JudgedAreDone, Judging
<1>. QED
  BY <1>2, <1>7, <1>8, VerdictsUnmoved

(* Every other step of fetch_ohlcv: only Return hands the run to a         *)
(* validate, and by then the fetch has succeeded.                          *)
LEMMA FetchKeepsVerdicts ==
  ASSUME VerdictInv, NEW r \in Runs,
         Trigger(r) \/ (FetchStep(r) /\ ~ Replace(r))
  PROVE  WriterOfSession' /\ JudgedAreDone' /\ ViewIsOnDisk' /\ GreenIsSound'
<1>1. TypeOK
  BY DEF VerdictInv, PartitionInv, TypeInv
<1>2. UNCHANGED <<view, target, cleared>>
  BY DEF Trigger, FetchStep, FetchStart, ReadConfig, Reply, NoReply, MakeDir,
         OpenStaging, CloseStaging, Return, Interrupt, validation, disk, history
<1>3. fetch[r] # "success"
  BY DEF Trigger, FetchStep, FetchStart, ReadConfig, Reply, NoReply, MakeDir,
         OpenStaging, CloseStaging, Return, Interrupt, Running, Writing
<1>4. \A q \in Runs \ {r} : fetch'[q] = fetch[q]
  <2>1. UNCHANGED fetch \/ \E line \in FetchStates : Goto(r, line)
    BY FetchLine
  <2>. QED
    BY <1>1, <2>1 DEF TypeOK, Goto
<1>5. \/ UNCHANGED check
      \/ \E c \in {"skipped", "upstream_failed"} : Downstream(r, c)
      \/ Downstream(r, "queued") /\ fetch'[r] = "success"
  <2>1. CASE Raise(r) \/ Fail(r) \/ Skip(r)
    BY <2>1 DEF Raise, Retry, Exhaust, Fail, Skip
  <2>2. CASE Return(r)
    BY <1>1, <2>2 DEF Return, EndAttempt, Goto, TypeOK
  <2>3. ASSUME NEW status \in Statuses, Reply(r, status)
        PROVE  UNCHANGED check \/ Raise(r) \/ Fail(r) \/ Skip(r)
    BY <2>3 DEF Reply, Throttle, Judge
  <2>4. CASE ReadConfig(r) \/ NoReply(r) \/ Interrupt(r)
    BY <2>1, <2>4 DEF ReadConfig, NoReply, Interrupt
  <2>5. CASE Trigger(r) \/ FetchStart(r) \/ MakeDir(r) \/ OpenStaging(r)
             \/ CloseStaging(r)
    BY <2>5 DEF Trigger, FetchStart, MakeDir, OpenStaging, CloseStaging, validation
  <2>. QED
    BY <2>1, <2>2, <2>3, <2>4, <2>5 DEF FetchStep
<1>6. \A q \in Runs : Judging(q)' =>
        fetch'[q] = "success" /\ (check'[q] = check[q] \/ check'[q] = "queued")
  BY <1>1, <1>2, <1>3, <1>4, <1>5
     DEF VerdictInv, JudgedAreDone, TypeOK, Downstream, Judging, Finished
<1>. QED
  BY <1>2, <1>6, VerdictsUnmoved

LEMMA NextVerdictInv == VerdictInv /\ [Next]_vars => VerdictInv'
<1>. SUFFICES ASSUME VerdictInv, [Next]_vars
              PROVE  VerdictInv'
  OBVIOUS
<1>1. PartitionInv'
  BY NextPartitionInv DEF VerdictInv
<1>2. ASSUME UNCHANGED <<fetch, check, view, target, cleared>>
      PROVE  VerdictInv'
  <2>1. \A q \in Runs : Judging(q)' => fetch'[q] = "success" /\ check'[q] = check[q]
    BY <1>2 DEF VerdictInv, JudgedAreDone, Judging
  <2>. QED
    BY <1>1, <1>2, <2>1, VerdictsUnmoved DEF VerdictInv
<1>3. CASE UNCHANGED vars
  BY <1>2, <1>3 DEF vars, validation, disk, history
<1>4. CASE EditTickers
  BY <1>2, <1>4 DEF EditTickers, validation, disk, history
<1>5. ASSUME NEW r \in Runs, Trigger(r) \/ ClearFetch(r) \/ FetchStep(r) \/ CheckStep(r)
      PROVE  VerdictInv'
  BY <1>1, <1>5, ReplaceKeepsVerdicts, CheckKeepsVerdicts, ClearKeepsVerdicts, FetchKeepsVerdicts
     DEF VerdictInv
<1>. QED
  BY <1>3, <1>4, <1>5 DEF Next

(* An empty partition, one with a duplicated row or one with a null close  *)
(* is never under a green validate of the run that wrote it, unless the    *)
(* fetch of that run was cleared and ran again.                            *)
THEOREM DefectsAreFlagged == Spec => []DefectIsFlagged
<1>1. VerdictInv => DefectIsFlagged
  BY VerdictImpliesFlagged
<1>. QED
  BY <1>1, InitVerdictInv, NextVerdictInv, PTL DEF Spec

-----------------------------------------------------------------------------
(* Which steps leave a directory, a file or an attempt that writes as it   *)
(* is: all but those that reach or leave the lines that write.             *)

LEMMA OtherStepsKeepFiles ==
  ASSUME NEW r \in Runs, Trigger(r) \/ ClearFetch(r) \/ FetchStep(r) \/ CheckStep(r),
         ~ MakeDir(r), ~ Replace(r)
  PROVE  UNCHANGED <<dirs, target>>
BY DEF Trigger, ClearFetch, FetchStep, FetchStart, ReadConfig, Reply, NoReply, OpenStaging,
       CloseStaging, Return, Interrupt, CheckStep, CheckRead, CheckFinish, CheckInterrupt, disk

(* An attempt that is writing is still writing after any step but its own  *)
(* rename, or it has been interrupted.                                     *)
LEMMA WritersAreExplained ==
  ASSUME TypeOK, NEW r \in Runs, fetch[r] \in Writing, [Next]_vars
  PROVE  \/ fetch'[r] \in Writing
         \/ SessionOf[r] \in interrupted'
         \/ Replace(r)
<1>1. CASE UNCHANGED vars
  BY <1>1 DEF vars
<1>2. CASE EditTickers
  BY <1>2 DEF EditTickers
<1>3. ASSUME NEW q \in Runs, CheckStep(q)
      PROVE  fetch'[r] \in Writing
  BY <1>3 DEF CheckStep, CheckRead, CheckFinish, CheckInterrupt
<1>4. ASSUME NEW q \in Runs \ {r}, Trigger(q) \/ ClearFetch(q) \/ FetchStep(q)
      PROVE  fetch'[r] \in Writing
  <2>1. UNCHANGED fetch \/ \E line \in FetchStates : Goto(q, line)
    BY <1>4, FetchLine
  <2>. QED
    BY <1>4, <2>1 DEF TypeOK, Goto
<1>5. CASE Trigger(r) \/ ClearFetch(r) \/ FetchStep(r)
  <2>1. CASE OpenStaging(r) \/ CloseStaging(r)
    BY <2>1 DEF OpenStaging, CloseStaging, Goto, TypeOK, Writing
  <2>2. CASE Interrupt(r)
    BY <2>2 DEF Interrupt
  <2>. QED
    BY <1>5, <2>1, <2>2
       DEF Trigger, ClearFetch, Settled, Finished, FetchStep, FetchStart, ReadConfig, Reply,
           NoReply, MakeDir, Return, Writing
<1>. QED
  BY <1>1, <1>2, <1>3, <1>4, <1>5 DEF Next

(* No step removes a partition.                                            *)
LEMMA PublishedStays ==
  ASSUME TypeOK, [Next]_vars, NEW s \in Sessions, Published(s)
  PROVE  Published(s)'
<1>1. \/ UNCHANGED target
      \/ \E r \in Runs : /\ staging[SessionOf[r]] # NoFile
                         /\ target' = [target EXCEPT ![SessionOf[r]] = staging[SessionOf[r]]]
  <2>1. CASE UNCHANGED vars \/ EditTickers
    BY <2>1 DEF vars, EditTickers, disk
  <2>2. ASSUME NEW r \in Runs, Trigger(r) \/ ClearFetch(r) \/ FetchStep(r) \/ CheckStep(r)
        PROVE  UNCHANGED target \/ Replace(r)
    BY <2>2, OtherStepsKeepFiles DEF MakeDir
  <2>. QED
    BY <2>1, <2>2 DEF Next, Replace
<1>. QED
  BY <1>1 DEF TypeOK, Published

(* A directory that is explained stays explained: a file is never removed, *)
(* and an attempt stops writing with a rename or with an interruption.     *)
LEMMA ExplainedStays ==
  ASSUME TypeOK, [Next]_vars, NEW s \in Sessions,
         \/ Published(s)
         \/ s \in interrupted
         \/ \E r \in Runs : SessionOf[r] = s /\ fetch[r] \in Writing
  PROVE  \/ Published(s)'
         \/ s \in interrupted'
         \/ \E r \in Runs : SessionOf[r] = s /\ fetch'[r] \in Writing
<1>1. Published(s) => Published(s)'
  BY PublishedStays
<1>2. s \in interrupted => s \in interrupted'
  <2>1. interrupted \subseteq interrupted'
    BY DEF Next, vars, history, EditTickers, Trigger, ClearFetch, FetchStep, FetchStart,
           ReadConfig, Reply, NoReply, MakeDir, OpenStaging, CloseStaging, Replace, Return,
           Interrupt, CheckStep, CheckRead, CheckFinish, CheckInterrupt
  <2>. QED
    BY <2>1
<1>3. ASSUME NEW r \in Runs, SessionOf[r] = s, fetch[r] \in Writing, Replace(r)
      PROVE  Published(s)'
  BY <1>3 DEF Replace, TypeOK, Published
<1>. QED
  BY <1>1, <1>2, <1>3, WritersAreExplained

LEMMA NextHollow == TypeOK /\ HollowDirExplained /\ [Next]_vars => HollowDirExplained'
<1>. SUFFICES ASSUME TypeOK, HollowDirExplained, [Next]_vars, NEW s \in dirs'
              PROVE  \/ Published(s)'
                     \/ s \in interrupted'
                     \/ \E r \in Runs : SessionOf[r] = s /\ fetch'[r] \in Writing
  BY DEF HollowDirExplained
<1>1. CASE s \in dirs
  BY <1>1, ExplainedStays DEF HollowDirExplained, TypeOK
<1>2. CASE s \notin dirs
  <2>1. PICK r \in Runs : MakeDir(r)
    <3>1. CASE UNCHANGED vars \/ EditTickers
      BY <3>1, <1>2 DEF vars, EditTickers, disk
    <3>2. ASSUME NEW r \in Runs, Trigger(r) \/ ClearFetch(r) \/ FetchStep(r) \/ CheckStep(r)
          PROVE  MakeDir(r)
      BY <3>2, <1>2, OtherStepsKeepFiles DEF Replace
    <3>. QED
      BY <3>1, <3>2 DEF Next
  <2>2. SessionOf[r] = s /\ fetch'[r] \in Writing
    BY <1>2, <2>1 DEF MakeDir, Goto, TypeOK, Writing
  <2>. QED
    BY <2>2
<1>. QED
  BY <1>1, <1>2

(* A directory without a partition is work in progress, or the mark of an  *)
(* attempt that was interrupted while it wrote: no gate leaves one.        *)
THEOREM HollowDirsAreExplained == Spec => []HollowDirExplained
<1>1. Init => HollowDirExplained
  BY DEF Init, HollowDirExplained
<1>. QED
  BY <1>1, NextHollow, TypeCorrect, PTL DEF Spec

-----------------------------------------------------------------------------
(* What happens between a run's rename and its validate.                   *)

(* No two runs have the same session: what scheduled runs alone guarantee. *)
OwnSessionEach == \A p, q \in Runs : SessionOf[p] = SessionOf[q] => p = q

LEMMA WaitingRunsAreLeftAlone ==
  ASSUME OwnSessionEach, VerdictInv, [Next]_vars, NEW r \in Runs, check[r] = "queued"
  PROVE  RowsAt(SessionOf[r])' = RowsAt(SessionOf[r])
<1>1. TypeOK /\ fetch[r] = "success"
  BY DEF VerdictInv, PartitionInv, TypeInv, JudgedAreDone, Judging
<1>2. CASE UNCHANGED target
  BY <1>2 DEF RowsAt, Published
<1>3. ASSUME NEW q \in Runs, Replace(q)
      PROVE  target'[SessionOf[r]] = target[SessionOf[r]]
  <2>1. q # r
    BY <1>1, <1>3 DEF Replace
  <2>2. SessionOf[q] # SessionOf[r]
    BY <2>1 DEF OwnSessionEach
  <2>. QED
    BY <1>1, <1>3, <2>2, IngestConstants DEF Replace, TypeOK
<1>4. UNCHANGED target \/ \E q \in Runs : Replace(q)
  <2>1. CASE UNCHANGED vars \/ EditTickers
    BY <2>1 DEF vars, EditTickers, disk
  <2>2. ASSUME NEW q \in Runs, Trigger(q) \/ ClearFetch(q) \/ FetchStep(q) \/ CheckStep(q)
        PROVE  UNCHANGED target \/ Replace(q)
    BY <2>2, OtherStepsKeepFiles DEF MakeDir
  <2>. QED
    BY <2>1, <2>2 DEF Next
<1>. QED
  BY <1>2, <1>3, <1>4 DEF RowsAt, Published

(* Runs of distinct sessions never touch the partition another run has     *)
(* published and not yet validated: between a rename and the read of its   *)
(* validate nothing changes, whatever crashes and whoever is cleared.      *)
THEOREM NothingChangesForOwnSessions ==
  ASSUME OwnSessionEach
  PROVE  Spec => NothingChangesInBetween
<1>1. VerdictInv /\ [Next]_vars =>
        [\A r \in Runs :
           check[r] = "queued" /\ check'[r] = "queued" =>
             RowsAt(SessionOf[r])' = RowsAt(SessionOf[r])]_vars
  BY WaitingRunsAreLeftAlone
<1>. QED
  BY <1>1, InitVerdictInv, NextVerdictInv, PTL DEF Spec, NothingChangesInBetween

-----------------------------------------------------------------------------
(* Re-runs.                                                                *)

(* What an attempt for session s may come to write: the rows of a full     *)
(* answer, cut down to a list that is not empty.                           *)
Written(s) ==
  {Listed(body.bars, list) : body \in {b \in VendorBodies[s] : b.size >= MinMarketRows},
                             list \in TickerLists \ {<<>>}}

(* The vendor answers for a session what it answered before, when it       *)
(* answers in full, and the list is what it was or empty: the premise of   *)
(* "running it twice for D" (lines 9-10).                                  *)
SameAnswers == \A s \in Sessions : \A x, y \in Written(s) : x = y

AskedSomething ==
  \A r \in Runs :
    fetch[r] \in {"request", "mkdir"} \cup Writing => asked[r] \in TickerLists \ {<<>>}

FrameWritten ==
  \A r \in Runs : fetch[r] \in {"mkdir"} \cup Writing => frame[r] \in Written(SessionOf[r])

RowsWritten == \A s \in Sessions : Published(s) => target[s].bars \in Written(s)

RerunInv == PartitionInv /\ AskedSomething /\ FrameWritten /\ RowsWritten

(* An attempt other than the one at hand, or one that does not move.       *)
LEMMA RowsComeFromAnswers ==
  ASSUME PartitionInv, AskedSomething, FrameWritten, NEW r \in Runs,
         UNCHANGED target, RowsWritten,
         \A q \in Runs \ {r} :
           fetch'[q] = fetch[q] /\ asked'[q] = asked[q] /\ frame'[q] = frame[q],
         fetch'[r] \in {"request", "mkdir"} \cup Writing =>
           asked'[r] \in TickerLists \ {<<>>},
         fetch'[r] \in {"mkdir"} \cup Writing => frame'[r] \in Written(SessionOf[r])
  PROVE  AskedSomething' /\ FrameWritten' /\ RowsWritten'
<1>1. AskedSomething'
  BY DEF AskedSomething
<1>2. FrameWritten'
  BY DEF FrameWritten
<1>3. RowsWritten'
  BY DEF RowsWritten, Published
<1>. QED
  BY <1>1, <1>2, <1>3

(* What an attempt that ends leaves of it does not write.                  *)
LEMMA EndingKeepsRows ==
  ASSUME RerunInv, NEW r \in Runs, UNCHANGED target,
         Raise(r) \/ Fail(r) \/ Skip(r) \/ EndAttempt(r, "success")
  PROVE  AskedSomething' /\ FrameWritten' /\ RowsWritten'
<1>1. PICK state \in {"queued"} \cup Finished : EndAttempt(r, state)
  BY DEF Raise, Retry, Exhaust, Fail, Skip, Finished
<1>2. TypeOK
  BY DEF RerunInv, PartitionInv, TypeInv
<1>3. \A q \in Runs \ {r} :
        fetch'[q] = fetch[q] /\ asked'[q] = asked[q] /\ frame'[q] = frame[q]
  BY <1>1, <1>2 DEF TypeOK, EndAttempt, Goto
<1>4. fetch'[r] \notin {"request", "mkdir"} \cup Writing
  BY <1>1, <1>2 DEF TypeOK, EndAttempt, Goto, Writing, Finished
<1>. QED
  BY <1>3, <1>4, RowsComeFromAnswers DEF RerunInv

(* A frame that passes the gates is one the vendor's answer and the list   *)
(* give, whatever the throttle waits before it were.                       *)
LEMMA ReplyKeepsRows ==
  ASSUME RerunInv, NEW r \in Runs, NEW status \in Statuses, Reply(r, status)
  PROVE  AskedSomething' /\ FrameWritten' /\ RowsWritten'
<1>1. TypeOK /\ SessionOf[r] \in Sessions
  BY IngestConstants DEF RerunInv, PartitionInv, TypeInv
<1>2. UNCHANGED target /\ asked[r] \in TickerLists \ {<<>>}
  BY DEF Reply, disk, RerunInv, AskedSomething
<1>3. CASE Raise(r) \/ Fail(r) \/ Skip(r)
  BY <1>2, <1>3, EndingKeepsRows
<1>4. CASE Throttle(r)
  BY <1>2, <1>4 DEF Throttle, RerunInv, AskedSomething, FrameWritten, RowsWritten, Published
<1>5. ASSUME NEW body \in VendorBodies[SessionOf[r]], body.size >= MinMarketRows,
             Goto(r, "mkdir"),
             frame' = [frame EXCEPT ![r] = Listed(body.bars, asked[r])],
             UNCHANGED asked
      PROVE  AskedSomething' /\ FrameWritten' /\ RowsWritten'
  <2>1. frame'[r] = Listed(body.bars, asked[r]) /\ asked'[r] = asked[r]
    BY <1>1, <1>5 DEF TypeOK
  <2>2. frame'[r] \in Written(SessionOf[r])
    BY <1>2, <1>5, <2>1 DEF Written
  <2>3. \A q \in Runs \ {r} :
          fetch'[q] = fetch[q] /\ asked'[q] = asked[q] /\ frame'[q] = frame[q]
    BY <1>1, <1>5 DEF TypeOK, Goto
  <2>. QED
    BY <1>2, <2>1, <2>2, <2>3, RowsComeFromAnswers DEF RerunInv
<1>. QED
  BY <1>3, <1>4, <1>5 DEF Reply, Judge

(* The steps of fetch_ohlcv but for the reply and the rename.              *)
LEMMA FetchKeepsRows ==
  ASSUME RerunInv, NEW r \in Runs,
         \/ Trigger(r) \/ ClearFetch(r) \/ FetchStart(r) \/ ReadConfig(r) \/ NoReply(r)
         \/ MakeDir(r) \/ OpenStaging(r) \/ CloseStaging(r) \/ Return(r) \/ Interrupt(r)
  PROVE  AskedSomething' /\ FrameWritten' /\ RowsWritten'
<1>1. TypeOK
  BY DEF RerunInv, PartitionInv, TypeInv
<1>2. UNCHANGED target
  BY DEF Trigger, ClearFetch, FetchStart, ReadConfig, NoReply, MakeDir, OpenStaging,
         CloseStaging, Return, Interrupt, disk
<1>3. CASE Trigger(r) \/ ClearFetch(r) \/ FetchStart(r)
  <2>1. UNCHANGED <<asked, frame>> /\ fetch'[r] \in {"queued", "config"}
        /\ \A q \in Runs \ {r} : fetch'[q] = fetch[q]
    BY <1>1, <1>3 DEF Trigger, ClearFetch, FetchStart, Goto, TypeOK, locals
  <2>. QED
    BY <1>2, <2>1, RowsComeFromAnswers DEF RerunInv, Writing
<1>4. CASE ReadConfig(r) /\ ~ Raise(r)
  <2>1. /\ fetch'[r] = "request" /\ asked'[r] = tickers /\ tickers \in TickerLists \ {<<>>}
        /\ UNCHANGED frame
        /\ \A q \in Runs \ {r} : fetch'[q] = fetch[q] /\ asked'[q] = asked[q]
    BY <1>1, <1>4 DEF ReadConfig, Goto, TypeOK
  <2>. QED
    BY <1>2, <2>1, RowsComeFromAnswers DEF RerunInv, Writing
<1>5. CASE MakeDir(r) \/ OpenStaging(r) \/ CloseStaging(r)
  <2>1. UNCHANGED <<asked, frame>> /\ fetch[r] \in {"mkdir"} \cup Writing
        /\ \A q \in Runs \ {r} : fetch'[q] = fetch[q]
    BY <1>1, <1>5 DEF MakeDir, OpenStaging, CloseStaging, Goto, TypeOK, locals, Writing
  <2>. QED
    BY <1>2, <2>1, RowsComeFromAnswers DEF RerunInv, AskedSomething, FrameWritten
<1>6. CASE (ReadConfig(r) /\ Raise(r)) \/ NoReply(r) \/ Return(r) \/ Interrupt(r)
  BY <1>2, <1>6, EndingKeepsRows DEF NoReply, Return, Interrupt
<1>. QED
  BY <1>3, <1>4, <1>5, <1>6

LEMMA ReplaceKeepsRows ==
  ASSUME RerunInv, NEW r \in Runs, Replace(r)
  PROVE  AskedSomething' /\ FrameWritten' /\ RowsWritten'
<1>1. TypeOK /\ SessionOf[r] \in Sessions
  BY IngestConstants DEF RerunInv, PartitionInv, TypeInv
<1>2. staging[SessionOf[r]] = OwnFile(r) /\ frame[r] \in Written(SessionOf[r])
  BY DEF Replace, RerunInv, PartitionInv, StagingReady, FrameWritten, Writing
<1>3. RowsWritten'
  BY <1>1, <1>2 DEF Replace, TypeOK, OwnFile, RerunInv, RowsWritten, Published
<1>4. UNCHANGED <<asked, frame>> /\ fetch'[r] = "return"
      /\ \A q \in Runs \ {r} : fetch'[q] = fetch[q]
  BY <1>1 DEF Replace, Goto, TypeOK, locals
<1>5. AskedSomething' /\ FrameWritten'
  BY <1>4 DEF RerunInv, AskedSomething, FrameWritten, Writing
<1>. QED
  BY <1>3, <1>5

LEMMA NextRerunInv == RerunInv /\ [Next]_vars => RerunInv'
<1>. SUFFICES ASSUME RerunInv, [Next]_vars
              PROVE  RerunInv'
  OBVIOUS
<1>1. PartitionInv'
  BY NextPartitionInv DEF RerunInv
<1>2. ASSUME UNCHANGED <<fetch, asked, frame, target>>
      PROVE  RerunInv'
  BY <1>1, <1>2 DEF RerunInv, AskedSomething, FrameWritten, RowsWritten, Published
<1>3. CASE UNCHANGED vars
  BY <1>2, <1>3 DEF vars, locals, disk
<1>4. CASE EditTickers
  BY <1>2, <1>4 DEF EditTickers, locals, disk
<1>5. ASSUME NEW r \in Runs, CheckStep(r)
      PROVE  RerunInv'
  BY <1>2, <1>5 DEF CheckStep, CheckRead, CheckFinish, CheckInterrupt, locals, disk
<1>6. ASSUME NEW r \in Runs, Trigger(r) \/ ClearFetch(r) \/ FetchStep(r)
      PROVE  RerunInv'
  BY <1>1, <1>6, FetchKeepsRows, ReplyKeepsRows, ReplaceKeepsRows DEF RerunInv, FetchStep
<1>. QED
  BY <1>3, <1>4, <1>5, <1>6 DEF Next

(* A retry, a clear or another run of the session rewrites the rows that   *)
(* were there, through every crash, as long as the vendor answers the same *)
(* and the list is the same: "a byte-equivalent partition" (lines 9-10).   *)
THEOREM RerunsAreEquivalent ==
  ASSUME SameAnswers
  PROVE  Spec => RerunIsEquivalent
<1>1. Init => RerunInv
  BY InitPartitionInv
     DEF Init, RerunInv, AskedSomething, FrameWritten, RowsWritten, Published, Writing
<1>2. ASSUME RerunInv, RerunInv', [Next]_vars, NEW s \in Sessions, Published(s)
      PROVE  Published(s)' /\ RowsAt(s)' = RowsAt(s)
  <2>1. Published(s)'
    BY <1>2, PublishedStays DEF RerunInv, PartitionInv, TypeInv
  <2>. QED
    BY <1>2, <2>1 DEF RerunInv, RowsWritten, SameAnswers, RowsAt, Published
<1>3. RerunInv /\ RerunInv' /\ [Next]_vars =>
        [\A s \in Sessions : Published(s) => Published(s)' /\ RowsAt(s)' = RowsAt(s)]_vars
  BY <1>2
<1>. QED
  BY <1>1, <1>3, NextRerunInv, PTL DEF Spec, RerunIsEquivalent
=============================================================================
