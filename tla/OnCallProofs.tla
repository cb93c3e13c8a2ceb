---------------------------- MODULE OnCallProofs ----------------------------
(***************************************************************************)
(* Proofs about OnCall. It behaves like each of its components, so that    *)
(* what is proved of them holds here; and of the agent and eval commands,  *)
(* for every set of events, of command lines and of files they are given.  *)
(***************************************************************************)
EXTENDS OnCall, CalendarProofs, ReaderProofs, AgentProofs

-----------------------------------------------------------------------------
(* A step of OnCall is a step of one component, and of no other.           *)

LEMMA CommandsKeepTrees ==
  ASSUME TriageNext \/ EvalNext
  PROVE  [CorpusNext]_corpusVars
<1>1. CASE CommandStep
  <2>1. ASSUME NEW how, Exit(how)
        PROVE  UNCHANGED corpusVars
    BY <2>1 DEF Exit, corpusVars, loading
  <2>2. CASE ReadSettings \/ WriteDemo \/ LoadSignal \/ NoSignalToLoad \/ GetClient
    BY <2>1, <2>2
       DEF ReadSettings, WriteDemo, LoadSignal, NoSignalToLoad, GetClient, corpusVars, loading
  <2>3. CASE ReadRuns
    BY <2>1, <2>3 DEF ReadRuns, CorpusNext
  <2>4. CASE ReadDataset
    BY <2>4 DEF ReadDataset, CorpusNext
  <2>5. CASE LoadCorpus
    BY <2>5 DEF LoadCorpus, CorpusNext
  <2>6. CASE LoadRaised \/ Index \/ run_triage \/ run_retrieval_eval \/ Briefs
    BY <2>1, <2>6 DEF LoadRaised, Index, run_triage, run_retrieval_eval, Briefs, todo,
       corpusVars, loading
  <2>. QED
    BY <1>1, <2>2, <2>3, <2>4, <2>5, <2>6 DEF CommandStep
<1>2. ASSUME NEW j \in Jobs, Type(j)
      PROVE  CorpusNext
  BY <1>2 DEF Type, CorpusNext
<1>3. ASSUME NEW e \in Events, NEW time \in 1 .. MaxClock, Alert(e, time)
      PROVE  UNCHANGED corpusVars
  BY <1>3 DEF Alert
<1>4. CASE TreeStep
  BY <1>4 DEF CorpusNext
<1>. QED
  BY <1>1, <1>2, <1>3, <1>4 DEF TriageNext, EvalNext

LEMMA StepsOfParts ==
  ASSUME [OnCallNext]_onCallVars
  PROVE  /\ [AuditNext]_auditVars
         /\ [TriageNext \/ EvalNext]_commandVars
         /\ [LLMNext]_llmVars
         /\ [IndexNext]_indexVars
         /\ [LogNext]_logVars
         /\ [ScheduleNext]_scheduleVars
         /\ [UniverseNext]_universeVars
<1>1. CASE AuditNext /\ AuditOnly
  BY <1>1 DEF AuditOnly, agentVars, plannedVars
<1>2. CASE (TriageNext \/ EvalNext) /\ CommandOnly
  BY <1>2 DEF CommandOnly, agentVars, plannedVars
<1>3. CASE LLMNext /\ LLMOnly
  BY <1>3 DEF LLMOnly, agentVars, plannedVars
<1>4. CASE IndexNext /\ IndexOnly
  BY <1>4 DEF IndexOnly, agentVars, plannedVars
<1>5. CASE LogNext /\ LogOnly
  BY <1>5 DEF LogOnly, agentVars, plannedVars
<1>6. CASE ScheduleNext /\ ScheduleOnly
  BY <1>6 DEF ScheduleOnly, agentVars, plannedVars
<1>7. CASE UniverseNext /\ UniverseOnly
  BY <1>7 DEF UniverseOnly, agentVars, plannedVars
<1>8. CASE UNCHANGED onCallVars
  BY <1>8 DEF onCallVars, agentVars, plannedVars
<1>. QED
  BY <1>1, <1>2, <1>3, <1>4, <1>5, <1>6, <1>7, <1>8 DEF OnCallNext

(* What happens beside a component does not disturb it: its steps in       *)
(* OnCall are its own, so what holds of it alone holds of it here.         *)
THEOREM PartsAreUndisturbed ==
  OnCallSpec => /\ AuditSpec /\ CorpusSpec
                /\ LLMSpec /\ IndexSpec /\ LogSpec
                /\ ScheduleSpec /\ UniverseSpec
<1>1. OnCallInit => /\ AuditInit /\ CorpusInit /\ LLMInit /\ IndexInit /\ LogInit
                    /\ ScheduleInit /\ UniverseInit
  BY DEF OnCallInit, CommandInit
<1>2. [OnCallNext]_onCallVars =>
        /\ [AuditNext]_auditVars /\ [CorpusNext]_corpusVars
        /\ [LLMNext]_llmVars /\ [IndexNext]_indexVars /\ [LogNext]_logVars
        /\ [ScheduleNext]_scheduleVars /\ [UniverseNext]_universeVars
  <2>. SUFFICES ASSUME [OnCallNext]_onCallVars
                PROVE  [CorpusNext]_corpusVars
    BY StepsOfParts
  <2>1. CASE TriageNext \/ EvalNext
    BY <2>1, CommandsKeepTrees
  <2>2. CASE UNCHANGED commandVars
    BY <2>2 DEF commandVars
  <2>. QED
    BY <2>1, <2>2, StepsOfParts
<1>. QED
  BY <1>1, <1>2, PTL DEF OnCallSpec, AuditSpec, CorpusSpec, LLMSpec, IndexSpec, LogSpec,
     ScheduleSpec, UniverseSpec

-----------------------------------------------------------------------------
(* load_jsonl                                                              *)

Loads == [lineno : Nat, items : Seq(CaseIds), seen : SUBSET CaseIds, error : Nat]

LEMMA LoadLineType ==
  ASSUME NEW sofar \in Loads, NEW line \in JsonLine
  PROVE  LoadLine(sofar, line) \in Loads
<1>1. sofar.lineno + 1 \in Nat
  BY DEF Loads
<1>2. [sofar EXCEPT !.lineno = @ + 1] \in Loads
  BY <1>1 DEF Loads
<1>3. CASE sofar.error # 0 \/ line \in NoCase
  <2>1. LoadLine(sofar, line) \in {sofar, [sofar EXCEPT !.lineno = @ + 1]}
    BY <1>3 DEF LoadLine
  <2>. QED
    BY <1>2, <2>1
<1>4. CASE ~ (sofar.error # 0 \/ line \in NoCase) /\ (line = "invalid" \/ line \in sofar.seen)
  BY <1>1, <1>4 DEF LoadLine, Loads
<1>5. CASE ~ (sofar.error # 0 \/ line \in NoCase \/ line = "invalid" \/ line \in sofar.seen)
  <2>1. line \in CaseIds
    BY <1>5 DEF JsonLine
  <2>2. Append(sofar.items, line) \in Seq(CaseIds)
    BY <2>1, AppendProperties DEF Loads
  <2>. QED
    BY <1>1, <1>5, <2>1, <2>2 DEF LoadLine, Loads
<1>. QED
  BY <1>3, <1>4, <1>5

(* What is loaded of a file, line by line.                                 *)
LEMMA LoadedInSteps ==
  ASSUME NEW file \in Seq(JsonLine)
  PROVE  \E loaded \in [0 .. Len(file) -> Loads] :
           /\ loaded[0] = NothingLoaded /\ loaded[Len(file)] = load_jsonl(file)
           /\ \A k \in 1 .. Len(file) : loaded[k] = LoadLine(loaded[k - 1], file[k])
<1>. DEFINE n == Len(file)
            step == [x \in Loads \X (1 .. n) |-> LoadLine(x[1], file[x[2]])]
            Fold(f) == f = [S \in SUBSET DOMAIN file |->
                             IF S = {} THEN NothingLoaded
                             ELSE LoadLine(f[S \ {Max(S)}], file[Max(S)])]
<1>1. n \in Nat /\ DOMAIN file = 1 .. n /\ \A k \in 1 .. n : file[k] \in JsonLine
  BY LenProperties, ElementOfSeq
<1>2. NothingLoaded \in Loads
  BY EmptySeq DEF NothingLoaded, Loads
<1>3. step \in [Loads \X (1 .. n) -> Loads]
  <2>. SUFFICES ASSUME NEW x \in Loads \X (1 .. n)
                PROVE  step[x] \in Loads
    BY Zenon
  <2>1. x[1] \in Loads /\ x[2] \in 1 .. n
    OBVIOUS
  <2>2. file[x[2]] \in JsonLine
    BY <1>1, <2>1
  <2>. QED
    BY <2>1, <2>2, LoadLineType
<1>4. PICK f \in [SUBSET (1 .. n) -> Loads] : Folds(f, NothingLoaded, step, n)
  <2>. HIDE DEF step
  <2>. QED
    BY <1>1, <1>2, <1>3, FoldExists
<1>5. ASSUME NEW S \in SUBSET (1 .. n)
      PROVE  f[S] = IF S = {} THEN NothingLoaded ELSE LoadLine(f[S \ {Max(S)}], file[Max(S)])
  <2>1. CASE S # {}
    <3>1. Max(S) \in 1 .. n /\ S \ {Max(S)} \in SUBSET (1 .. n)
      BY <1>1, <2>1, LastPlace
    <3>2. <<f[S \ {Max(S)}], Max(S)>> \in Loads \X (1 .. n)
      BY <3>1
    <3>3. f[S] = step[f[S \ {Max(S)}], Max(S)]
      BY <1>4, <2>1 DEF Folds
    <3>. QED
      BY <2>1, <3>2, <3>3
  <2>. QED
    BY <1>4, <2>1 DEF Folds
<1>6. Fold(f)
  BY <1>1, <1>5
<1>7. load_jsonl(file) = (CHOOSE g : Fold(g))[DOMAIN file]
  BY DEF load_jsonl, FoldLeft, MapThenFoldSet
<1>8. PICK fold : Fold(fold) /\ fold = (CHOOSE g : Fold(g))
  <2>. HIDE DEF Fold
  <2>. QED
    BY <1>6
<1>9. fold[1 .. 0] = NothingLoaded
  BY <1>1, <1>8
<1>10. ASSUME NEW k \in 1 .. n
       PROVE  fold[1 .. k] = LoadLine(fold[1 .. k - 1], file[k])
  <2>1. 1 .. k \in SUBSET (1 .. n) /\ 1 .. k # {} /\ Max(1 .. k) = k /\ (1 .. k) \ {k} = 1 .. k - 1
    BY <1>1, LastOfAll
  <2>. QED
    BY <1>1, <1>8, <2>1
<1>. DEFINE Typed == {k \in Nat : k <= n => fold[1 .. k] \in Loads}
            loaded == [k \in 0 .. n |-> fold[1 .. k]]
<1>11. 0 \in Typed
  BY <1>2, <1>9
<1>12. ASSUME NEW k \in Nat, k \in Typed
       PROVE  k + 1 \in Typed
  <2>. SUFFICES ASSUME k + 1 <= n
                PROVE  fold[1 .. k + 1] \in Loads
    OBVIOUS
  <2>1. k + 1 \in 1 .. n /\ k + 1 - 1 = k /\ fold[1 .. k] \in Loads
    BY <1>1, <1>12
  <2>2. file[k + 1] \in JsonLine
    BY <1>1, <2>1
  <2>3. fold[1 .. k + 1] = LoadLine(fold[1 .. k], file[k + 1])
    BY <1>10, <2>1
  <2>. QED
    BY <2>1, <2>2, <2>3, LoadLineType
<1>13. \A k \in 0 .. n : k \in Typed
  <2>. HIDE DEF Typed
  <2>. QED
    BY <1>1, <1>11, <1>12, NaturalsByInduction
<1>14. loaded \in [0 .. n -> Loads]
  BY <1>13
<1>15. loaded[0] = NothingLoaded /\ loaded[n] = load_jsonl(file)
  <2>1. load_jsonl(file) = fold[1 .. n]
    BY <1>1, <1>7, <1>8
  <2>2. 0 \in 0 .. n /\ n \in 0 .. n
    BY <1>1
  <2>. QED
    BY <1>9, <2>1, <2>2
<1>16. \A k \in 1 .. n : loaded[k] = LoadLine(loaded[k - 1], file[k])
  BY <1>1, <1>10
<1>. HIDE DEF loaded
<1>. QED
  BY <1>14, <1>15, <1>16

(* The cases up to line k.                                                 *)
CasesTo(file, k) == {m \in Cases(file) : m <= k}

LEMMA NextCase ==
  ASSUME NEW file \in Seq(JsonLine), NEW k \in Nat, k < Len(file)
  PROVE  /\ IsFiniteSet(CasesTo(file, k)) /\ Cardinality(CasesTo(file, k)) \in Nat
         /\ CasesTo(file, k + 1) = IF file[k + 1] \in CaseIds
                                   THEN CasesTo(file, k) \cup {k + 1} ELSE CasesTo(file, k)
         /\ k + 1 \notin CasesTo(file, k)
         /\ \A n \in CasesTo(file, k) :
              /\ n \in 1 .. k /\ file[n] \in CaseIds
              /\ Place(n, file) \in 1 .. Cardinality(CasesTo(file, k))
<1>1. Len(file) \in Nat /\ DOMAIN file = 1 .. Len(file)
  BY LenProperties
<1>2. ASSUME NEW n \in Nat, n <= k
      PROVE  /\ CasesTo(file, n) \subseteq 1 .. n /\ IsFiniteSet(CasesTo(file, n))
             /\ Cardinality(CasesTo(file, n)) \in Nat
  <2>1. CasesTo(file, n) \subseteq 1 .. n
    BY <1>1 DEF CasesTo, Cases
  <2>2. IsFiniteSet(1 .. n)
    BY FS_Interval
  <2>. QED
    BY <2>1, <2>2, FS_Subset, FS_CardinalityType
<1>3. CasesTo(file, k + 1) = IF file[k + 1] \in CaseIds
                             THEN CasesTo(file, k) \cup {k + 1} ELSE CasesTo(file, k)
  BY <1>1 DEF CasesTo, Cases
<1>4. ASSUME NEW n \in CasesTo(file, k)
      PROVE  /\ n \in 1 .. k /\ file[n] \in CaseIds
             /\ Place(n, file) \in 1 .. Cardinality(CasesTo(file, k))
  <2>1. n \in 1 .. k /\ file[n] \in CaseIds /\ n \in Cases(file)
    BY <1>1 DEF CasesTo, Cases
  <2>2. CasesTo(file, n) \subseteq CasesTo(file, k) /\ n \in CasesTo(file, n)
    BY <2>1, <1>1 DEF CasesTo, Cases
  <2>3. Cardinality(CasesTo(file, n)) \in Nat /\ Cardinality(CasesTo(file, n)) # 0
    BY <1>2, <2>1, <2>2, FS_EmptySet
  <2>4. Cardinality(CasesTo(file, n)) <= Cardinality(CasesTo(file, k))
    BY <1>2, <2>2, FS_Subset
  <2>5. Place(n, file) = Cardinality(CasesTo(file, n))
    BY DEF Place, CasesTo
  <2>. QED
    BY <1>2, <2>1, <2>3, <2>4, <2>5
<1>. QED
  BY <1>2, <1>3, <1>4

(* After k lines: nothing was wrong with any, and the cases among them are *)
(* there, each at its place; or the first that is wrong has been named.    *)
Agrees(loaded, file, k) ==
  IF loaded.error = 0
  THEN /\ loaded.lineno = k
       /\ \A n \in Faulty(file) : n > k
       /\ loaded.seen = {file[n] : n \in CasesTo(file, k)}
       /\ Len(loaded.items) = Cardinality(CasesTo(file, k))
       /\ \A n \in CasesTo(file, k) : loaded.items[Place(n, file)] = file[n]
  ELSE /\ loaded.error \in Faulty(file)
       /\ \A n \in Faulty(file) : loaded.error <= n

LEMMA LoadLineAgrees ==
  ASSUME NEW file \in Seq(JsonLine), NEW k \in Nat, k < Len(file),
         NEW sofar \in Loads, Agrees(sofar, file, k)
  PROVE  Agrees(LoadLine(sofar, file[k + 1]), file, k + 1)
<1>. DEFINE line == file[k + 1]
            next == LoadLine(sofar, line)
            seen1 == CasesTo(file, k)
<1>1. k + 1 \in DOMAIN file /\ line \in JsonLine /\ sofar.lineno \in Nat
      /\ sofar.items \in Seq(CaseIds) /\ sofar.seen \subseteq CaseIds
  <2>1. Len(file) \in Nat /\ DOMAIN file = 1 .. Len(file)
    BY LenProperties
  <2>2. k + 1 \in 1 .. Len(file)
    BY <2>1
  <2>3. file[k + 1] \in JsonLine
    BY <2>2, ElementOfSeq
  <2>. QED
    BY <2>1, <2>2, <2>3 DEF Loads
<1>2. CASE sofar.error # 0
  BY <1>2 DEF LoadLine, Agrees
<1>3. CASE sofar.error = 0 /\ line \in NoCase
  <2>1. next = [sofar EXCEPT !.lineno = @ + 1]
    BY <1>3 DEF LoadLine
  <2>2. /\ next.error = 0 /\ next.lineno = k + 1
        /\ next.seen = sofar.seen /\ next.items = sofar.items
    BY <1>3, <2>1 DEF Agrees, Loads
  <2>3. line \notin CaseIds /\ line # "invalid"
    BY <1>3, CasesAreNamed DEF NoCase
  <2>4. CasesTo(file, k + 1) = CasesTo(file, k)
    BY <2>3, NextCase
  <2>5. k + 1 \notin Faulty(file)
    BY <2>3 DEF Faulty
  <2>6. \A n \in Faulty(file) : n > k + 1
    BY <1>1, <1>3, <2>5 DEF Faulty, Agrees
  <2>. QED
    BY <1>3, <2>2, <2>4, <2>6 DEF Agrees
<1>4. CASE sofar.error = 0 /\ line \notin NoCase /\ (line = "invalid" \/ line \in sofar.seen)
  <2>1. next = [[sofar EXCEPT !.lineno = @ + 1] EXCEPT !.error = k + 1]
    BY <1>1, <1>4 DEF LoadLine, Agrees, Loads
  <2>2. next.error = k + 1
    BY <2>1 DEF Loads
  <2>3. k + 1 \in Faulty(file)
    <3>1. CASE line = "invalid"
      BY <1>1, <3>1 DEF Faulty
    <3>2. CASE line \in sofar.seen
      <4>1. PICK n \in CasesTo(file, k) : file[n] = line
        BY <1>4, <3>2 DEF Agrees
      <4>2. n \in 1 .. (k + 1) - 1
        <5>1. n \in 1 .. k
          BY <4>1, NextCase
        <5>2. (k + 1) - 1 = k
          OBVIOUS
        <5>. QED
          BY <5>1, <5>2
      <4>3. line \in CaseIds
        BY <1>1, <3>2
      <4>. QED
        BY <1>1, <4>1, <4>2, <4>3 DEF Faulty
    <3>. QED
      BY <1>4, <3>1, <3>2
  <2>4. \A n \in Faulty(file) : k + 1 <= n
    <3>1. \A n \in Faulty(file) : n > k /\ n \in DOMAIN file
      BY <1>4 DEF Agrees, Faulty
    <3>. QED
      BY <3>1
  <2>. QED
    BY <2>2, <2>3, <2>4 DEF Agrees
<1>5. CASE sofar.error = 0 /\ line \notin NoCase /\ ~ (line = "invalid" \/ line \in sofar.seen)
  <2>1. line \in CaseIds
    BY <1>1, <1>5 DEF JsonLine
  <2>2. /\ next.error = 0 /\ next.lineno = k + 1
        /\ next.seen = sofar.seen \cup {line} /\ next.items = Append(sofar.items, line)
    BY <1>1, <1>5 DEF LoadLine, Agrees, Loads
  <2>3. CasesTo(file, k + 1) = seen1 \cup {k + 1} /\ k + 1 \notin seen1
        /\ IsFiniteSet(seen1) /\ Cardinality(seen1) \in Nat
    BY <2>1, NextCase
  <2>4. Cardinality(CasesTo(file, k + 1)) = Cardinality(seen1) + 1
    BY <2>3, FS_AddElement
  <2>5. \A n \in Faulty(file) : n > k + 1
    <3>1. k + 1 \notin Faulty(file)
      <4>. SUFFICES ASSUME NEW m \in 1 .. (k + 1) - 1, file[m] = line
                    PROVE  FALSE
        BY <1>5 DEF Faulty
      <4>1. m \in CasesTo(file, k)
        BY <1>1, <2>1 DEF CasesTo, Cases
      <4>. QED
        BY <1>5, <4>1 DEF Agrees
    <3>2. \A n \in Faulty(file) : n > k /\ n \in DOMAIN file
      BY <1>5 DEF Agrees, Faulty
    <3>. QED
      BY <3>1, <3>2
  <2>6. next.seen = {file[n] : n \in CasesTo(file, k + 1)}
    BY <1>5, <2>2, <2>3 DEF Agrees
  <2>7. /\ Len(next.items) = Len(sofar.items) + 1 /\ Len(sofar.items) = Cardinality(seen1)
        /\ \A i \in 1 .. Len(sofar.items) : next.items[i] = sofar.items[i]
        /\ next.items[Len(sofar.items) + 1] = line
    BY <1>1, <1>5, <2>1, <2>2, AppendProperties DEF Agrees
  <2>8. ASSUME NEW n \in CasesTo(file, k + 1)
        PROVE  next.items[Place(n, file)] = file[n]
    <3>1. CASE n \in seen1
      <4>1. Place(n, file) \in 1 .. Cardinality(seen1)
        BY <3>1, NextCase
      <4>2. sofar.items[Place(n, file)] = file[n]
        BY <1>5, <3>1 DEF Agrees
      <4>. QED
        BY <2>7, <4>1, <4>2
    <3>2. CASE n = k + 1
      <4>1. Place(n, file) = Cardinality(CasesTo(file, k + 1))
        BY <3>2 DEF Place, CasesTo
      <4>. QED
        BY <2>4, <2>7, <3>2, <4>1
    <3>. QED
      BY <2>3, <3>1, <3>2
  <2>. HIDE DEF next, seen1
  <2>9. Len(next.items) = Cardinality(CasesTo(file, k + 1))
    BY <2>4, <2>7
  <2>10. Agrees(next, file, k + 1)
    BY <2>2, <2>5, <2>6, <2>8, <2>9 DEF Agrees
  <2>. QED
    BY <2>10 DEF next
<1>. QED
  BY <1>2, <1>3, <1>4, <1>5

(* A file is loaded whole and in order, or the first line that is wrong is *)
(* named, whatever is in it.                                               *)
LEMMA LoadedAgrees ==
  ASSUME NEW file \in Seq(JsonLine)
  PROVE  load_jsonl(file) \in Loads /\ Agrees(load_jsonl(file), file, Len(file))
<1>1. PICK loaded \in [0 .. Len(file) -> Loads] :
        /\ loaded[0] = NothingLoaded /\ loaded[Len(file)] = load_jsonl(file)
        /\ \A k \in 1 .. Len(file) : loaded[k] = LoadLine(loaded[k - 1], file[k])
  BY LoadedInSteps
<1>2. Len(file) \in Nat /\ DOMAIN file = 1 .. Len(file)
  BY LenProperties
<1>. DEFINE Agreeing == {k \in Nat : k <= Len(file) => Agrees(loaded[k], file, k)}
<1>3. 0 \in Agreeing
  <2>1. CasesTo(file, 0) = {} /\ \A n \in Faulty(file) : n > 0
    BY <1>2 DEF CasesTo, Cases, Faulty
  <2>2. Agrees(NothingLoaded, file, 0)
    BY <2>1, FS_EmptySet DEF Agrees, NothingLoaded
  <2>. QED
    BY <1>1, <2>2
<1>4. ASSUME NEW k \in Nat, k \in Agreeing
      PROVE  k + 1 \in Agreeing
  <2>. SUFFICES ASSUME k + 1 <= Len(file)
                PROVE  Agrees(loaded[k + 1], file, k + 1)
    OBVIOUS
  <2>1. k + 1 \in 1 .. Len(file) /\ k + 1 - 1 = k /\ k \in 0 .. Len(file)
        /\ Agrees(loaded[k], file, k)
    BY <1>2, <1>4
  <2>2. loaded[k + 1] = LoadLine(loaded[k], file[k + 1]) /\ loaded[k] \in Loads
    BY <1>1, <2>1
  <2>3. k < Len(file)
    BY <1>2, <2>1
  <2>. QED
    BY <2>1, <2>2, <2>3, LoadLineAgrees
<1>5. Len(file) \in Agreeing
  <2>. HIDE DEF Agreeing
  <2>. QED
    BY <1>2, <1>3, <1>4, NaturalsByInduction
<1>. QED
  BY <1>1, <1>2, <1>5

-----------------------------------------------------------------------------
(* stable_id                                                               *)

Letters == STRING \cup {"|"}
Chars == Seq(Letters)

LEMMA JoinParts ==
  ASSUME NEW key \in Chars, NEW part \in Chars
  PROVE  /\ Join(key, part) \in Chars /\ Len(key) \in Nat /\ Len(part) \in Nat
         /\ Len(Join(key, part)) = Len(key) + 1 + Len(part)
         /\ \A i \in 1 .. Len(key) : Join(key, part)[i] = key[i]
         /\ Join(key, part)[Len(key) + 1] = "|"
         /\ \A i \in 1 .. Len(part) : Join(key, part)[Len(key) + 1 + i] = part[i]
<1>. DEFINE barred == key \o <<"|">>
<1>1. Len(key) \in Nat /\ Len(part) \in Nat
  BY LenProperties DEF Chars
<1>2. <<"|">> \in Chars /\ Len(<<"|">>) = 1 /\ <<"|">>[1] = "|"
  BY DEF Chars, Letters
<1>3. /\ barred \in Chars /\ Len(barred) = Len(key) + 1
      /\ \A i \in 1 .. Len(key) + 1 :
           barred[i] = IF i <= Len(key) THEN key[i] ELSE <<"|">>[i - Len(key)]
  BY <1>1, <1>2, ConcatProperties DEF Chars
<1>4. /\ \A i \in 1 .. Len(key) : barred[i] = key[i]
      /\ barred[Len(key) + 1] = "|"
  <2>1. \A i \in 1 .. Len(key) : i \in 1 .. Len(key) + 1 /\ i <= Len(key)
    BY <1>1
  <2>2. /\ Len(key) + 1 \in 1 .. Len(key) + 1 /\ ~ Len(key) + 1 <= Len(key)
        /\ (Len(key) + 1) - Len(key) = 1
    BY <1>1
  <2>. HIDE DEF barred
  <2>. QED
    BY <1>2, <1>3, <2>1, <2>2
<1>. HIDE DEF barred
<1>5. Join(key, part) = barred \o part
  BY DEF Join, barred
<1>6. /\ Join(key, part) \in Chars /\ Len(Join(key, part)) = Len(key) + 1 + Len(part)
      /\ \A i \in 1 .. Len(key) + 1 + Len(part) :
           Join(key, part)[i] = IF i <= Len(key) + 1 THEN barred[i] ELSE part[i - (Len(key) + 1)]
  <2>1. barred \in Seq(Letters) /\ part \in Seq(Letters) /\ Len(barred) = Len(key) + 1
    BY <1>3 DEF Chars
  <2>2. /\ barred \o part \in Seq(Letters) /\ Len(barred \o part) = Len(key) + 1 + Len(part)
        /\ \A i \in 1 .. Len(key) + 1 + Len(part) :
             (barred \o part)[i] = IF i <= Len(key) + 1 THEN barred[i] ELSE part[i - (Len(key) + 1)]
    BY <2>1, ConcatProperties
  <2>. QED
    BY <1>5, <2>2 DEF Chars
<1>7. \A i \in 1 .. Len(key) + 1 : Join(key, part)[i] = barred[i]
  BY <1>1, <1>6
<1>8. ASSUME NEW i \in 1 .. Len(part)
      PROVE  Join(key, part)[Len(key) + 1 + i] = part[i]
  <2>1. /\ Len(key) + 1 + i \in 1 .. Len(key) + 1 + Len(part)
        /\ ~ Len(key) + 1 + i <= Len(key) + 1 /\ (Len(key) + 1 + i) - (Len(key) + 1) = i
    BY <1>1
  <2>. QED
    BY <1>6, <2>1
<1>9. \A i \in 1 .. Len(key) : Join(key, part)[i] = key[i]
  BY <1>1, <1>4, <1>7
<1>10. Join(key, part)[Len(key) + 1] = "|"
  BY <1>1, <1>4, <1>7
<1>. QED
  BY <1>1, <1>6, <1>8, <1>9, <1>10

(* A key is joined of its parts, one by one.                               *)
LEMMA KeyInSteps ==
  ASSUME NEW parts \in Seq(Chars), parts # <<>>
  PROVE  /\ Len(parts) \in Nat /\ Len(parts) > 0
         /\ \E keys \in [1 .. Len(parts) -> Chars] :
              /\ keys[1] = parts[1] /\ keys[Len(parts)] = KeyOf(parts)
              /\ \A k \in 1 .. Len(parts) - 1 : keys[k + 1] = Join(keys[k], parts[k + 1])
<1>. DEFINE rest == Tail(parts)
            n == Len(rest)
            step == [x \in Chars \X (1 .. n) |-> Join(x[1], rest[x[2]])]
            Fold(f) == f = [S \in SUBSET DOMAIN rest |->
                             IF S = {} THEN Head(parts)
                             ELSE Join(f[S \ {Max(S)}], rest[Max(S)])]
<1>1. /\ Len(parts) \in Nat /\ Len(parts) > 0
      /\ \A k \in 1 .. Len(parts) : parts[k] \in Chars
  BY EmptySeq, LenProperties, ElementOfSeq
<1>2. /\ rest \in Seq(Chars) /\ n = Len(parts) - 1 /\ Head(parts) = parts[1]
      /\ \A k \in 1 .. n : rest[k] = parts[k + 1]
  BY <1>1, HeadTailProperties
<1>3. n \in Nat /\ DOMAIN rest = 1 .. n /\ (\A k \in 1 .. n : rest[k] \in Chars)
      /\ Head(parts) \in Chars
  BY <1>1, <1>2, LenProperties, ElementOfSeq
<1>. HIDE DEF rest
<1>4. step \in [Chars \X (1 .. n) -> Chars]
  <2>. SUFFICES ASSUME NEW x \in Chars \X (1 .. n)
                PROVE  step[x] \in Chars
    BY Zenon
  <2>1. x[1] \in Chars /\ x[2] \in 1 .. n
    OBVIOUS
  <2>2. rest[x[2]] \in Chars
    BY <1>3, <2>1
  <2>. QED
    BY <2>1, <2>2, JoinParts
<1>5. PICK f \in [SUBSET (1 .. n) -> Chars] : Folds(f, Head(parts), step, n)
  <2>. HIDE DEF step
  <2>. QED
    BY <1>3, <1>4, FoldExists
<1>6. ASSUME NEW S \in SUBSET (1 .. n)
      PROVE  f[S] = IF S = {} THEN Head(parts) ELSE Join(f[S \ {Max(S)}], rest[Max(S)])
  <2>1. CASE S # {}
    <3>1. Max(S) \in 1 .. n /\ S \ {Max(S)} \in SUBSET (1 .. n)
      BY <1>3, <2>1, LastPlace
    <3>2. <<f[S \ {Max(S)}], Max(S)>> \in Chars \X (1 .. n)
      BY <3>1
    <3>3. f[S] = step[f[S \ {Max(S)}], Max(S)]
      BY <1>5, <2>1 DEF Folds
    <3>. QED
      BY <2>1, <3>2, <3>3
  <2>. QED
    BY <1>5, <2>1 DEF Folds
<1>7. Fold(f)
  BY <1>3, <1>6
<1>8. KeyOf(parts) = (CHOOSE g : Fold(g))[DOMAIN rest]
  BY DEF KeyOf, FoldLeft, MapThenFoldSet, rest
<1>9. PICK fold : Fold(fold) /\ fold = (CHOOSE g : Fold(g))
  <2>. HIDE DEF Fold
  <2>. QED
    BY <1>7
<1>10. fold[1 .. 0] = Head(parts)
  BY <1>3, <1>9
<1>11. ASSUME NEW k \in 1 .. n
       PROVE  fold[1 .. k] = Join(fold[1 .. k - 1], rest[k])
  <2>1. 1 .. k \in SUBSET (1 .. n) /\ 1 .. k # {} /\ Max(1 .. k) = k /\ (1 .. k) \ {k} = 1 .. k - 1
    BY <1>3, LastOfAll
  <2>. QED
    BY <1>3, <1>9, <2>1
<1>. DEFINE Typed == {k \in Nat : k <= n => fold[1 .. k] \in Chars}
            keys == [k \in 1 .. Len(parts) |-> fold[1 .. k - 1]]
<1>12. 0 \in Typed
  BY <1>3, <1>10
<1>13. ASSUME NEW k \in Nat, k \in Typed
       PROVE  k + 1 \in Typed
  <2>. SUFFICES ASSUME k + 1 <= n
                PROVE  fold[1 .. k + 1] \in Chars
    OBVIOUS
  <2>1. k + 1 \in 1 .. n /\ k + 1 - 1 = k /\ fold[1 .. k] \in Chars
    BY <1>3, <1>13
  <2>2. fold[1 .. k + 1] = Join(fold[1 .. k], rest[k + 1])
    BY <1>11, <2>1
  <2>. QED
    BY <1>3, <2>1, <2>2, JoinParts
<1>14. \A k \in 0 .. n : fold[1 .. k] \in Chars
  <2>1. Nat \subseteq Typed
    <3>. HIDE DEF Typed
    <3>. QED
      BY <1>12, <1>13, NaturalsByInduction
  <2>. QED
    BY <1>3, <2>1
<1>15. keys \in [1 .. Len(parts) -> Chars]
  BY <1>1, <1>2, <1>14
<1>16. keys[1] = parts[1] /\ keys[Len(parts)] = KeyOf(parts)
  <2>1. KeyOf(parts) = fold[1 .. n]
    BY <1>3, <1>8, <1>9
  <2>2. 1 \in 1 .. Len(parts) /\ Len(parts) \in 1 .. Len(parts) /\ Len(parts) - 1 = n /\ 1 - 1 = 0
    BY <1>1, <1>2
  <2>. QED
    BY <1>2, <1>10, <2>1, <2>2
<1>17. ASSUME NEW k \in 1 .. Len(parts) - 1
       PROVE  keys[k + 1] = Join(keys[k], parts[k + 1])
  <2>1. k \in 1 .. n /\ k \in 1 .. Len(parts) /\ k + 1 \in 1 .. Len(parts) /\ (k + 1) - 1 = k
    BY <1>1, <1>2
  <2>. QED
    BY <1>2, <1>11, <2>1
<1>. HIDE DEF keys
<1>. QED
  BY <1>1, <1>15, <1>16, <1>17

Unbarred(part) == \A i \in DOMAIN part : part[i] # "|"

(* Where the last bar is, is where the last part begins.                   *)
LEMMA NoLaterBar ==
  ASSUME NEW key \in Chars, NEW part \in Chars, Unbarred(part),
         NEW last \in Chars, NEW end \in Chars, Join(key, part) = Join(last, end)
  PROVE  Len(last) <= Len(key)
<1>. DEFINE i == Len(last) - Len(key)
<1>1. /\ Len(key) \in Nat /\ Len(part) \in Nat /\ Len(last) \in Nat /\ Len(end) \in Nat
      /\ Len(key) + 1 + Len(part) = Len(last) + 1 + Len(end)
      /\ Join(key, part)[Len(last) + 1] = "|"
      /\ \A k \in 1 .. Len(part) : Join(key, part)[Len(key) + 1 + k] = part[k]
  <2>1. /\ Len(key) \in Nat /\ Len(part) \in Nat
        /\ Len(Join(key, part)) = Len(key) + 1 + Len(part)
        /\ \A k \in 1 .. Len(part) : Join(key, part)[Len(key) + 1 + k] = part[k]
    BY JoinParts
  <2>2. /\ Len(last) \in Nat /\ Len(end) \in Nat
        /\ Len(Join(last, end)) = Len(last) + 1 + Len(end)
        /\ Join(last, end)[Len(last) + 1] = "|"
    BY JoinParts
  <2>. QED
    BY <2>1, <2>2
<1>. SUFFICES ASSUME Len(key) < Len(last)
              PROVE  FALSE
  BY <1>1
<1>2. i \in 1 .. Len(part) /\ Len(key) + 1 + i = Len(last) + 1
  BY <1>1
<1>3. part[i] = "|"
  BY <1>1, <1>2
<1>4. i \in DOMAIN part
  BY <1>2, LenProperties DEF Chars
<1>. QED
  BY <1>3, <1>4 DEF Unbarred

LEMMA JoinSplits ==
  ASSUME NEW key \in Chars, NEW part \in Chars, Unbarred(part),
         NEW last \in Chars, NEW end \in Chars, Unbarred(end),
         Join(key, part) = Join(last, end)
  PROVE  key = last /\ part = end
<1>1. Len(last) <= Len(key) /\ Len(key) <= Len(last)
  BY NoLaterBar
<1>2. /\ Len(key) \in Nat /\ Len(part) \in Nat
      /\ Len(Join(key, part)) = Len(key) + 1 + Len(part)
      /\ \A k \in 1 .. Len(key) : Join(key, part)[k] = key[k]
      /\ \A k \in 1 .. Len(part) : Join(key, part)[Len(key) + 1 + k] = part[k]
  BY JoinParts
<1>3. /\ Len(last) \in Nat /\ Len(end) \in Nat
      /\ Len(Join(key, part)) = Len(last) + 1 + Len(end)
      /\ \A k \in 1 .. Len(last) : Join(key, part)[k] = last[k]
      /\ \A k \in 1 .. Len(end) : Join(key, part)[Len(last) + 1 + k] = end[k]
  <2>1. /\ Len(last) \in Nat /\ Len(end) \in Nat
        /\ Len(Join(last, end)) = Len(last) + 1 + Len(end)
        /\ \A k \in 1 .. Len(last) : Join(last, end)[k] = last[k]
        /\ \A k \in 1 .. Len(end) : Join(last, end)[Len(last) + 1 + k] = end[k]
    BY JoinParts
  <2>. QED
    BY <2>1
<1>4. Len(key) = Len(last) /\ Len(part) = Len(end)
  BY <1>1, <1>2, <1>3
<1>5. \A k \in 1 .. Len(key) : key[k] = last[k]
  BY <1>2, <1>3, <1>4
<1>6. \A k \in 1 .. Len(part) : part[k] = end[k]
  BY <1>2, <1>3, <1>4
<1>. QED
  BY <1>4, <1>5, <1>6, SeqEqual DEF Chars

(* Events whose ids have one key have the same parts: the bar between them *)
(* is in none of them.                                                     *)
LEMMA KeysTellApart ==
  ASSUME NEW parts \in Seq(Chars), parts # <<>>, \A n \in DOMAIN parts : Unbarred(parts[n]),
         NEW other \in Seq(Chars), other # <<>>, \A n \in DOMAIN other : Unbarred(other[n]),
         KeyOf(parts) = KeyOf(other)
  PROVE  parts = other
<1>1. /\ Len(parts) \in Nat /\ Len(parts) > 0
      /\ \A k \in 1 .. Len(parts) : parts[k] \in Chars /\ Unbarred(parts[k])
  BY KeyInSteps, LenProperties, ElementOfSeq
<1>2. /\ Len(other) \in Nat /\ Len(other) > 0
      /\ \A k \in 1 .. Len(other) : other[k] \in Chars /\ Unbarred(other[k])
  BY KeyInSteps, LenProperties, ElementOfSeq
<1>3. PICK keys \in [1 .. Len(parts) -> Chars] :
        /\ keys[1] = parts[1] /\ keys[Len(parts)] = KeyOf(parts)
        /\ \A k \in 1 .. Len(parts) - 1 : keys[k + 1] = Join(keys[k], parts[k + 1])
  BY KeyInSteps
<1>4. PICK others \in [1 .. Len(other) -> Chars] :
        /\ others[1] = other[1] /\ others[Len(other)] = KeyOf(other)
        /\ \A k \in 1 .. Len(other) - 1 : others[k + 1] = Join(others[k], other[k + 1])
  BY KeyInSteps
<1>5. ASSUME NEW key \in Chars, NEW part \in Chars, NEW first \in Chars, Unbarred(first)
      PROVE  first # Join(key, part)
  <2>. SUFFICES ASSUME first = Join(key, part)
                PROVE  FALSE
    OBVIOUS
  <2>1. /\ Len(key) \in Nat /\ Len(part) \in Nat /\ Len(first) = Len(key) + 1 + Len(part)
        /\ first[Len(key) + 1] = "|"
    BY JoinParts
  <2>2. Len(key) + 1 \in DOMAIN first
    BY <2>1, LenProperties DEF Chars
  <2>. QED
    BY <1>5, <2>1, <2>2 DEF Unbarred
<1>. DEFINE SameTo(k, l) == k = l /\ \A i \in 1 .. k : parts[i] = other[i]
            Matched(k) == \A l \in 1 .. Len(other) : keys[k] = others[l] => SameTo(k, l)
            TellApart == {k \in Nat : k + 1 <= Len(parts) => Matched(k + 1)}
<1>6. ASSUME NEW l \in 1 .. Len(other), l # 1
      PROVE  /\ l - 1 \in 1 .. Len(other) - 1 /\ l - 1 \in 1 .. Len(other)
             /\ others[l] = Join(others[l - 1], other[l])
             /\ others[l - 1] \in Chars /\ other[l] \in Chars /\ Unbarred(other[l])
  <2>1. l - 1 \in 1 .. Len(other) - 1 /\ l - 1 \in 1 .. Len(other) /\ (l - 1) + 1 = l
    BY <1>2, <1>6
  <2>2. others[(l - 1) + 1] = Join(others[l - 1], other[(l - 1) + 1])
    BY <1>4, <2>1
  <2>. QED
    BY <1>2, <1>4, <2>1, <2>2
<1>7. 0 \in TellApart
  <2>1. 1 \in 1 .. Len(parts)
    BY <1>1
  <2>2. ASSUME NEW l \in 1 .. Len(other), keys[1] = others[l]
        PROVE  SameTo(1, l)
    <3>1. parts[1] \in Chars /\ Unbarred(parts[1]) /\ parts[1] = others[l]
      BY <1>1, <1>3, <2>1, <2>2
    <3>2. CASE l # 1
      <4>1. parts[1] # Join(others[l - 1], other[l])
        BY <1>5, <1>6, <3>1, <3>2
      <4>. QED
        BY <1>6, <3>1, <3>2, <4>1
    <3>3. CASE l = 1
      <4>1. parts[1] = other[1]
        BY <1>4, <3>1, <3>3
      <4>2. \A i \in 1 .. 1 : i = 1
        OBVIOUS
      <4>. QED
        BY <3>3, <4>1, <4>2
    <3>. QED
      BY <3>2, <3>3
  <2>3. Matched(1)
    BY <2>2
  <2>. HIDE DEF Matched
  <2>. QED
    BY <2>3
<1>8. ASSUME NEW k \in Nat, k \in TellApart
      PROVE  k + 1 \in TellApart
  <2>. SUFFICES ASSUME k + 1 + 1 <= Len(parts)
                PROVE  Matched(k + 1 + 1)
    OBVIOUS
  <2>1. /\ k + 1 \in 1 .. Len(parts) - 1 /\ k + 1 \in 1 .. Len(parts)
        /\ k + 1 + 1 \in 1 .. Len(parts) /\ Matched(k + 1)
    BY <1>1, <1>8
  <2>2. keys[k + 1 + 1] = Join(keys[k + 1], parts[k + 1 + 1])
    BY <1>3, <2>1
  <2>3. ASSUME NEW l \in 1 .. Len(other), keys[k + 1 + 1] = others[l]
        PROVE  SameTo(k + 1 + 1, l)
    <3>1. /\ keys[k + 1] \in Chars /\ parts[k + 1 + 1] \in Chars
          /\ Unbarred(parts[k + 1 + 1])
      BY <1>1, <1>3, <2>1
    <3>2. l # 1
      <4>1. other[1] \in Chars /\ Unbarred(other[1])
        BY <1>2
      <4>2. other[1] # Join(keys[k + 1], parts[k + 1 + 1])
        BY <1>5, <3>1, <4>1
      <4>. QED
        BY <1>4, <2>2, <2>3, <4>2
    <3>3. Join(keys[k + 1], parts[k + 1 + 1]) = Join(others[l - 1], other[l])
      BY <1>6, <2>2, <2>3, <3>2
    <3>4. keys[k + 1] = others[l - 1] /\ parts[k + 1 + 1] = other[l]
      BY <1>6, <3>1, <3>2, <3>3, JoinSplits
    <3>5. SameTo(k + 1, l - 1)
      BY <1>6, <2>1, <3>2, <3>4
    <3>6. l = k + 1 + 1 /\ \A i \in 1 .. k + 1 : parts[i] = other[i]
      BY <1>2, <3>5
    <3>. QED
      BY <3>4, <3>6
  <2>. QED
    BY <2>3
<1>9. Matched(Len(parts))
  <2>1. Nat \subseteq TellApart
    <3>. HIDE DEF TellApart
    <3>. QED
      BY <1>7, <1>8, NaturalsByInduction
  <2>. HIDE DEF Matched
  <2>2. Len(parts) - 1 \in Nat /\ (Len(parts) - 1) + 1 = Len(parts)
    BY <1>1
  <2>3. Len(parts) - 1 + 1 <= Len(parts) => Matched(Len(parts) - 1 + 1)
    BY <2>1, <2>2
  <2>. QED
    BY <1>1, <2>2, <2>3
<1>10. SameTo(Len(parts), Len(other))
  <2>1. Len(other) \in 1 .. Len(other) /\ keys[Len(parts)] = others[Len(other)]
    BY <1>2, <1>3, <1>4
  <2>. QED
    BY <1>9, <2>1
<1>. QED
  BY <1>1, <1>2, <1>10, SeqEqual

-----------------------------------------------------------------------------
(* The commands                                                            *)

LEMMA EventFacts ==
  ASSUME NEW e \in Events
  PROVE  /\ IdOf(e) \in Ids /\ RunSignalOf(e) \in RunSignal /\ RunSignalOf(e) # NoSignal
         /\ e # NoSignal
         /\ e.parts \in Seq(Chars) /\ e.parts # <<>>
         /\ \A n \in DOMAIN e.parts : Unbarred(e.parts[n])
<1>1. /\ e.parts \in Seq(Seq(STRING)) /\ e.kind \in SignalKind /\ e.dag_id \in Nat
      /\ e.message \in 0 .. LongestMessage /\ e.given \in SUBSET OptionalFields
  <2>1. e \in Event
    BY CommandConstants
  <2>. QED
    BY <2>1 DEF Event
<1>2. IdOf(e) \in Ids /\ IdOf(e) = stable_id(e.parts)
  BY CommandConstants DEF IdOf
<1>3. RunSignalOf(e) \in RunSignal
  BY <1>1, <1>2 DEF RunSignalOf, RunSignal
<1>4. e.parts \in Seq(Chars)
  <2>1. Seq(STRING) \subseteq Chars
    BY SeqMonotonic, STRING \subseteq Letters DEF Chars, Letters
  <2>2. Seq(Seq(STRING)) \subseteq Seq(Chars)
    BY <2>1, SeqMonotonic
  <2>. QED
    BY <1>1, <2>2
<1>5. e.parts # <<>> /\ \A n \in DOMAIN e.parts : Unbarred(e.parts[n])
  BY EventsAreToldApart DEF Unbarred
<1>. QED
  BY <1>2, <1>3, <1>4, <1>5, CommandConstants

LEMMA LoadableFacts == Loadable \subseteq RunSignal /\ NoSignal \notin Loadable
BY EventFacts, CommandConstants DEF Loadable

(* Same id, same event: the key is told from the id, the parts from it.    *)
LEMMA SameIdSameParts ==
  ASSUME NEW e \in Events, NEW f \in Events, IdOf(e) = IdOf(f)
  PROVE  e.parts = f.parts
<1>1. KeyOf(e.parts) = KeyOf(f.parts)
  BY EventsAreToldApart DEF IdOf, stable_id
<1>. QED
  BY <1>1, EventFacts, KeysTellApart

(* The directory: what is in it is about events.                           *)
StoreInv ==
  /\ signals \in [Ids -> {{}} \cup {{s} : s \in Store!Signal}]
  /\ about \in [Ids -> Events \cup {NoSignal}]
  /\ reported \subseteq Events
  /\ \A i \in Ids : signals[i] # {} => about[i] \in Events
  /\ SignalsKeepTheirEvents

LEMMA WriteKeepsStore ==
  ASSUME StoreInv, NEW e \in Events, NEW time \in 1 .. MaxClock, WriteSignal(e, time)
  PROVE  StoreInv'
<1>. DEFINE s == [id |-> IdOf(e), at |-> time]
<1>1. /\ signals' = [signals EXCEPT ![IdOf(e)] = {s}]
      /\ about' = [about EXCEPT ![IdOf(e)] = e]
      /\ reported' = reported \cup {e}
  BY DEF WriteSignal, Store!Publish
<1>2. IdOf(e) \in Ids /\ s \in Store!Signal
  BY EventFacts DEF Store!Signal
<1>. HIDE DEF s
<1>3. /\ signals' \in [Ids -> {{}} \cup {{t} : t \in Store!Signal}]
      /\ about' \in [Ids -> Events \cup {NoSignal}]
      /\ reported' \subseteq Events
  BY <1>1, <1>2 DEF StoreInv
<1>4. \A i \in Ids : signals'[i] # {} => about'[i] \in Events
  BY <1>1, <1>2 DEF StoreInv
<1>5. ASSUME NEW f \in reported'
      PROVE  about'[IdOf(f)] \in {g \in Events : g.parts = f.parts}
  <2>0. f \in Events /\ IdOf(f) \in Ids
    BY <1>3, EventFacts
  <2>1. CASE IdOf(f) = IdOf(e)
    <3>1. e.parts = f.parts
      BY <2>0, <2>1, SameIdSameParts
    <3>2. about'[IdOf(f)] = e
      BY <1>1, <1>2, <2>1 DEF StoreInv
    <3>. QED
      BY <3>1, <3>2
  <2>2. CASE IdOf(f) # IdOf(e)
    <3>1. f \in reported
      BY <1>1, <2>2
    <3>2. about'[IdOf(f)] = about[IdOf(f)]
      BY <1>1, <2>0, <2>2 DEF StoreInv
    <3>. QED
      BY <3>1, <3>2 DEF StoreInv, SignalsKeepTheirEvents
  <2>. QED
    BY <2>1, <2>2
<1>6. SignalsKeepTheirEvents'
  BY <1>5 DEF SignalsKeepTheirEvents, IdOf
<1>. QED
  BY <1>3, <1>4, <1>6 DEF StoreInv

LEMMA StoreInitially == CommandInit => StoreInv
BY DEF CommandInit, StoreInv, SignalsKeepTheirEvents

LEMMA StoreInductive ==
  ASSUME StoreInv, [TriageNext \/ EvalNext]_commandVars
  PROVE  StoreInv'
<1>1. CASE UNCHANGED signalStore
  BY <1>1 DEF signalStore, StoreInv, SignalsKeepTheirEvents
<1>2. ASSUME NEW e \in Events, NEW time \in 1 .. MaxClock, WriteSignal(e, time)
      PROVE  StoreInv'
  BY <1>2, WriteKeepsStore
<1>3. demo_signal \in Events /\ DemoAt \in 1 .. MaxClock
  BY CommandConstants
<1>4. CommandStep => UNCHANGED signalStore \/ WriteSignal(demo_signal, DemoAt)
  BY DEF CommandStep, ReadSettings, WriteDemo, LoadSignal, NoSignalToLoad, GetClient, ReadRuns,
     ReadDataset, LoadCorpus, LoadRaised, Index, run_triage, run_retrieval_eval, Briefs
<1>5. CASE TriageNext
  BY <1>1, <1>2, <1>3, <1>4, <1>5 DEF TriageNext, Type, Alert
<1>6. CASE EvalNext
  BY <1>1, <1>2, <1>3, <1>4, <1>6 DEF EvalNext, Type
<1>7. CASE UNCHANGED commandVars
  BY <1>1, <1>7 DEF commandVars
<1>. QED
  BY <1>5, <1>6, <1>7

-----------------------------------------------------------------------------
(* What a command has read, and found good, when it reaches a line.        *)
TriageHasRead ==
  /\ job.settings
  /\ signal # NoSignal
  /\ "bad" \notin {job.signal, job.scripted, job.runs}
  /\ job.scripted = "good" \/ ClientMade

InputsAreGood ==
  /\ job.command = "triage" => TriageHasRead
  /\ job.command = "retrieval" => Faulty(job.dataset) = {}

HasRead ==
  /\ commandAt # "idle" => exit = "none"
  /\ commandAt \in {"settings", "write"} => job.command \in {"demo-signal", "triage"}
  /\ commandAt \in {"signal", "client", "runs"} => job.command = "triage" /\ job.settings
  /\ commandAt \in {"client", "runs"} => signal # NoSignal /\ job.signal # "bad"
  /\ commandAt = "runs" => job.scripted # "bad" /\ (job.scripted = "good" \/ ClientMade)
  /\ commandAt = "dataset" => job.command = "retrieval"
  /\ commandAt = "briefs" => job.command = "briefs"
  /\ commandAt \in {"load", "run"} => InputsAreGood
  /\ exit = "not built" => InputsAreGood

CommandLines == {"idle", "settings", "write", "signal", "client", "runs",
                 "dataset", "load", "run", "briefs"}

JobInv ==
  /\ job \in Jobs /\ commandAt \in CommandLines /\ exit \in Exits
  /\ signal \in Loadable \cup {NoSignal}
  /\ golden \in {NothingLoaded, load_jsonl(job.dataset)}
  /\ HasRead

LEMMA JobFacts ==
  ASSUME NEW j \in Jobs
  PROVE  /\ j.command \in {"demo-signal", "triage", "retrieval", "briefs"}
         /\ {j.signal, j.scripted, j.runs} \subseteq Given
         /\ j.dataset \in Seq(JsonLine)
BY CommandConstants DEF Job

LEMMA JobInitially == CommandInit => JobInv
<1>. SUFFICES ASSUME CommandInit
              PROVE  JobInv
  OBVIOUS
<1>1. job \in Jobs
  BY CommandConstants DEF CommandInit
<1>2. commandAt = "idle" /\ exit = "none" /\ signal = NoSignal /\ golden = NothingLoaded
  BY DEF CommandInit
<1>. QED
  BY <1>1, <1>2 DEF JobInv, HasRead, CommandLines, Exits

LEMMA TypeKeepsJob ==
  ASSUME NEW j \in Jobs, Type(j)
  PROVE  JobInv'
<1>1. /\ job' = j /\ commandAt' = FirstLine[j.command]
      /\ signal' = NoSignal /\ golden' = NothingLoaded /\ exit' = "none"
  BY DEF Type
<1>2. /\ commandAt' = IF j.command = "retrieval" THEN "dataset"
                      ELSE IF j.command = "briefs" THEN "briefs" ELSE "settings"
  BY <1>1, JobFacts DEF FirstLine
<1>. QED
  BY <1>1, <1>2, JobFacts DEF JobInv, HasRead, CommandLines, Exits

(* A command that returns has not reached the backlog, or has read it all. *)
LEMMA ExitKeepsJob ==
  ASSUME JobInv, NEW how \in Exits, Exit(how), how = "not built" => InputsAreGood
  PROVE  JobInv'
<1>1. commandAt' = "idle" /\ exit' = how /\ UNCHANGED <<job, signal, golden>>
  BY DEF Exit
<1>2. InputsAreGood' <=> InputsAreGood
  BY <1>1 DEF InputsAreGood, TriageHasRead, ClientMade, AnthropicClient, OpenAIClient
<1>. QED
  BY <1>1, <1>2 DEF JobInv, HasRead, CommandLines

LEMMA SameJob ==
  ASSUME UNCHANGED <<job, signal>>
  PROVE  (ClientMade' <=> ClientMade) /\ (InputsAreGood' <=> InputsAreGood)
BY DEF InputsAreGood, TriageHasRead, ClientMade, AnthropicClient, OpenAIClient

(* It goes on to a line, and has read what it should have by then.         *)
LEMMA GoKeepsJob ==
  ASSUME JobInv, NEW line \in {"signal", "write", "client", "runs", "load", "run"},
         commandAt # "idle", commandAt' = line,
         UNCHANGED <<job, exit, golden>>,
         signal' \in Loadable \cup {NoSignal},
         line = "write" => job.command \in {"demo-signal", "triage"},
         line \in {"signal", "client", "runs"} => job.command = "triage" /\ job.settings,
         line \in {"client", "runs"} => signal' # NoSignal /\ job.signal # "bad",
         line = "runs" => job.scripted # "bad" /\ (job.scripted = "good" \/ ClientMade),
         line \in {"load", "run"} => signal' = signal /\ InputsAreGood
  PROVE  JobInv'
<1>1. ClientMade' <=> ClientMade
  BY DEF ClientMade, AnthropicClient, OpenAIClient
<1>2. line \in {"load", "run"} => InputsAreGood'
  BY SameJob
<1>3. exit' = "none"
  BY DEF JobInv, HasRead
<1>. QED
  BY <1>1, <1>2, <1>3 DEF JobInv, HasRead, CommandLines

LEMMA StepKeepsJob ==
  ASSUME StoreInv, JobInv, CommandStep
  PROVE  JobInv'
<1>0. {"error", "ok", "no signals", "not built"} \subseteq Exits
  BY DEF Exits
<1>1. ASSUME NEW how \in {"error", "ok", "no signals"}, Exit(how)
      PROVE  JobInv'
  BY <1>0, <1>1, ExitKeepsJob
<1>2. ASSUME todo, InputsAreGood
      PROVE  JobInv'
  BY <1>0, <1>2, ExitKeepsJob DEF todo
<1>3. CASE ReadSettings
  <2>1. CASE SettingsParse /\ job' = job /\ exit' = exit /\ UNCHANGED <<signal, golden>>
             /\ commandAt' = IF job.command = "triage" THEN "signal" ELSE "write"
    BY <1>3, <2>1, JobFacts, GoKeepsJob DEF ReadSettings, SettingsParse, HasRead, JobInv
  <2>. QED
    BY <1>1, <1>3, <2>1 DEF ReadSettings, Go
<1>4. CASE WriteDemo
  BY <1>1, <1>4 DEF WriteDemo
<1>5. CASE LoadSignal
  <2>1. /\ commandAt = "signal" /\ commandAt' = "client" /\ UNCHANGED <<job, exit, golden>>
        /\ job.signal # "bad" /\ signal' \in Loadable
    BY <1>5 DEF LoadSignal, Go, StoreInv, Written, Loadable
  <2>2. signal' # NoSignal /\ signal' \in Loadable \cup {NoSignal}
    BY <2>1, LoadableFacts
  <2>3. job.command = "triage" /\ job.settings
    BY <2>1 DEF JobInv, HasRead
  <2>. QED
    BY <2>1, <2>2, <2>3, GoKeepsJob
<1>6. CASE NoSignalToLoad
  BY <1>1, <1>6 DEF NoSignalToLoad
<1>7. CASE GetClient
  <2>1. CASE /\ ScriptLoads \/ (job.scripted = "none" /\ ClientMade)
             /\ Go("runs") /\ UNCHANGED <<signal, golden>>
    BY <1>7, <2>1, GoKeepsJob DEF GetClient, ScriptLoads, Go, HasRead, JobInv
  <2>. QED
    BY <1>1, <1>7, <2>1 DEF GetClient
<1>8. CASE ReadRuns
  <2>1. CASE RunsLoad /\ Go("load") /\ UNCHANGED <<signal, golden>>
    <3>1. commandAt = "runs" /\ job.runs # "bad"
      BY <1>8, <2>1 DEF ReadRuns, RunsLoad
    <3>2. InputsAreGood
      BY <3>1 DEF JobInv, HasRead, InputsAreGood, TriageHasRead
    <3>. QED
      BY <2>1, <3>1, <3>2, GoKeepsJob DEF Go, JobInv
  <2>. QED
    BY <1>1, <1>8, <2>1 DEF ReadRuns
<1>9. CASE ReadDataset
  <2>1. /\ commandAt = "dataset" /\ golden' = load_jsonl(job.dataset)
        /\ UNCHANGED <<job, signal>> /\ job.command = "retrieval" /\ exit = "none"
    BY <1>9 DEF ReadDataset, JobInv, HasRead
  <2>2. golden' \in {NothingLoaded, load_jsonl(job.dataset)'}
    BY <2>1
  <2>3. CASE golden'.error # 0
    <3>1. commandAt' = "idle" /\ exit' = "error"
      BY <1>9, <2>3 DEF ReadDataset
    <3>. QED
      BY <2>1, <2>2, <3>1 DEF JobInv, HasRead, CommandLines, Exits
  <2>4. CASE golden'.error = 0
    <3>1. commandAt' = "load" /\ exit' = exit
      BY <1>9, <2>4 DEF ReadDataset
    <3>2. Faulty(job.dataset) = {}
      <4>1. job.dataset \in Seq(JsonLine)
        BY JobFacts DEF JobInv
      <4>2. Agrees(golden', job.dataset, Len(job.dataset))
        BY <2>1, <4>1, LoadedAgrees
      <4>3. /\ \A n \in Faulty(job.dataset) : n > Len(job.dataset)
            /\ Len(job.dataset) \in Nat /\ DOMAIN job.dataset = 1 .. Len(job.dataset)
        BY <2>4, <4>1, <4>2, LenProperties DEF Agrees
      <4>. QED
        BY <4>3 DEF Faulty
    <3>3. InputsAreGood
      BY <2>1, <3>2 DEF InputsAreGood
    <3>4. InputsAreGood'
      BY <2>1, <3>3, SameJob
    <3>. QED
      BY <2>1, <2>2, <3>1, <3>4 DEF JobInv, HasRead, CommandLines
  <2>. QED
    BY <2>3, <2>4
<1>10. CASE LoadCorpus
  <2>1. UNCHANGED <<job, commandAt, signal, golden, exit>>
    BY <1>10 DEF LoadCorpus, command
  <2>. QED
    BY <2>1, SameJob DEF JobInv, HasRead
<1>11. CASE LoadRaised
  BY <1>1, <1>11 DEF LoadRaised
<1>12. CASE Index
  <2>1. commandAt = "load" /\ InputsAreGood
    BY <1>12 DEF Index, JobInv, HasRead
  <2>2. CASE Go("run") /\ UNCHANGED <<signal, golden>>
    BY <2>1, <2>2, GoKeepsJob DEF Go, JobInv
  <2>. QED
    BY <1>2, <1>12, <2>1, <2>2 DEF Index
<1>13. CASE run_triage \/ run_retrieval_eval
  BY <1>2, <1>13 DEF run_triage, run_retrieval_eval, JobInv, HasRead
<1>14. CASE Briefs
  BY <1>2, <1>14 DEF Briefs, JobInv, HasRead, InputsAreGood
<1>. QED
  BY <1>3, <1>4, <1>5, <1>6, <1>7, <1>8, <1>9, <1>10, <1>11, <1>12, <1>13, <1>14 DEF CommandStep

LEMMA JobInductive ==
  ASSUME StoreInv, JobInv, [TriageNext \/ EvalNext]_commandVars
  PROVE  JobInv'
<1>1. CASE UNCHANGED command
  <2>1. UNCHANGED <<job, commandAt, signal, golden, exit>>
    BY <1>1 DEF command
  <2>. QED
    BY <2>1, SameJob DEF JobInv, HasRead
<1>2. CASE TriageNext
  BY <1>1, <1>2, StepKeepsJob, TypeKeepsJob DEF TriageNext, Alert
<1>3. CASE EvalNext
  BY <1>1, <1>3, StepKeepsJob, TypeKeepsJob DEF EvalNext
<1>4. CASE UNCHANGED commandVars
  BY <1>1, <1>4 DEF commandVars
<1>. QED
  BY <1>2, <1>3, <1>4

(* What the commands do, and what is proved of it, is theirs alone.        *)
LEMMA CommandInvariant == OnCallSpec => [](StoreInv /\ JobInv)
<1>1. OnCallInit => StoreInv /\ JobInv
  BY StoreInitially, JobInitially DEF OnCallInit
<1>2. StoreInv /\ JobInv /\ [OnCallNext]_onCallVars => (StoreInv /\ JobInv)'
  BY StepsOfParts, StoreInductive, JobInductive
<1>. QED
  BY <1>1, <1>2, PTL DEF OnCallSpec
-----------------------------------------------------------------------------
(* No two events share a file of the directory, whichever alert reports    *)
(* them, in whatever order and how often (schemas.py:69-78): the bar       *)
(* between the parts of an id tells where each begins.                     *)
THEOREM EventsKeepTheirSignals == OnCallSpec => []SignalsKeepTheirEvents
<1>1. StoreInv => SignalsKeepTheirEvents
  BY DEF StoreInv
<1>. QED
  BY <1>1, CommandInvariant, PTL

(* Exit code 2 is for the backlog: every input of a command has been read  *)
(* and is good by then (market_ops/agent/__main__.py:76-87 and 130-133).   *)
THEOREM BacklogComesLast == OnCallSpec => []InputsBeforeBacklog
<1>1. JobInv => InputsBeforeBacklog
  BY DEF JobInv, HasRead, InputsAreGood, TriageHasRead, InputsBeforeBacklog
<1>. QED
  BY <1>1, CommandInvariant, PTL

LEMMA LoadedIsWhole ==
  ASSUME NEW file \in Seq(JsonLine)
  PROVE  IF Faulty(file) = {}
         THEN /\ load_jsonl(file).error = 0
              /\ Len(load_jsonl(file).items) = Cardinality(Cases(file))
              /\ \A n \in Cases(file) : load_jsonl(file).items[Place(n, file)] = file[n]
         ELSE /\ load_jsonl(file).error \in Faulty(file)
              /\ \A n \in Faulty(file) : load_jsonl(file).error <= n
<1>. DEFINE loaded == load_jsonl(file)
<1>1. Agrees(loaded, file, Len(file))
  BY LoadedAgrees
<1>2. Len(file) \in Nat /\ DOMAIN file = 1 .. Len(file)
  BY LenProperties
<1>. HIDE DEF loaded
<1>3. CASE loaded.error = 0
  <2>1. Faulty(file) = {}
    BY <1>1, <1>2, <1>3 DEF Agrees, Faulty
  <2>2. CasesTo(file, Len(file)) = Cases(file)
    BY <1>2 DEF CasesTo, Cases
  <2>. QED
    BY <1>1, <1>3, <2>1, <2>2 DEF Agrees, loaded
<1>4. CASE loaded.error # 0
  BY <1>1, <1>4 DEF Agrees, loaded
<1>. QED
  BY <1>3, <1>4

(* For every file somebody may have written: it is loaded whole and in     *)
(* order, or its first faulty line is named (dataset.py:60-65).            *)
THEOREM GoldenSetsAgree == OnCallSpec => []GoldenAgrees
<1>1. JobInv => GoldenAgrees
  <2>. SUFFICES ASSUME JobInv, golden # NothingLoaded
                PROVE  IF Faulty(job.dataset) = {}
                       THEN /\ golden.error = 0
                            /\ Len(golden.items) = Cardinality(Cases(job.dataset))
                            /\ \A n \in Cases(job.dataset) :
                                 golden.items[Place(n, job.dataset)] = job.dataset[n]
                       ELSE /\ golden.error \in Faulty(job.dataset)
                            /\ \A n \in Faulty(job.dataset) : golden.error <= n
    BY DEF GoldenAgrees
  <2>1. golden = load_jsonl(job.dataset) /\ job.dataset \in Seq(JsonLine)
    BY JobFacts DEF JobInv
  <2>. QED
    BY <2>1, LoadedIsWhole
<1>. QED
  BY <1>1, CommandInvariant, PTL
-----------------------------------------------------------------------------

(* fallback_brief                                                          *)

LEMMA CutFits ==
  ASSUME NEW n \in Nat, n > 0, NEW limit \in Nat, limit > 0,
         NEW tells \in SUBSET SignalFields, NEW spells \in SUBSET SignalFields
  PROVE  /\ Cut([length |-> n, tells |-> tells], limit, spells) \in Text
         /\ Fits(Cut([length |-> n, tells |-> tells], limit, spells), limit)
BY DEF Cut, Text, Fits

LEMMA SignalParts ==
  ASSUME NEW s \in RunSignal
  PROVE  /\ s.signal_id \in Ids /\ s.message \in Nat
         /\ s.dag_id \in Nat
         /\ KindLength[s.kind] \in 11 .. 17
<1>1. /\ s.signal_id \in Ids /\ s.kind \in SignalKind
      /\ s.dag_id \in Nat /\ s.message \in 0 .. LongestMessage
  BY DEF RunSignal
<1>2. KindLength[s.kind] \in {11, 13, 15, 17}
  BY <1>1 DEF SignalKind, KindLength
<1>3. KindLength[s.kind] \in 11 .. 17
  BY <1>2
<1>4. s.message \in Nat
  <2>1. LongestMessage \in Nat
    BY DEF LongestMessage
  <2>. QED
    BY <1>1, <2>1
<1>. QED
  BY <1>1, <1>3, <1>4

(* A message is cut; a kind and a dag_id must fit as they are.             *)
LEMMA QuoteFits ==
  ASSUME NEW s \in RunSignal
  PROVE  FallbackQuote(s) \in Text /\ (Fits(FallbackQuote(s), 400) <=> Quotable(s))
<1>1. CASE s.message > 0
  <2>1. {"message"} \in SUBSET SignalFields /\ {} \in SUBSET SignalFields
    BY DEF SignalFields
  <2>2. s.message \in Nat
    BY SignalParts
  <2>. QED
    BY <1>1, <2>1, <2>2, CutFits DEF FallbackQuote, Quotable
<1>2. CASE ~ s.message > 0
  <2>1. FallbackQuote(s) = [length |-> KindLength[s.kind] + 5 + s.dag_id, tells |-> {"kind", "dag_id"}]
    BY <1>2 DEF FallbackQuote
  <2>2. /\ KindLength[s.kind] + 5 + s.dag_id \in Nat
        /\ KindLength[s.kind] + 5 + s.dag_id \in 1 .. 400 <=> Quotable(s)
    <3>. DEFINE k == KindLength[s.kind]
                d == s.dag_id
    <3>1. k \in 11 .. 17 /\ d \in Nat
      BY SignalParts
    <3>2. Quotable(s) <=> d <= 395 - k
      BY <1>2, SignalParts DEF Quotable
    <3>. HIDE DEF k, d
    <3>3. k + 5 + d \in Nat /\ (k + 5 + d \in 1 .. 400 <=> d <= 395 - k)
      BY <3>1
    <3>. QED
      BY <3>2, <3>3 DEF k, d
  <2>3. {"kind", "dag_id"} \in SUBSET SignalFields
    BY DEF SignalFields
  <2>. QED
    BY <2>1, <2>2, <2>3 DEF Text, Fits
<1>. QED
  BY <1>1, <1>2

(* For every signal, whatever its kind, its dag_id and its message.        *)
LEMMA FallbackIsBrief ==
  ASSUME NEW s \in RunSignal, NEW reason \in FallbackReasons
  PROVE  LET b == fallback_brief(s, reason) IN
         /\ IncidentBrief(b) <=> Quotable(s)
         /\ b.requires_human
         /\ \A e \in b.evidence : e.ref = s.signal_id
         /\ \A line \in brief_to_markdown(b) : ~ line.approval
         /\ {"signal_id", "kind"} \subseteq Told(b)
<1>. DEFINE b == fallback_brief(s, reason)
            evidence == [source |-> "run_metadata", ref |-> s.signal_id, quote |-> FallbackQuote(s)]
            action == [kind |-> "escalate", step |-> Plain(102)]
<1>1. /\ b.signal_id = s.signal_id /\ b.requires_human = TRUE
      /\ b.evidence = {evidence} /\ b.recommended_actions = {action}
      /\ b.severity \in {"medium", "high"} /\ b.cause_confidence = "unknown"
      /\ b.title = Cut([length |-> 25 + KindLength[s.kind] + s.dag_id,
                        tells |-> {"kind", "dag_id"}], 120, {"kind"})
      /\ b.summary = Cut(Plain(94 + reason), 800, {})
      /\ b.probable_cause = Plain(65)
  BY DEF fallback_brief, FALLBACK_SEVERITY
<1>. HIDE DEF b
<1>2. Fits(b.title, 120)
  <2>1. 25 + KindLength[s.kind] + s.dag_id \in Nat /\ 25 + KindLength[s.kind] + s.dag_id > 0
    BY SignalParts
  <2>2. {"kind", "dag_id"} \in SUBSET SignalFields /\ {"kind"} \in SUBSET SignalFields
    BY DEF SignalFields
  <2>. QED
    BY <1>1, <2>1, <2>2, CutFits
<1>3. Fits(b.summary, 800) /\ Fits(b.probable_cause, 800)
  BY <1>1 DEF Cut, Plain, Fits, FallbackReasons
<1>4. evidence \in Evidence /\ (Fits(evidence.quote, 400) <=> Quotable(s))
  BY QuoteFits, SignalParts DEF Evidence, EvidenceSource
<1>5. action \in RecommendedAction /\ Fits(action.step, 300)
  BY DEF RecommendedAction, ActionKind, Plain, Text, Fits
<1>6. IncidentBrief(b) <=> Quotable(s)
  <2>. HIDE DEF evidence, action
  <2>0. b.requires_human \in BOOLEAN
    BY <1>1
  <2>1. /\ b.signal_id \in Ids
        /\ b.severity \in Severity /\ b.cause_confidence \in CauseConfidence
    BY <1>1, SignalParts DEF Severity, CauseConfidence
  <2>2. /\ b.evidence # {} /\ b.evidence \subseteq Evidence
        /\ (\A e \in b.evidence : Fits(e.quote, 400)) <=> Quotable(s)
    BY <1>1, <1>4
  <2>3. /\ b.recommended_actions # {} /\ b.recommended_actions \subseteq RecommendedAction
        /\ \A a \in b.recommended_actions : Fits(a.step, 300)
    BY <1>1, <1>5
  <2>. QED
    BY <1>2, <1>3, <2>0, <2>1, <2>2, <2>3 DEF IncidentBrief
<1>7. b.requires_human /\ \A e \in b.evidence : e.ref = s.signal_id
  BY <1>1
<1>8. ASSUME NEW line \in brief_to_markdown(b)
      PROVE  ~ line.approval
  <2>1. \A a \in b.recommended_actions : a.kind \notin MUTATING_ACTIONS
    BY <1>1 DEF MUTATING_ACTIONS
  <2>2. CASE \E a \in b.recommended_actions :
               line = [what |-> "action", tells |-> a.step.tells,
                       approval |-> a.kind \in MUTATING_ACTIONS]
    <3>1. PICK a \in b.recommended_actions :
            line = [what |-> "action", tells |-> a.step.tells,
                    approval |-> a.kind \in MUTATING_ACTIONS]
      BY <2>2
    <3>2. line.approval = (a.kind \in MUTATING_ACTIONS)
      BY <3>1
    <3>. QED
      BY <2>1, <3>2
  <2>3. CASE \E what, tells : line = [what |-> what, tells |-> tells, approval |-> FALSE]
    BY <2>3
  <2>. QED
    BY <2>2, <2>3, Zenon DEF brief_to_markdown
<1>9. {"signal_id", "kind"} \subseteq Told(b)
  <2>. DEFINE Shown(what, tells) == [what |-> what, tells |-> tells, approval |-> FALSE]
  <2>1. "kind" \in b.title.tells
    BY <1>1 DEF Cut
  <2>2. Shown("title", b.title.tells) \in brief_to_markdown(b)
        /\ Shown("signal", {"signal_id"}) \in brief_to_markdown(b)
    BY DEF brief_to_markdown
  <2>3. Shown("title", b.title.tells).tells = b.title.tells
        /\ Shown("signal", {"signal_id"}).tells = {"signal_id"}
    OBVIOUS
  <2>. QED
    BY <2>1, <2>2, <2>3 DEF Told
<1>. QED
  BY <1>6, <1>7, <1>8, <1>9 DEF b

(* Whatever signal triage is handed, there is a brief to fall back on,     *)
(* unless it has no message and a dag_id too long to be quoted: then, and  *)
(* only then, the schema refuses the brief (triage.py:68-96).              *)
THEOREM FallbacksFit == OnCallSpec => []FallbackFits
<1>1. JobInv => FallbackFits
  <2>. SUFFICES ASSUME JobInv, signal # NoSignal
                PROVE  signal \in RunSignal
    BY FallbackIsBrief DEF FallbackFits
  <2>. QED
    BY LoadableFacts DEF JobInv
<1>. QED
  BY <1>1, CommandInvariant, PTL

-----------------------------------------------------------------------------
(* Every variable of every component keeps its type, for every value of    *)
(* the constants.                                                          *)
THEOREM OnCallTypesCorrect == OnCallSpec => []OnCallTypeOK
<1>1. AuditInv /\ CorpusInv /\ LLMInv /\ IndexInv /\ LogInv /\ ScheduleInv /\ UniverseInv
        /\ StoreInv /\ JobInv /\ subject \in Subjects => OnCallTypeOK
  <2>. SUFFICES ASSUME StoreInv, JobInv, CorpusTypeOK
                PROVE  CommandTypeOK
    BY DEF OnCallTypeOK, AuditInv, CorpusInv, LLMInv, IndexInv, LogInv, ScheduleInv, UniverseInv
  <2>1. job.dataset \in Seq(JsonLine)
    BY JobFacts DEF JobInv
  <2>2. NothingLoaded \in Loads
    BY EmptySeq DEF NothingLoaded, Loads
  <2>3. golden \in Loads
    BY <2>1, <2>2, LoadedAgrees DEF JobInv
  <2>4. golden.lineno \in Nat /\ golden.error \in Nat /\ golden.items \in Seq(CaseIds)
    BY <2>3 DEF Loads
  <2>. QED
    BY <2>4 DEF CommandTypeOK, StoreInv, JobInv, CommandLines
<1>2. OnCallInit => subject \in Subjects
  BY DEF OnCallInit
<1>3. subject \in Subjects /\ [OnCallNext]_onCallVars => (subject \in Subjects)'
  BY DEF OnCallNext, onCallVars, AuditOnly, CommandOnly, LLMOnly, IndexOnly, LogOnly,
     ScheduleOnly, UniverseOnly
<1>. QED
  BY <1>1, <1>2, <1>3, PartsAreUndisturbed, CommandInvariant, AuditInvariant,
     CorpusInvariant, LLMInvariant, IndexInvariant, LogInvariant, ScheduleInvariant,
     UniverseInvariant, PTL DEF OnCallSpec

(* Beside everything else, the audit, the corpus, the scripted model, the  *)
(* index, the audit log, the schedule and the ticker dimension keep what   *)
(* they promise alone.                                                     *)
THEOREM PartsKeepTheirPromises ==
  OnCallSpec => /\ []AuditLinesTrue /\ []AuditIsComplete
                /\ []UntouchedAreIndexed /\ []CorpusIsOrdered /\ []UndisturbedLoadSucceeds
                /\ []RecordedAsAsked /\ []ScriptReplayed
                /\ []RowsStandAlone /\ []RowsAreUnitOrZero
                /\ []TracesAgree /\ AnswersOnlyGrow
                /\ []SessionsAreOver /\ []ScheduleLeavesNoHole
                /\ []HistoryIsKept
BY PartsAreUndisturbed, LinesAreTrue, AuditsAreComplete, TheUntouchedAreIndexed,
   CorporaAreOrdered, UndisturbedLoadsSucceed, RequestsAreRecorded, TheScriptIsReplayed,
   RowsAlwaysStandAlone, RowsAreNormal, TracesAlwaysAgree, AnswersGrow,
   NoSessionTooEarly, NoHoles, HistoryStays, PTL
=============================================================================
