---------------------------- MODULE SignalProofs ----------------------------
(***************************************************************************)
(* Proofs about SignalFiles, for every set of writers and of events. The   *)
(* last four theorems assume that an event has one writer: MCSignalsSame   *)
(* shows what happens without it.                                          *)
(***************************************************************************)
EXTENDS SignalFiles, FiniteSetTheorems, TLAPS

LEMMA InitTypes == Init => TypeOK
BY SignalConstants DEF Init, TypeOK

LEMMA WriterKeepsTypes ==
  ASSUME TypeOK, NEW w \in Writers, WriterStep(w)
  PROVE  TypeOK'
<1>. USE SignalConstants DEF TypeOK, Goto, files, reading
<1>1. CASE Fire(w)
  <2>1. {[id |-> EventOf[w], at |-> clock']} \subseteq Signal
    BY <1>1 DEF Fire, Signal
  <2>. QED
    BY <1>1, <2>1 DEF Fire
<1>2. CASE MakeDir(w)
  BY <1>2 DEF MakeDir
<1>3. CASE OpenStaging(w)
  BY <1>3 DEF OpenStaging
<1>4. CASE Write(w)
  <2>1. fd[w] \in Inodes
    BY <1>4 DEF Write
  <2>2. \E s \in SUBSET Signal : text' = [text EXCEPT ![fd[w]] = s]
    <3>1. PICK over \in {{}, text[fd[w]]} : text' = [text EXCEPT ![fd[w]] = signal[w] \cup over]
      BY <1>4 DEF Write
    <3>2. signal[w] \cup over \in SUBSET Signal
      BY <2>1
    <3>. QED
      BY <3>1, <3>2
  <2>. QED
    BY <1>4, <2>2 DEF Write
<1>5. CASE Replace(w)
  <2>1. \A s \in signal[w] : s.at \in 0 .. MaxClock
    BY DEF Signal
  <2>. QED
    BY <1>5, <2>1 DEF Replace
<1>6. CASE Crash(w)
  BY <1>6 DEF Crash
<1>. QED
  BY <1>1, <1>2, <1>3, <1>4, <1>5, <1>6 DEF WriterStep

(* A path that has been listed is still there when it is read.             *)
ListedStay == \A i \in unread : target[i] # NoFile

TypeInv == TypeOK /\ ListedStay

LEMMA ReaderKeepsTypes ==
  ASSUME TypeInv, ReaderStep
  PROVE  TypeInv'
<1>. USE DEF TypeInv, TypeOK, ListedStay, files, writing
<1>1. CASE List
  BY <1>1 DEF List, Glob
<1>2. CASE ReadEnd
  BY <1>2 DEF ReadEnd, Newest
<1>3. ASSUME NEW i \in Ids, Read(i)
      PROVE  TypeInv'
  <2>1. target[i] \in Inodes
    BY <1>3 DEF Read
  <2>. QED
    BY <1>3, <2>1 DEF Read
<1>. QED
  BY <1>1, <1>2, <1>3 DEF ReaderStep

LEMMA WriterKeepsListed ==
  ASSUME TypeInv, NEW w \in Writers, WriterStep(w)
  PROVE  ListedStay'
<1>. USE SignalConstants DEF TypeInv, TypeOK, ListedStay, files, reading
<1>1. CASE Replace(w)
  BY <1>1 DEF Replace
<1>2. CASE ~ Replace(w)
  BY <1>2 DEF WriterStep, Fire, MakeDir, OpenStaging, Write, Crash
<1>. QED
  BY <1>1, <1>2

LEMMA InitTypeInv == Init => TypeInv
BY InitTypes DEF TypeInv, ListedStay, Init

LEMMA NextTypeInv == TypeInv /\ [Next]_vars => TypeInv'
<1>. SUFFICES ASSUME TypeInv, [Next]_vars
              PROVE  TypeInv'
  OBVIOUS
<1>1. CASE UNCHANGED vars
  BY <1>1 DEF TypeInv, TypeOK, ListedStay, vars, files, writing, reading
<1>. QED
  BY <1>1, WriterKeepsTypes, WriterKeepsListed, ReaderKeepsTypes DEF Next, TypeInv

(* Every variable keeps its type, and a process has a file open exactly    *)
(* while it writes, however many processes report one event.               *)
THEOREM SignalTypesCorrect == Spec => []TypeOK
<1>1. TypeInv => TypeOK
  BY DEF TypeInv
<1>. QED
  BY <1>1, InitTypeInv, NextTypeInv, PTL DEF Spec

-----------------------------------------------------------------------------
(* An event that has been opened once never loses both its files: a        *)
(* staging file only ever disappears by becoming the target.               *)
Afoot ==
  \A w \in Writers :
    pc[w] \in {"write", "replace"} =>
      staging[EventOf[w]] # NoFile \/ target[EventOf[w]] # NoFile

LEMMA FilesStay ==
  ASSUME TypeOK, [Next]_vars, NEW i \in Ids,
         staging[i] # NoFile \/ target[i] # NoFile
  PROVE  staging'[i] # NoFile \/ target'[i] # NoFile
<1>. USE SignalConstants DEF TypeOK, files
<1>1. ASSUME NEW w \in Writers, OpenStaging(w)
      PROVE  staging'[i] # NoFile \/ target'[i] # NoFile
  BY <1>1 DEF OpenStaging
<1>2. ASSUME NEW w \in Writers, Replace(w)
      PROVE  staging'[i] # NoFile \/ target'[i] # NoFile
  BY <1>2 DEF Replace
<1>3. (\E w \in Writers : OpenStaging(w) \/ Replace(w)) \/ UNCHANGED <<staging, target>>
  BY DEF Next, WriterStep, Fire, MakeDir, Write, Crash, ReaderStep, List, ReadEnd, Read, vars
<1>. QED
  BY <1>1, <1>2, <1>3

LEMMA NextAfoot == TypeOK /\ Afoot /\ [Next]_vars => Afoot'
<1>. SUFFICES ASSUME TypeOK, Afoot, [Next]_vars, NEW w \in Writers,
                     pc'[w] \in {"write", "replace"}
              PROVE  staging'[EventOf[w]] # NoFile \/ target'[EventOf[w]] # NoFile
  BY DEF Afoot
<1>1. CASE pc[w] \in {"write", "replace"}
  BY <1>1, FilesStay, SignalConstants DEF Afoot
<1>2. CASE pc[w] \notin {"write", "replace"}
  <2>1. OpenStaging(w)
    BY <1>2 DEF TypeOK, Next, WriterStep, Fire, MakeDir, OpenStaging, Write, Replace, Crash,
                Goto, ReaderStep, List, ReadEnd, Read, vars, writing
  <2>. QED
    BY <2>1, SignalConstants DEF OpenStaging, TypeOK
<1>. QED
  BY <1>1, <1>2

(* However many processes report an event at once, whoever comes to its    *)
(* rename finds or makes a file for it.                                    *)
THEOREM EventsAreReported == Spec => EventIsReported
<1>1. Init => Afoot
  BY DEF Init, Afoot
<1>2. TypeOK /\ Afoot /\ [Next]_vars =>
        [\A w \in Writers : Replace(w) => target'[EventOf[w]] # NoFile]_vars
  BY SignalConstants DEF Afoot, Replace, TypeOK
<1>3. TypeInv => TypeOK
  BY DEF TypeInv
<1>. QED
  BY <1>1, <1>2, NextAfoot, InitTypeInv, NextTypeInv, <1>3, PTL DEF Spec, EventIsReported

-----------------------------------------------------------------------------
(* When each event has one writer, the paths of different events, and the  *)
(* two paths of one event, never share an inode, and what a writer has     *)
(* open is its own staging file; so nobody writes to a published file.     *)
LinksApart ==
  /\ \A i, j \in Ids : target[i] # NoFile => target[i] # staging[j]
  /\ \A i, j \in Ids : i # j /\ target[i] # NoFile => target[i] # target[j]
  /\ \A i, j \in Ids : i # j /\ staging[i] # NoFile => staging[i] # staging[j]

(* What each writer holds at each line.                                    *)
Held(w) ==
  /\ pc[w] # "idle" => \E s \in Signal : signal[w] = {s} /\ s.id = EventOf[w]
  /\ pc[w] = "write" => fd[w] = staging[EventOf[w]] /\ text[fd[w]] = {}
  /\ pc[w] = "replace" =>
       staging[EventOf[w]] # NoFile /\ text[staging[EventOf[w]]] = signal[w]

WritersHold == \A w \in Writers : Held(w)

TargetsWhole ==
  \A i \in Ids : target[i] # NoFile => \E s \in Signal : text[target[i]] = {s} /\ s.id = i

WholeInv == TypeInv /\ LinksApart /\ WritersHold /\ TargetsWhole

LEMMA InitWholeInv == Init => WholeInv
BY InitTypeInv DEF Init, WholeInv, LinksApart, WritersHold, Held, TargetsWhole

(* The open truncates the writer's own staging file or a fresh one.        *)
LEMMA OpenKeepsWhole ==
  ASSUME OneWriterPerEvent, WholeInv, NEW w \in Writers, OpenStaging(w)
  PROVE  LinksApart' /\ WritersHold' /\ TargetsWhole'
<1>. DEFINE i == EventOf[w]
<1>1. TypeOK /\ i \in Ids
  BY SignalConstants DEF WholeInv, TypeInv
<1>2. PICK n \in Inodes :
        /\ IF staging[i] # NoFile THEN n = staging[i] ELSE Fresh(n)
        /\ staging' = [staging EXCEPT ![i] = n]
        /\ fd' = [fd EXCEPT ![w] = n]
        /\ text' = [text EXCEPT ![n] = {}]
  BY DEF OpenStaging
<1>3. n # NoFile
  BY SignalConstants
<1>4. /\ \A j \in Ids : n # target[j]
      /\ \A j \in Ids \ {i} : n # staging[j]
  <2>1. CASE staging[i] # NoFile
    BY <1>1, <1>2, <1>3, <2>1 DEF WholeInv, LinksApart
  <2>2. CASE staging[i] = NoFile
    BY <1>2, <2>2 DEF Fresh, Used
  <2>. QED
    BY <2>1, <2>2
<1>5. UNCHANGED <<target, signal>> /\ pc' = [pc EXCEPT ![w] = "write"] /\ pc[w] = "open"
  BY DEF OpenStaging, Goto
<1>6. LinksApart'
  BY <1>1, <1>2, <1>3, <1>4, <1>5 DEF TypeOK, WholeInv, LinksApart
<1>7. Held(w)'
  BY <1>1, <1>2, <1>5 DEF TypeOK, WholeInv, WritersHold, Held
<1>8. ASSUME NEW v \in Writers \ {w}
      PROVE  Held(v)'
  <2>1. EventOf[v] \in Ids \ {i}
    BY <1>8, SignalConstants DEF OneWriterPerEvent
  <2>2. staging'[EventOf[v]] = staging[EventOf[v]] /\ n # staging[EventOf[v]]
    BY <1>1, <1>2, <1>4, <2>1 DEF TypeOK
  <2>3. pc'[v] = pc[v] /\ fd'[v] = fd[v] /\ signal'[v] = signal[v]
    BY <1>1, <1>2, <1>5, <1>8 DEF TypeOK
  <2>4. \A m \in Inodes \ {n} : text'[m] = text[m]
    BY <1>1, <1>2 DEF TypeOK
  <2>5. staging[EventOf[v]] \in Inodes \cup {NoFile} /\ fd[v] \in Inodes \cup {NoFile}
    BY <1>1, <2>1 DEF TypeOK
  <2>6. Held(v) /\ (pc[v] = "write" => fd[v] # NoFile)
    BY <1>1 DEF WholeInv, WritersHold, TypeOK
  <2>. QED
    BY <2>2, <2>3, <2>4, <2>5, <2>6 DEF Held
<1>9. TargetsWhole'
  BY <1>1, <1>2, <1>4, <1>5 DEF TypeOK, WholeInv, TargetsWhole
<1>. QED
  BY <1>6, <1>7, <1>8, <1>9 DEF WritersHold

(* The write goes to the writer's own, truncated staging file.             *)
LEMMA WriteKeepsWhole ==
  ASSUME OneWriterPerEvent, WholeInv, NEW w \in Writers, Write(w)
  PROVE  LinksApart' /\ WritersHold' /\ TargetsWhole'
<1>. DEFINE i == EventOf[w]
            n == fd[w]
<1>1. TypeOK /\ i \in Ids
  BY SignalConstants DEF WholeInv, TypeInv
<1>2. n \in Inodes /\ n = staging[i] /\ text[n] = {} /\ pc[w] = "write"
  BY <1>1 DEF Write, WholeInv, WritersHold, Held, TypeOK
<1>3. text' = [text EXCEPT ![n] = signal[w]]
  <2>1. PICK over \in {{}, text[n]} : text' = [text EXCEPT ![n] = signal[w] \cup over]
    BY DEF Write
  <2>2. over = {}
    BY <1>2
  <2>. QED
    BY <2>1, <2>2
<1>4. UNCHANGED <<target, staging, signal>> /\ pc' = [pc EXCEPT ![w] = "replace"]
  BY DEF Write, Goto
<1>5. fd' = [fd EXCEPT ![w] = NoFile]
  BY DEF Write
<1>6. n # NoFile
  BY <1>2, SignalConstants
<1>7. \A j \in Ids : n # target[j] /\ (j # i => n # staging[j])
  BY <1>1, <1>2, <1>6 DEF WholeInv, LinksApart
<1>8. LinksApart'
  BY <1>4 DEF WholeInv, LinksApart
<1>9. Held(w)'
  BY <1>1, <1>2, <1>3, <1>4, <1>6 DEF TypeOK, WholeInv, WritersHold, Held
<1>10. ASSUME NEW v \in Writers \ {w}
       PROVE  Held(v)'
  <2>1. EventOf[v] \in Ids \ {i}
    BY <1>10, SignalConstants DEF OneWriterPerEvent
  <2>2. staging'[EventOf[v]] = staging[EventOf[v]] /\ n # staging[EventOf[v]]
    BY <1>4, <1>7, <2>1
  <2>3. pc'[v] = pc[v] /\ fd'[v] = fd[v] /\ signal'[v] = signal[v]
    BY <1>1, <1>4, <1>5, <1>10 DEF TypeOK
  <2>4. \A m \in Inodes \ {n} : text'[m] = text[m]
    BY <1>1, <1>3 DEF TypeOK
  <2>5. staging[EventOf[v]] \in Inodes \cup {NoFile} /\ fd[v] \in Inodes \cup {NoFile}
    BY <1>1, <2>1 DEF TypeOK
  <2>6. Held(v) /\ (pc[v] = "write" => fd[v] # NoFile)
    BY <1>1 DEF WholeInv, WritersHold, TypeOK
  <2>. QED
    BY <2>2, <2>3, <2>4, <2>5, <2>6 DEF Held
<1>11. TargetsWhole'
  BY <1>1, <1>3, <1>4, <1>7 DEF TypeOK, WholeInv, TargetsWhole
<1>. QED
  BY <1>8, <1>9, <1>10, <1>11 DEF WritersHold

(* The rename moves the whole staging file to the target, and clears only  *)
(* the file that was the target.                                           *)
LEMMA ReplaceKeepsWhole ==
  ASSUME OneWriterPerEvent, WholeInv, NEW w \in Writers, Replace(w)
  PROVE  LinksApart' /\ WritersHold' /\ TargetsWhole'
<1>. DEFINE i == EventOf[w]
            n == staging[i]
<1>1. TypeOK /\ i \in Ids
  BY SignalConstants DEF WholeInv, TypeInv
<1>2. n # NoFile /\ n \in Inodes /\ text[n] = signal[w] /\ pc[w] = "replace"
  BY <1>1 DEF Replace, WholeInv, WritersHold, Held, TypeOK
<1>3. PICK s \in Signal : signal[w] = {s} /\ s.id = i
  BY <1>2 DEF WholeInv, WritersHold, Held
<1>4. /\ target' = [target EXCEPT ![i] = n]
      /\ staging' = [staging EXCEPT ![i] = NoFile]
      /\ text' = [m \in Inodes |-> IF m = target[i] THEN {} ELSE text[m]]
  BY <1>2 DEF Replace
<1>5. /\ pc' = [pc EXCEPT ![w] = "idle"]
      /\ signal' = [signal EXCEPT ![w] = {}]
      /\ UNCHANGED fd
  BY DEF Replace, Goto
<1>6. \A j \in Ids : target[j] # NoFile => target[j] # n
  BY <1>1 DEF WholeInv, LinksApart
<1>7. LinksApart'
  BY <1>1, <1>2, <1>4, <1>6 DEF TypeOK, WholeInv, LinksApart
<1>8. ASSUME NEW v \in Writers \ {w}
      PROVE  Held(v)'
  <2>1. EventOf[v] \in Ids \ {i}
    BY <1>8, SignalConstants DEF OneWriterPerEvent
  <2>2. staging'[EventOf[v]] = staging[EventOf[v]]
    BY <1>1, <1>4, <2>1 DEF TypeOK
  <2>3. pc'[v] = pc[v] /\ fd'[v] = fd[v] /\ signal'[v] = signal[v]
    BY <1>1, <1>5, <1>8 DEF TypeOK
  <2>4. staging[EventOf[v]] # NoFile => staging[EventOf[v]] # target[i]
    BY <1>1, <2>1 DEF WholeInv, LinksApart
  <2>5. staging[EventOf[v]] \in Inodes \cup {NoFile}
    BY <1>1, <2>1 DEF TypeOK
  <2>6. Held(v) /\ (pc[v] = "write" => fd[v] # NoFile)
    BY <1>1 DEF WholeInv, WritersHold, TypeOK
  <2>7. staging[EventOf[v]] # NoFile => text'[staging[EventOf[v]]] = text[staging[EventOf[v]]]
    BY <1>4, <2>4, <2>5
  <2>. QED
    BY <2>2, <2>3, <2>6, <2>7 DEF Held
<1>9. Held(w)'
  BY <1>1, <1>5 DEF TypeOK, Held
<1>10. ASSUME NEW j \in Ids, target'[j] # NoFile
       PROVE  \E t \in Signal : text'[target'[j]] = {t} /\ t.id = j
  <2>1. CASE j = i
    <3>1. target'[j] = n /\ text'[n] = {s}
      BY <1>1, <1>2, <1>3, <1>4, <1>6, <2>1 DEF TypeOK
    <3>. QED
      BY <1>3, <2>1, <3>1
  <2>2. CASE j # i
    <3>1. target'[j] = target[j] /\ target[j] # target[i] /\ target[j] \in Inodes
      BY <1>1, <1>4, <1>10, <2>2 DEF TypeOK, WholeInv, LinksApart
    <3>2. text'[target[j]] = text[target[j]]
      BY <1>4, <3>1
    <3>. QED
      BY <1>10, <3>1, <3>2 DEF WholeInv, TargetsWhole
  <2>. QED
    BY <2>1, <2>2
<1>. QED
  BY <1>7, <1>8, <1>9, <1>10 DEF WritersHold, TargetsWhole

LEMMA NextWholeInv ==
  ASSUME OneWriterPerEvent
  PROVE  WholeInv /\ [Next]_vars => WholeInv'
<1>. SUFFICES ASSUME WholeInv, [Next]_vars
              PROVE  WholeInv'
  OBVIOUS
<1>1. TypeInv' /\ TypeOK
  BY NextTypeInv DEF WholeInv, TypeInv
<1>2. ASSUME UNCHANGED <<target, staging, text>>,
             \A w \in Writers : Held(w)'
      PROVE  WholeInv'
  BY <1>1, <1>2 DEF WholeInv, LinksApart, WritersHold, TargetsWhole
<1>3. CASE UNCHANGED vars \/ ReaderStep
  <2>1. UNCHANGED <<target, staging, text, pc, signal, fd>>
    BY <1>3 DEF vars, files, writing, ReaderStep, List, Read, ReadEnd
  <2>. QED
    BY <1>2, <2>1 DEF WholeInv, WritersHold, Held
<1>4. ASSUME NEW w \in Writers, Fire(w) \/ MakeDir(w) \/ Crash(w)
      PROVE  WholeInv'
  <2>1. UNCHANGED <<target, staging, text>>
    BY <1>4 DEF Fire, MakeDir, Crash, files
  <2>2. \A v \in Writers \ {w} : pc'[v] = pc[v] /\ signal'[v] = signal[v] /\ fd'[v] = fd[v]
    BY <1>1, <1>4 DEF TypeOK, Fire, MakeDir, Crash, Goto
  <2>3. \A v \in Writers \ {w} : Held(v)'
    BY <2>1, <2>2 DEF WholeInv, WritersHold, Held
  <2>4. Held(w)'
    <3>1. CASE Fire(w)
      <4>1. [id |-> EventOf[w], at |-> clock'] \in Signal
        BY <3>1, SignalConstants DEF Fire, Signal
      <4>2. signal'[w] = {[id |-> EventOf[w], at |-> clock']} /\ pc'[w] = "mkdir"
        BY <1>1, <3>1 DEF TypeOK, Fire, Goto
      <4>. QED
        BY <4>1, <4>2 DEF Held
    <3>2. CASE MakeDir(w)
      BY <1>1, <3>2 DEF TypeOK, MakeDir, Goto, WholeInv, WritersHold, Held
    <3>3. CASE Crash(w)
      BY <1>1, <3>3 DEF TypeOK, Crash, Goto, Held
    <3>. QED
      BY <1>4, <3>1, <3>2, <3>3
  <2>. QED
    BY <1>2, <2>1, <2>3, <2>4
<1>5. ASSUME NEW w \in Writers, OpenStaging(w) \/ Write(w) \/ Replace(w)
      PROVE  WholeInv'
  BY <1>1, <1>5, OpenKeepsWhole, WriteKeepsWhole, ReplaceKeepsWhole DEF WholeInv
<1>. QED
  BY <1>3, <1>4, <1>5 DEF Next, WriterStep

(* With one writer per event, however many events, whatever crashes and    *)
(* whenever the agent polls, it never finds a half-written signal.         *)
THEOREM SignalsAreWhole ==
  ASSUME OneWriterPerEvent
  PROVE  Spec => []NeverHalfWritten
<1>1. Init => WholeInv /\ NeverHalfWritten
  BY InitWholeInv DEF Init, NeverHalfWritten
<1>2. WholeInv /\ NeverHalfWritten /\ [Next]_vars => NeverHalfWritten'
  <2>. SUFFICES ASSUME WholeInv, NeverHalfWritten, [Next]_vars
                PROVE  NeverHalfWritten'
    OBVIOUS
  <2>1. ASSUME NEW i \in Ids, Read(i)
        PROVE  NeverHalfWritten'
    <3>1. target[i] # NoFile
      BY <2>1 DEF Read, WholeInv, TypeInv, ListedStay
    <3>2. PICK s \in Signal : text[target[i]] = {s}
      BY <3>1 DEF WholeInv, TargetsWhole
    <3>3. Cardinality(text[target[i]]) = 1
      BY <3>2, FS_Singleton
    <3>. QED
      BY <2>1, <3>3 DEF Read, NeverHalfWritten
  <2>2. reader' = reader \/ reader' \in {"reading", "returned"} \/ \E i \in Ids : Read(i)
    BY DEF Next, ReaderStep, List, ReadEnd, WriterStep, Fire, MakeDir, OpenStaging, Write,
           Replace, Crash, reading, vars
  <2>. QED
    BY <2>1, <2>2 DEF NeverHalfWritten
<1>. QED
  BY <1>1, <1>2, NextWholeInv, PTL DEF Spec

-----------------------------------------------------------------------------
(* The directory implements the store of signals.                          *)

(* Only a rename changes what readers find: writes go elsewhere.           *)
LEMMA OnlyReplacePublishes ==
  ASSUME WholeInv, [Next]_vars, ~ \E w \in Writers : Replace(w), NEW i \in Ids
  PROVE  Contents(i)' = Contents(i)
<1>1. TypeOK /\ TargetsWhole
  BY DEF WholeInv, TypeInv
<1>2. target' = target
  BY DEF Next, WriterStep, Fire, MakeDir, OpenStaging, Write, Crash, ReaderStep, List, Read,
         ReadEnd, files, vars
<1>3. ASSUME NEW w \in Writers, OpenStaging(w), target[i] # NoFile
      PROVE  text'[target[i]] = text[target[i]]
  <2>1. PICK n \in Inodes :
          /\ IF staging[EventOf[w]] # NoFile THEN n = staging[EventOf[w]] ELSE Fresh(n)
          /\ text' = [text EXCEPT ![n] = {}]
    BY <1>3 DEF OpenStaging
  <2>2. n # target[i]
    <3>1. EventOf[w] \in Ids
      BY SignalConstants
    <3>2. CASE staging[EventOf[w]] # NoFile
      BY <1>3, <2>1, <3>1, <3>2 DEF WholeInv, LinksApart
    <3>3. CASE staging[EventOf[w]] = NoFile
      BY <2>1, <3>3 DEF Fresh, Used
    <3>. QED
      BY <3>2, <3>3
  <2>. QED
    BY <1>1, <1>3, <2>1, <2>2 DEF TypeOK
<1>4. ASSUME NEW w \in Writers, Write(w), target[i] # NoFile
      PROVE  text'[target[i]] = text[target[i]]
  <2>1. fd[w] # target[i]
    <3>1. pc[w] = "write"
      BY <1>4 DEF Write
    <3>2. fd[w] = staging[EventOf[w]] /\ EventOf[w] \in Ids
      BY <3>1, SignalConstants DEF WholeInv, WritersHold, Held
    <3>. QED
      BY <1>4, <3>2 DEF WholeInv, LinksApart
  <2>2. PICK over \in {{}, text[fd[w]]} : text' = [text EXCEPT ![fd[w]] = signal[w] \cup over]
    BY <1>4 DEF Write
  <2>. QED
    BY <1>1, <1>4, <2>1, <2>2 DEF TypeOK
<1>5. (\E w \in Writers : OpenStaging(w) \/ Write(w)) \/ UNCHANGED text
  BY DEF Next, WriterStep, Fire, MakeDir, Crash, ReaderStep, List, Read, ReadEnd, files, vars
<1>. QED
  BY <1>2, <1>3, <1>4, <1>5 DEF Contents

LEMMA ReplacePublishes ==
  ASSUME WholeInv, NEW w \in Writers, Replace(w)
  PROVE  /\ Contents(EventOf[w])' = signal[w]
         /\ \A j \in Ids \ {EventOf[w]} : Contents(j)' = Contents(j)
<1>. DEFINE i == EventOf[w]
<1>1. TypeOK /\ i \in Ids
  BY SignalConstants DEF WholeInv, TypeInv
<1>2. staging[i] # NoFile /\ staging[i] \in Inodes /\ text[staging[i]] = signal[w]
  BY <1>1 DEF Replace, WholeInv, WritersHold, Held, TypeOK
<1>3. /\ target' = [target EXCEPT ![i] = staging[i]]
      /\ text' = [m \in Inodes |-> IF m = target[i] THEN {} ELSE text[m]]
  BY <1>2 DEF Replace
<1>4. target[i] # staging[i]
  BY <1>1, <1>2 DEF WholeInv, LinksApart
<1>5. Contents(i)' = signal[w]
  BY <1>1, <1>2, <1>3, <1>4 DEF Contents, TypeOK
<1>6. ASSUME NEW j \in Ids \ {i}
      PROVE  Contents(j)' = Contents(j)
  <2>1. target'[j] = target[j]
    BY <1>1, <1>3, <1>6 DEF TypeOK
  <2>2. target[j] # NoFile => target[j] \in Inodes /\ target[j] # target[i]
    BY <1>1, <1>6 DEF WholeInv, LinksApart, TypeOK
  <2>. QED
    BY <1>3, <2>1, <2>2 DEF Contents
<1>. QED
  BY <1>5, <1>6

(* What is being written is no older than what is there.                   *)
NoneOlder ==
  /\ \A i \in Ids : \A old \in Contents(i) : old.at <= clock
  /\ \A w \in Writers : \A s \in signal[w] :
       s.at <= clock /\ \A old \in Contents(EventOf[w]) : old.at <= s.at

LEMMA NextNoneOlder ==
  ASSUME OneWriterPerEvent
  PROVE  WholeInv /\ NoneOlder /\ [Next]_vars => NoneOlder'
<1>. SUFFICES ASSUME WholeInv, NoneOlder, [Next]_vars
              PROVE  NoneOlder'
  OBVIOUS
<1>1. TypeOK /\ TypeOK' /\ WholeInv'
  BY NextWholeInv DEF WholeInv, TypeInv
<1>2. clock <= clock' /\ clock \in Nat /\ clock' \in Nat
  BY <1>1, SignalConstants
     DEF TypeOK, Next, WriterStep, Fire, MakeDir, OpenStaging, Write, Replace, Crash,
         ReaderStep, List, Read, ReadEnd, vars
<1>3. \A i \in Ids : \A old \in Contents(i) : old.at \in Nat /\ old.at <= clock
  <2>1. \A i \in Ids : Contents(i) \subseteq Signal
    BY <1>1 DEF Contents, TypeOK
  <2>. QED
    BY <2>1 DEF NoneOlder, Signal
<1>4. \A w \in Writers : \A s \in signal[w] : s.at \in Nat
  BY <1>1 DEF TypeOK, Signal
<1>5. CASE \E w \in Writers : Replace(w)
  <2>1. PICK w \in Writers : Replace(w)
    BY <1>5
  <2>2. clock' = clock /\ signal' = [signal EXCEPT ![w] = {}]
    BY <2>1 DEF Replace
  <2>3. \A v \in Writers \ {w} : EventOf[v] \in Ids \ {EventOf[w]}
    BY SignalConstants DEF OneWriterPerEvent
  <2>4. \A j \in Ids : \A old \in Contents(j)' : old.at <= clock'
    BY <2>1, <2>2, ReplacePublishes, SignalConstants DEF NoneOlder
  <2>5. ASSUME NEW v \in Writers, NEW s \in signal'[v]
        PROVE  s.at <= clock' /\ \A old \in Contents(EventOf[v])' : old.at <= s.at
    <3>1. v # w /\ signal'[v] = signal[v]
      BY <1>1, <2>2, <2>5 DEF TypeOK
    <3>2. Contents(EventOf[v])' = Contents(EventOf[v])
      BY <2>1, <2>3, <3>1, ReplacePublishes
    <3>. QED
      BY <2>2, <2>5, <3>1, <3>2 DEF NoneOlder
  <2>. QED
    BY <2>4, <2>5 DEF NoneOlder
<1>6. CASE ~ \E w \in Writers : Replace(w)
  <2>1. \A i \in Ids : Contents(i)' = Contents(i)
    BY <1>6, OnlyReplacePublishes
  <2>2. \A i \in Ids : \A old \in Contents(i)' : old.at <= clock'
    BY <1>2, <1>3, <2>1
  <2>3. ASSUME NEW v \in Writers, NEW s \in signal'[v]
        PROVE  s.at <= clock' /\ \A old \in Contents(EventOf[v])' : old.at <= s.at
    <3>1. signal'[v] = signal[v] \/ signal'[v] = {} \/ Fire(v)
      BY <1>1, <1>6 DEF TypeOK, Next, WriterStep, Fire, MakeDir, OpenStaging, Write, Crash,
                        ReaderStep, List, Read, ReadEnd, writing, vars
    <3>2. CASE Fire(v)
      <4>1. s.at = clock'
        BY <1>1, <2>3, <3>2 DEF Fire, TypeOK
      <4>2. s.at <= clock'
        BY <1>2, <4>1
      <4>. QED
        BY <2>2, <4>1, <4>2, SignalConstants
    <3>3. CASE signal'[v] = signal[v] \/ signal'[v] = {}
      <4>1. s \in signal[v]
        BY <2>3, <3>3
      <4>2. s.at <= clock /\ \A old \in Contents(EventOf[v]) : old.at <= s.at
        BY <4>1 DEF NoneOlder
      <4>3. s.at \in Nat
        BY <1>4, <4>1
      <4>4. s.at <= clock'
        BY <1>2, <4>2, <4>3
      <4>. QED
        BY <2>1, <4>2, <4>4, SignalConstants
    <3>. QED
      BY <3>1, <3>2, <3>3
  <2>. QED
    BY <2>2, <2>3 DEF NoneOlder
<1>. QED
  BY <1>5, <1>6

LEMMA NextImplementsStore ==
  ASSUME OneWriterPerEvent
  PROVE  WholeInv /\ NoneOlder /\ [Next]_vars => [Store!Next]_[i \in Ids |-> Contents(i)]
<1>. SUFFICES ASSUME WholeInv, NoneOlder, [Next]_vars
              PROVE  [Store!Next]_[i \in Ids |-> Contents(i)]
  OBVIOUS
<1>. DEFINE seen == [i \in Ids |-> Contents(i)]
<1>1. CASE ~ \E w \in Writers : Replace(w)
  <2>1. seen' = seen
    BY <1>1, OnlyReplacePublishes
  <2>. QED
    BY <2>1
<1>2. ASSUME NEW w \in Writers, Replace(w)
      PROVE  Store!Next
  <2>1. PICK s \in Signal : signal[w] = {s} /\ s.id = EventOf[w]
    BY <1>2 DEF Replace, WholeInv, WritersHold, Held
  <2>2. s.id \in Ids /\ s \in Store!Signal
    BY DEF Signal, Store!Signal
  <2>3. seen' = [seen EXCEPT ![s.id] = {s}]
    BY <1>2, <2>1, <2>2, ReplacePublishes
  <2>4. \A old \in seen[s.id] : old.at <= s.at
    BY <2>1, <2>2 DEF NoneOlder
  <2>5. Store!Publish(s)
    BY <2>3, <2>4 DEF Store!Publish
  <2>. QED
    BY <2>2, <2>5 DEF Store!Next
<1>. QED
  BY <1>1, <1>2

(* With one writer per event, the directory is a store of signals: one     *)
(* per event, overwritten whole, never by an older one.                    *)
THEOREM SignalsImplementStore ==
  ASSUME OneWriterPerEvent
  PROVE  Spec => ImplementsStore
<1>1. Init => WholeInv /\ NoneOlder /\ Store!Init
  BY InitWholeInv DEF Init, NoneOlder, Contents, Store!Init
<1>. QED
  BY <1>1, NextWholeInv, NextNoneOlder, NextImplementsStore, PTL
     DEF Spec, ImplementsStore, Store!Spec
-----------------------------------------------------------------------------
(* What a poll finds: read_signals and _load_signal --latest.              *)

(* A published file lives in the directory.                                *)
DirIsThere ==
  /\ \A w \in Writers : pc[w] \notin {"idle", "mkdir"} => dir
  /\ \A i \in Ids : target[i] # NoFile => dir

(* The event has a file with a signal from t on.                           *)
Since(i, t) == \E s \in Contents(i) : t <= s.at

(* What has been written, listed or shown is still there, or newer; what   *)
(* the reader has listed it has read, or has yet to read.                  *)
Met(i, t) == i \in unread \/ \E s \in got : s.id = i /\ t <= s.at

SeenInv ==
  /\ DirIsThere
  /\ \A i \in Ids : finished[i] > 0 => Since(i, finished[i])
  /\ \A i \in Ids : floor[i] > 0 => Since(i, floor[i])
  /\ \A s \in shown \cup got : Since(s.id, s.at)
  /\ reader \in {"reading", "returned"} => \A i \in Ids : floor[i] > 0 => Met(i, floor[i])
  /\ reader = "reading" => \A s \in shown : Met(s.id, s.at)
  /\ reader = "returned" => unread = {}
  /\ got # {} => Newest(got) # {}

LEMMA InitSeenInv == Init => SeenInv
BY DEF Init, SeenInv, DirIsThere

LEMMA NextDirIsThere == WholeInv /\ DirIsThere /\ [Next]_vars => DirIsThere'
<1>. SUFFICES ASSUME WholeInv, DirIsThere, [Next]_vars
              PROVE  DirIsThere'
  OBVIOUS
<1>1. TypeOK
  BY DEF WholeInv, TypeInv
<1>2. dir => dir'
  BY DEF Next, WriterStep, Fire, MakeDir, OpenStaging, Write, Replace, Crash, ReaderStep, List,
         Read, ReadEnd, files, vars
<1>3. ASSUME NEW w \in Writers, pc'[w] \notin {"idle", "mkdir"}
      PROVE  dir'
  <2>1. pc[w] \notin {"idle", "mkdir"} \/ dir'
    BY <1>1, <1>3 DEF TypeOK, Goto, Next, WriterStep, Fire, MakeDir, OpenStaging, Write, Replace,
                      Crash, ReaderStep, List, Read, ReadEnd, writing, vars
  <2>. QED
    BY <1>2, <2>1 DEF DirIsThere
<1>4. ASSUME NEW i \in Ids, target'[i] # NoFile
      PROVE  dir'
  <2>1. target[i] # NoFile \/ \E w \in Writers : Replace(w)
    BY <1>4 DEF Next, WriterStep, Fire, MakeDir, OpenStaging, Write, Crash, ReaderStep, List,
                Read, ReadEnd, files, vars
  <2>. QED
    BY <1>2, <2>1 DEF DirIsThere, Replace
<1>. QED
  BY <1>3, <1>4 DEF DirIsThere

(* What a path says only ever gets newer.                                  *)
LEMMA SinceStays ==
  ASSUME WholeInv, NoneOlder, [Next]_vars, NEW i \in Ids, NEW t \in Nat, Since(i, t)
  PROVE  Since(i, t)'
<1>1. Contents(i) \subseteq Signal
  BY DEF WholeInv, TypeInv, TypeOK, Contents
<1>2. CASE ~ \E w \in Writers : Replace(w)
  BY <1>2, OnlyReplacePublishes DEF Since
<1>3. ASSUME NEW w \in Writers, Replace(w)
      PROVE  Since(i, t)'
  <2>1. CASE i # EventOf[w]
    BY <1>3, <2>1, ReplacePublishes DEF Since
  <2>2. CASE i = EventOf[w]
    <3>1. PICK s \in Signal : signal[w] = {s}
      BY <1>3 DEF Replace, WholeInv, WritersHold, Held
    <3>2. \A old \in Contents(i) : old.at <= s.at
      BY <2>2, <3>1 DEF NoneOlder
    <3>3. t <= s.at
      BY <1>1, <3>2 DEF Since, Signal
    <3>. QED
      BY <1>3, <2>2, <3>1, <3>3, ReplacePublishes DEF Since
  <2>. QED
    BY <2>1, <2>2
<1>. QED
  BY <1>2, <1>3

LEMMA SignalParts == \A s \in Signal : s.id \in Nat /\ s.at \in Nat
<1>. SUFFICES ASSUME NEW s \in Signal
              PROVE  s.id \in Nat /\ s.at \in Nat
  OBVIOUS
<1>1. s.id \in Ids /\ s.at \in 1 .. MaxClock
  BY DEF Signal
<1>2. Ids \subseteq Nat /\ MaxClock \in Nat
  BY SignalConstants
<1>3. s.id \in Nat
  BY <1>1, <1>2
<1>4. s.at \in Nat
  BY <1>1, <1>2
<1>. QED
  BY <1>3, <1>4

(* NoNewer orders signals.                                                 *)
LEMMA NoNewerOrders ==
  ASSUME NEW r \in Signal, NEW s \in Signal, NEW t \in Signal
  PROVE  /\ NoNewer(r, s) \/ NoNewer(s, r)
         /\ NoNewer(r, s) /\ NoNewer(s, t) => NoNewer(r, t)
<1>1. /\ r.at \in Nat /\ r.id \in Nat
      /\ s.at \in Nat /\ s.id \in Nat
      /\ t.at \in Nat /\ t.id \in Nat
  BY SignalParts
<1>. QED
  BY <1>1 DEF NoNewer

LEMMA NewestOfMore ==
  ASSUME NEW all \in SUBSET Signal, NEW u \in Signal, all # {} => Newest(all) # {}
  PROVE  Newest(all \cup {u}) # {}
<1>. DEFINE more == all \cup {u}
<1>1. \A s \in Signal : NoNewer(s, s)
  BY NoNewerOrders
<1>2. CASE all = {}
  BY <1>1, <1>2 DEF Newest
<1>3. CASE all # {}
  <2>1. PICK t \in all : \A s \in all : NoNewer(s, t)
    BY <1>3 DEF Newest
  <2>2. CASE NoNewer(u, t)
    <3>1. t \in more /\ \A s \in more : NoNewer(s, t)
      BY <2>1, <2>2
    <3>. QED
      BY <3>1 DEF Newest
  <2>3. CASE NoNewer(t, u)
    <3>1. u \in more /\ \A s \in more : NoNewer(s, u)
      BY <1>1, <2>1, <2>3, NoNewerOrders
    <3>. QED
      BY <3>1 DEF Newest
  <2>. QED
    BY <2>1, <2>2, <2>3, NoNewerOrders
<1>. QED
  BY <1>2, <1>3

(* The reader reads from a path what the path says, one signal of its own  *)
(* event.                                                                  *)
LEMMA ReadGets ==
  ASSUME WholeInv, NEW i \in Ids, Read(i)
  PROVE  \E s \in Signal :
           /\ Contents(i) = {s} /\ s.id = i
           /\ got' = got \cup {s}
           /\ unread' = unread \ {i}
           /\ reader' = "reading"
<1>1. target[i] # NoFile
  BY DEF Read, WholeInv, TypeInv, ListedStay
<1>2. PICK s \in Signal : text[target[i]] = {s} /\ s.id = i
  BY <1>1 DEF WholeInv, TargetsWhole
<1>3. Cardinality(text[target[i]]) = 1
  BY <1>2, FS_Singleton
<1>. QED
  BY <1>1, <1>2, <1>3 DEF Read, Contents

LEMMA NextSeenInv ==
  ASSUME OneWriterPerEvent
  PROVE  WholeInv /\ NoneOlder /\ SeenInv /\ [Next]_vars => SeenInv'
<1>. SUFFICES ASSUME WholeInv, NoneOlder, SeenInv, [Next]_vars
              PROVE  SeenInv'
  OBVIOUS
<1>1. TypeOK /\ TypeOK' /\ DirIsThere'
  BY NextWholeInv, NextDirIsThere DEF WholeInv, TypeInv, SeenInv
<1>2. \A i \in Ids, t \in Nat : Since(i, t) => Since(i, t)'
  BY SinceStays
<1>3. /\ \A i \in Ids : finished[i] \in Nat /\ floor[i] \in Nat
      /\ \A s \in shown \cup got : s.id \in Ids /\ s.at \in Nat
  BY <1>1, SignalConstants DEF TypeOK, Signal
<1>4. \A i \in Ids : finished'[i] > 0 => Since(i, finished[i])'
  <2>. SUFFICES ASSUME NEW i \in Ids, finished'[i] > 0
                PROVE  Since(i, finished[i])'
    OBVIOUS
  <2>1. CASE finished'[i] = finished[i]
    BY <1>2, <1>3, <2>1 DEF SeenInv
  <2>2. CASE finished'[i] # finished[i]
    <3>1. PICK w \in Writers : Replace(w) /\ i = EventOf[w]
      BY <1>1, <2>2 DEF TypeOK, Next, WriterStep, Fire, MakeDir, OpenStaging, Write, Replace,
                        Crash, ReaderStep, List, Read, ReadEnd, writing, vars
    <3>2. PICK s \in signal[w] : finished' = [finished EXCEPT ![i] = s.at]
      BY <2>2, <3>1 DEF Replace
    <3>3. Contents(i)' = signal[w] /\ finished'[i] = s.at
      BY <1>1, <3>1, <3>2, ReplacePublishes DEF TypeOK
    <3>4. s.at \in Nat
      BY <1>1 DEF TypeOK, Signal
    <3>. QED
      BY <3>3, <3>4 DEF Since
  <2>. QED
    BY <2>1, <2>2
<1>5. CASE List
  <2>1. /\ floor' = finished /\ shown' = shown /\ got' = {} /\ reader' = "reading"
        /\ unread' = IF dir THEN Glob ELSE {}
    BY <1>5 DEF List
  <2>2. finished' = finished
    BY <1>5 DEF List, writing
  <2>3. \A i \in Ids, t \in Nat : Since(i, t) => Met(i, t)'
    BY <2>1 DEF Since, Contents, SeenInv, DirIsThere, Glob, Met
  <2>. QED
    BY <1>1, <1>2, <1>3, <1>4, <2>1, <2>2, <2>3 DEF SeenInv
<1>6. CASE ReadEnd
  <2>1. UNCHANGED <<floor, got, unread, finished>> /\ reader' = "returned" /\ unread = {}
        /\ reader = "reading" /\ shown' = Newest(got)
    BY <1>6 DEF ReadEnd, writing
  <2>2. Newest(got) \subseteq got
    BY DEF Newest
  <2>. QED
    BY <1>1, <1>2, <1>3, <1>4, <2>1, <2>2 DEF SeenInv, Met, Newest
<1>7. ASSUME NEW i \in Ids, Read(i)
      PROVE  SeenInv'
  <2>1. UNCHANGED <<floor, shown, finished>> /\ reader = "reading" /\ i \in unread
    BY <1>7 DEF Read, writing
  <2>2. PICK s \in Signal : /\ Contents(i) = {s} /\ s.id = i
                            /\ got' = got \cup {s} /\ unread' = unread \ {i}
                            /\ reader' = "reading"
    BY <1>7, ReadGets
  <2>3. \A j \in Ids, t \in Nat : Since(j, t) /\ Met(j, t) => Met(j, t)'
    BY <2>2 DEF Since, Met
  <2>4. Since(s.id, s.at) /\ s.id \in Ids /\ s.at \in Nat
    BY <2>2, SignalConstants DEF Since, Signal
  <2>5. (got # {} => Newest(got) # {})'
    <3>1. got \in SUBSET Signal /\ (got # {} => Newest(got) # {})
      BY <1>1 DEF TypeOK, SeenInv
    <3>2. Newest(got \cup {s}) # {}
      BY <3>1, NewestOfMore
    <3>. QED
      BY <2>2, <3>2 DEF Newest
  <2>. QED
    BY <1>1, <1>2, <1>3, <1>4, <2>1, <2>2, <2>3, <2>4, <2>5 DEF SeenInv
<1>8. CASE UNCHANGED reading
  BY <1>1, <1>2, <1>3, <1>4, <1>8 DEF SeenInv, reading, Met, Newest
<1>9. UNCHANGED reading \/ ReaderStep
  BY DEF Next, WriterStep, Fire, MakeDir, OpenStaging, Write, Replace, Crash, vars
<1>. QED
  BY <1>5, <1>6, <1>7, <1>8, <1>9 DEF ReaderStep
(* With one writer per event, a poll returns, for every event whose write  *)
(* had returned before it listed the directory, that signal or a later     *)
(* one, whatever is being overwritten or crashes meanwhile.                *)
THEOREM FinishedSignalsAreSeen ==
  ASSUME OneWriterPerEvent
  PROVE  Spec => []FinishedAreSeen
<1>1. Init => WholeInv /\ NoneOlder /\ SeenInv
  BY InitWholeInv, InitSeenInv DEF Init, NoneOlder, Contents
<1>2. SeenInv => FinishedAreSeen
  <2>. SUFFICES ASSUME SeenInv, reader = "returned", NEW i \in Ids, floor[i] > 0
                PROVE  \E s \in got : s.id = i /\ s.at >= floor[i]
    BY DEF FinishedAreSeen
  <2>1. PICK s \in got : s.id = i /\ floor[i] <= s.at
    BY DEF SeenInv, Met
  <2>. QED
    BY <2>1
<1>. QED
  BY <1>1, <1>2, NextWholeInv, NextNoneOlder, NextSeenInv, PTL DEF Spec

(* With one writer per event, `triage --latest` never goes back to an      *)
(* older signal, nor to none, from one poll to the next.                   *)
THEOREM LatestStaysLatest ==
  ASSUME OneWriterPerEvent
  PROVE  Spec => LatestNeverGoesBack
<1>1. Init => WholeInv /\ NoneOlder /\ SeenInv
  BY InitWholeInv, InitSeenInv DEF Init, NoneOlder, Contents
<1>2. WholeInv /\ SeenInv /\ [Next]_vars => [\A s \in shown : \E t \in shown' : NoNewer(s, t)]_vars
  <2>. SUFFICES ASSUME WholeInv, SeenInv, Next, NEW s \in shown
                PROVE  \E t \in shown' : NoNewer(s, t)
    OBVIOUS
  <2>1. shown \subseteq Signal /\ got \subseteq Signal
    BY DEF WholeInv, TypeInv, TypeOK
  <2>2. CASE shown' = shown
    BY <2>1, <2>2, NoNewerOrders
  <2>3. CASE ReadEnd
    <3>1. PICK r \in got : r.id = s.id /\ s.at <= r.at
      BY <2>3 DEF ReadEnd, SeenInv, Met
    <3>2. PICK t \in got : \A u \in got : NoNewer(u, t)
      BY <3>1 DEF SeenInv, Newest
    <3>3. NoNewer(s, r) /\ NoNewer(r, t)
      BY <2>1, <3>1, <3>2, SignalParts DEF NoNewer
    <3>4. NoNewer(s, t)
      BY <2>1, <3>3, NoNewerOrders
    <3>. QED
      BY <2>3, <3>2, <3>4 DEF ReadEnd, Newest
  <2>4. shown' = shown \/ ReadEnd
    BY DEF Next, WriterStep, Fire, MakeDir, OpenStaging, Write, Replace, Crash, ReaderStep, List,
           Read, reading
  <2>. QED
    BY <2>2, <2>3, <2>4
<1>. QED
  BY <1>1, <1>2, NextWholeInv, NextNoneOlder, NextSeenInv, PTL DEF Spec, LatestNeverGoesBack
=============================================================================
