------------------------------- MODULE AuditLog -------------------------------
(***************************************************************************)
(* AuditLog.read (market_ops/agent/audit.py): reading the JSON-lines file  *)
(* of what the agent did, one run of it or all of them, while the file     *)
(* grows. AuditLog.append is not built: a line is appended by the          *)
(* environment, whole or, by a writer that dies, torn.                     *)
(***************************************************************************)
EXTENDS Naturals, Sequences, FiniteSets, SequencesExt

CONSTANTS
  Traces,       \* trace ids
  All,          \* trace_id=None
  NoLog,        \* the file does not exist
  Blank, Torn,  \* a line without a record; one that is cut short
  Unreadable,   \* the read raised ValidationError
  MaxLines      \* bound on the lines of the file

VARIABLES
  logFile,   \* the lines of the file, or NoLog
  readUpTo,  \* history: how many lines there were at the last read
  readBack   \* what the last read returned, for each trace

logVars == <<logFile, readUpTo, readBack>>

Selections == Traces \cup {All}

(* A record is the trace it is of, and the step that tells it from others. *)
AuditRecord == [trace_id : Traces, step : 1 .. MaxLines]
LogLine == AuditRecord \cup {Blank, Torn}

ASSUME AuditLogConstants ==
  /\ All \notin Traces /\ MaxLines \in Nat
  /\ NoLog \notin Seq(LogLine) /\ Unreadable \notin Seq(AuditRecord)

LogTypeOK ==
  /\ logFile = NoLog \/ logFile \in Seq(LogLine)
  /\ readUpTo \in [Selections -> 0 .. MaxLines]
  /\ \A t \in Selections : readBack[t] = Unreadable \/ readBack[t] \in Seq(AuditRecord)

LogInit ==
  /\ logFile = NoLog
  /\ readUpTo = [t \in Selections |-> 0]
  /\ readBack = [t \in Selections |-> <<>>]

Lines == IF logFile = NoLog THEN <<>> ELSE logFile

AppendLine(line) ==
  /\ Len(Lines) < MaxLines
  /\ line \in AuditRecord => line.step = Len(Lines) + 1
  /\ logFile' = Append(Lines, line)
  /\ UNCHANGED <<readUpTo, readBack>>

(* Mutant of Selected: a line is parsed when its trace is wanted.          *)
SelectedFirst(file, t) ==
  IF t = All /\ Torn \in Range(file) THEN Unreadable
  ELSE SelectSeq(file, LAMBDA line : line \in AuditRecord /\ t \in {All, line.trace_id})

(* The records of trace t among the lines, in file order.                  *)
Keep(kept, line, t) ==
  IF line # Blank /\ t \in {All, line.trace_id} THEN Append(kept, line) ELSE kept

Kept(file, t) == FoldLeft(LAMBDA kept, line : Keep(kept, line, t), <<>>, file)

(* Every line that is not blank is parsed, whichever trace is wanted.      *)
Selected(file, t) == IF Torn \in Range(file) THEN Unreadable ELSE Kept(file, t)

(* Mutant of read: the newest record comes first.                          *)
ReadBackwards(t) ==
  /\ readBack' = [readBack EXCEPT ![t] =
       IF logFile = NoLog THEN <<>> ELSE Selected(Reverse(logFile), t)]
  /\ readUpTo' = [readUpTo EXCEPT ![t] = Len(Lines)]
  /\ UNCHANGED logFile

read(t) ==
  /\ readBack' = [readBack EXCEPT ![t] = IF logFile = NoLog THEN <<>> ELSE Selected(logFile, t)]
  /\ readUpTo' = [readUpTo EXCEPT ![t] = Len(Lines)]
  /\ UNCHANGED logFile

LogNext ==
  \/ \E line \in LogLine : AppendLine(line)
  \/ \E t \in Selections : read(t)

LogSpec == LogInit /\ [][LogNext]_logVars

-----------------------------------------------------------------------------
(* What one trace says is what the whole log says of it: of two reads at   *)
(* the same length, one of all and one of a trace, neither knows a record  *)
(* the other leaves out, and a line that cannot be parsed fails both,      *)
(* whichever run wrote it (audit.py:70-78).                                *)
TracesAgree ==
  \A t \in Traces :
    readUpTo[t] = readUpTo[All] =>
      IF readBack[All] = Unreadable
      THEN readBack[t] = Unreadable
      ELSE /\ readBack[t] # Unreadable
           /\ Range(readBack[t]) = {r \in Range(readBack[All]) : r.trace_id = t}

(* "This file is the answer" (audit.py:7): what was once read back stays   *)
(* the beginning of every later answer, in the order it happened, and a    *)
(* log that cannot be read is not read again by luck.                      *)
AnswersOnlyGrow ==
  [][\A t \in Selections :
       IF readBack[t] = Unreadable
       THEN readBack'[t] = Unreadable
       ELSE readBack'[t] = Unreadable \/ IsPrefix(readBack[t], readBack'[t])]_logVars
=============================================================================
