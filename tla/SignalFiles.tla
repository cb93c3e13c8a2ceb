----------------------------- MODULE SignalFiles -----------------------------
(***************************************************************************)
(* The signal files (market_ops/alerts/signals_io.py): processes that call *)
(* write_signal for the event they are about, again and again and dying    *)
(* anywhere, and the agent command that calls read_signals and takes the   *)
(* newest (_load_signal in market_ops/agent/__main__.py).                  *)
(*                                                                         *)
(* A path is a link to an inode, and a process that has opened a file      *)
(* keeps the inode whatever happens to the path. The text in an inode is   *)
(* the set of the signals it has bytes of: {} is an empty file, {s} the    *)
(* JSON of s, and two signals are a mixture that does not parse.           *)
(***************************************************************************)
EXTENDS Naturals, FiniteSets

CONSTANTS
  Writers,   \* processes that call write_signal
  Ids,       \* signal ids, ordered as strings are: numbers here
  EventOf,   \* the signal id of the event each writer reports
  Inodes,    \* files on disk, numbered
  MaxClock,  \* bound on the time
  NoFile     \* a path with nothing there, a process with no file open

ASSUME SignalConstants ==
  /\ Ids \subseteq Nat
  /\ EventOf \in [Writers -> Ids]
  /\ MaxClock \in Nat
  /\ Inodes \subseteq Nat
  /\ NoFile \notin Inodes

(* Two names per event and one open file per writer never exhaust them.    *)
ASSUME EnoughInodes ==
  IsFiniteSet(Inodes) =>
    Cardinality(Inodes) >= 2 * Cardinality(Ids) + Cardinality(Writers)

(* detected_at, then signal_id                                             *)
Signal == [id : Ids, at : 1 .. MaxClock]

VARIABLES
  clock,     \* the time
  dir,       \* does the directory exist
  target,    \* <id>.json, per id
  staging,   \* <id>.json.tmp, per id
  text,      \* what is in each inode
  pc,        \* the line each writer has reached
  signal,    \* the signal each writer is writing: {} or a singleton
  fd,        \* the file each writer has open
  finished,  \* history: detected_at of the last write that returned, or 0
  reader,    \* the line of read_signals, or how it ended
  unread,    \* ids of the paths it has listed and not read yet
  got,       \* signals it has read
  shown,     \* the newest signal it last returned: {} or a singleton
  floor      \* history: `finished` when the reader listed the directory

files == <<dir, target, staging, text>>
writing == <<pc, signal, fd, finished>>
reading == <<reader, unread, got, shown, floor>>
vars == <<clock, files, writing, reading>>

TypeOK ==
  /\ clock \in 0 .. MaxClock
  /\ dir \in BOOLEAN
  /\ target \in [Ids -> Inodes \cup {NoFile}]
  /\ staging \in [Ids -> Inodes \cup {NoFile}]
  /\ text \in [Inodes -> SUBSET Signal]
  /\ pc \in [Writers -> {"idle", "mkdir", "open", "write", "replace"}]
  /\ signal \in [Writers -> SUBSET Signal]
  /\ fd \in [Writers -> Inodes \cup {NoFile}]
  /\ \A w \in Writers : fd[w] # NoFile <=> pc[w] = "write"
  /\ finished \in [Ids -> 0 .. MaxClock]
  /\ reader \in {"idle", "reading", "returned", "raised"}
  /\ unread \subseteq Ids
  /\ got \subseteq Signal
  /\ shown \subseteq Signal
  /\ floor \in [Ids -> 0 .. MaxClock]

Init ==
  /\ clock = 0
  /\ dir \in BOOLEAN
  /\ target = [i \in Ids |-> NoFile]
  /\ staging = [i \in Ids |-> NoFile]
  /\ text = [n \in Inodes |-> {}]
  /\ pc = [w \in Writers |-> "idle"]
  /\ signal = [w \in Writers |-> {}]
  /\ fd = [w \in Writers |-> NoFile]
  /\ finished = [i \in Ids |-> 0]
  /\ reader = "idle"
  /\ unread = {}
  /\ got = {}
  /\ shown = {}
  /\ floor = [i \in Ids |-> 0]

-----------------------------------------------------------------------------
(* write_signal                                                            *)

Goto(w, line) == pc' = [pc EXCEPT ![w] = line]

(* The event fires (again): detected_at is the time, and no two calls of   *)
(* one writer overlap.                                                     *)
Fire(w) ==
  /\ pc[w] = "idle"
  /\ clock' \in {clock, clock + 1} \cap (1 .. MaxClock)
  /\ Goto(w, "mkdir")
  /\ signal' = [signal EXCEPT ![w] = {[id |-> EventOf[w], at |-> clock']}]
  /\ UNCHANGED <<files, fd, finished, reading>>

MakeDir(w) ==
  /\ pc[w] = "mkdir"
  /\ Goto(w, "open")
  /\ dir' = TRUE
  /\ UNCHANGED <<clock, target, staging, text, signal, fd, finished, reading>>

Used == {target[i] : i \in Ids} \cup {staging[i] : i \in Ids} \cup {fd[w] : w \in Writers}

(* A new file takes the lowest free inode.                                 *)
Fresh(n) == n \notin Used /\ \A m \in Inodes \ Used : n <= m

(* Mutant of OpenStaging: target.write_text, with no staging file.         *)
OpenTarget(w) ==
  LET i == EventOf[w] IN
  /\ pc[w] = "open"
  /\ Goto(w, "write")
  /\ \E n \in Inodes :
       /\ IF target[i] # NoFile THEN n = target[i] ELSE Fresh(n)
       /\ target' = [target EXCEPT ![i] = n]
       /\ fd' = [fd EXCEPT ![w] = n]
       /\ text' = [text EXCEPT ![n] = {}]
  /\ UNCHANGED <<clock, dir, staging, signal, finished, reading>>

(* Mutant of OpenStaging: opened for appending.                            *)
OpenAppend(w) ==
  LET i == EventOf[w] IN
  /\ pc[w] = "open"
  /\ Goto(w, "write")
  /\ \E n \in Inodes :
       /\ IF staging[i] # NoFile THEN n = staging[i] ELSE Fresh(n)
       /\ staging' = [staging EXCEPT ![i] = n]
       /\ fd' = [fd EXCEPT ![w] = n]
       /\ text' = text
  /\ UNCHANGED <<clock, dir, target, signal, finished, reading>>

(* staging.write_text opens: what is there is truncated, a new file is     *)
(* created otherwise.                                                      *)
OpenStaging(w) ==
  LET i == EventOf[w] IN
  /\ pc[w] = "open"
  /\ Goto(w, "write")
  /\ \E n \in Inodes :
       /\ IF staging[i] # NoFile THEN n = staging[i] ELSE Fresh(n)
       /\ staging' = [staging EXCEPT ![i] = n]
       /\ fd' = [fd EXCEPT ![w] = n]
       /\ text' = [text EXCEPT ![n] = {}]
  /\ UNCHANGED <<clock, dir, target, signal, finished, reading>>

(* Mutant of Write: the file is not closed.                                *)
WriteOnly(w) ==
  /\ pc[w] = "write"
  /\ Goto(w, "replace")
  /\ text' = [text EXCEPT ![fd[w]] = signal[w]]
  /\ UNCHANGED <<clock, dir, target, staging, signal, fd, finished, reading>>

(* It writes and closes. If another process has written to the inode since *)
(* it was truncated, the longer of the two texts shows behind the shorter. *)
Write(w) ==
  /\ pc[w] = "write"
  /\ Goto(w, "replace")
  /\ \E over \in {{}, text[fd[w]]} :
       text' = [text EXCEPT ![fd[w]] = signal[w] \cup over]
  /\ fd' = [fd EXCEPT ![w] = NoFile]
  /\ UNCHANGED <<clock, dir, target, staging, signal, finished, reading>>

(* Mutant of Replace: target.unlink() before the rename.                   *)
ReplaceUnlinked(w) ==
  LET i == EventOf[w] IN
  /\ pc[w] = "replace"
  /\ Goto(w, "idle")
  /\ signal' = [signal EXCEPT ![w] = {}]
  /\ target' = [target EXCEPT ![i] = staging[i]]
  /\ staging' = [staging EXCEPT ![i] = NoFile]
  /\ text' = [n \in Inodes |-> IF n = target[i] THEN {} ELSE text[n]]
  /\ \E s \in signal[w] : finished' = [finished EXCEPT ![i] = s.at]
  /\ UNCHANGED <<clock, dir, fd, reading>>

(* staging.replace(target) and the return; FileNotFoundError when another  *)
(* process has renamed the staging file. (The file that was the target is  *)
(* gone: its text is cleared, for a smaller state space.)                  *)
Replace(w) ==
  LET i == EventOf[w] IN
  /\ pc[w] = "replace"
  /\ Goto(w, "idle")
  /\ signal' = [signal EXCEPT ![w] = {}]
  /\ \/ /\ staging[i] # NoFile
        /\ target' = [target EXCEPT ![i] = staging[i]]
        /\ staging' = [staging EXCEPT ![i] = NoFile]
        /\ text' = [n \in Inodes |-> IF n = target[i] THEN {} ELSE text[n]]
        /\ \E s \in signal[w] : finished' = [finished EXCEPT ![i] = s.at]
     \/ staging[i] = NoFile /\ UNCHANGED <<target, staging, text, finished>>
  /\ UNCHANGED <<clock, dir, fd, reading>>

(* The process dies, or the disk is full: the files stay as they are.      *)
Crash(w) ==
  /\ pc[w] # "idle"
  /\ Goto(w, "idle")
  /\ signal' = [signal EXCEPT ![w] = {}]
  /\ fd' = [fd EXCEPT ![w] = NoFile]
  /\ UNCHANGED <<clock, files, finished, reading>>

-----------------------------------------------------------------------------
(* read_signals and _load_signal --latest                                  *)

(* Mutant of Glob: an event whose .tmp is there is in flight: skipped.     *)
GlobSettled == {i \in Ids : target[i] # NoFile /\ staging[i] = NoFile}

(* signals_dir.glob("*.json"): the staging files are not among them.       *)
Glob == {i \in Ids : target[i] # NoFile}

(* A missing directory is an empty list; otherwise it is listed once.      *)
List ==
  /\ reader # "reading"
  /\ reader' = "reading"
  /\ unread' = IF dir THEN Glob ELSE {}
  /\ got' = {}
  /\ floor' = finished
  /\ UNCHANGED <<clock, files, writing, shown>>

(* read_text and model_validate_json of one listed path. A text that does  *)
(* not parse raises for the whole call.                                    *)
Read(i) ==
  LET read == text[target[i]] IN
  /\ reader = "reading"
  /\ i \in unread
  /\ \/ /\ Cardinality(read) = 1
        /\ got' = got \cup read
        /\ unread' = unread \ {i}
        /\ UNCHANGED reader
     \/ /\ Cardinality(read) # 1
        /\ reader' = "raised"
        /\ unread' = {}
        /\ UNCHANGED got
  /\ UNCHANGED <<clock, files, writing, shown, floor>>

(* The sort key (detected_at, signal_id).                                  *)
NoNewer(s, t) == s.at < t.at \/ (s.at = t.at /\ s.id <= t.id)

(* Mutant of Newest: the key is (signal_id, detected_at).                  *)
NewestById(all) == {t \in all : \A s \in all : s.id < t.id \/ (s.id = t.id /\ s.at <= t.at)}

(* signals[-1]: nothing (SystemExit) when there are none.                  *)
Newest(all) == {t \in all : \A s \in all : NoNewer(s, t)}

ReadEnd ==
  /\ reader = "reading"
  /\ unread = {}
  /\ reader' = "returned"
  /\ shown' = Newest(got)
  /\ UNCHANGED <<clock, files, writing, unread, got, floor>>

-----------------------------------------------------------------------------
WriterStep(w) ==
  \/ Fire(w) \/ MakeDir(w) \/ OpenStaging(w) \/ Write(w) \/ Replace(w) \/ Crash(w)

ReaderStep == List \/ ReadEnd \/ \E i \in Ids : Read(i)

Next == ReaderStep \/ \E w \in Writers : WriterStep(w)

Spec == Init /\ [][Next]_vars

-----------------------------------------------------------------------------
(* Every event is reported by one process at a time. Nothing in the code   *)
(* enforces it: write_signal has no pool and no lock.                      *)
OneWriterPerEvent == \A v, w \in Writers : EventOf[v] = EventOf[w] => v = w

(* The agent polling the directory "sees either no file or a complete one, *)
(* never a half-written JSON" (signals_io.py:19-20): no path it has listed *)
(* fails to parse.                                                         *)
NeverHalfWritten == reader # "raised"

(* Two processes that report one event at once may fail each other's       *)
(* rename, but not lose the event: whoever comes to its rename, the event  *)
(* has a file after it ("a callback that fires twice for the same event    *)
(* overwrites one file", 3-6).                                             *)
EventIsReported ==
  [][\A w \in Writers : Replace(w) => target'[EventOf[w]] # NoFile]_vars

(* read_signals returns, for every event whose write_signal had returned   *)
(* when the directory was listed, that signal or a later one: an overwrite *)
(* in flight or a crash never hides the signal that was there (31-45).     *)
FinishedAreSeen ==
  reader = "returned" =>
    \A i \in Ids : floor[i] > 0 => \E s \in got : s.id = i /\ s.at >= floor[i]

(* `triage --latest` never goes back to an older signal, nor to none, from *)
(* one poll to the next, although the files are overwritten while they are *)
(* being listed and read one by one (34-36 and 45).                        *)
LatestNeverGoesBack ==
  [][\A s \in shown : \E t \in shown' : NoNewer(s, t)]_vars

(* The directory implements the store of signals: an event has no signal   *)
(* or one, overwritten whole and never by an older one (3-6, 17-21).       *)
Contents(i) == IF target[i] = NoFile THEN {} ELSE text[target[i]]
Store == INSTANCE SignalStore WITH signals <- [i \in Ids |-> Contents(i)]
ImplementsStore == Store!Spec
=============================================================================
