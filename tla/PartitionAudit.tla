--------------------------- MODULE PartitionAudit ---------------------------
(***************************************************************************)
(* scripts/audit_partitions.py over a raw zone that is re-derived while it *)
(* runs. For each dt= directory it found when it started, the script reads *)
(* the partition file twice: once for the dates in its rows, once for its  *)
(* digest. The line it prints pairs the verdict on the first with the      *)
(* digest of the second.                                                   *)
(*                                                                         *)
(* The raw zone is PartitionStore: all the script may rely on is the       *)
(* contract of the ingestion DAG. A digest is the content it is of.        *)
(***************************************************************************)
EXTENDS OhlcvFrame

CONSTANTS
  Sessions,     \* session dates
  TickerLists,  \* lists the `tickers` Variable may hold
  NoFile,       \* a path with nothing there
  Deliveries    \* contents an ingest may land, per session

ASSUME SessionsAreOrdered == Sessions \subseteq Nat

VARIABLES
  partition,  \* the raw zone
  made,       \* sessions whose dt= directory exists
  auditAt,    \* the line the script has reached
  left,       \* sessions it has found and not reported yet
  opened,     \* what pd.read_parquet has read of the partition at hand
  lines,      \* what it has printed
  found       \* history: the directories there were when it started

rawZone == <<partition, made>>
auditVars == <<rawZone, auditAt, left, opened, lines, found>>

Raw == INSTANCE PartitionStore

ASSUME NoFileIsNoContent == NoFile \notin Raw!Content

(* A printed line; `opened`, the content its verdict is on, is history.    *)
Line == [session : Sessions, verdict : {"NO FILE", "ok", "MISMATCH"},
         opened : Raw!Content \cup {NoFile}, digest : Raw!Content \cup {NoFile}]

AuditTypeOK ==
  /\ partition \in [Sessions -> Raw!Content \cup {NoFile}]
  /\ made \subseteq Sessions
  /\ auditAt \in {"start", "exists", "dates", "digest", "end"}
  /\ left \subseteq Sessions
  /\ opened \in Raw!Content \cup {NoFile}
  /\ lines \subseteq Line
  /\ found \subseteq Sessions

AuditInit ==
  /\ partition = [s \in Sessions |-> NoFile]
  /\ made = {}
  /\ auditAt = "start"
  /\ left = {}
  /\ opened = NoFile
  /\ lines = {}
  /\ found = {}

-----------------------------------------------------------------------------
(* The ingests beside it. The directory comes before the file.             *)
MakePartitionDir(s) ==
  /\ made' = made \cup {s}
  /\ UNCHANGED <<partition, auditAt, left, opened, lines, found>>

LandPartition(s) ==
  /\ s \in made
  /\ \E c \in Deliveries[s] : partition' = [partition EXCEPT ![s] = c]
  /\ Raw!Put(s)
  /\ UNCHANGED <<made, auditAt, left, opened, lines, found>>

-----------------------------------------------------------------------------
(* sorted(Path(...).glob("dt=*"))                                          *)
AuditStart ==
  /\ auditAt \in {"start", "end"}
  /\ auditAt' = "exists"
  /\ left' = made
  /\ found' = made
  /\ lines' = {}
  /\ UNCHANGED <<rawZone, opened>>

(* The next directory in order.                                            *)
AtHand(s) == s \in left /\ \A t \in left : s <= t

Report(s, verdict, of) ==
  /\ lines' = lines \cup
       {[session |-> s, verdict |-> verdict, opened |-> opened, digest |-> of]}
  /\ left' = left \ {s}

(* Mutant of NoPartition: the script stops at a directory without a file.  *)
StopAtNoFile(s) ==
  /\ auditAt = "exists" /\ AtHand(s)
  /\ partition[s] = NoFile
  /\ auditAt' = "end"
  /\ Report(s, "NO FILE", NoFile)
  /\ UNCHANGED <<rawZone, opened, found>>

(* if not f.exists(): it is reported, and the loop goes on.                *)
NoPartition(s) ==
  /\ auditAt = "exists" /\ AtHand(s)
  /\ partition[s] = NoFile
  /\ Report(s, "NO FILE", NoFile)
  /\ UNCHANGED <<rawZone, auditAt, opened, found>>

PartitionExists(s) ==
  /\ auditAt = "exists" /\ AtHand(s)
  /\ partition[s] # NoFile
  /\ auditAt' = "dates"
  /\ UNCHANGED <<rawZone, left, opened, lines, found>>

(* pd.read_parquet(f, columns=["date"])                                    *)
ReadDates(s) ==
  /\ auditAt = "dates" /\ AtHand(s)
  /\ opened' = partition[s]
  /\ auditAt' = "digest"
  /\ UNCHANGED <<rawZone, left, lines, found>>

(* 'ok' if dates == [expected], where the dates are sorted and unique.     *)
Verdict(s, file) == IF {b.date : b \in file.bars} = {s} THEN "ok" ELSE "MISMATCH"

(* hashlib.sha256(f.read_bytes()): the path is opened again. Then the line *)
(* is printed.                                                             *)
ReadDigest(s) ==
  /\ auditAt = "digest" /\ AtHand(s)
  /\ auditAt' = "exists"
  /\ opened' = NoFile
  /\ Report(s, Verdict(s, opened), partition[s])
  /\ UNCHANGED <<rawZone, found>>

AuditEnd ==
  /\ auditAt = "exists"
  /\ left = {}
  /\ auditAt' = "end"
  /\ UNCHANGED <<rawZone, left, opened, lines, found>>

-----------------------------------------------------------------------------
AuditStep ==
  \/ AuditEnd
  \/ \E s \in Sessions :
       NoPartition(s) \/ PartitionExists(s) \/ ReadDates(s) \/ ReadDigest(s)

AuditNext ==
  \/ AuditStart \/ AuditStep
  \/ \E s \in Sessions : MakePartitionDir(s) \/ LandPartition(s)

AuditSpec == AuditInit /\ [][AuditNext]_auditVars

-----------------------------------------------------------------------------
(* Between the two reads an ingest has put other content in place, and one *)
(* of the two has no rows.                                                 *)
RederivedWithoutRows(l) ==
  l.opened # l.digest /\ (l.opened.bars = {} \/ l.digest.bars = {})

LineIsTrue(l) ==
  IF l.verdict = "NO FILE" THEN l.digest = NoFile
  ELSE /\ l.digest # NoFile
       /\ DatedBy(l.digest.bars, l.session)
       /\ l.verdict = Verdict(l.session, l.digest) \/ RederivedWithoutRows(l)

(* The verdict of a line is that on the file its digest names, although    *)
(* the two are read apart - unless the partition was re-derived in between *)
(* and had no rows before or has none after: all other contents of a       *)
(* session have the same one date. No line names a file with a row of      *)
(* another session, and NO FILE names none (lines 8-13).                   *)
AuditLinesTrue == \A l \in lines : LineIsTrue(l)

(* One line per directory there was when it started, and no other: neither *)
(* a directory without a file nor an ingest beside it hides the rest       *)
(* (lines 5-10).                                                           *)
AuditIsComplete ==
  auditAt = "end" =>
    /\ {l.session : l \in lines} = found
    /\ \A k, l \in lines : k.session = l.session => k = l
=============================================================================
