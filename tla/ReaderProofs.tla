---------------------------- MODULE ReaderProofs ----------------------------
(***************************************************************************)
(* Proofs about the components that read, in several steps or again and    *)
(* again, files that change meanwhile: PartitionAudit, for every set of    *)
(* sessions and of contents an ingest may land; Corpus, for every tree,    *)
(* list of globs and text.                                                 *)
(***************************************************************************)
EXTENDS PartitionAudit, Corpus, Induction

-----------------------------------------------------------------------------
(* PartitionAudit                                                          *)

(* All the script may rely on: what is there is dated, and stays there.    *)
PartitionsAreDated ==
  \A s \in Sessions : partition[s] # NoFile => DatedBy(partition[s].bars, s)

(* Of the partition at hand: it is there, and what was opened is dated     *)
(* with its session, whichever of its contents that was.                   *)
AtHandIsDated ==
  \A s \in left : AtHand(s) =>
    /\ auditAt \in {"dates", "digest"} => partition[s] # NoFile
    /\ auditAt = "digest" => opened \in Raw!Content /\ DatedBy(opened.bars, s)

(* A line per session that has been left behind.                           *)
LinesSoFar ==
  /\ left \subseteq found
  /\ {l.session : l \in lines} = found \ left
  /\ \A k, l \in lines : k.session = l.session => k = l
  /\ auditAt = "end" => left = {}

AuditInv ==
  AuditTypeOK /\ PartitionsAreDated /\ AtHandIsDated /\ AuditLinesTrue /\ LinesSoFar

(* The verdict on a file dated with its session tells only if it has rows. *)
LEMMA VerdictOnDated ==
  ASSUME NEW s, NEW file, DatedBy(file.bars, s)
  PROVE  Verdict(s, file) = IF file.bars = {} THEN "MISMATCH" ELSE "ok"
<1>1. CASE file.bars = {}
  BY <1>1 DEF Verdict
<1>2. CASE file.bars # {}
  <2>1. {b.date : b \in file.bars} = {s}
    BY <1>2 DEF DatedBy
  <2>. QED
    BY <1>2, <2>1 DEF Verdict
<1>. QED
  BY <1>1, <1>2

LEMMA AuditInitially == AuditInit => AuditInv
BY DEF AuditInit, AuditInv, AuditTypeOK, PartitionsAreDated, AtHandIsDated, AuditLinesTrue,
       LinesSoFar

LEMMA OneAtHand ==
  ASSUME AuditTypeOK, NEW s \in Sessions, NEW t \in Sessions, AtHand(s), AtHand(t)
  PROVE  s = t
<1>1. s \in Nat /\ t \in Nat /\ s <= t /\ t <= s
  BY SessionsAreOrdered DEF AtHand
<1>. QED
  BY <1>1

(* An ingest lands acceptable content, over what is there or where nothing *)
(* is.                                                                     *)
LEMMA LandKeepsInv ==
  ASSUME AuditInv, NEW s \in Sessions, LandPartition(s)
  PROVE  AuditInv'
<1>1. AuditTypeOK
  BY DEF AuditInv
<1>2. /\ partition'[s] \in Raw!Content /\ DatedBy(partition'[s].bars, s)
      /\ partition' = [partition EXCEPT ![s] = partition'[s]]
  BY DEF LandPartition, Raw!Put, Raw!Acceptable, Raw!DatedBy, DatedBy
<1>3. UNCHANGED <<made, auditAt, left, opened, lines, found>>
  BY DEF LandPartition
<1>4. partition'[s] # NoFile
  BY <1>2, NoFileIsNoContent
<1>5. \A t \in Sessions \ {s} : partition'[t] = partition[t]
  BY <1>1, <1>2 DEF AuditTypeOK
<1>6. AuditTypeOK'
  BY <1>1, <1>2, <1>3 DEF AuditTypeOK
<1>7. PartitionsAreDated'
  BY <1>2, <1>5 DEF AuditInv, PartitionsAreDated, DatedBy
<1>8. AtHandIsDated'
  BY <1>1, <1>3, <1>4, <1>5 DEF AuditTypeOK, AuditInv, AtHandIsDated, AtHand
<1>9. AuditLinesTrue' /\ LinesSoFar'
  BY <1>3 DEF AuditInv, AuditLinesTrue, LinesSoFar
<1>. QED
  BY <1>6, <1>7, <1>8, <1>9 DEF AuditInv

(* A line is printed about the session at hand, the first one of it.       *)
LEMMA ReportKeepsLines ==
  ASSUME AuditInv, NEW s \in Sessions, s \in left,
         NEW verdict \in {"NO FILE", "ok", "MISMATCH"}, NEW of \in Raw!Content \cup {NoFile},
         Report(s, verdict, of), found' = found, auditAt' # "end",
         LineIsTrue([session |-> s, verdict |-> verdict, opened |-> opened, digest |-> of])
  PROVE  lines' \subseteq Line /\ AuditLinesTrue' /\ LinesSoFar'
<1>. DEFINE line == [session |-> s, verdict |-> verdict, opened |-> opened, digest |-> of]
<1>1. lines' = lines \cup {line} /\ left' = left \ {s}
  BY DEF Report
<1>2. lines \subseteq Line /\ line \in Line
  BY DEF AuditInv, AuditTypeOK, Line
<1>3. line.session = s /\ line.verdict = verdict /\ line.opened = opened /\ line.digest = of
  OBVIOUS
<1>4. AuditLinesTrue'
  BY <1>1 DEF AuditInv, AuditLinesTrue, LineIsTrue, RederivedWithoutRows, Verdict, DatedBy
<1>5. \A l \in lines : l.session # s
  BY DEF AuditInv, LinesSoFar
<1>6. LinesSoFar'
  <2>1. left' \subseteq found' /\ (auditAt' = "end" => left' = {})
    BY <1>1 DEF AuditInv, LinesSoFar
  <2>2. {l.session : l \in lines'} = {l.session : l \in lines} \cup {s}
    BY <1>1, <1>3
  <2>3. {l.session : l \in lines'} = found' \ left'
    BY <1>1, <2>2 DEF AuditInv, LinesSoFar
  <2>4. \A k, l \in lines' : k.session = l.session => k = l
    BY <1>1, <1>3, <1>5 DEF AuditInv, LinesSoFar
  <2>. QED
    BY <2>1, <2>3, <2>4 DEF LinesSoFar
<1>. QED
  BY <1>1, <1>2, <1>4, <1>6

LEMMA AuditInductive == AuditInv /\ [AuditNext]_auditVars => AuditInv'
<1>. SUFFICES ASSUME AuditInv, [AuditNext]_auditVars
              PROVE  AuditInv'
  OBVIOUS
<1>1. AuditTypeOK
  BY DEF AuditInv
<1>2. ASSUME partition' = partition
      PROVE  PartitionsAreDated'
  BY <1>2 DEF AuditInv, PartitionsAreDated
<1>3. CASE UNCHANGED auditVars
  BY <1>3 DEF auditVars, rawZone, AuditInv, AuditTypeOK, PartitionsAreDated, AtHandIsDated, AtHand,
              AuditLinesTrue, LinesSoFar
<1>4. CASE AuditStart
  BY <1>1, <1>2, <1>4
     DEF AuditStart, rawZone, AuditTypeOK, AuditInv, AtHandIsDated, AuditLinesTrue, LinesSoFar
<1>5. CASE AuditEnd
  BY <1>1, <1>2, <1>5
     DEF AuditEnd, rawZone, AuditTypeOK, AuditInv, AtHandIsDated, AuditLinesTrue, LinesSoFar
<1>6. ASSUME NEW s \in Sessions, MakePartitionDir(s)
      PROVE  AuditInv'
  BY <1>1, <1>2, <1>6
     DEF MakePartitionDir, AuditTypeOK, AuditInv, AtHandIsDated, AtHand, AuditLinesTrue, LinesSoFar
<1>7. ASSUME NEW s \in Sessions, NoPartition(s)
      PROVE  AuditInv'
  <2>1. s \in left /\ Report(s, "NO FILE", NoFile) /\ auditAt = "exists"
        /\ UNCHANGED <<partition, made, auditAt, opened, found>>
    BY <1>7 DEF NoPartition, AtHand, rawZone
  <2>2. LineIsTrue([session |-> s, verdict |-> "NO FILE", opened |-> opened, digest |-> NoFile])
    BY DEF LineIsTrue
  <2>3. lines' \subseteq Line /\ AuditLinesTrue' /\ LinesSoFar'
    BY <2>1, <2>2, ReportKeepsLines
  <2>. QED
    BY <1>1, <1>2, <2>1, <2>3 DEF AuditInv, AuditTypeOK, AtHandIsDated, Report
<1>8. ASSUME NEW s \in Sessions, PartitionExists(s)
      PROVE  AuditInv'
  <2>1. AtHand(s) /\ partition[s] # NoFile /\ auditAt' = "dates"
        /\ UNCHANGED <<partition, made, left, opened, lines, found>>
    BY <1>8 DEF PartitionExists, rawZone
  <2>2. AtHandIsDated'
    <3>. SUFFICES ASSUME NEW t \in left, AtHand(t)
                  PROVE  partition[t] # NoFile
      BY <2>1 DEF AtHandIsDated, AtHand
    <3>. QED
      BY <1>1, <2>1, OneAtHand DEF AuditTypeOK
  <2>. QED
    BY <1>1, <1>2, <2>1, <2>2 DEF AuditInv, AuditTypeOK, AuditLinesTrue, LinesSoFar
<1>9. ASSUME NEW s \in Sessions, ReadDates(s)
      PROVE  AuditInv'
  <2>1. AtHand(s) /\ opened' = partition[s]
        /\ auditAt = "dates" /\ auditAt' = "digest"
        /\ UNCHANGED <<partition, made, left, lines, found>>
    BY <1>9 DEF ReadDates, rawZone
  <2>2. opened' \in Raw!Content /\ DatedBy(opened'.bars, s)
    BY <1>1, <2>1 DEF AuditTypeOK, AuditInv, AtHandIsDated, AtHand, PartitionsAreDated
  <2>3. AtHandIsDated'
    <3>. SUFFICES ASSUME NEW t \in left, AtHand(t)
                  PROVE  partition[t] # NoFile /\ DatedBy(opened'.bars, t)
      BY <2>1, <2>2 DEF AtHandIsDated, AtHand, DatedBy
    <3>1. s = t
      BY <1>1, <2>1, OneAtHand DEF AuditTypeOK
    <3>. QED
      BY <2>1, <2>2, <3>1 DEF AuditInv, AtHandIsDated
  <2>. QED
    BY <1>1, <1>2, <2>1, <2>2, <2>3 DEF AuditInv, AuditTypeOK, AuditLinesTrue, LinesSoFar
<1>10. ASSUME NEW s \in Sessions, ReadDigest(s)
       PROVE  AuditInv'
  <2>1. s \in left /\ Report(s, Verdict(s, opened), partition[s])
        /\ auditAt' = "exists" /\ opened' = NoFile /\ UNCHANGED <<partition, made, found>>
    BY <1>10 DEF ReadDigest, AtHand, rawZone
  <2>2. /\ partition[s] # NoFile /\ partition[s] \in Raw!Content
        /\ DatedBy(partition[s].bars, s) /\ DatedBy(opened.bars, s)
    BY <1>1, <1>10 DEF ReadDigest, AuditTypeOK, AuditInv, AtHandIsDated, AtHand, PartitionsAreDated
  <2>3. Verdict(s, opened) \in {"ok", "MISMATCH"}
    BY DEF Verdict
  <2>4. Verdict(s, opened) # Verdict(s, partition[s]) =>
          opened # partition[s] /\ (opened.bars = {} \/ partition[s].bars = {})
    BY <2>2, VerdictOnDated
  <2>5. LineIsTrue([session |-> s, verdict |-> Verdict(s, opened), opened |-> opened,
                    digest |-> partition[s]])
    BY <2>2, <2>3, <2>4 DEF LineIsTrue, RederivedWithoutRows
  <2>6. lines' \subseteq Line /\ AuditLinesTrue' /\ LinesSoFar'
    BY <2>1, <2>2, <2>3, <2>5, ReportKeepsLines
  <2>. QED
    BY <1>1, <1>2, <2>1, <2>6 DEF AuditInv, AuditTypeOK, AtHandIsDated, Report
<1>. QED
  BY <1>3, <1>4, <1>5, <1>6, <1>7, <1>8, <1>9, <1>10, LandKeepsInv DEF AuditNext, AuditStep

LEMMA AuditInvariant == AuditSpec => []AuditInv
BY AuditInitially, AuditInductive, PTL DEF AuditSpec

(* A line pairs the verdict on one read with the digest of another. They   *)
(* belong together all the same, whatever is re-derived in between, except *)
(* that a file without rows on one side makes the line untrue.             *)
THEOREM LinesAreTrue == AuditSpec => []AuditLinesTrue
<1>1. AuditInv => AuditLinesTrue
  BY DEF AuditInv
<1>. QED
  BY <1>1, AuditInvariant, PTL

(* Each directory there was when the audit started has one line.           *)
THEOREM AuditsAreComplete == AuditSpec => []AuditIsComplete
<1>1. AuditInv => AuditIsComplete
  BY DEF AuditInv, LinesSoFar, AuditIsComplete
<1>. QED
  BY <1>1, AuditInvariant, PTL
-----------------------------------------------------------------------------
(* Corpus                                                                  *)

(* What a command and the people who edit do to a load and to the tree.    *)
CorpusNext == LoadStart \/ LoadStep \/ ForgetLoad \/ TreeStep
CorpusSpec == CorpusInit /\ [][CorpusNext]_corpusVars

Loading == loadAt \in {"look", "read"}

(* What has been loaded of a path is right, if nobody has touched it.      *)
Right(p) ==
  /\ Indexable(p)
  /\ \E type \in Types : TypeOf(p, type) /\ seen[p] = Document(p, tree[p], type)

SeenAreRight == \A p \in still : p \in DOMAIN seen => Right(p)

(* No glob matched p before the one at hand, and that has it still listed. *)
Ahead(p) ==
  /\ \A m \in 1 .. source - 1 : p \notin Sources[m].matches
  /\ p \in Sources[source].matches => p \in listed

(* What ought to be loaded and is not yet is still to come.                *)
UnseenAreAhead ==
  Loading => \A p \in still : Indexable(p) => p \in DOMAIN seen \/ Ahead(p)

ListedMatch == Loading => source \in DOMAIN Sources /\ listed \subseteq Sources[source].matches

(* The path about to be read was looked at.                                *)
LookedAt ==
  loadAt = "read" => \A p \in listed : NextPath(p) =>
    /\ p \notin DOMAIN seen /\ p \notin Excluded
    /\ p \in still => tree[p] \in Files

CorpusInv ==
  /\ CorpusTypeOK
  /\ loadAt = "idle" => DOMAIN seen = {}
  /\ \A p \in DOMAIN seen : seen[p].doc_id = p
  /\ SeenAreRight /\ UnseenAreAhead /\ ListedMatch /\ LookedAt
  /\ UntouchedAreIndexed /\ UndisturbedLoadSucceeds /\ CorpusIsOrdered

LEMMA SourceFacts ==
  /\ Len(Sources) \in Nat /\ Len(Sources) > 0 /\ DOMAIN Sources = 1 .. Len(Sources)
  /\ \A n \in DOMAIN Sources : Sources[n].matches \subseteq Paths /\ Sources[n].type \in Types
<1>1. Sources \in Seq([matches : SUBSET Paths, type : STRING]) /\ Sources # <<>>
  BY CorpusConstants
<1>2. Len(Sources) \in Nat /\ Len(Sources) > 0 /\ DOMAIN Sources = 1 .. Len(Sources)
  BY <1>1, EmptySeq, LenProperties
<1>3. ASSUME NEW n \in DOMAIN Sources
      PROVE  Sources[n].matches \subseteq Paths /\ Sources[n].type \in Types
  <2>1. Sources[n] \in [matches : SUBSET Paths, type : STRING]
    BY <1>1, <1>2, ElementOfSeq
  <2>. QED
    BY <2>1 DEF Types
<1>. QED
  BY <1>2, <1>3

LEMMA OneNextPath ==
  ASSUME CorpusTypeOK, NEW p \in Paths, NEW q \in Paths, NextPath(p), NextPath(q)
  PROVE  p = q
<1>1. p \in Nat /\ q \in Nat /\ p <= q /\ q <= p
  BY CorpusConstants DEF NextPath
<1>. QED
  BY <1>1

LEMMA CorpusInitially == CorpusInit => CorpusInv
<1>. SUFFICES ASSUME CorpusInit
              PROVE  CorpusInv
  OBVIOUS
<1>1. /\ tree \in [Paths -> Entries] /\ loadAt = "idle" /\ source = 0 /\ listed = {}
      /\ seen = <<>> /\ corpus = <<>> /\ still = {}
  BY DEF CorpusInit, LoadForgotten
<1>2. DOMAIN seen = {} /\ corpus \in Seq(Documents)
  BY <1>1, EmptyFunction, EmptySeq
<1>3. CorpusTypeOK
  BY <1>1, <1>2, SourceFacts DEF CorpusTypeOK
<1>. QED
  BY <1>1, <1>2, <1>3
     DEF CorpusInv, SeenAreRight, UnseenAreAhead, ListedMatch, LookedAt, Loading,
         UntouchedAreIndexed, UndisturbedLoadSucceeds, CorpusIsOrdered
(* A path that is left alone is as right, and as much ahead, as before.    *)
LEMMA EditKeepsInv ==
  ASSUME CorpusInv, NEW p \in Paths, NEW e \in Entries, EditTree(p, e)
  PROVE  CorpusInv'
<1>1. /\ tree' = [tree EXCEPT ![p] = e] /\ still' = still \ {p}
      /\ UNCHANGED <<loadAt, source, listed, seen, corpus>>
  BY DEF EditTree
<1>2. CorpusTypeOK
  BY DEF CorpusInv
<1>3. CorpusTypeOK'
  BY <1>1, <1>2 DEF CorpusTypeOK
<1>4. ASSUME NEW q \in still'
      PROVE  /\ q \in still /\ tree'[q] = tree[q]
             /\ Indexable(q)' <=> Indexable(q)
             /\ Right(q)' <=> Right(q)
             /\ Ahead(q)' <=> Ahead(q)
  <2>1. q \in still /\ q # p /\ q \in Paths
    BY <1>1, <1>2 DEF CorpusTypeOK
  <2>2. tree'[q] = tree[q]
    BY <1>1, <1>2, <2>1 DEF CorpusTypeOK
  <2>. QED
    BY <1>1, <2>1, <2>2 DEF Indexable, Right, Ahead
<1>5. SeenAreRight' /\ UnseenAreAhead' /\ ListedMatch'
  BY <1>1, <1>4 DEF CorpusInv, SeenAreRight, UnseenAreAhead, ListedMatch, Loading
<1>6. LookedAt'
  BY <1>1, <1>4 DEF CorpusInv, LookedAt, NextPath
<1>7. UntouchedAreIndexed'
  <2>. SUFFICES ASSUME loadAt = "loaded", NEW q \in still'
                PROVE  IF Indexable(q)'
                       THEN /\ q \in DOMAIN seen
                            /\ \E type \in Types :
                                 TypeOf(q, type) /\ seen[q] = Document(q, tree'[q], type)
                       ELSE q \notin DOMAIN seen
    BY <1>1 DEF UntouchedAreIndexed
  <2>. QED
    BY <1>4 DEF CorpusInv, UntouchedAreIndexed
<1>8. UndisturbedLoadSucceeds' /\ CorpusIsOrdered'
  <2>1. p \notin still'
    BY <1>1
  <2>2. UndisturbedLoadSucceeds'
    <3>. SUFFICES ASSUME loadAt = "raised"
                  PROVE  \E q \in Paths \ Excluded :
                           /\ \E n \in DOMAIN Sources : q \in Sources[n].matches
                           /\ q \notin still' \/ tree'[q] = Undecodable
      BY <1>1 DEF UndisturbedLoadSucceeds
    <3>1. PICK q \in Paths \ Excluded :
            /\ \E n \in DOMAIN Sources : q \in Sources[n].matches
            /\ q \notin still \/ tree[q] = Undecodable
      BY DEF CorpusInv, UndisturbedLoadSucceeds
    <3>2. q \notin still' \/ tree'[q] = Undecodable
      BY <1>1, <1>2, <2>1, <3>1 DEF CorpusTypeOK
    <3>. QED
      BY <3>1, <3>2
  <2>3. CorpusIsOrdered'
    BY <1>1 DEF CorpusInv, CorpusIsOrdered
  <2>. QED
    BY <2>2, <2>3
<1>. QED
  BY <1>1, <1>3, <1>5, <1>6, <1>7, <1>8 DEF CorpusInv

(* A glob is listed: the files that nobody has touched are among it.       *)
LEMMA ListingKeepsInv ==
  ASSUME CorpusInv, NEW n \in DOMAIN Sources, source' = n, listed' = Glob(n), loadAt' = "look",
         UNCHANGED <<tree, seen, corpus>>, still' \in SUBSET Paths,
         \A p \in still' : p \in DOMAIN seen => Right(p),
         \A p \in still' : Indexable(p) /\ p \notin DOMAIN seen =>
           \A m \in 1 .. n - 1 : p \notin Sources[m].matches
  PROVE  CorpusInv'
<1>1. CorpusTypeOK
  BY DEF CorpusInv
<1>2. listed' \subseteq Sources[n].matches /\ n \in 1 .. Len(Sources)
      /\ Sources[n].matches \subseteq Paths
  BY SourceFacts DEF Glob
<1>3. CorpusTypeOK'
  BY <1>1, <1>2, SourceFacts DEF CorpusTypeOK
<1>4. \A p \in still' : Right(p) => Right(p)'
  BY DEF Right, Indexable
<1>5. \A p \in still' : Indexable(p)' <=> Indexable(p)
  BY DEF Indexable
<1>6. ASSUME NEW p \in still', Indexable(p), p \notin DOMAIN seen
      PROVE  Ahead(p)'
  <2>1. tree[p] # Absent
    BY <1>6, CorpusConstants DEF Indexable
  <2>. QED
    BY <1>6, <2>1 DEF Ahead, Glob
<1>7. SeenAreRight' /\ UnseenAreAhead' /\ ListedMatch' /\ LookedAt'
  BY <1>2, <1>4, <1>5, <1>6 DEF SeenAreRight, UnseenAreAhead, ListedMatch, LookedAt
<1>. QED
  BY <1>3, <1>7 DEF CorpusInv, UntouchedAreIndexed, UndisturbedLoadSucceeds, CorpusIsOrdered

(* A path is passed over, or is about to be read.                          *)
LEMMA LookKeepsInv ==
  ASSUME CorpusInv, NEW p \in Paths, Look(p)
  PROVE  CorpusInv'
<1>1. CorpusTypeOK /\ NextPath(p) /\ loadAt = "look"
      /\ UNCHANGED <<tree, source, seen, corpus, still>>
  BY DEF CorpusInv, Look
<1>2. CASE Passed(p) /\ listed' = listed \ {p} /\ loadAt' = loadAt
  <2>1. \A q \in still : /\ Right(q)' <=> Right(q)
                         /\ Indexable(q)' <=> Indexable(q)
                         /\ Ahead(q) /\ q # p => Ahead(q)'
    BY <1>1, <1>2 DEF Right, Indexable, Ahead
  <2>2. Indexable(p) => p \in DOMAIN seen
    BY <1>2 DEF Passed, Indexable, Files
  <2>3. UnseenAreAhead' /\ SeenAreRight' /\ ListedMatch' /\ LookedAt'
    BY <1>1, <1>2, <2>1, <2>2
       DEF CorpusInv, Loading, UnseenAreAhead, SeenAreRight, ListedMatch, LookedAt
  <2>. QED
    BY <1>1, <1>2, <2>3 DEF CorpusInv, CorpusTypeOK, UntouchedAreIndexed, UndisturbedLoadSucceeds,
                            CorpusIsOrdered
<1>3. CASE ~ Passed(p) /\ loadAt' = "read" /\ listed' = listed
  <2>1. \A q \in still : /\ Right(q)' <=> Right(q)
                         /\ Indexable(q)' <=> Indexable(q)
                         /\ Ahead(q)' <=> Ahead(q)
    BY <1>1, <1>3 DEF Right, Indexable, Ahead
  <2>2. UnseenAreAhead' /\ SeenAreRight' /\ ListedMatch'
    BY <1>1, <1>3, <2>1 DEF CorpusInv, Loading, UnseenAreAhead, SeenAreRight, ListedMatch
  <2>3. LookedAt'
    <3>. SUFFICES ASSUME NEW q \in listed, NextPath(q)
                  PROVE  q \notin DOMAIN seen /\ q \notin Excluded /\ tree[q] \in Files
      BY <1>1, <1>3 DEF LookedAt, NextPath
    <3>1. q = p
      BY <1>1, OneNextPath DEF CorpusTypeOK
    <3>. QED
      BY <1>3, <3>1 DEF Passed
  <2>. QED
    BY <1>1, <1>3, <2>2, <2>3 DEF CorpusInv, CorpusTypeOK, UntouchedAreIndexed,
                                  UndisturbedLoadSucceeds, CorpusIsOrdered
<1>. QED
  BY <1>2, <1>3 DEF Look
(* The path at hand is read: no glob before this one matched it, so its    *)
(* type is the right one.                                                  *)
LEMMA ReadKeepsInv ==
  ASSUME CorpusInv, NEW p \in Paths, ReadText(p)
  PROVE  CorpusInv'
<1>. DEFINE doc == Document(p, tree[p], Sources[source].type)
<1>1. /\ CorpusTypeOK /\ NextPath(p) /\ loadAt = "read" /\ loadAt' = "look" /\ tree[p] \in Texts
      /\ listed' = listed \ {p} /\ UNCHANGED <<tree, source, corpus, still>>
      /\ source \in DOMAIN Sources /\ listed \subseteq Sources[source].matches
      /\ p \in listed /\ p \notin DOMAIN seen /\ p \notin Excluded
  BY DEF CorpusInv, ReadText, ListedMatch, Loading, LookedAt, NextPath
<1>2. /\ DOMAIN seen' = DOMAIN seen \cup {p}
      /\ seen'[p] = doc
      /\ \A q \in DOMAIN seen : seen'[q] = seen[q]
  <2>1. seen' = Filed(seen, p, doc)
    BY DEF ReadText
  <2>. QED
    BY <1>1, <2>1 DEF Filed
<1>3. \A q \in still : Indexable(q)' <=> Indexable(q)
  BY <1>1 DEF Indexable
<1>4. CorpusTypeOK'
  <2>1. doc \in Documents
    BY <1>1, SourceFacts DEF Documents
  <2>. QED
    BY <1>1, <1>2, <2>1 DEF CorpusTypeOK
<1>5. ASSUME NEW q \in still', q \in DOMAIN seen'
      PROVE  Right(q)'
  <2>1. CASE q = p
    <3>1. Indexable(p)
      BY <1>1 DEF Indexable
    <3>2. Ahead(p)
      BY <1>1, <1>5, <2>1, <3>1 DEF CorpusInv, UnseenAreAhead, Loading
    <3>3. TypeOf(p, Sources[source].type) /\ Sources[source].type \in Types
      BY <1>1, <3>2, SourceFacts DEF TypeOf, Ahead
    <3>. QED
      BY <1>1, <1>2, <1>3, <1>5, <2>1, <3>1, <3>3 DEF Right
  <2>2. CASE q # p
    <3>1. Right(q) /\ q \in DOMAIN seen
      BY <1>1, <1>2, <1>5, <2>2 DEF CorpusInv, SeenAreRight
    <3>. QED
      BY <1>1, <1>2, <1>3, <1>5, <3>1 DEF Right
  <2>. QED
    BY <2>1, <2>2
<1>6. \A q \in still : Ahead(q) /\ q # p => Ahead(q)'
  BY <1>1 DEF Ahead
<1>7. UnseenAreAhead' /\ SeenAreRight' /\ ListedMatch' /\ LookedAt'
  BY <1>1, <1>2, <1>3, <1>5, <1>6
     DEF CorpusInv, Loading, UnseenAreAhead, SeenAreRight, ListedMatch, LookedAt
<1>8. \A q \in DOMAIN seen' : seen'[q].doc_id = q
  BY <1>2 DEF CorpusInv, Document
<1>. QED
  BY <1>1, <1>4, <1>7, <1>8
     DEF CorpusInv, UntouchedAreIndexed, UndisturbedLoadSucceeds, CorpusIsOrdered

(* The list that is returned: the documents in the order of their paths.   *)
LEMMA ReturnedInOrder ==
  ASSUME CorpusInv, LoadReturn
  PROVE  corpus' \in Seq(Documents) /\ CorpusIsOrdered'
<1>. DEFINE S == DOMAIN seen
            ids == InOrder(S)
            size == Cardinality(S)
<1>1. S \in SUBSET Nat /\ IsFiniteSet(S) /\ size \in Nat
  <2>1. S \in SUBSET Paths
    BY DEF CorpusInv, CorpusTypeOK
  <2>. QED
    BY <2>1, CorpusConstants, FS_Subset, FS_CardinalityType
<1>2. ids \in [1 .. size -> S] /\ Ascending(ids)
  <2>1. \E s \in [1 .. size -> S] : \A i, j \in DOMAIN s : i < j => s[i] < s[j]
    BY <1>1, AscendingExists DEF Ascending
  <2>. QED
    BY <2>1 DEF InOrder, Ascending
<1>3. {ids[i] : i \in 1 .. size} = S
  BY <1>1, <1>2, AscendingIsOnto
<1>4. corpus' = [i \in 1 .. size |-> seen[ids[i]]] /\ seen' = seen
  BY <1>2 DEF LoadReturn
<1>. HIDE DEF ids, S, size
<1>5. \A p \in S : seen[p] \in Documents /\ seen[p].doc_id = p
  BY DEF CorpusInv, CorpusTypeOK, S
<1>6. \A i \in 1 .. size : ids[i] \in S /\ ids[i] \in Nat
  BY <1>1, <1>2
<1>7. corpus' \in Seq(Documents)
  <2>1. corpus' \in [1 .. size -> Documents]
    BY <1>4, <1>5, <1>6
  <2>. QED
    BY <1>1, <2>1, IsASeq
<1>8. ASSUME NEW i \in 1 .. size, NEW j \in 1 .. size, i < j
      PROVE  corpus'[i].doc_id < corpus'[j].doc_id
  <2>1. ids[i] < ids[j]
    BY <1>2, <1>8 DEF Ascending
  <2>. QED
    BY <1>4, <1>5, <1>6, <2>1
<1>9. {corpus'[i] : i \in DOMAIN corpus'} = {seen'[p] : p \in DOMAIN seen'}
  <2>1. DOMAIN corpus' = 1 .. size /\ \A i \in 1 .. size : corpus'[i] = seen[ids[i]]
    BY <1>4
  <2>2. \A p \in S : \E i \in 1 .. size : ids[i] = p
    BY <1>3
  <2>3. DOMAIN seen' = S /\ \A p \in S : seen'[p] = seen[p]
    BY <1>4 DEF S
  <2>. QED
    BY <1>6, <2>1, <2>2, <2>3
<1>. QED
  BY <1>4, <1>7, <1>8, <1>9 DEF CorpusIsOrdered

LEMMA CorpusInductive == CorpusInv /\ [CorpusNext]_corpusVars => CorpusInv'
<1>. SUFFICES ASSUME CorpusInv, [CorpusNext]_corpusVars
              PROVE  CorpusInv'
  OBVIOUS
<1>1. CorpusTypeOK
  BY DEF CorpusInv
<1>2. CASE LoadStart
  <2>1. /\ source' = 1 /\ listed' = Glob(1) /\ loadAt' = "look" /\ still' = Paths
        /\ UNCHANGED <<tree, seen, corpus>> /\ DOMAIN seen = {} /\ 1 \in DOMAIN Sources
    BY <1>2, SourceFacts DEF LoadStart, CorpusInv
  <2>2. \A m \in 1 .. 1 - 1 : FALSE
    OBVIOUS
  <2>. QED
    BY <2>1, <2>2, ListingKeepsInv
<1>3. CASE NextSource
  <2>. DEFINE n == source + 1
  <2>1. /\ loadAt = "look" /\ loadAt' = "look" /\ listed = {} /\ source < Len(Sources)
        /\ source' = n /\ listed' = Glob(n) /\ UNCHANGED <<tree, seen, corpus, still>>
    BY <1>3 DEF NextSource
  <2>2. n \in DOMAIN Sources /\ source \in 1 .. n - 1 /\ still' \in SUBSET Paths
        /\ \A m \in 1 .. n - 1 : m = source \/ m \in 1 .. source - 1
    BY <1>1, <2>1, SourceFacts DEF CorpusTypeOK, CorpusInv, ListedMatch, Loading
  <2>3. ASSUME NEW p \in still', Indexable(p), p \notin DOMAIN seen
        PROVE  \A m \in 1 .. n - 1 : p \notin Sources[m].matches
    <3>1. Ahead(p)
      BY <2>1, <2>3 DEF CorpusInv, UnseenAreAhead, Loading
    <3>. QED
      BY <2>1, <2>2, <3>1 DEF Ahead
  <2>4. \A p \in still' : p \in DOMAIN seen => Right(p)
    BY <2>1 DEF CorpusInv, SeenAreRight
  <2>. QED
    BY <2>1, <2>2, <2>3, <2>4, ListingKeepsInv
<1>4. CASE LoadReturn
  <2>1. /\ loadAt = "look" /\ loadAt' = "loaded" /\ listed = {} /\ source = Len(Sources)
        /\ UNCHANGED <<tree, source, listed, seen, still>>
    BY <1>4 DEF LoadReturn
  <2>2. CorpusTypeOK' /\ CorpusIsOrdered'
    BY <1>1, <1>4, <2>1, ReturnedInOrder DEF CorpusTypeOK
  <2>3. \A q \in still : /\ Right(q)' <=> Right(q)
                         /\ Indexable(q)' <=> Indexable(q)
    BY <2>1 DEF Right, Indexable
  <2>4. SeenAreRight' /\ UnseenAreAhead' /\ ListedMatch' /\ LookedAt' /\ UndisturbedLoadSucceeds'
    BY <2>1, <2>3 DEF CorpusInv, SeenAreRight, UnseenAreAhead, ListedMatch, LookedAt, Loading,
                      UndisturbedLoadSucceeds
  <2>5. ASSUME NEW p \in still, Indexable(p)
        PROVE  p \in DOMAIN seen
    <3>1. PICK n \in DOMAIN Sources : p \in Sources[n].matches
      BY <2>5 DEF Indexable
    <3>2. n = source \/ n \in 1 .. source - 1
      BY <2>1, SourceFacts
    <3>. QED
      BY <2>1, <2>5, <3>1, <3>2 DEF CorpusInv, UnseenAreAhead, Loading, Ahead
  <2>6. UntouchedAreIndexed'
    <3>. SUFFICES ASSUME NEW p \in still
                  PROVE  IF Indexable(p)
                         THEN /\ p \in DOMAIN seen
                              /\ \E type \in Types :
                                   TypeOf(p, type) /\ seen[p] = Document(p, tree[p], type)
                         ELSE p \notin DOMAIN seen
      BY <2>1, <2>3 DEF UntouchedAreIndexed
    <3>. QED
      BY <2>5 DEF CorpusInv, SeenAreRight, Right
  <2>. QED
    BY <2>1, <2>2, <2>4, <2>6 DEF CorpusInv
<1>5. ASSUME NEW p \in Paths, ReadRaises(p)
      PROVE  CorpusInv'
  <2>1. /\ loadAt = "read" /\ loadAt' = "raised" /\ NextPath(p) /\ tree[p] \notin Texts
        /\ UNCHANGED <<tree, source, listed, seen, corpus, still>>
    BY <1>5 DEF ReadRaises
  <2>2. UndisturbedLoadSucceeds'
    <3>1. p \in listed /\ p \in Sources[source].matches /\ source \in DOMAIN Sources
      BY <2>1 DEF CorpusInv, ListedMatch, Loading, NextPath
    <3>2. p \notin Excluded /\ (p \in still => tree[p] = Undecodable)
      BY <2>1, <3>1 DEF CorpusInv, LookedAt, Files
    <3>. QED
      BY <2>1, <3>1, <3>2 DEF UndisturbedLoadSucceeds
  <2>3. \A q \in still : Right(q)' <=> Right(q)
    BY <2>1 DEF Right, Indexable
  <2>. QED
    BY <1>1, <2>1, <2>2, <2>3
       DEF CorpusInv, CorpusTypeOK, SeenAreRight, UnseenAreAhead, ListedMatch, LookedAt, Loading,
           UntouchedAreIndexed, UndisturbedLoadSucceeds, CorpusIsOrdered
<1>6. CASE ForgetLoad
  <2>1. /\ loadAt' = "idle" /\ source' = 0 /\ listed' = {} /\ seen' = <<>> /\ corpus' = <<>>
        /\ still' = {} /\ tree' = tree
    BY <1>6 DEF ForgetLoad
  <2>2. DOMAIN seen' = {} /\ corpus' \in Seq(Documents)
    BY <2>1, EmptyFunction, EmptySeq
  <2>3. CorpusTypeOK'
    BY <1>1, <2>1, <2>2, SourceFacts DEF CorpusTypeOK
  <2>. QED
    BY <2>1, <2>2, <2>3
       DEF CorpusInv, SeenAreRight, UnseenAreAhead, ListedMatch, LookedAt, Loading,
           UntouchedAreIndexed, UndisturbedLoadSucceeds, CorpusIsOrdered
<1>7. CASE UNCHANGED corpusVars
  <2>1. UNCHANGED <<tree, loadAt, source, listed, seen, corpus, still>>
    BY <1>7 DEF corpusVars, loading
  <2>2. \A q \in still : /\ Right(q)' <=> Right(q)
                         /\ Indexable(q)' <=> Indexable(q)
                         /\ Ahead(q)' <=> Ahead(q)
    BY <2>1 DEF Right, Indexable, Ahead
  <2>3. SeenAreRight' /\ UnseenAreAhead' /\ ListedMatch' /\ UndisturbedLoadSucceeds'
    BY <2>1, <2>2 DEF CorpusInv, SeenAreRight, UnseenAreAhead, ListedMatch, Loading,
                      UndisturbedLoadSucceeds
  <2>4. LookedAt' /\ CorpusIsOrdered'
    BY <2>1 DEF CorpusInv, LookedAt, NextPath, CorpusIsOrdered
  <2>5. UntouchedAreIndexed'
    BY <2>1, <2>2 DEF CorpusInv, UntouchedAreIndexed
  <2>. QED
    BY <1>1, <2>1, <2>3, <2>4, <2>5 DEF CorpusInv, CorpusTypeOK
<1>. QED
  BY <1>2, <1>3, <1>4, <1>5, <1>6, <1>7, EditKeepsInv, LookKeepsInv, ReadKeepsInv
     DEF CorpusNext, LoadStep, TreeStep

LEMMA CorpusInvariant == CorpusSpec => []CorpusInv
BY CorpusInitially, CorpusInductive, PTL DEF CorpusSpec

(* A path that nobody touched while a corpus was loaded is in it exactly   *)
(* when it should be, and as it should be, whatever went on elsewhere.     *)
THEOREM TheUntouchedAreIndexed == CorpusSpec => []UntouchedAreIndexed
<1>1. CorpusInv => UntouchedAreIndexed
  BY DEF CorpusInv
<1>. QED
  BY <1>1, CorpusInvariant, PTL

(* The corpus lists its documents once each, in doc_id order.              *)
THEOREM CorporaAreOrdered == CorpusSpec => []CorpusIsOrdered
<1>1. CorpusInv => CorpusIsOrdered
  BY DEF CorpusInv
<1>. QED
  BY <1>1, CorpusInvariant, PTL

(* Only a path it is to index makes a load fail: one that was touched, or  *)
(* that is not UTF-8.                                                      *)
THEOREM UndisturbedLoadsSucceed == CorpusSpec => []UndisturbedLoadSucceeds
<1>1. CorpusInv => UndisturbedLoadSucceeds
  BY DEF CorpusInv
<1>. QED
  BY <1>1, CorpusInvariant, PTL
=============================================================================
