------------------------------- MODULE Corpus -------------------------------
(***************************************************************************)
(* load_corpus and build_retriever (market_ops/retrieval/corpus.py and     *)
(* service.py): the documents the agent and the retrieval eval search,     *)
(* read from the working tree while somebody edits it.                     *)
(*                                                                         *)
(* A document is numbered by the place of its path in sort order. The      *)
(* sources are globs, listed one after the other; each listing is a        *)
(* snapshot, and the files of it are looked at and read one by one.        *)
(***************************************************************************)
EXTENDS Naturals, Sequences, FiniteSets

CONSTANTS
  Paths,     \* paths of the tree, numbered in sort order
  Sources,   \* the globs: a sequence of [matches |-> paths, type |-> type]
  Excluded,  \* paths that are never indexed
  Texts,     \* what a file may hold
  Undecodable, \* a file whose bytes are not UTF-8
  Stripped,  \* Stripped[t]: t without its YAML front matter
  Heading,   \* Heading[t]: the first "# " heading of t, or NoHeading
  NoHeading,
  Stem,      \* Stem[p]: the file name of path p, without .md
  Directory, \* a directory at a path
  Absent     \* a path with nothing there

ASSUME CorpusConstants ==
  /\ Paths \subseteq Nat /\ IsFiniteSet(Paths)
  /\ Sources \in Seq([matches : SUBSET Paths, type : STRING]) /\ Sources # <<>>
  /\ Excluded \subseteq Paths
  /\ Stripped \in [Texts -> Texts]
  /\ Undecodable \notin Texts
  /\ Absent # Directory /\ {Absent, Directory} \cap (Texts \cup {Undecodable}) = {}

VARIABLES
  tree,      \* the working tree
  loadAt,    \* the line load_corpus has reached, or how it ended
  source,    \* the glob it is at
  listed,    \* paths of that glob it has not looked at yet
  seen,      \* the documents it has, by doc_id
  corpus,    \* what it returned
  still      \* history: paths nobody has touched since it began

loading == <<loadAt, source, listed, seen, corpus, still>>
corpusVars == <<tree, loading>>

Files == Texts \cup {Undecodable}
Entries == Files \cup {Directory, Absent}

Types == {Sources[n].type : n \in DOMAIN Sources}

Document(p, text, type) ==
  [doc_id |-> p,
   title |-> IF Heading[Stripped[text]] = NoHeading THEN Stem[p] ELSE Heading[Stripped[text]],
   text |-> Stripped[text],
   source_type |-> type]

Documents == {Document(p, t, type) : p \in Paths, t \in Texts, type \in Types}

CorpusTypeOK ==
  /\ tree \in [Paths -> Entries]
  /\ loadAt \in {"idle", "look", "read", "raised", "loaded"}
  /\ source \in 0 .. Len(Sources)
  /\ listed \subseteq Paths
  /\ DOMAIN seen \subseteq Paths /\ \A p \in DOMAIN seen : seen[p] \in Documents
  /\ corpus \in Seq(Documents)
  /\ still \subseteq Paths

(* No load is under way: what is left of the last one is forgotten.        *)
LoadForgotten ==
  /\ loadAt = "idle"
  /\ source = 0
  /\ listed = {}
  /\ seen = <<>>
  /\ corpus = <<>>
  /\ still = {}

ForgetLoad ==
  /\ loadAt' = "idle"
  /\ source' = 0
  /\ listed' = {}
  /\ seen' = <<>>
  /\ corpus' = <<>>
  /\ still' = {}
  /\ UNCHANGED tree

CorpusInit == tree \in [Paths -> Entries] /\ LoadForgotten

(* Somebody creates, edits or removes a path.                              *)
EditTree(p, e) ==
  /\ e # tree[p]
  /\ tree' = [tree EXCEPT ![p] = e]
  /\ still' = still \ {p}
  /\ UNCHANGED <<loadAt, source, listed, seen, corpus>>

-----------------------------------------------------------------------------
(* load_corpus                                                             *)

(* root.glob(pattern): files and directories alike.                        *)
Glob(n) == {p \in Sources[n].matches : tree[p] # Absent}

LoadStart ==
  /\ loadAt = "idle"
  /\ loadAt' = "look"
  /\ source' = 1
  /\ listed' = Glob(1)
  /\ still' = Paths
  /\ UNCHANGED <<tree, seen, corpus>>

(* The next path in order: sorted(root.glob(pattern)).                     *)
NextPath(p) == p \in listed /\ \A q \in listed : p <= q

(* Mutant of Passed: EXCLUDED is not looked up.                            *)
PassedUnlessExcluded(p) == p \in DOMAIN seen \/ tree[p] \notin Files

(* Mutant of Passed: a directory is not passed over.                       *)
PassedUnlessKnown(p) == p \in DOMAIN seen \/ p \in Excluded

(* doc_id in seen or doc_id in EXCLUDED or not path.is_file()              *)
Passed(p) == p \in DOMAIN seen \/ p \in Excluded \/ tree[p] \notin Files

Look(p) ==
  /\ loadAt = "look" /\ NextPath(p)
  /\ \/ Passed(p) /\ listed' = listed \ {p} /\ UNCHANGED loadAt
     \/ ~ Passed(p) /\ loadAt' = "read" /\ UNCHANGED listed
  /\ UNCHANGED <<tree, source, seen, corpus, still>>

(* seen[doc_id] = doc                                                      *)
Filed(docs, p, doc) == [q \in DOMAIN docs \cup {p} |-> IF q = p THEN doc ELSE docs[q]]

(* Mutant of ReadText: the text is filed under its title.                  *)
ReadTextByTitle(p) ==
  /\ loadAt = "read" /\ NextPath(p)
  /\ tree[p] \in Texts
  /\ seen' = Filed([q \in {r \in DOMAIN seen : seen[r].text # Stripped[tree[p]]} |-> seen[q]],
                   p, Document(p, tree[p], Sources[source].type))
  /\ loadAt' = "look"
  /\ listed' = listed \ {p}
  /\ UNCHANGED <<tree, source, corpus, still>>

(* path.read_text(encoding="utf-8"), the front matter stripped, the title  *)
(* found.                                                                  *)
ReadText(p) ==
  /\ loadAt = "read" /\ NextPath(p)
  /\ tree[p] \in Texts
  /\ seen' = Filed(seen, p, Document(p, tree[p], Sources[source].type))
  /\ loadAt' = "look"
  /\ listed' = listed \ {p}
  /\ UNCHANGED <<tree, source, corpus, still>>

(* Mutant of ReadRaises: the glob is listed anew.                          *)
ReadRaisesNot(p) ==
  /\ loadAt = "read" /\ NextPath(p)
  /\ tree[p] \notin Texts
  /\ loadAt' = "look"
  /\ listed' = Glob(source)
  /\ UNCHANGED <<tree, source, seen, corpus, still>>

(* The file went away after is_file(), or does not decode: the read raises,*)
(* for the whole load.                                                     *)
ReadRaises(p) ==
  /\ loadAt = "read" /\ NextPath(p)
  /\ tree[p] \notin Texts
  /\ loadAt' = "raised"
  /\ UNCHANGED <<tree, source, listed, seen, corpus, still>>

NextSource ==
  /\ loadAt = "look" /\ listed = {}
  /\ source < Len(Sources)
  /\ source' = source + 1
  /\ listed' = Glob(source + 1)
  /\ UNCHANGED <<tree, loadAt, seen, corpus, still>>

(* Mutant of InOrder: the order in which the globs gave them.              *)
BySource(ids) ==
  CHOOSE s \in [1 .. Cardinality(ids) -> ids] :
    \A i, j \in DOMAIN s : i < j =>
      /\ s[i] # s[j]
      /\ \A n \in DOMAIN Sources : s[j] \in Sources[n].matches =>
           \E m \in 1 .. n : s[i] \in Sources[m].matches

(* sorted(seen)                                                            *)
InOrder(ids) ==
  CHOOSE s \in [1 .. Cardinality(ids) -> ids] :
    \A i, j \in DOMAIN s : i < j => s[i] < s[j]

LoadReturn ==
  /\ loadAt = "look" /\ listed = {}
  /\ source = Len(Sources)
  /\ loadAt' = "loaded"
  /\ LET ids == InOrder(DOMAIN seen) IN
       corpus' = [i \in DOMAIN ids |-> seen[ids[i]]]
  /\ UNCHANGED <<tree, source, listed, seen, still>>

LoadStep ==
  \/ NextSource \/ LoadReturn
  \/ \E p \in Paths : Look(p) \/ ReadText(p) \/ ReadRaises(p)

TreeStep == \E p \in Paths, e \in Entries : EditTree(p, e)

-----------------------------------------------------------------------------
(* The type of a path is that of the first glob that matches it.           *)
TypeOf(p, type) ==
  \E n \in DOMAIN Sources :
    /\ Sources[n].type = type /\ p \in Sources[n].matches
    /\ \A m \in 1 .. n - 1 : p \notin Sources[m].matches

Indexable(p) ==
  /\ tree[p] \in Texts
  /\ p \notin Excluded
  /\ \E n \in DOMAIN Sources : p \in Sources[n].matches

(* Whatever comes, goes and changes beside it while a corpus is loaded, a  *)
(* path that nobody touched is in it exactly when it is a file that a glob *)
(* matches and that is not excluded, with its text, its title and the type *)
(* of the first glob (corpus.py:16-29 and 45-60). What the agent may cite  *)
(* does not depend on edits elsewhere in the tree.                         *)
UntouchedAreIndexed ==
  loadAt = "loaded" =>
    \A p \in still :
      IF Indexable(p)
      THEN /\ p \in DOMAIN seen
           /\ \E type \in Types : TypeOf(p, type) /\ seen[p] = Document(p, tree[p], type)
      ELSE p \notin DOMAIN seen

(* The list holds each document once, in doc_id order, whatever order the  *)
(* globs gave: "sorted by doc_id for determinism" (corpus.py:39 and 60),   *)
(* which is what keeps chunk ids the same from one index to the next.      *)
CorpusIsOrdered ==
  loadAt = "loaded" =>
    /\ \A i, j \in DOMAIN corpus : i < j => corpus[i].doc_id < corpus[j].doc_id
    /\ {corpus[i] : i \in DOMAIN corpus} = {seen[p] : p \in DOMAIN seen}

(* A load fails only over a file it is to index: one that somebody has     *)
(* touched since the load began, or one that is not UTF-8. No edit of      *)
(* another path, no directory that looks like a document and no excluded   *)
(* file makes it fail (corpus.py:50-52, and 26).                           *)
UndisturbedLoadSucceeds ==
  loadAt = "raised" =>
    \E p \in Paths \ Excluded :
      /\ \E n \in DOMAIN Sources : p \in Sources[n].matches
      /\ p \notin still \/ tree[p] = Undecodable
=============================================================================
