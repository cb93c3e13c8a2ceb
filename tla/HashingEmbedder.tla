--------------------------- MODULE HashingEmbedder ---------------------------
(***************************************************************************)
(* The matrix of a DenseIndex over a HashingEmbedder (market_ops/retrieval/*)
(* dense.py): each word adds +1 or -1 to the one entry of its row that its *)
(* hash picks, then the row is divided by its length. Chunks are embedded  *)
(* together when the index is built, a query alone when it is searched, so *)
(* a row may depend on nothing but its own text.                           *)
(*                                                                         *)
(* A text is the sequence of its words, in lower case. A row is its sums   *)
(* and the square of what they are divided by; rounding is left out.       *)
(***************************************************************************)
EXTENDS Integers, Sequences, FiniteSets, FiniteSetsExt

CONSTANTS
  Words,
  Dim,        \* entries of a row
  Hash,       \* Hash[w]: [entry |-> h % dim, sign |-> what its top bit picks]
  ChunkLists  \* what an index may be built over

ASSUME EmbedderConstants ==
  /\ Dim \in Nat \ {0}
  /\ Hash \in [Words -> [entry : 1 .. Dim, sign : {1, -1}]]
  /\ ChunkLists \subseteq Seq(Seq(Words)) /\ <<>> \in ChunkLists

VARIABLES
  chunks,   \* the texts of the index
  row,      \* the row at hand; past the last one when the index is built
  wordsIn,  \* how many words of that row have been added
  matrix    \* the rows

indexVars == <<chunks, row, wordsIn, matrix>>

Row == [sums : [1 .. Dim -> Int], dividedBy : Nat]
Zeros == [sums |-> [d \in 1 .. Dim |-> 0], dividedBy |-> 1]

IndexTypeOK ==
  /\ chunks \in ChunkLists
  /\ row \in 1 .. Len(chunks) + 1
  /\ row <= Len(chunks) => wordsIn \in 0 .. Len(chunks[row])
  /\ matrix \in Seq(Row) /\ Len(matrix) = Len(chunks)

Built == row > Len(chunks)

IndexInit == chunks = <<>> /\ row = 1 /\ wordsIn = 0 /\ matrix = <<>>

(* Mutant of DenseIndex: rows of the last index are written over.          *)
DenseIndexReusing(texts) ==
  /\ Built
  /\ chunks' = texts
  /\ row' = 1 /\ wordsIn' = 0
  /\ matrix' = [r \in DOMAIN texts |-> IF r \in DOMAIN matrix THEN matrix[r] ELSE Zeros]

(* DenseIndex(chunks, embedder): embed begins, with np.zeros. An index of  *)
(* no chunks does not embed at all: it is built at once.                   *)
DenseIndex(texts) ==
  /\ Built
  /\ chunks' = texts
  /\ row' = 1 /\ wordsIn' = 0
  /\ matrix' = [r \in DOMAIN texts |-> Zeros]

NextWord == wordsIn < Len(chunks[row])

AddWord ==
  /\ ~ Built /\ NextWord
  /\ LET h == Hash[chunks[row][wordsIn + 1]] IN
       matrix' = [matrix EXCEPT ![row].sums[h.entry] = @ + h.sign]
  /\ wordsIn' = wordsIn + 1
  /\ UNCHANGED <<chunks, row>>

(* np.linalg.norm(out[row]), squared.                                      *)
Norm(sums) == MapThenSumSet(LAMBDA d : sums[d] * sums[d], 1 .. Dim)

(* Mutant of Normalize: a zero row is divided as well.                     *)
NormalizeZero ==
  /\ ~ Built /\ ~ NextWord
  /\ matrix' = [matrix EXCEPT ![row].dividedBy = Norm(matrix[row].sums)]
  /\ row' = row + 1 /\ wordsIn' = 0
  /\ UNCHANGED chunks

(* out[row] /= norm, unless it is zero; on to the next text.               *)
Normalize ==
  /\ ~ Built /\ ~ NextWord
  /\ LET norm == Norm(matrix[row].sums) IN
       matrix' = IF norm > 0 THEN [matrix EXCEPT ![row].dividedBy = norm] ELSE matrix
  /\ row' = row + 1 /\ wordsIn' = 0
  /\ UNCHANGED chunks

Embed == AddWord \/ Normalize

IndexNext == Embed \/ \E texts \in ChunkLists : DenseIndex(texts)

IndexSpec == IndexInit /\ [][IndexNext]_indexVars

-----------------------------------------------------------------------------
(* What a text adds up to in entry d, stated apart from the loop.          *)
Balance(text, d) ==
  LET Of(sign) == {i \in DOMAIN text : Hash[text[i]] = [entry |-> d, sign |-> sign]} IN
  Cardinality(Of(1)) - Cardinality(Of(-1))

(* A finished row is about its own text only: not about the order of its   *)
(* words, nor the texts before and after it, nor the index built before.   *)
(* This is what makes a query, embedded alone, comparable with the chunks  *)
(* ("no hidden state", tests/retrieval/test_dense.py:16).                  *)
RowsStandAlone ==
  \A r \in 1 .. row - 1 : \A d \in 1 .. Dim : matrix[r].sums[d] = Balance(chunks[r], d)

(* A finished row has length one, so that a dot product is a cosine        *)
(* (dense.py:100), or it is zero and nothing was divided by: it has no     *)
(* words, or words that cancel one another (dense.py:56-62).               *)
RowsAreUnitOrZero ==
  \A r \in 1 .. row - 1 :
    IF \A d \in 1 .. Dim : Balance(chunks[r], d) = 0
    THEN matrix[r] = Zeros
    ELSE matrix[r].dividedBy = Norm(matrix[r].sums) /\ matrix[r].dividedBy > 0
=============================================================================
