------------------------------ MODULE GoldenSet ------------------------------
(***************************************************************************)
(* load_jsonl (market_ops/evals/dataset.py): a golden set, edited by hand, *)
(* is read line by line. A line is blank, a // comment, something that is  *)
(* no case (bad JSON, a missing or an extra field), or a case, which is    *)
(* its id.                                                                 *)
(***************************************************************************)
EXTENDS Naturals, Sequences, FiniteSets, SequencesExt

CONSTANT CaseIds

NoCase == {"blank", "comment"}

ASSUME CasesAreNamed == CaseIds \cap (NoCase \cup {"invalid"}) = {}

JsonLine == NoCase \cup {"invalid"} \cup CaseIds

(* What the loop carries; error is the line it raised ValueError for, or 0.*)
NothingLoaded == [lineno |-> 0, items |-> <<>>, seen |-> {}, error |-> 0]

(* Mutant of LoadLine: blank and comment lines are not counted.            *)
LoadLineOfCase(sofar, line) ==
  CASE sofar.error # 0 -> sofar
    [] line \in NoCase -> sofar
    [] line = "invalid" \/ line \in sofar.seen ->
         [sofar EXCEPT !.lineno = @ + 1, !.error = sofar.lineno + 1]
    [] OTHER ->
         [sofar EXCEPT !.lineno = @ + 1, !.items = Append(@, line), !.seen = @ \cup {line}]

(* Mutant of LoadLine: what is no case is kept.                            *)
LoadLineUnparsed(sofar, line) ==
  LET here == [sofar EXCEPT !.lineno = @ + 1] IN
  CASE sofar.error # 0 -> sofar
    [] line \in NoCase -> here
    [] line \in sofar.seen -> [here EXCEPT !.error = here.lineno]
    [] OTHER -> [here EXCEPT !.items = Append(@, line), !.seen = @ \cup {line}]

(* One turn of the loop; after an error there are no more.                 *)
LoadLine(sofar, line) ==
  LET here == [sofar EXCEPT !.lineno = @ + 1] IN
  IF sofar.error # 0 THEN sofar
  ELSE IF line \in NoCase THEN here
  ELSE IF line = "invalid" \/ line \in sofar.seen THEN [here EXCEPT !.error = here.lineno]
  ELSE [here EXCEPT !.items = Append(@, line), !.seen = @ \cup {line}]

load_jsonl(file) == FoldLeft(LoadLine, NothingLoaded, file)

-----------------------------------------------------------------------------
(* What the file says, stated apart from the loop.                         *)

(* Lines a person would have to correct.                                   *)
Faulty(file) ==
  {n \in DOMAIN file :
     \/ file[n] = "invalid"
     \/ file[n] \in CaseIds /\ \E m \in 1 .. n - 1 : file[m] = file[n]}

(* Where the cases are, and the place of each among them.                  *)
Cases(file) == {n \in DOMAIN file : file[n] \in CaseIds}
Place(n, file) == Cardinality({m \in Cases(file) : m <= n})
=============================================================================
