------------------------------ MODULE MCIngest ------------------------------
(***************************************************************************)
(* Instances of IngestOhlcvDaily for TLC. Dates are small numbers; with    *)
(* MaxMissingPct = 50 in place of 20, a missing ticker out of three        *)
(* entries passes the gate and one out of two is refused at its boundary,  *)
(* with three tickers instead of six.                                      *)
(***************************************************************************)
EXTENDS IngestOhlcvDaily

MCTickers == {"A", "B", "C"}

ListABC == <<"A", "B", "C">>
ListAB == <<"A", "B">>
(* A list whose entries repeat: one missing ticker is a third of it.       *)
ListRepeated == <<"A", "A", "A">>

Clean(ticker, date) ==
  [ticker |-> ticker, date |-> date, close |-> "price", copy |-> 1]
Frame(ts, date) == {Clean(t, date) : t \in ts}
Answer(bars) == [size |-> MinMarketRows, bars |-> bars]

(* What can come back for session s: a market holiday, a truncated answer, *)
(* a full one, one and two missing tickers, a row of the day before, a     *)
(* duplicated row, a null close.                                           *)
Good(s) == Answer(Frame(MCTickers, s))
Bad(s) ==
  { [size |-> 0, bars |-> {}],
    [size |-> MinMarketRows - 1, bars |-> Frame(MCTickers, s)],
    Answer(Frame({"B", "C"}, s)),
    Answer(Frame({"B"}, s)),
    Answer(Frame({"A", "C"}, s) \cup {Clean("B", s - 1)}),
    Answer(Frame(MCTickers, s) \cup {[Clean("A", s) EXCEPT !.copy = 2]}),
    Answer(Frame({"A", "C"}, s) \cup {[Clean("B", s) EXCEPT !.close = "null"]}) }

AnyAnswer == [s \in Sessions |-> {Good(s)} \cup Bad(s)]
FewAnswers ==
  [s \in Sessions |->
     {Good(s), [size |-> 0, bars |-> {}], Answer(Frame({"B", "C"}, s))}]
SteadyAnswer == [s \in Sessions |-> {Good(s)}]

(* Two runs of session 1 (a backfill and a manual run, say).               *)
TwoRuns == {"r1", "r2"}
SharedSession == [r \in TwoRuns |-> 1]
(* Two runs of neighbouring sessions.                                      *)
OwnSessions == [r \in TwoRuns |-> IF r = "r1" THEN 1 ELSE 2]

(* Whose fetch the operator may clear, once.                               *)
ClearNone == [r \in TwoRuns |-> 0]
ClearFirst == [r \in TwoRuns |-> IF r = "r1" THEN 1 ELSE 0]
ClearEither == [r \in TwoRuns |-> 1]

AnyList == {<<>>, ListAB, ListRepeated}
OneList == {<<>>, ListABC}
=============================================================================
