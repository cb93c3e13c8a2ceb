----------------------------- MODULE MCWarehouse -----------------------------
(***************************************************************************)
(* Instances of Warehouse for TLC: two tickers, a session far behind and   *)
(* two neighbours, a lookback of one day. Partitions land in any order and *)
(* are landed again.                                                       *)
(***************************************************************************)
EXTENDS Warehouse

MCTickers == {"A", "B"}
MCLists == {<<"A", "B">>, <<"A">>}
MCSeedLists == {{"A", "B"}, {"A"}}
SteadySeed == {{"A", "B"}}

Clean(t, s) == [ticker |-> t, date |-> s, close |-> "price", copy |-> 1]

(* What lands for a session: both tickers, one after the list was cut, a   *)
(* null close, a duplicated row.                                           *)
Both(s) == [bars |-> {Clean("A", s), Clean("B", s)}, asked |-> <<"A", "B">>]
OnlyA(s) == [bars |-> {Clean("A", s)}, asked |-> <<"A">>]
NullA(s) == [bars |-> {[Clean("A", s) EXCEPT !.close = "null"]}, asked |-> <<"A">>]
TwiceA(s) ==
  [bars |-> {Clean("A", s), [Clean("A", s) EXCEPT !.copy = 2]}, asked |-> <<"A">>]

AnyDelivery == [s \in Sessions |->
  CASE s = 1 -> {Both(s)}
    [] s = 3 -> {Both(s), OnlyA(s), TwiceA(s)}
    [] OTHER -> {Both(s), NullA(s)}]
=============================================================================
