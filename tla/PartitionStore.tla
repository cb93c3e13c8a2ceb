--------------------------- MODULE PartitionStore ---------------------------
(***************************************************************************)
(* What the raw zone promises to the readers of ohlcv/dt=D/ohlcv.parquet:  *)
(* each session has no partition or one whole partition; the content only  *)
(* ever changes by one atomic overwrite; and what is put there is dated D  *)
(* and covers the ticker list its writer was asked for, to within the      *)
(* completeness gate.                                                      *)
(*                                                                         *)
(* This is the contract in the docstring of dags/ingest_ohlcv_daily.py     *)
(* (lines 3-18) and the comment on write-then-rename (199-206). The        *)
(* detailed model IngestOhlcvDaily is shown to implement it.               *)
(***************************************************************************)
EXTENDS OhlcvFrame

CONSTANTS
  Sessions,     \* the logical dates D
  TickerLists,  \* the lists the `tickers` Variable may hold
  NoFile        \* a path with nothing there

VARIABLE partition  \* partition[s]: what a reader of dt=s sees

Content == [bars : SUBSET Bar, asked : TickerLists]

(* Mutant of Acceptable: the date gate is gone.                            *)
AcceptableAnyDate(s, c) ==
  /\ c.bars # {} => s \in Sessions
  /\ Covers(c.bars, c.asked)

Acceptable(s, c) ==
  /\ DatedBy(c.bars, s)
  /\ Covers(c.bars, c.asked)

Init == partition = [s \in Sessions |-> NoFile]

(* One overwrite of one session's partition by acceptable content.         *)
Put(s) ==
  /\ partition'[s] \in Content
  /\ Acceptable(s, partition'[s])
  /\ partition' = [partition EXCEPT ![s] = partition'[s]]

Next == \E s \in Sessions : Put(s)

Spec == Init /\ [][Next]_partition
=============================================================================
