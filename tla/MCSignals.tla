------------------------------ MODULE MCSignals ------------------------------
(***************************************************************************)
(* Instances of SignalFiles for TLC: two processes, about two events or    *)
(* about the same one.                                                     *)
(***************************************************************************)
EXTENDS SignalFiles, TLC

CONSTANTS w1, w2

MCWriters == {w1, w2}
OwnEvents == w1 :> 1 @@ w2 :> 2
SameEvent == w1 :> 1 @@ w2 :> 1
=============================================================================
