----------------------------- MODULE SignalStore -----------------------------
(***************************************************************************)
(* What the directory of signal files promises the agent that polls it:    *)
(* per event no signal or one, which is only ever overwritten whole, by a  *)
(* signal of the same event that is no older (module docstring of          *)
(* market_ops/alerts/signals_io.py, lines 3-6, and lines 17-21).           *)
(***************************************************************************)
EXTENDS Naturals

CONSTANTS
  Ids,       \* signal ids: one per event, ordered as strings are
  MaxClock   \* bound on the time

Signal == [id : Ids, at : 1 .. MaxClock]

VARIABLE signals  \* signals[i]: {} or the one signal of event i

Init == signals = [i \in Ids |-> {}]

Publish(s) ==
  /\ \A old \in signals[s.id] : old.at <= s.at
  /\ signals' = [signals EXCEPT ![s.id] = {s}]

Next == \E s \in Signal : Publish(s)

Spec == Init /\ [][Next]_signals
=============================================================================
