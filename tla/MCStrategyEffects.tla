------------------------- MODULE MCStrategyEffects -------------------------
(***************************************************************************)
(* StrategyEffects for TLC: a strategy with two observations and a market  *)
(* callback, and a second one that the first sends an event.               *)
(***************************************************************************)
EXTENDS StrategyEffects

A(kind, sym, input) == [kind |-> kind, sym |-> sym, input |-> input]

Owners == [sig1 |-> "A", sig2 |-> "A", quote |-> "A", event |-> "B"]
Actions ==
  [sig1 |-> <<A("place", "x", ""), A("publish", "", "event"), A("consume", "", "sig1")>>,
   sig2 |-> <<A("state", "", ""), A("amend", "x", ""), A("consume", "", "sig2")>>,
   quote |-> <<A("cancel", "x", "")>>,
   event |-> <<A("place", "y", ""), A("consume", "", "event")>>]
=============================================================================
