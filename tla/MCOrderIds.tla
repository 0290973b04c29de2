----------------------------- MODULE MCOrderIds -----------------------------
(***************************************************************************)
(* OrderIds for TLC: a clock of a few half seconds that may read a time    *)
(* before 1970, and counters that run out after two orders.                *)
(***************************************************************************)
EXTENDS OrderIds

Clock == {-1, 0, 3}
=============================================================================
