-------------------------- MODULE MCOrderDispatch --------------------------
(***************************************************************************)
(* OrderDispatch for TLC: two openings that want different leverages in    *)
(* one symbol, and an exit that only reduces.                              *)
(***************************************************************************)
EXTENDS OrderDispatch

CONSTANTS open1, open2, exit1, s1, x2, x5, none

InOneSymbol == [i \in Ids |-> s1]
Wants == [i \in Ids |-> CASE i = open1 -> x2 [] i = open2 -> x5 [] OTHER -> none]

\* For liveness the whole instance is too large, so it is checked from two starting points:
\* one process of the family minted the openings' ids and lost them before they were logged,
\* and the exit goes through every crash and fault; or the exit's id was lost so, no crash is
\* left, and the two openings compete for the symbol's leverage.
ScenarioSpec ==
  /\ \/ Started({open1, open2}, 0, 0)
     \/ Started({exit1}, MaxCrashes, MaxFaults - 1)
  /\ [][Next]_vars /\ Fairness
=============================================================================
