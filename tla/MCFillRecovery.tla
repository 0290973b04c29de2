--------------------------- MODULE MCFillRecovery ---------------------------
(* A buying opening of two units and, where Orders has it, a selling one of  *)
(* one unit.                                                                 *)
EXTENDS FillRecovery

CONSTANTS buy, sell

MCQty == [o \in Orders |-> IF o = buy THEN 2 ELSE 1]
MCSide == [o \in Orders |-> IF o = sell THEN -1 ELSE 1]
=============================================================================
