----------------------------- MODULE MCVenueTask -----------------------------
(* An opening and a cancel of it, and amends of two older orders that can
   fill the ready set while the opening waits in its mailbox.  The second amend
   opens no exposure and carries no permission. *)
EXTENDS VenueTask

MCCommands == {"open1", "amend2", "amend3", "cancel1"}
MCKind == [c \in MCCommands |->
  CASE c = "open1" -> "send" [] c \in {"amend2", "amend3"} -> "amend" [] c = "cancel1" -> "cancel"]
MCClass == [c \in MCCommands |->
  CASE MCKind[c] = "send" -> 3 [] MCKind[c] = "amend" -> 2 [] OTHER -> 1]
MCShape == MCKind
MCOrders == [c \in MCCommands |->
  CASE c = "amend2" -> {"o2"} [] c = "amend3" -> {"o3"} [] OTHER -> {"o1"}]
MCAuthorised == {"open1", "amend2"}
==============================================================================
