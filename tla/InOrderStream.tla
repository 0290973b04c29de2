---------------------------- MODULE InOrderStream ----------------------------
(***************************************************************************)
(* What the signal spool promises: each source's rows are published and    *)
(* accepted one by one, in order, and neither is ever taken back.          *)
(***************************************************************************)
EXTENDS Naturals

CONSTANT Streams

VARIABLES published, accepted

Init == published = [s \in Streams |-> 0] /\ accepted = [s \in Streams |-> 0]

Publish(s) ==
  /\ published' = [published EXCEPT ![s] = @ + 1]
  /\ UNCHANGED accepted

Accept(s) ==
  /\ accepted[s] < published[s]
  /\ accepted' = [accepted EXCEPT ![s] = @ + 1]
  /\ UNCHANGED published

Next == \E s \in Streams : Publish(s) \/ Accept(s)

Spec == Init /\ [][Next]_<<published, accepted>>
=============================================================================
