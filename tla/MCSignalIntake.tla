--------------------------- MODULE MCSignalIntake ---------------------------
(* Two sources of one strategy and one source of another, which the first also reads. *)
EXTENDS SignalIntake

MCSources == {"a1", "a2", "b"}
MCDestinations == {"A", "B"}
MCDestinationOf == [s \in MCSources |-> IF s = "b" THEN "B" ELSE "A"]
MCDependencies == [d \in MCDestinations |-> IF d = "A" THEN {"A", "B"} ELSE {"B"}]
MCMaxSeq == [s \in MCSources |-> IF s = "a1" THEN 2 ELSE 1]
MCSpoilable == {Row("a1", 1)}
MCHeavy == {Row("a1", 2)}
MCLarge == {Row("a2", 1)}
=============================================================================
