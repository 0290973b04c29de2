----------------------------- MODULE DurableLog -----------------------------
(***************************************************************************)
(* What the engine assumes of its write-ahead log, whatever files it lives *)
(* in: an append-only sequence of records, a settled prefix that barriers  *)
(* have confirmed, and crashes that may lose a suffix but nothing settled. *)
(* Rotation, buffering, segment files and the durability thread are below  *)
(* this level; module Wal is shown to implement it.                        *)
(***************************************************************************)
EXTENDS Integers, Sequences

CONSTANT Record

VARIABLES log,      \* every record appended and not lost by a crash
          settled,  \* how many of them a completed barrier covers
          mode      \* "open", "down" (no process) or "refused" (open failed)

logVars == <<log, settled, mode>>

LogTypeOK == /\ log \in Seq(Record)
             /\ settled \in 0..Len(log)
             /\ mode \in {"open", "down", "refused"}

LogInit == /\ log = << >>
           /\ settled = 0
           /\ mode = "open"

\* The single writer adds one record.
LogAppend(r) == /\ mode = "open"
                /\ log' = Append(log, r)
                /\ UNCHANGED <<settled, mode>>

\* A barrier completes for every record that was appended when it began.
LogSettle(n) == /\ mode = "open"
                /\ n \in settled..Len(log)
                /\ settled' = n
                /\ UNCHANGED <<log, mode>>

\* The process or the machine stops; an unsettled suffix may be gone.
LogCrash(n) == /\ mode = "open"
               /\ n \in settled..Len(log)
               /\ log' = SubSeq(log, 1, n)
               /\ mode' = "down"
               /\ UNCHANGED settled

\* More of the unsettled suffix may disappear while nothing is running.
LogDecay(n) == /\ mode # "open"
               /\ n \in settled..Len(log)
               /\ log' = SubSeq(log, 1, n)
               /\ UNCHANGED <<settled, mode>>

\* The next process opens the log, or refuses to.
LogOpen == /\ mode = "down"
           /\ mode' \in {"open", "refused"}
           /\ UNCHANGED <<log, settled>>

LogNext == \/ \E r \in Record : LogAppend(r)
           \/ \E n \in 0..Len(log) : LogSettle(n) \/ LogCrash(n) \/ LogDecay(n)
           \/ LogOpen

LogSpec == LogInit /\ [][LogNext]_logVars
=============================================================================
