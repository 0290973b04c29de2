------------------------- MODULE DispatchStepProofs -------------------------
(***************************************************************************)
(* Facts about the operators OrderDispatch is built from, for any log:     *)
(* what a handler appends, what settling and attempting an order do to     *)
(* replay, which parts of the invariant a quiet step keeps.  Then the      *)
(* initial state and the steps of the engine's own handlers preserve the   *)
(* inductive invariant.                                                    *)
(***************************************************************************)
EXTENDS OrderDispatch, TLAPS

Settling == {"ack", "end", "skip"}
Closing == {"completed", "skip"}
WellFormed(s) == s.d # "invalid" /\ (s.l = "none" => s.d = "none")
In(o, i) == \E k \in 1..Len(o) : o[k] = i
Lists(o, S) == \A i \in Ids : In(o, i) <=> i \in S
Accepted(log) == \A k \in 1..Len(log), i \in Ids : WellFormed(log[k][i])
EndsIn(log, m) == \A i \in Ids : Final(log)[i] = m[i]
AllQueued(m, S) == \A i \in S : m[i].d = "Queued"

-----------------------------------------------------------------------------
(* Replay of one record, and of the records a handler appends. *)

\* Replaying a record of an order gives a state of an order.
LEMMA ReplayType ==
  ASSUME NEW s \in OrderState, NEW r
  PROVE  Replay(s, r) \in OrderState
BY Zenon DEF Replay, ReplayPhase, ReplayRow, OrderState, Phases, Rows

\* An update and a completion keep an order covered and its state acceptable,
\* provided the update, or an earlier one, has given the ledger an outcome.
LEMMA SettlingKeeps ==
  ASSUME NEW s \in OrderState, NEW a \in Settling, NEW b \in Closing,
         a = "skip" => s.l = "done"
  PROVE  /\ Covered(s) => Covered(Replay(s, a)) /\ Covered(Replay(Replay(s, a), b))
         /\ WellFormed(s) => WellFormed(Replay(s, a)) /\ WellFormed(Replay(Replay(s, a), b))
BY DEF Settling, Closing, Replay, ReplayPhase, ReplayRow, OrderState, Phases, Rows, Covered, WellFormed

\* An ordering of a batch is a sequence that has exactly its ids.
LEMMA OrderingFacts ==
  ASSUME NEW S \in SUBSET Ids, NEW o \in Orderings(S)
  PROVE  o \in Seq(Ids) /\ Lists(o, S)
<1>1. PICK n \in 0..MaxBatch : o \in [1..n -> S]
  BY DEF Orderings
<1>2. n \in Nat
  BY DispatchAssumption, <1>1 DEF DispatchAssumption
<1>3. o \in Seq(S) /\ Len(o) = n
  BY <1>1, <1>2
<1>4. \A i \in S : \E k \in DOMAIN o : o[k] = i
  BY DEF Orderings
<1>5. QED
  BY <1>1, <1>2, <1>3, <1>4 DEF In, Lists

\* The places of a concatenation.
LEMMA ConcatFacts ==
  ASSUME NEW T, NEW s \in Seq(T), NEW t \in Seq(T)
  PROVE  /\ s \o t \in Seq(T) /\ Len(s \o t) = Len(s) + Len(t)
         /\ \A k \in 1..Len(s) : (s \o t)[k] = s[k]
         /\ \A k \in (Len(s) + 1)..Len(s \o t) :
              k - Len(s) \in 1..Len(t) /\ (s \o t)[k] = t[k - Len(s)]
OBVIOUS

\* What a log is after one record for each order of o has been appended.
Recorded(log, o, r, new) ==
  /\ new \in Seq(States) /\ Len(new) = Len(log) + Len(o)
  /\ \A k \in 1..Len(log) : new[k] = log[k]
  /\ \A k \in (Len(log) + 1)..Len(new), i \in Ids :
       \/ new[k][i] = Final(log)[i]
       \/ In(o, i) /\ new[k][i] = Replay(Final(log)[i], r)
  /\ \A i \in Ids : Final(new)[i] = IF In(o, i) THEN Replay(Final(log)[i], r) ELSE Final(log)[i]

\* Logs appends one replay state per id, and ends with all of them applied.
LEMMA LogsFacts ==
  ASSUME NEW log \in Seq(States), Len(log) >= 1, NEW o \in Seq(Ids), NEW r
  PROVE  Recorded(log, o, r, Logs(log, o, r))
<1> DEFINE tail == [n \in 1..Len(o) |->
                     [i \in Ids |-> IF \E k \in 1..n : o[k] = i THEN Replay(Final(log)[i], r)
                                    ELSE Final(log)[i]]]
           new == Logs(log, o, r)
<1>1. Final(log) \in States
  BY DEF Final
<1>2. \A i \in Ids : Final(log)[i] \in OrderState /\ Replay(Final(log)[i], r) \in OrderState
  BY <1>1, ReplayType DEF States
<1>3. \A n \in 1..Len(o) : tail[n] \in States
  BY <1>2 DEF States
<1>4. tail \in Seq(States) /\ Len(tail) = Len(o)
  BY <1>3
<1>5. new = log \o tail
  BY DEF Logs
<1> HIDE DEF new, tail
<1>6. new \in Seq(States) /\ Len(new) = Len(log) + Len(o)
  <2>1. log \o tail \in Seq(States) /\ Len(log \o tail) = Len(log) + Len(tail)
    BY <1>4, ConcatFacts, Zenon
  <2>2. QED
    BY <2>1, <1>4, <1>5
<1>7. \A k \in 1..Len(log) : new[k] = log[k]
  BY <1>4, <1>5, ConcatFacts
<1>8. \A k \in (Len(log) + 1)..Len(new) : k - Len(log) \in 1..Len(o) /\ new[k] = tail[k - Len(log)]
  BY <1>4, <1>5, ConcatFacts
<1>9. ASSUME NEW k \in (Len(log) + 1)..Len(new), NEW i \in Ids
      PROVE  \/ new[k][i] = Final(log)[i]
             \/ In(o, i) /\ new[k][i] = Replay(Final(log)[i], r)
  <2>1. k - Len(log) \in 1..Len(o) /\ new[k] = tail[k - Len(log)]
    BY <1>8
  <2>2. new[k][i] = IF \E j \in 1..(k - Len(log)) : o[j] = i THEN Replay(Final(log)[i], r)
                    ELSE Final(log)[i]
    BY <2>1 DEF tail
  <2>3. (\E j \in 1..(k - Len(log)) : o[j] = i) => In(o, i)
    BY <2>1 DEF In
  <2>4. QED
    BY <2>2, <2>3
<1>10. ASSUME NEW i \in Ids
       PROVE  Final(new)[i] = IF In(o, i) THEN Replay(Final(log)[i], r) ELSE Final(log)[i]
  <2>1. CASE Len(o) = 0
    BY <2>1, <1>6, <1>7 DEF In, Final
  <2>2. CASE Len(o) > 0
    <3>1. Len(new) \in (Len(log) + 1)..Len(new) /\ Len(new) - Len(log) = Len(o)
      BY <2>2, <1>6
    <3>2. Final(new) = tail[Len(o)]
      BY <3>1, <1>8, Zenon DEF Final
    <3>3. QED
      BY <3>2, <2>2 DEF In, tail
  <2>3. QED
    BY <2>1, <2>2
<1>11. QED
  <2>1. Recorded(log, o, r, new)
    BY <1>6, <1>7, <1>9, <1>10, Zenon DEF Recorded
  <2>2. QED
    BY <2>1, Zenon DEF new

\* LogsPairs appends two replay states per id, and ends with both applied.
LEMMA PairsFacts ==
  ASSUME NEW log \in Seq(States), Len(log) >= 1, NEW o \in Seq(Ids), NEW a, NEW b
  PROVE  LET new == LogsPairs(log, o, a, b)
         IN /\ new \in Seq(States) /\ Len(new) = Len(log) + 2 * Len(o)
            /\ \A k \in 1..Len(log) : new[k] = log[k]
            /\ \A k \in (Len(log) + 1)..Len(new), i \in Ids :
                 \/ new[k][i] = Final(log)[i]
                 \/ /\ In(o, i)
                    /\ new[k][i] \in {Replay(Final(log)[i], a[i]),
                                      Replay(Replay(Final(log)[i], a[i]), b[i])}
            /\ \A i \in Ids : Final(new)[i] = IF In(o, i)
                                              THEN Replay(Replay(Final(log)[i], a[i]), b[i])
                                              ELSE Final(log)[i]
<1> DEFINE both(n, i) == \E k \in 1..Len(o) : 2 * k <= n /\ o[k] = i
           first(n, i) == \E k \in 1..Len(o) : 2 * k = n + 1 /\ o[k] = i
           value(n, i) == IF both(n, i) THEN Replay(Replay(Final(log)[i], a[i]), b[i])
                          ELSE IF first(n, i) THEN Replay(Final(log)[i], a[i])
                          ELSE Final(log)[i]
           tail == [n \in 1..(2 * Len(o)) |-> [i \in Ids |-> value(n, i)]]
           new == LogsPairs(log, o, a, b)
<1>1. Final(log) \in States
  BY DEF Final
<1>2. \A i \in Ids : /\ Final(log)[i] \in OrderState /\ Replay(Final(log)[i], a[i]) \in OrderState
                     /\ Replay(Replay(Final(log)[i], a[i]), b[i]) \in OrderState
  BY <1>1, ReplayType, Zenon DEF States
<1>3. \A n \in 1..(2 * Len(o)), i \in Ids : value(n, i) \in OrderState
  BY <1>2
<1>4. tail \in Seq(States) /\ Len(tail) = 2 * Len(o)
  <2> HIDE DEF value
  <2>1. \A n \in 1..(2 * Len(o)) : tail[n] \in States
    BY <1>3 DEF States
  <2>2. 2 * Len(o) \in Nat
    OBVIOUS
  <2>3. QED
    BY <2>1, <2>2
<1>5. new = log \o tail
  BY DEF LogsPairs
<1> HIDE DEF new, tail, value
<1>6. new \in Seq(States) /\ Len(new) = Len(log) + 2 * Len(o)
  <2>1. log \o tail \in Seq(States) /\ Len(log \o tail) = Len(log) + Len(tail)
    BY <1>4, ConcatFacts, Zenon
  <2>2. QED
    BY <2>1, <1>4, <1>5
<1>7. \A k \in 1..Len(log) : new[k] = log[k]
  BY <1>4, <1>5, ConcatFacts
<1>8. \A k \in (Len(log) + 1)..Len(new) :
        k - Len(log) \in 1..(2 * Len(o)) /\ new[k] = tail[k - Len(log)]
  BY <1>4, <1>5, ConcatFacts
<1>9. ASSUME NEW k \in (Len(log) + 1)..Len(new), NEW i \in Ids
      PROVE  \/ new[k][i] = Final(log)[i]
             \/ /\ In(o, i)
                /\ new[k][i] \in {Replay(Final(log)[i], a[i]),
                                  Replay(Replay(Final(log)[i], a[i]), b[i])}
  <2>1. k - Len(log) \in 1..(2 * Len(o)) /\ new[k] = tail[k - Len(log)]
    BY <1>8
  <2>2. new[k][i] = value(k - Len(log), i)
    BY <2>1 DEF tail
  <2>3. both(k - Len(log), i) \/ first(k - Len(log), i) => In(o, i)
    BY DEF In
  <2>4. QED
    BY <2>2, <2>3 DEF value
<1>10. ASSUME NEW i \in Ids
       PROVE  Final(new)[i] = IF In(o, i) THEN Replay(Replay(Final(log)[i], a[i]), b[i])
                              ELSE Final(log)[i]
  <2>1. CASE Len(o) = 0
    BY <2>1, <1>6, <1>7 DEF In, Final
  <2>2. CASE Len(o) > 0
    <3>1. Len(new) \in (Len(log) + 1)..Len(new) /\ Len(new) - Len(log) = 2 * Len(o)
      BY <2>2, <1>6
    <3>2. Final(new) = tail[2 * Len(o)] /\ 2 * Len(o) \in 1..(2 * Len(o))
      BY <3>1, <1>8, <2>2, Zenon DEF Final
    <3>3. Final(new)[i] = value(2 * Len(o), i)
      BY <3>2 DEF tail
    <3>4. both(2 * Len(o), i) <=> In(o, i)
      BY DEF In
    <3>5. first(2 * Len(o), i) => In(o, i)
      BY DEF In
    <3>6. QED
      BY <3>3, <3>4, <3>5 DEF value
  <2>3. QED
    BY <2>1, <2>2
<1>11. QED
  BY <1>6, <1>7, <1>9, <1>10 DEF new

-----------------------------------------------------------------------------
(* What the invariant says of one order. *)

\* Memory and the end of the log agree on an order's row and on whether it has
\* a dispatch, and only a logged order has one.
LEMMA MemFacts ==
  ASSUME Inv, NEW i \in Ids
  PROVE  /\ mem[i] \in OrderState /\ Final(logged)[i] \in OrderState
         /\ Final(logged)[i].l = mem[i].l
         /\ Final(logged)[i].d = "none" <=> mem[i].d = "none"
         /\ mem[i].d # "none" => mem[i].l # "none"
         /\ WellFormed(Final(logged)[i])
         /\ Len(logged) \in 1..Len(logged)
<1>1. Len(logged) \in 1..Len(logged) /\ logged[Len(logged)] \in States /\ mem \in States
  BY DEF Inv, TypeOK
<1>2. mem[i] \in OrderState /\ Final(logged)[i] \in OrderState
  BY <1>1 DEF States, Final
<1>3. WellFormed(Final(logged)[i])
  BY <1>1 DEF Inv, LogWellFormed, WellFormed, Final
<1>4. Final(logged)[i] = mem[i] \/ (mem[i].d = "Queued" /\ Final(logged)[i] = [mem[i] EXCEPT !.d = "Attempted"])
  BY DEF Inv, MemTracksLog
<1>5. Final(logged)[i].l = mem[i].l /\ (Final(logged)[i].d = "none" <=> mem[i].d = "none")
  BY <1>2, <1>4 DEF OrderState
<1>6. QED
  BY <1>1, <1>2, <1>3, <1>5 DEF WellFormed

\* What is on the wire or in a command is covered at the end of the log.
LEMMA CoveredAtEnd ==
  ASSUME Inv, NEW i \in Ids, OnWire(i) \/ InCommand(i)
  PROVE  Covered(Final(logged)[i]) /\ mem[i].l # "none"
<1>1. Covered(Final(logged)[i])
  BY MemFacts, Zenon DEF Inv, WireCovered, Final
<1>2. QED
  BY <1>1, MemFacts DEF Covered, WellFormed

\* Steps that put no order into a command, and that end no attempt's wait.
NoNewCommand == \A i \in Ids : InCommand(i)' => InCommand(i)
WriteKept == write' = write \/ (write.kind # "Attempt" /\ write' = NoWrite)

-----------------------------------------------------------------------------
(* Settling: an order update and a completion for each order of a batch. *)

\* The updates of a batch, and the state they and the completion leave.
Settles(S, a) == \A i \in S : /\ a[i] \in Settling /\ mem[i].l # "none"
                              /\ a[i] = "skip" => mem[i].l = "done"
SettledState(i, a) == [d |-> "none", l |-> IF a[i] = "ack" /\ mem[i].l # "done" THEN "acked" ELSE "done"]
SettledMem(S, a) == [i \in Ids |-> IF i \in S THEN SettledState(i, a) ELSE mem[i]]

\* The log after a batch is settled.
LEMMA SettleLog ==
  ASSUME Inv, NEW S \in SUBSET Ids, NEW o \in Seq(Ids), Lists(o, S), NEW a, Settles(S, a)
  PROVE  LET new == LogsPairs(logged, o, a, CompletedRecord)
         IN /\ new \in Seq(States) /\ Len(new) >= Len(logged) /\ Len(new) \in Nat
            /\ \A i \in Ids : Final(new)[i] = IF i \in S THEN SettledState(i, a)
                                              ELSE Final(logged)[i]
            /\ \A k \in 1..Len(new), i \in Ids : WellFormed(new[k][i])
            /\ \A i \in Ids, m \in 1..Len(logged) :
                 (\A k \in m..Len(logged) : Covered(logged[k][i]))
                   => \A k \in m..Len(new) : Covered(new[k][i])
<1> DEFINE new == LogsPairs(logged, o, a, CompletedRecord)
           b == CompletedRecord
<1>1. logged \in Seq(States) /\ Len(logged) >= 1 /\ Len(logged) \in Nat
  BY SMTT(30) DEF Inv, TypeOK
<1>2. /\ new \in Seq(States) /\ Len(new) = Len(logged) + 2 * Len(o)
      /\ \A k \in 1..Len(logged) : new[k] = logged[k]
      /\ \A k \in (Len(logged) + 1)..Len(new), i \in Ids :
           \/ new[k][i] = Final(logged)[i]
           \/ /\ In(o, i)
              /\ new[k][i] \in {Replay(Final(logged)[i], a[i]),
                                Replay(Replay(Final(logged)[i], a[i]), b[i])}
      /\ \A i \in Ids : Final(new)[i] = IF In(o, i) THEN Replay(Replay(Final(logged)[i], a[i]), b[i])
                                        ELSE Final(logged)[i]
  BY <1>1, PairsFacts, SMTT(30)
<1> HIDE DEF new
<1>3. ASSUME NEW i \in S
      PROVE  /\ Final(logged)[i] \in OrderState /\ b[i] \in Closing
             /\ a[i] = "skip" => Final(logged)[i].l = "done"
             /\ Replay(Replay(Final(logged)[i], a[i]), b[i]) = SettledState(i, a)
  <2>1. /\ mem[i] \in OrderState /\ Final(logged)[i] \in OrderState
        /\ Final(logged)[i].l = mem[i].l
        /\ Final(logged)[i].d = "none" <=> mem[i].d = "none"
    BY MemFacts
  <2>2. b[i] = IF mem[i].d = "none" THEN "skip" ELSE "completed"
    BY DEF CompletedRecord
  <2>3. QED
    BY <2>1, <2>2, Zenon DEF Settles, Closing, Settling, SettledState, Replay, ReplayPhase, ReplayRow,
         OrderState, Phases, Rows
<1>4. ASSUME NEW k \in (Len(logged) + 1)..Len(new), NEW i \in Ids
      PROVE  WellFormed(new[k][i]) /\ (Covered(Final(logged)[i]) => Covered(new[k][i]))
  <2>1. WellFormed(Final(logged)[i])
    BY MemFacts, Zenon
  <2>2. CASE i \in S
    <3>1. /\ Covered(Final(logged)[i]) => /\ Covered(Replay(Final(logged)[i], a[i]))
                                          /\ Covered(Replay(Replay(Final(logged)[i], a[i]), b[i]))
          /\ WellFormed(Replay(Final(logged)[i], a[i]))
          /\ WellFormed(Replay(Replay(Final(logged)[i], a[i]), b[i]))
      BY <2>1, <2>2, <1>3, SettlingKeeps DEF Settles
    <3>2. QED
      BY <1>2, <2>1, <3>1, Zenon
  <2>3. CASE i \notin S
    BY <1>2, <2>1, <2>3, Zenon DEF Lists
  <2>4. QED
    BY <2>2, <2>3
<1>5. \A k \in 1..Len(new), i \in Ids : WellFormed(new[k][i])
  BY <1>1, <1>2, <1>4, SMTT(30) DEF Inv, LogWellFormed, WellFormed
<1>6. ASSUME NEW i \in Ids, NEW m \in 1..Len(logged),
             \A k \in m..Len(logged) : Covered(logged[k][i]), NEW k \in m..Len(new)
      PROVE  Covered(new[k][i])
  <2>1. CASE k <= Len(logged)
    BY <2>1, <1>1, <1>2, <1>6
  <2>2. CASE k > Len(logged)
    <3>1. k \in (Len(logged) + 1)..Len(new) /\ Len(logged) \in m..Len(logged)
      BY <2>2, <1>1, <1>2
    <3>2. Covered(Final(logged)[i])
      BY <3>1, <1>6, Zenon DEF Final
    <3>3. QED
      BY <3>1, <3>2, <1>4
  <2>3. QED
    BY <2>1, <2>2, <1>1, <1>2
<1>7. QED
  BY <1>1, <1>2, <1>3, <1>5, <1>6 DEF new, Lists

\* A step that settles a batch, and neither sends nor looks anything up, keeps
\* every part of the invariant that depends on the log or on memory.
LEMMA SettleKeeps ==
  ASSUME Inv, NEW S \in SUBSET Ids, NEW o \in Seq(Ids), Lists(o, S), NEW a, Settles(S, a),
         logged' = LogsPairs(logged, o, a, CompletedRecord),
         mem' = SettledMem(S, a),
         WriteKept, UNCHANGED venueVars, NoNewCommand, lookup' \subseteq lookup
  PROVE  /\ logged' \in Seq(States) /\ Len(logged') >= 1 /\ mem' \in States
         /\ MemTracksLog' /\ LogWellFormed' /\ WriteCovered' /\ WireCovered'
         /\ QueuedOffWire' /\ LookupSafe'
<1>1. /\ logged' \in Seq(States) /\ Len(logged') >= Len(logged) /\ Len(logged') \in Nat
      /\ \A i \in Ids : Final(logged')[i] = IF i \in S THEN SettledState(i, a)
                                            ELSE Final(logged)[i]
      /\ \A k \in 1..Len(logged'), i \in Ids : WellFormed(logged'[k][i])
      /\ \A i \in Ids, m \in 1..Len(logged) :
           (\A k \in m..Len(logged) : Covered(logged[k][i]))
             => \A k \in m..Len(logged') : Covered(logged'[k][i])
  <2> DEFINE new == LogsPairs(logged, o, a, CompletedRecord)
  <2>1. /\ new \in Seq(States) /\ Len(new) >= Len(logged) /\ Len(new) \in Nat
        /\ \A i \in Ids : Final(new)[i] = IF i \in S THEN SettledState(i, a)
                                          ELSE Final(logged)[i]
        /\ \A k \in 1..Len(new), i \in Ids : WellFormed(new[k][i])
        /\ \A i \in Ids, m \in 1..Len(logged) :
             (\A k \in m..Len(logged) : Covered(logged[k][i]))
               => \A k \in m..Len(new) : Covered(new[k][i])
    BY SettleLog, Zenon
  <2> HIDE DEF new
  <2>2. logged' = new
    BY DEF new
  <2>3. QED
    BY <2>1, <2>2
<1>2. /\ logged \in Seq(States) /\ Len(logged) >= 1 /\ Len(logged) \in Nat /\ mem \in States
      /\ lookup \subseteq [id : Ids, ans : {"none", "working", "terminal", "never", "unknown"}]
      /\ write.ids \subseteq Ids
  BY DEF Inv, TypeOK
<1>3. \A i \in Ids : SettledState(i, a) \in OrderState /\ SettledState(i, a).d = "none"
                     /\ SettledState(i, a).l # "none"
  BY DEF SettledState, OrderState, Phases, Rows
<1>4. mem' \in States
  BY <1>2, <1>3 DEF States, SettledMem
<1>5. \A i \in Ids : mem'[i] = IF i \in S THEN SettledState(i, a) ELSE mem[i]
  BY DEF SettledMem
<1>6. \A i \in Ids : OnWire(i)' <=> OnWire(i)
  BY DEF OnWire, venueVars
<1>7. MemTracksLog'
  <2> SUFFICES ASSUME NEW i \in Ids
               PROVE  Final(logged')[i] =
                        IF write'.kind = "Attempt" /\ i \in write'.ids /\ mem'[i].d = "Queued"
                        THEN [mem'[i] EXCEPT !.d = "Attempted"] ELSE mem'[i]
    BY DEF MemTracksLog, Final
  <2>1. CASE i \in S
    BY <2>1, <1>1, <1>3, <1>5
  <2>2. CASE i \notin S
    BY <2>2, <1>1, <1>5, SMTT(30) DEF Inv, MemTracksLog, NoWrite, WriteKept
  <2>3. QED
    BY <2>1, <2>2
<1>8. LogWellFormed'
  BY <1>1 DEF LogWellFormed, WellFormed
<1>9. WriteCovered'
  <2>1. CASE write' = write
    <3>1. write.mark \in 1..Len(logged) /\ write.mark \in 1..Len(logged')
      BY <1>1, <1>2 DEF Inv, WriteCovered
    <3>2. ASSUME write.kind = "Attempt", NEW i \in write.ids
          PROVE  mem'[i].d \in {"Queued", "none"}
                 /\ \A k \in write.mark..Len(logged') : Covered(logged'[k][i])
      BY <1>1, <1>2, <1>3, <1>5, <3>1, <3>2, Zenon DEF Inv, WriteCovered
    <3>3. QED
      BY <2>1, <3>1, <3>2, Zenon DEF Inv, WriteCovered, WriteFree
  <2>2. CASE write' = NoWrite
    BY <2>2, <1>1, <1>2 DEF WriteCovered, NoWrite, WriteFree
  <2>3. QED
    BY <2>1, <2>2, Zenon DEF WriteKept
<1>10. WireCovered'
  <2> SUFFICES ASSUME NEW i \in Ids, OnWire(i)' \/ InCommand(i)'
               PROVE  \A k \in 1..Len(logged') : Covered(logged'[k][i])
    BY DEF WireCovered
  <2>1. \A k \in 1..Len(logged) : Covered(logged[k][i])
    BY <1>6, Zenon DEF Inv, WireCovered, NoNewCommand
  <2>2. 1 \in 1..Len(logged)
    BY <1>2, SMTT(30), Z3T(30)
  <2>3. QED
    BY <2>1, <2>2, <1>1
<1>11. QueuedOffWire'
  BY <1>3, <1>5, <1>6, Zenon DEF Inv, QueuedOffWire, NoNewCommand
<1>12. LookupSafe'
  <2> SUFFICES ASSUME NEW q \in lookup
               PROVE  /\ mem'[q.id].d # "Queued" /\ mem'[q.id].l # "none"
                      /\ ~InCommand(q.id)'
                      /\ q.ans = "never" => ~OnWire(q.id)'
    BY SMTT(30) DEF LookupSafe
  <2>1. PICK i \in Ids : i = q.id
    BY <1>2, Zenon
  <2>2. /\ mem'[i].d # "Queued" /\ mem'[i].l # "none" /\ ~InCommand(i)'
        /\ q.ans = "never" => ~OnWire(i)'
    BY <2>1, <1>3, <1>5, <1>6 DEF Inv, LookupSafe, NoNewCommand
  <2>3. QED
    BY <2>1, <2>2 DEF InCommand, OnWire
<1>13. QED
  BY <1>1, <1>2, <1>4, <1>7, <1>8, <1>9, <1>10, <1>11, <1>12, SMTT(30)

\* The records of a refusal or a local cancel settle their orders.
LEMMA EndSettles ==
  ASSUME Inv, NEW S \in SUBSET {i \in Ids : mem[i].d # "none"}
  PROVE  /\ S \in SUBSET Ids
         /\ Settles(S, EndRecord)
         /\ Ended(mem, S) = SettledMem(S, EndRecord)
<1>1. \A i \in S : mem[i].l # "none"
  BY MemFacts
<1>2. \A i \in Ids : EndRecord[i] = IF mem[i].l = "done" THEN "skip" ELSE "end"
  BY DEF EndRecord
<1>3. \A i \in Ids : SettledState(i, EndRecord) = [d |-> "none", l |-> "done"]
  BY <1>2 DEF SettledState
<1>4. QED
  BY <1>1, <1>2, <1>3 DEF Settles, Settling, Ended, SettledMem

-----------------------------------------------------------------------------
(* Attempting: queued orders are written Attempted. *)

\* The log after Attempted records for queued orders, m being its replay before.
LEMMA AttemptLog ==
  ASSUME NEW log \in Seq(States), Len(log) >= 1, NEW m \in States,
         EndsIn(log, m), Accepted(log), NEW S \in SUBSET Ids, AllQueued(m, S),
         NEW o \in Seq(Ids), Lists(o, S)
  PROVE  LET new == Logs(log, o, "attempted")
         IN /\ new \in Seq(States) /\ Len(new) = Len(log) + Len(o)
            /\ \A i \in Ids : Final(new)[i] = IF i \in S THEN [m[i] EXCEPT !.d = "Attempted"]
                                              ELSE m[i]
            /\ Accepted(new)
            /\ \A k \in 1..Len(log) : new[k] = log[k]
            /\ \A i \in Ids \ S, k \in (Len(log) + 1)..Len(new) : new[k][i] = m[i]
<1> DEFINE new == Logs(log, o, "attempted")
<1>1. /\ new \in Seq(States) /\ Len(new) = Len(log) + Len(o)
      /\ \A k \in 1..Len(log) : new[k] = log[k]
      /\ \A k \in (Len(log) + 1)..Len(new), i \in Ids :
           \/ new[k][i] = Final(log)[i]
           \/ In(o, i) /\ new[k][i] = Replay(Final(log)[i], "attempted")
      /\ \A i \in Ids : Final(new)[i] = IF In(o, i) THEN Replay(Final(log)[i], "attempted")
                                        ELSE Final(log)[i]
  <2>1. Recorded(log, o, "attempted", new)
    BY LogsFacts, Zenon
  <2> HIDE DEF new
  <2>2. QED
    BY <2>1, Zenon DEF Recorded
<1> HIDE DEF new
<1>2. \A i \in Ids : WellFormed(m[i]) /\ m[i] \in OrderState
  BY DEF Final, States, EndsIn, Accepted
<1>3. \A i \in S : Replay(m[i], "attempted") = [m[i] EXCEPT !.d = "Attempted"]
                   /\ WellFormed(Replay(m[i], "attempted"))
  BY <1>2 DEF Replay, ReplayPhase, ReplayRow, OrderState, WellFormed, AllQueued
<1>4. ASSUME NEW k \in 1..Len(new), NEW i \in Ids
      PROVE  WellFormed(new[k][i])
  <2>1. CASE k <= Len(log)
    BY <2>1, <1>1, SMTT(30) DEF Accepted
  <2>2. CASE k > Len(log)
    <3>1. k \in (Len(log) + 1)..Len(new)
      BY <2>2, <1>1
    <3>2. new[k][i] = m[i] \/ (i \in S /\ new[k][i] = Replay(m[i], "attempted"))
      BY <3>1, <1>1, Zenon DEF EndsIn, Lists
    <3>3. QED
      BY <3>2, <1>2, <1>3, Zenon
  <2>3. QED
    BY <2>1, <2>2, <1>1
<1>5. QED
  BY <1>1, <1>3, <1>4, Zenon DEF new, EndsIn, Lists, Accepted

\* The log written so far, then its end as Prepare leaves it: only orders of S
\* are written Attempted, and the mark is the end of the log.
Wrote(log, S, m) ==
  /\ logged' \in Seq(States) /\ Len(logged') >= Len(log) /\ Len(logged') \in Nat
  /\ \A k \in 1..Len(log) : logged'[k] = log[k]
  /\ \A i \in Ids \ S, k \in (Len(log) + 1)..Len(logged') : logged'[k][i] = m[i]
  /\ Accepted(logged')
  /\ write'.ids \subseteq S /\ ~write'.synced /\ write'.mark \in 1..Len(logged')
  /\ write' = write \/ (write'.kind \in {"Attempt", "Leverage"} /\ write'.mark = Len(logged'))
  /\ write' \in {write} \cup [kind : WriteKinds, ids : SUBSET Ids, mark : Nat, synced : BOOLEAN]
  /\ \A i \in Ids : Final(logged')[i] = IF write'.kind = "Attempt" /\ i \in write'.ids
                                        THEN [m[i] EXCEPT !.d = "Attempted"] ELSE m[i]

\* Prepare, when the durability wait is free and m is memory after the step.
LEMMA PrepareFacts ==
  ASSUME write = NoWrite,
         NEW log \in Seq(States), Len(log) >= 1, NEW m \in States,
         EndsIn(log, m), Accepted(log), NEW S \in SUBSET Ids, AllQueued(m, S), Prepare(log, S)
  PROVE  Wrote(log, S, m)
<1> DEFINE batch == Preparable(S)
           ready == {i \in batch : ~Missing(i)}
<1>1. batch \subseteq S /\ ready \subseteq S
  BY DEF Preparable
<1>2. Len(log) \in Nat
  OBVIOUS
<1> HIDE DEF batch, ready
<1>3. CASE logged' = log /\ write' = write
  BY <1>2, <1>3 DEF NoWrite, EndsIn, Wrote
<1>4. CASE logged' = log /\ write' = [kind |-> "Leverage", ids |-> batch, mark |-> Len(log), synced |-> FALSE]
  BY <1>1, <1>2, <1>4 DEF WriteKinds, EndsIn, Wrote
<1>5. ASSUME NEW o \in Orderings(ready), logged' = Logs(log, o, "attempted"),
             write' = [kind |-> "Attempt", ids |-> ready, mark |-> Len(log) + Len(o), synced |-> FALSE]
      PROVE  Wrote(log, S, m)
  <2> DEFINE new == Logs(log, o, "attempted")
  <2>1. o \in Seq(Ids) /\ Lists(o, ready) /\ Len(o) \in Nat
    BY <1>1, OrderingFacts
  <2>2. ready \in SUBSET Ids /\ AllQueued(m, ready)
    BY <1>1 DEF AllQueued
  <2>3. /\ new \in Seq(States) /\ Len(new) = Len(log) + Len(o)
        /\ \A i \in Ids : Final(new)[i] = IF i \in ready THEN [m[i] EXCEPT !.d = "Attempted"]
                                          ELSE m[i]
        /\ Accepted(new)
        /\ \A k \in 1..Len(log) : new[k] = log[k]
        /\ \A i \in Ids \ ready, k \in (Len(log) + 1)..Len(new) : new[k][i] = m[i]
    BY <2>1, <2>2, AttemptLog
  <2> HIDE DEF new
  <2>4. logged' = new
    BY <1>5 DEF new
  <2>5. /\ write'.ids = ready /\ write'.kind = "Attempt" /\ ~write'.synced
        /\ write'.mark = Len(log) + Len(o)
        /\ write' \in [kind : WriteKinds, ids : SUBSET Ids, mark : Nat, synced : BOOLEAN]
    BY <1>5, <1>2, <2>1, <2>2 DEF WriteKinds
  <2>6. Len(new) \in Nat /\ Len(new) >= Len(log) /\ Len(log) + Len(o) \in 1..Len(new)
    BY <1>2, <2>1, <2>3
  <2>7. \A i \in Ids \ S, k \in (Len(log) + 1)..Len(new) : new[k][i] = m[i]
    BY <1>1, <2>3
  <2>8. QED
    BY <1>1, <2>3, <2>4, <2>5, <2>6, <2>7 DEF Wrote
<1>6. \/ logged' = log /\ write' = write
      \/ logged' = log /\ write' = [kind |-> "Leverage", ids |-> batch, mark |-> Len(log), synced |-> FALSE]
      \/ \E o \in Orderings(ready) :
           /\ logged' = Logs(log, o, "attempted")
           /\ write' = [kind |-> "Attempt", ids |-> ready, mark |-> Len(log) + Len(o), synced |-> FALSE]
  BY Zenon DEF Prepare, batch, ready
<1>7. QED
  BY <1>3, <1>4, <1>5, <1>6

-----------------------------------------------------------------------------
(* The invariant, action by action. *)

Commands == [ids : SUBSET Ids, auth : {"none", "current", "superseded"}, stage : {"queued", "sent"}]

\* Dropping commands, or superseding their authority, puts nothing in a command.
LEMMA CommandsShrink ==
  ASSUME Inv, NEW rest \in SUBSET cmds, cmds' = rest \/ cmds' = Superseded(rest), UNCHANGED venueVars
  PROVE  /\ cmds' \subseteq Commands /\ SendOnce' /\ NoNewCommand
<1>1. cmds \subseteq Commands
  BY DEF Inv, TypeOK, Commands
<1>2. \A b \in cmds' : \E c \in rest :
        b = c \/ b = [c EXCEPT !.auth = IF @ = "none" THEN "none" ELSE "superseded"]
  BY DEF Superseded
<1>3. ASSUME NEW c \in rest, NEW b, b = [c EXCEPT !.auth = IF @ = "none" THEN "none" ELSE "superseded"]
      PROVE  b \in Commands /\ b.ids = c.ids /\ b.stage = c.stage
  BY <1>1, <1>3 DEF Commands
<1>4. \A b \in cmds' : b \in Commands /\ \E c \in rest : b.ids = c.ids /\ b.stage = c.stage
  BY <1>1, <1>2, <1>3
<1>5. \A i \in Ids : OnWire(i)' <=> OnWire(i)
  BY DEF OnWire, venueVars
<1>6. ASSUME NEW b \in cmds', NEW c \in cmds', b # c
      PROVE  b.ids \cap c.ids = {}
  <2>1. CASE cmds' = rest
    BY <2>1, <1>6 DEF Inv, SendOnce
  <2>2. CASE cmds' = Superseded(rest)
    <3>1. PICK e \in rest : b = [e EXCEPT !.auth = IF @ = "none" THEN "none" ELSE "superseded"]
      BY <2>2 DEF Superseded
    <3>2. PICK f \in rest : c = [f EXCEPT !.auth = IF @ = "none" THEN "none" ELSE "superseded"]
      BY <2>2 DEF Superseded
    <3>3. e # f /\ e \in cmds /\ f \in cmds
      BY <3>1, <3>2, <1>6
    <3>4. e.ids \cap f.ids = {}
      BY <3>3 DEF Inv, SendOnce
    <3>5. QED
      BY <3>1, <3>2, <3>4, <1>3
  <2>3. QED
    BY <2>1, <2>2
<1>7. \A c \in cmds' : c.stage = "queued" => \A i \in c.ids : ~OnWire(i)'
  <2> SUFFICES ASSUME NEW b \in cmds', b.stage = "queued", NEW i \in b.ids
               PROVE  ~OnWire(i)'
    OBVIOUS
  <2>1. PICK c \in rest : b.ids = c.ids /\ b.stage = c.stage
    BY <1>4
  <2>2. i \in Ids /\ ~OnWire(i)
    BY <2>1, <1>1, Zenon DEF Inv, SendOnce, Commands
  <2>3. QED
    BY <2>2, <1>5
<1>8. SendOnce'
  BY <1>6, <1>7 DEF SendOnce
<1>9. NoNewCommand
  BY <1>4 DEF InCommand, NoNewCommand
<1>10. QED
  BY <1>4, <1>8, <1>9

\* Steps that touch neither the log, memory nor the write.
LEMMA QuietKeeps ==
  ASSUME Inv, UNCHANGED <<logged, mem, write, venueVars>>,
         NoNewCommand, lookup' \subseteq lookup
  PROVE  /\ MemTracksLog' /\ LogWellFormed' /\ WriteCovered' /\ WireCovered'
         /\ QueuedOffWire' /\ LookupSafe' /\ NoDuplicateRequest'
<1>1. \A i \in Ids : OnWire(i)' <=> OnWire(i)
  BY DEF OnWire, venueVars
<1>2. MemTracksLog' /\ LogWellFormed' /\ WriteCovered' /\ NoDuplicateRequest'
  BY DEF Inv, MemTracksLog, LogWellFormed, WriteCovered, WriteFree, NoDuplicateRequest, Final, venueVars
<1>3. WireCovered'
  BY <1>1 DEF Inv, WireCovered, NoNewCommand
<1>4. QueuedOffWire'
  BY <1>1 DEF Inv, QueuedOffWire, NoNewCommand
<1>5. LookupSafe'
  <2> SUFFICES ASSUME NEW q \in lookup
               PROVE  /\ mem'[q.id].d # "Queued" /\ mem'[q.id].l # "none"
                      /\ ~InCommand(q.id)'
                      /\ q.ans = "never" => ~OnWire(q.id)'
    BY DEF LookupSafe
  <2>1. PICK i \in Ids : i = q.id
    BY Zenon DEF Inv, TypeOK
  <2>2. /\ mem'[i].d # "Queued" /\ mem'[i].l # "none" /\ ~InCommand(i)'
        /\ q.ans = "never" => ~OnWire(i)'
    BY <2>1, <1>1 DEF Inv, LookupSafe, NoNewCommand
  <2>3. QED
    BY <2>1, <2>2 DEF InCommand, OnWire
<1>6. QED
  BY <1>2, <1>3, <1>4, <1>5

-----------------------------------------------------------------------------
(* The initial state and the engine's own handlers. *)

\* A fresh engine satisfies the invariant.
LEMMA InitInv == Init => Inv
<1> SUFFICES ASSUME Init PROVE Inv
  OBVIOUS
<1> USE DEF Init, Started
<1>1. Empty \in States /\ <<Empty>> \in Seq(States) /\ Len(<<Empty>>) = 1 /\ <<Empty>>[1] = Empty
  BY DEF Empty, States, OrderState, Phases, Rows
<1>2. TypeOK
  BY <1>1, DispatchAssumption DEF TypeOK, DispatchAssumption, NoWrite, WriteKinds
<1>3. \A i \in Ids : ~OnWire(i) /\ ~InCommand(i)
  BY DEF OnWire, InCommand
<1>4. MemTracksLog
  BY <1>1 DEF MemTracksLog, Final, NoWrite
<1>5. LogWellFormed
  BY <1>1 DEF LogWellFormed, Empty
<1>6. WriteCovered
  BY <1>1 DEF WriteCovered, NoWrite
<1>7. WireCovered /\ QueuedOffWire /\ LookupSafe /\ SendOnce /\ BootApart /\ NoDuplicateRequest
  BY <1>3 DEF WireCovered, QueuedOffWire, LookupSafe, SendOnce, BootApart, NoDuplicateRequest
<1>8. QED
  BY <1>2, <1>4, <1>5, <1>6, <1>7 DEF Inv

\* Latches, evictions, the venue's replies: nothing the invariant depends on.
LEMMA QuietInv ==
  ASSUME Inv, Latch \/ Unlatch \/ EvictLeverage \/ VenueReplies \/ BootDone
  PROVE  Inv'
<1>1. /\ UNCHANGED <<logged, mem, write, venueVars>> /\ lookup' \subseteq lookup /\ boot' = boot
      /\ (up' = "run" => boot = {})
      /\ UNCHANGED <<recovered, unresolved, admin, past, crashes>>
  BY Zenon DEF Latch, Unlatch, EvictLeverage, VenueReplies, BootDone, venueVars, Inv, BootApart, Running
<1>2. cmds' = cmds \/ cmds' = Superseded(cmds)
  BY Zenon DEF Latch, Unlatch, EvictLeverage, VenueReplies, BootDone
<1>3. /\ cmds' \subseteq Commands /\ SendOnce' /\ NoNewCommand
  BY <1>1, <1>2, CommandsShrink
<1>4. /\ MemTracksLog' /\ LogWellFormed' /\ WriteCovered' /\ WireCovered'
      /\ QueuedOffWire' /\ LookupSafe' /\ NoDuplicateRequest'
  BY <1>1, <1>3, QuietKeeps
<1>5. BootApart'
  BY <1>1, <1>3, Zenon DEF Inv, BootApart, Running, TypeOK, NoNewCommand
<1>6. TypeOK'
  <2> USE DEF Inv, TypeOK, venueVars, Commands
  <2>1. CASE Latch \/ Unlatch \/ BootDone
    BY <2>1, <1>1, <1>3, Zenon DEF Latch, Unlatch, BootDone
  <2>2. CASE EvictLeverage
    BY <2>2, <1>1, <1>3, DispatchAssumption, SMTT(30) DEF EvictLeverage, DispatchAssumption
  <2>3. CASE VenueReplies
    BY <2>3, <1>1, <1>3 DEF VenueReplies
  <2>4. QED
    BY <2>1, <2>2, <2>3, Zenon
<1>7. QED
  BY <1>3, <1>4, <1>5, <1>6 DEF Inv

\* A settling step whose commands do not grow preserves the whole invariant,
\* given the types of what else it assigns.
LEMMA SettleInv ==
  ASSUME Inv, NEW S \in SUBSET Ids, NEW o \in Seq(Ids), Lists(o, S), NEW a, Settles(S, a),
         logged' = LogsPairs(logged, o, a, CompletedRecord),
         mem' = SettledMem(S, a),
         WriteKept,
         UNCHANGED <<venueVars, mayOpen, up, past, crashes, faults>>,
         NEW rest \in SUBSET cmds, cmds' = rest \/ cmds' = Superseded(rest),
         lookup' \subseteq lookup, boot' \subseteq boot,
         unresolved' \subseteq Ids, recovered' \subseteq Ids,
         admin' \subseteq [sym : Symbols, want : Leverages, orders : SUBSET Ids],
         leverageAt' \in [Symbols -> Leverages \cup {NoLeverage}],
         reply' \in [Ids -> {"none", "ack", "reject", "unsent", "lost"}]
  PROVE  Inv'
<1>1. UNCHANGED venueVars
  OBVIOUS
<1>2. /\ cmds' \subseteq Commands /\ SendOnce' /\ NoNewCommand
  BY <1>1, CommandsShrink
<1>3. /\ logged' \in Seq(States) /\ Len(logged') >= 1 /\ mem' \in States
      /\ MemTracksLog' /\ LogWellFormed' /\ WriteCovered' /\ WireCovered'
      /\ QueuedOffWire' /\ LookupSafe'
  BY <1>1, <1>2, SettleKeeps
<1>4. write' \in [kind : WriteKinds, ids : SUBSET Ids, mark : Nat, synced : BOOLEAN]
  <2>1. NoWrite \in [kind : WriteKinds, ids : SUBSET Ids, mark : Nat, synced : BOOLEAN]
    BY Zenon DEF NoWrite, WriteKinds
  <2>2. write \in [kind : WriteKinds, ids : SUBSET Ids, mark : Nat, synced : BOOLEAN]
    BY DEF Inv, TypeOK
  <2>3. write' = write \/ write' = NoWrite
    BY DEF WriteKept
  <2>4. QED
    BY <2>1, <2>2, <2>3, Zenon
<1>5. TypeOK'
  BY <1>2, <1>3, <1>4, Zenon DEF Inv, TypeOK, Commands, venueVars
<1>6. BootApart'
  <2>1. \A i \in boot : i \in Ids /\ i \notin write'.ids
    <3>1. boot \subseteq Ids
      BY Zenon DEF Inv, TypeOK
    <3>2. \A i \in boot : i \notin write.ids
      BY Zenon DEF Inv, BootApart
    <3>3. write' = write \/ write' = NoWrite
      BY Zenon DEF WriteKept
    <3>4. NoWrite.ids = {}
      BY DEF NoWrite
    <3>5. QED
      BY <3>1, <3>2, <3>3, <3>4, Zenon
  <2>2. (Running => boot = {}) /\ \A i \in boot : ~InCommand(i)
    BY Zenon DEF Inv, BootApart
  <2>3. QED
    BY <2>1, <2>2, <1>2, Zenon DEF BootApart, Running, NoNewCommand
<1>7. NoDuplicateRequest'
  BY Zenon DEF Inv, NoDuplicateRequest, venueVars
<1>8. QED
  BY <1>2, <1>3, <1>5, <1>6, <1>7 DEF Inv

\* A sequence of one id lists it.
LEMMA OneFacts ==
  ASSUME NEW i \in Ids
  PROVE  <<i>> \in Seq(Ids) /\ Lists(<<i>>, {i}) /\ Len(<<i>>) = 1
BY DEF Lists, In

\* Refusals of dispatches, from any of the handlers that retire what changed.
LEMMA EndInv ==
  ASSUME Inv, NEW S \in SUBSET {i \in Ids : mem[i].d # "none"},
         NEW o \in Seq(Ids), Lists(o, S),
         logged' = LogsPairs(logged, o, EndRecord, CompletedRecord),
         mem' = Ended(mem, S), Retire(S),
         WriteKept,
         UNCHANGED <<venueVars, mayOpen, up, past, crashes, faults, cmds, reply, lookup>>,
         boot' \subseteq boot,
         admin' \subseteq [sym : Symbols, want : Leverages, orders : SUBSET Ids],
         leverageAt' \in [Symbols -> Leverages \cup {NoLeverage}]
  PROVE  Inv'
<1>1. /\ S \in SUBSET Ids /\ Settles(S, EndRecord)
      /\ Ended(mem, S) = SettledMem(S, EndRecord)
  BY EndSettles, Zenon
<1>2. /\ unresolved' \subseteq Ids /\ recovered' \subseteq Ids
      /\ reply' \in [Ids -> {"none", "ack", "reject", "unsent", "lost"}]
      /\ cmds \in SUBSET cmds /\ cmds' = cmds /\ lookup' \subseteq lookup
      /\ UNCHANGED <<venueVars, mayOpen, up, past, crashes, faults>>
  BY Zenon DEF Inv, TypeOK, Retire
<1>3. mem' = SettledMem(S, EndRecord)
  BY <1>1, Zenon
<1>4. QED
  BY <1>1, <1>2, <1>3, SettleInv, Zenon

\* A local cancel ends one order that has not been handed over.
LEMMA CancelQueuedInv ==
  ASSUME Inv, CancelQueued PROVE Inv'
<1>1. PICK i \in Ids : /\ mem[i].d = "Queued" /\ mem' = Ended(mem, {i}) /\ Retire({i})
                       /\ logged' = LogsPairs(logged, <<i>>, EndRecord, CompletedRecord)
  BY Zenon DEF CancelQueued
<1>2. {i} \in SUBSET {j \in Ids : mem[j].d # "none"} /\ <<i>> \in Seq(Ids) /\ Lists(<<i>>, {i})
  BY <1>1, OneFacts
<1>3. /\ WriteKept
      /\ UNCHANGED <<venueVars, mayOpen, up, past, crashes, faults, cmds, reply, lookup>>
      /\ boot' \subseteq boot
      /\ admin' \subseteq [sym : Symbols, want : Leverages, orders : SUBSET Ids]
      /\ leverageAt' \in [Symbols -> Leverages \cup {NoLeverage}]
  BY Zenon DEF CancelQueued, Inv, TypeOK, WriteKept
<1>4. QED
  BY <1>1, <1>2, <1>3, EndInv, Zenon

\* A leverage completion ends the dependents it refuses.
LEMMA CompleteLeverageInv ==
  ASSUME Inv, CompleteLeverage PROVE Inv'
<1>0. PICK a \in admin : \E refused \in SUBSET {i \in a.orders : mem[i].d = "Queued"} :
        /\ \E o \in Orderings(refused) : logged' = LogsPairs(logged, o, EndRecord, CompletedRecord)
        /\ mem' = Ended(mem, refused) /\ Retire(refused)
        /\ leverageAt' = [leverageAt EXCEPT ![a.sym] =
                            ConfirmedLeverage({i \in a.orders : mem[i].d = "Queued"}, refused, a.want)]
        /\ admin' = admin \ {a}
  BY Zenon DEF CompleteLeverage
<1>1. PICK refused \in SUBSET {i \in a.orders : mem[i].d = "Queued"} :
        /\ \E o \in Orderings(refused) : logged' = LogsPairs(logged, o, EndRecord, CompletedRecord)
        /\ mem' = Ended(mem, refused) /\ Retire(refused)
        /\ leverageAt' = [leverageAt EXCEPT ![a.sym] =
                            ConfirmedLeverage({i \in a.orders : mem[i].d = "Queued"}, refused, a.want)]
        /\ admin' = admin \ {a}
  BY <1>0, Zenon
<1>2. a.want \in Leverages /\ a.orders \subseteq Ids
  <2>1. admin \subseteq [sym : Symbols, want : Leverages, orders : SUBSET Ids]
    BY Zenon DEF Inv, TypeOK
  <2>2. QED
    BY <2>1
<1>3. refused \in SUBSET {i \in Ids : mem[i].d # "none"} /\ refused \in SUBSET Ids
  <2>1. \A i \in refused : i \in a.orders /\ mem[i].d = "Queued"
    BY <1>1, Zenon
  <2>2. QED
    BY <1>2, <2>1
<1>4. PICK o \in Orderings(refused) : logged' = LogsPairs(logged, o, EndRecord, CompletedRecord)
  BY <1>1
<1>5. o \in Seq(Ids) /\ Lists(o, refused)
  BY <1>3, OrderingFacts
<1>6. ConfirmedLeverage({i \in a.orders : mem[i].d = "Queued"}, refused, a.want)
        \in Leverages \cup {NoLeverage}
  BY <1>2 DEF ConfirmedLeverage
<1>7. /\ WriteKept
      /\ UNCHANGED <<venueVars, mayOpen, up, past, crashes, faults, cmds, reply, lookup>>
      /\ boot' \subseteq boot
  BY Zenon DEF CompleteLeverage, WriteKept
<1>8. /\ admin' \subseteq [sym : Symbols, want : Leverages, orders : SUBSET Ids]
      /\ leverageAt' \in [Symbols -> Leverages \cup {NoLeverage}]
  BY <1>1, <1>6, Zenon DEF Inv, TypeOK
<1>9. QED
  BY <1>1, <1>3, <1>4, <1>5, <1>7, <1>8, EndInv, Zenon

\* A durable leverage write ends what changed meanwhile and hands over nothing.
LEMMA OnDurableLeverageInv ==
  ASSUME Inv, OnDurableLeverage PROVE Inv'
<1>1. PICK refused \in SUBSET Held :
        /\ \E o \in Orderings(refused) : logged' = LogsPairs(logged, o, EndRecord, CompletedRecord)
        /\ mem' = Ended(mem, refused) /\ Retire(refused)
        /\ \/ UNCHANGED <<admin, leverageAt>>
           \/ \E i \in {j \in Held \ refused : Missing(j)} :
                /\ admin' = admin \cup
                     {[sym |-> SymbolOf[i], want |-> Want[i],
                       orders |-> {j \in {k \in Held \ refused : Missing(k)} :
                                     SymbolOf[j] = SymbolOf[i] /\ Want[j] = Want[i]}]}
                /\ leverageAt' = [leverageAt EXCEPT ![SymbolOf[i]] = NoLeverage]
  BY ZenonT(30) DEF OnDurableLeverage
<1>2. Held \subseteq {i \in Ids : mem[i].d # "none"}
  BY DEF Held, Inv, TypeOK
<1>3. refused \in SUBSET {i \in Ids : mem[i].d # "none"} /\ refused \in SUBSET Ids
  BY <1>1, <1>2, ZenonT(30)
<1>4. PICK o \in Orderings(refused) : logged' = LogsPairs(logged, o, EndRecord, CompletedRecord)
  BY <1>1, ZenonT(30)
<1>5. o \in Seq(Ids) /\ Lists(o, refused)
  BY <1>3, OrderingFacts, Zenon
<1>6. /\ WriteKept
      /\ UNCHANGED <<venueVars, mayOpen, up, past, crashes, faults, cmds, reply, lookup>>
      /\ boot' \subseteq boot
  BY Zenon DEF OnDurableLeverage, WriteKept
<1>7. /\ admin' \subseteq [sym : Symbols, want : Leverages, orders : SUBSET Ids]
      /\ leverageAt' \in [Symbols -> Leverages \cup {NoLeverage}]
  <2>1. CASE UNCHANGED <<admin, leverageAt>>
    BY <2>1, Zenon DEF Inv, TypeOK
  <2>2. ASSUME NEW i \in {j \in Held \ refused : Missing(j)},
               NEW S \in SUBSET Ids,
               admin' = admin \cup {[sym |-> SymbolOf[i], want |-> Want[i], orders |-> S]},
               leverageAt' = [leverageAt EXCEPT ![SymbolOf[i]] = NoLeverage]
        PROVE  /\ admin' \subseteq [sym : Symbols, want : Leverages, orders : SUBSET Ids]
               /\ leverageAt' \in [Symbols -> Leverages \cup {NoLeverage}]
    <3>1. i \in Ids /\ SymbolOf[i] \in Symbols /\ Want[i] \in Leverages
      BY <1>2, DispatchAssumption, Zenon DEF DispatchAssumption, Missing
    <3>2. QED
      <4>1. /\ admin \subseteq [sym : Symbols, want : Leverages, orders : SUBSET Ids]
            /\ leverageAt \in [Symbols -> Leverages \cup {NoLeverage}]
        BY Zenon DEF Inv, TypeOK
      <4>2. QED
        BY <2>2, <3>1, <4>1
  <2>3. \A i \in Ids : {j \in {k \in Held \ refused : Missing(k)} :
                          SymbolOf[j] = SymbolOf[i] /\ Want[j] = Want[i]} \in SUBSET Ids
    BY <1>2
  <2>4. {j \in Held \ refused : Missing(j)} \subseteq Ids
    BY <1>2
  <2>5. QED
    BY <1>1, <2>1, <2>2, <2>3, <2>4, Zenon
<1>8. QED
  BY <1>3, <1>1, <1>4, <1>5, <1>6, <1>7, EndInv, Zenon

\* A private-stream update settles one order.
LEMMA PrivateUpdateInv ==
  ASSUME Inv, PrivateUpdate PROVE Inv'
<1>1. PICK i \in Ids, end \in BOOLEAN :
        /\ mem[i].l \in {"sent", "acked"}
        /\ logged' = LogsPairs(logged, <<i>>, [j \in Ids |-> IF end THEN "end" ELSE "ack"],
                               CompletedRecord)
        /\ mem' = [mem EXCEPT ![i] = [d |-> "none", l |-> IF end THEN "done" ELSE "acked"]]
        /\ Retire({i})
  BY Zenon DEF PrivateUpdate
<1> DEFINE a == [j \in Ids |-> IF end THEN "end" ELSE "ack"]
<1>2. Settles({i}, a)
  BY <1>1 DEF Settles, Settling
<1>3. mem' = SettledMem({i}, a)
  <2>1. mem \in [Ids -> OrderState]
    BY DEF Inv, TypeOK, States
  <2>2. SettledState(i, a) = [d |-> "none", l |-> IF end THEN "done" ELSE "acked"]
    BY <1>1 DEF SettledState
  <2>3. QED
    BY <1>1, <2>1, <2>2, Zenon DEF SettledMem
<1> HIDE DEF a
<1>4. logged' = LogsPairs(logged, <<i>>, a, CompletedRecord)
  BY <1>1 DEF a
<1>5. /\ {i} \in SUBSET Ids /\ <<i>> \in Seq(Ids) /\ Lists(<<i>>, {i})
  BY OneFacts, Zenon
<1>6. /\ WriteKept /\ cmds \in SUBSET cmds /\ cmds' = cmds
      /\ UNCHANGED <<venueVars, mayOpen, up, past, crashes, faults>>
      /\ lookup' \subseteq lookup /\ boot' \subseteq boot
      /\ unresolved' \subseteq Ids /\ recovered' \subseteq Ids
      /\ admin' \subseteq [sym : Symbols, want : Leverages, orders : SUBSET Ids]
      /\ leverageAt' \in [Symbols -> Leverages \cup {NoLeverage}]
      /\ reply' \in [Ids -> {"none", "ack", "reject", "unsent", "lost"}]
  BY <1>1 DEF PrivateUpdate, Inv, TypeOK, WriteKept, Retire
<1>7. QED
  BY <1>2, <1>3, <1>4, <1>5, <1>6, SettleInv, Zenon

\* A placement completion settles what was answered and keeps what was lost.
LEMMA CompleteOrdersInv ==
  ASSUME Inv, CompleteOrders PROVE Inv'
<1> DEFINE acked(c) == {i \in c.ids : reply[i] = "ack"}
           ended(c) == {i \in c.ids : reply[i] \in {"reject", "unsent"}}
           lost(c) == {i \in c.ids : reply[i] = "lost"}
           update(c) == [i \in Ids |-> IF i \in acked(c) THEN "ack"
                                       ELSE IF i \in ended(c) THEN "end" ELSE "skip"]
<1>1. PICK c \in cmds :
        /\ \E o \in Orderings(acked(c) \cup ended(c)) :
             logged' = LogsPairs(logged, o, update(c), CompletedRecord)
        /\ mem' = [i \in Ids |->
                     IF i \in ended(c) THEN [d |-> "none", l |-> "done"]
                     ELSE IF i \in acked(c)
                     THEN [d |-> "none", l |-> IF mem[i].l = "done" THEN "done" ELSE "acked"]
                     ELSE mem[i]]
        /\ unresolved' = (unresolved \ (acked(c) \cup ended(c))) \cup lost(c)
        /\ recovered' = recovered \ (acked(c) \cup ended(c))
        /\ cmds' = Superseded(cmds \ {c}) \/ cmds' = cmds \ {c}
        /\ reply' = [i \in Ids |-> IF i \in c.ids THEN "none" ELSE reply[i]]
  BY Zenon DEF CompleteOrders
<1> DEFINE S == acked(c) \cup ended(c)
           a == update(c)
<1>2. c.ids \subseteq Ids
  BY DEF Inv, TypeOK
<1>3. S \in SUBSET Ids /\ lost(c) \subseteq Ids
  BY <1>2
<1>4. \A i \in S : mem[i].l # "none" /\ a[i] \in {"ack", "end"}
  <2> SUFFICES ASSUME NEW i \in S PROVE mem[i].l # "none" /\ a[i] \in {"ack", "end"}
    OBVIOUS
  <2>1. i \in Ids /\ InCommand(i)
    BY <1>2 DEF InCommand
  <2>2. mem[i].l # "none"
    BY <2>1, CoveredAtEnd, Zenon
  <2>3. QED
    BY <2>1, <2>2
<1>5. Settles(S, a)
  BY <1>4 DEF Settles, Settling
<1>6. mem' = SettledMem(S, a)
  <2>1. ASSUME NEW i \in Ids
        PROVE  mem'[i] = IF i \in S THEN SettledState(i, a) ELSE mem[i]
    BY <1>1, <1>2, ZenonT(30) DEF SettledState
  <2>2. mem' = [i \in Ids |-> mem'[i]]
    BY <1>1
  <2>3. QED
    BY <2>1, <2>2 DEF SettledMem
<1>7. PICK o \in Orderings(S) : logged' = LogsPairs(logged, o, a, CompletedRecord)
  BY <1>1, Zenon
<1> HIDE DEF S, a
<1>8. o \in Seq(Ids) /\ Lists(o, S)
  BY <1>3, OrderingFacts
<1>9. /\ cmds \ {c} \in SUBSET cmds
      /\ cmds' = cmds \ {c} \/ cmds' = Superseded(cmds \ {c})
  BY <1>1, Zenon
<1>10. /\ WriteKept
       /\ UNCHANGED <<venueVars, mayOpen, up, past, crashes, faults>>
       /\ lookup' \subseteq lookup /\ boot' \subseteq boot
       /\ admin' \subseteq [sym : Symbols, want : Leverages, orders : SUBSET Ids]
       /\ leverageAt' \in [Symbols -> Leverages \cup {NoLeverage}]
  BY Zenon DEF CompleteOrders, Inv, TypeOK, WriteKept
<1>11. /\ unresolved' \subseteq Ids /\ recovered' \subseteq Ids
       /\ reply' \in [Ids -> {"none", "ack", "reject", "unsent", "lost"}]
  BY <1>1, <1>3, Zenon DEF Inv, TypeOK
<1>12. QED
  BY <1>3, <1>5, <1>6, <1>7, <1>8, <1>9, <1>10, <1>11, SettleInv, Zenon

\* With the durability wait free, the log ends in memory.
LEMMA FreeFacts ==
  ASSUME Inv, WriteFree
  PROVE  /\ write = NoWrite /\ EndsIn(logged, mem) /\ Accepted(logged)
         /\ logged \in Seq(States) /\ Len(logged) >= 1 /\ Len(logged) \in Nat /\ mem \in States
BY SMTT(30), Z3T(30) DEF Inv, TypeOK, WriteCovered, MemTracksLog, LogWellFormed, EndsIn, Accepted, WellFormed, WriteFree

\* A log that says nothing new of orders outside S.
Extends(log, S) ==
  /\ log \in Seq(States) /\ Len(log) >= Len(logged) /\ Len(log) \in Nat
  /\ \A k \in 1..Len(logged) : log[k] = logged[k]
  /\ \A i \in Ids \ S, k \in (Len(logged) + 1)..Len(log) : log[k][i] = mem[i]

\* A step that writes attempts, all of orders that are in no command and not on
\* the wire, keeps every part of the invariant but the lookup's.
LEMMA AttemptKeeps ==
  ASSUME Inv, WriteFree, NEW S \in SUBSET Ids, NEW log, Extends(log, S), Wrote(log, S, mem'),
         AllQueued(mem', S), \A i \in Ids \ S : mem'[i] = mem[i], mem' \in States,
         \A i \in S : ~OnWire(i) /\ ~InCommand(i), UNCHANGED <<cmds, venueVars>>
  PROVE  /\ MemTracksLog' /\ LogWellFormed' /\ WriteCovered' /\ WireCovered' /\ QueuedOffWire'
         /\ logged' \in Seq(States) /\ Len(logged') >= 1
         /\ write' \in [kind : WriteKinds, ids : SUBSET Ids, mark : Nat, synced : BOOLEAN]
<1>1. \A i \in Ids : (OnWire(i)' <=> OnWire(i)) /\ (InCommand(i)' <=> InCommand(i))
  BY Zenon DEF OnWire, InCommand, venueVars
<1>2. /\ write = NoWrite /\ EndsIn(logged, mem) /\ Accepted(logged) /\ Len(logged) \in Nat
      /\ Len(logged) >= 1
  BY FreeFacts
<1>3. /\ logged' \in Seq(States) /\ Len(logged') \in Nat /\ Len(logged') >= Len(logged)
      /\ Len(logged') >= 1
  BY <1>2 DEF Wrote, Extends
<1>4. MemTracksLog'
  <2> SUFFICES ASSUME NEW i \in Ids
               PROVE  Final(logged')[i] =
                        IF write'.kind = "Attempt" /\ i \in write'.ids /\ mem'[i].d = "Queued"
                        THEN [mem'[i] EXCEPT !.d = "Attempted"] ELSE mem'[i]
    BY Zenon DEF MemTracksLog, Final
  <2>1. i \in write'.ids => mem'[i].d = "Queued"
    BY DEF Wrote, AllQueued
  <2>2. QED
    BY <2>1 DEF Wrote
<1>5. LogWellFormed'
  BY Zenon DEF Wrote, Accepted, LogWellFormed, WellFormed
<1>6. WriteCovered'
  <2>1. write'.mark \in 1..Len(logged') /\ ~write'.synced
    BY DEF Wrote
  <2>2. write'.kind = "none" => write' = NoWrite
    BY <1>2 DEF Wrote
  <2>3. ASSUME write'.kind = "Attempt", NEW i \in write'.ids, NEW k \in write'.mark..Len(logged')
        PROVE  mem'[i].d \in {"Queued", "none"} /\ Covered(logged'[k][i])
    <3>1. i \in S /\ mem'[i].d = "Queued"
      BY DEF Wrote, AllQueued
    <3>2. write'.mark = Len(logged')
      BY <1>2, <2>3 DEF Wrote, NoWrite
    <3>3. k = Len(logged')
      BY <3>2, <1>3
    <3>4. logged'[k][i] = [mem'[i] EXCEPT !.d = "Attempted"] /\ mem'[i] \in OrderState
      BY <3>1, <3>3, <2>3 DEF Wrote, Final, States
    <3>5. QED
      BY <3>1, <3>4 DEF Covered, OrderState
  <2>4. ASSUME write'.kind = "Attempt", NEW i \in write'.ids
        PROVE  mem'[i].d \in {"Queued", "none"}
    BY DEF Wrote, AllQueued
  <2>5. QED
    BY <2>1, <2>2, <2>3, <2>4 DEF WriteCovered, WriteFree
<1>7. WireCovered'
  <2> SUFFICES ASSUME NEW i \in Ids, OnWire(i)' \/ InCommand(i)', NEW k \in 1..Len(logged')
               PROVE  Covered(logged'[k][i])
    BY DEF WireCovered
  <2>1. OnWire(i) \/ InCommand(i)
    BY <1>1, ZenonT(30)
  <2>2. i \notin S /\ mem'[i] = mem[i]
    BY <2>1, Zenon
  <2>3. Covered(mem[i])
    BY <2>1, <1>2, CoveredAtEnd, Zenon DEF EndsIn
  <2>4. CASE k \in 1..Len(logged)
    <3>1. logged'[k] = logged[k]
      BY <2>4, <1>2, SMTT(30), Z3T(30) DEF Wrote, Extends
    <3>2. QED
      BY <3>1, <2>1, <2>4 DEF Inv, WireCovered
  <2>5. CASE k \in (Len(logged) + 1)..Len(log)
    <3>1. logged'[k] = log[k] /\ log[k][i] = mem[i]
      BY <2>5, <2>2, <1>2 DEF Wrote, Extends
    <3>2. QED
      BY <3>1, <2>3, Zenon
  <2>6. CASE k \in (Len(log) + 1)..Len(logged')
    BY <2>6, <2>2, <2>3, Zenon DEF Wrote
  <2>7. QED
    BY <2>4, <2>5, <2>6, <1>2, SMTT(30), Z3T(30) DEF Wrote, Extends
<1>8. QueuedOffWire'
  BY <1>1 DEF Inv, QueuedOffWire
<1>9. write' \in [kind : WriteKinds, ids : SUBSET Ids, mark : Nat, synced : BOOLEAN]
  BY Zenon DEF Wrote, Inv, TypeOK
<1>10. QED
  BY <1>3, <1>4, <1>5, <1>6, <1>7, <1>8, <1>9

\* An admission adds queued orders that nothing else knows, and may prepare them.
LEMMA AdmitInv ==
  ASSUME Inv, Admit PROVE Inv'
<1>1. PICK S \in SUBSET {i \in Ids \ past : mem[i].l = "none"} :
        /\ \E o \in Orderings(S) : Prepare(Logs(logged, o, "sent"), S)
        /\ mem' = [i \in Ids |-> IF i \in S THEN [d |-> "Queued", l |-> "sent"] ELSE mem[i]]
  BY ZenonT(30) DEF Admit
<1>2. PICK o \in Orderings(S) : Prepare(Logs(logged, o, "sent"), S)
  BY <1>1, Zenon
<1>3. S \in SUBSET Ids /\ \A i \in S : mem[i].l = "none"
  BY <1>1
<1>4. o \in Seq(Ids) /\ Lists(o, S)
  BY <1>3, OrderingFacts
<1>5. WriteFree /\ Running
  BY Zenon DEF Admit
<1>6. /\ write = NoWrite /\ EndsIn(logged, mem) /\ Accepted(logged)
      /\ logged \in Seq(States) /\ Len(logged) >= 1 /\ Len(logged) \in Nat /\ mem \in States
  BY <1>5, FreeFacts, Zenon
<1>7. \A i \in S : mem[i].d = "none"
  BY <1>3, MemFacts
<1>8. \A i \in S : ~OnWire(i) /\ ~InCommand(i)
  BY <1>3, CoveredAtEnd, Zenon
<1> DEFINE log == Logs(logged, o, "sent")
<1>9. /\ log \in Seq(States) /\ Len(log) = Len(logged) + Len(o)
      /\ \A k \in 1..Len(logged) : log[k] = logged[k]
      /\ \A k \in (Len(logged) + 1)..Len(log), i \in Ids :
           \/ log[k][i] = Final(logged)[i]
           \/ In(o, i) /\ log[k][i] = Replay(Final(logged)[i], "sent")
      /\ \A i \in Ids : Final(log)[i] = IF In(o, i) THEN Replay(Final(logged)[i], "sent")
                                        ELSE Final(logged)[i]
  <2>1. logged \in Seq(States) /\ Len(logged) >= 1 /\ o \in Seq(Ids)
    BY <1>4, <1>6, Zenon
  <2>2. Recorded(logged, o, "sent", log)
    BY <2>1, LogsFacts, Zenon
  <2> HIDE DEF log
  <2>3. QED
    BY <2>2, Zenon DEF Recorded
<1> HIDE DEF log
<1>10. \A i \in S : Replay(mem[i], "sent") = [d |-> "Queued", l |-> "sent"]
  BY <1>7 DEF Replay, ReplayPhase, ReplayRow
<1>11. \A i \in Ids : Final(logged)[i] = mem[i] /\ WellFormed(mem[i])
  BY <1>6, MemFacts, Zenon DEF EndsIn
<1>12. Len(log) \in Nat /\ Len(log) >= Len(logged) /\ Len(log) >= 1
  BY <1>4, <1>6, <1>9, SMTT(30), Z3T(30)
<1>13. Accepted(log)
  <2> SUFFICES ASSUME NEW k \in 1..Len(log), NEW i \in Ids PROVE WellFormed(log[k][i])
    BY Zenon DEF Accepted
  <2>1. CASE k <= Len(logged)
    BY <2>1, <1>6, <1>9 DEF Accepted
  <2>2. CASE k > Len(logged)
    <3>1. k \in (Len(logged) + 1)..Len(log)
      BY <2>2, <1>6, <1>12, SMTT(30), Z3T(30)
    <3>2. log[k][i] = mem[i] \/ (i \in S /\ log[k][i] = [d |-> "Queued", l |-> "sent"])
      BY <3>1, <1>4, <1>9, <1>10, <1>11 DEF Lists
    <3>3. QED
      BY <3>2, <1>11 DEF WellFormed
  <2>3. QED
    BY <2>1, <2>2, <1>6, <1>12, SMTT(30)
<1>14. Extends(log, S)
  BY <1>4, <1>9, <1>11, <1>12, Zenon DEF Extends, Lists
<1>15. mem' \in States /\ AllQueued(mem', S) /\ \A i \in Ids \ S : mem'[i] = mem[i]
  BY <1>1, <1>3, <1>6 DEF States, OrderState, Phases, Rows, AllQueued
<1>16. EndsIn(log, mem')
  BY <1>1, <1>4, <1>9, <1>10, <1>11, ZenonT(40) DEF EndsIn, Lists
<1>17. Wrote(log, S, mem')
  BY <1>2, <1>3, <1>6, <1>9, <1>12, <1>13, <1>15, <1>16, PrepareFacts, Zenon DEF log
<1>18. UNCHANGED <<cmds, venueVars>>
  BY Zenon DEF Admit
<1>19. /\ MemTracksLog' /\ LogWellFormed' /\ WriteCovered' /\ WireCovered' /\ QueuedOffWire'
       /\ logged' \in Seq(States) /\ Len(logged') >= 1
       /\ write' \in [kind : WriteKinds, ids : SUBSET Ids, mark : Nat, synced : BOOLEAN]
  BY <1>3, <1>5, <1>8, <1>14, <1>15, <1>17, <1>18, AttemptKeeps, Zenon
<1>20. TypeOK'
  BY <1>15, <1>19, Zenon DEF Admit, Inv, TypeOK, venueVars
<1>21. LookupSafe'
  <2>1. ASSUME NEW q \in lookup PROVE mem'[q.id] = mem[q.id]
    <3>1. q.id \in Ids
      BY Zenon DEF Inv, TypeOK
    <3>2. mem[q.id].l # "none"
      BY SMTT(30) DEF Inv, LookupSafe
    <3>3. QED
      BY <3>1, <3>2, <1>3, <1>15, Zenon
  <2>2. QED
    BY <2>1, Zenon DEF Admit, Inv, LookupSafe, InCommand, OnWire, venueVars
<1>22. SendOnce' /\ NoDuplicateRequest'
  BY Zenon DEF Admit, Inv, SendOnce, NoDuplicateRequest, OnWire, venueVars
<1>23. BootApart'
  BY <1>5, Zenon DEF Admit, Inv, BootApart, Running
<1>24. QED
  BY <1>19, <1>20, <1>21, <1>22, <1>23 DEF Inv

\* An order with no busy symbol is in no command.
LEMMA NotBusy ==
  ASSUME NEW i \in Ids, SymbolOf[i] \notin BusySymbols PROVE ~InCommand(i)
BY DEF BusySymbols, InCommand

\* A service turn may write attempts of queued orders and start a status read.
LEMMA ServiceInv ==
  ASSUME Inv, Service PROVE Inv'
<1> DEFINE queued == Preparable({i \in Ids : mem[i].d = "Queued"})
           unknown == {i \in Ids : mem[i].d = "Attempted" /\ SymbolOf[i] \notin BusySymbols}
<1>1. Running /\ UNCHANGED <<mem, unresolved, recovered, admin, leverageAt, mayOpen, up, boot,
                             cmds, reply, venueVars, past, crashes, faults>>
  BY Zenon DEF Service
<1>2. /\ MemTracksLog' /\ LogWellFormed' /\ WriteCovered' /\ WireCovered' /\ QueuedOffWire'
      /\ logged' \in Seq(States) /\ Len(logged') >= 1
      /\ write' \in [kind : WriteKinds, ids : SUBSET Ids, mark : Nat, synced : BOOLEAN]
  <2>1. CASE UNCHANGED <<logged, write>>
    BY <2>1, <1>1 DEF Inv, TypeOK, MemTracksLog, LogWellFormed, WriteCovered, WriteFree, WireCovered,
                      QueuedOffWire, Final, OnWire, InCommand, venueVars
  <2>2. ASSUME WriteFree, NEW S \in SUBSET queued, Prepare(logged, S)
        PROVE  /\ MemTracksLog' /\ LogWellFormed' /\ WriteCovered' /\ WireCovered' /\ QueuedOffWire'
               /\ logged' \in Seq(States) /\ Len(logged') >= 1
               /\ write' \in [kind : WriteKinds, ids : SUBSET Ids, mark : Nat, synced : BOOLEAN]
    <3>1. S \in SUBSET Ids /\ AllQueued(mem, S) /\ \A i \in S : ~OnWire(i) /\ ~InCommand(i)
      BY DEF Preparable, AllQueued, Inv, QueuedOffWire
    <3>2. /\ write = NoWrite /\ EndsIn(logged, mem) /\ Accepted(logged)
          /\ logged \in Seq(States) /\ Len(logged) >= 1 /\ Len(logged) \in Nat /\ mem \in States
      BY <2>2, FreeFacts
    <3>3. Wrote(logged, S, mem)
      BY <2>2, <3>1, <3>2, PrepareFacts, Zenon
    <3>4. Extends(logged, S)
      BY <3>2, SMTT(60) DEF Extends
    <3>5. mem' = mem /\ UNCHANGED <<cmds, venueVars>>
      BY <1>1, ZenonT(30)
    <3>6. Wrote(logged, S, mem') /\ AllQueued(mem', S) /\ mem' \in States
          /\ \A i \in Ids \ S : mem'[i] = mem[i]
      BY <3>1, <3>2, <3>3, <3>5, Zenon
    <3>7. QED
      BY <2>2, <3>1, <3>4, <3>5, <3>6, AttemptKeeps, Zenon
  <2>3. QED
    BY <2>1, <2>2, Zenon DEF Service
<1>3. \A q \in lookup' : q \in lookup \/ (q.ans = "none" /\ q.id \in unknown)
  <2>1. lookup' = lookup \/ \E i \in unknown : lookup' = {[id |-> i, ans |-> "none"]}
    BY Zenon DEF Service
  <2>2. QED
    BY <2>1
<1>4. lookup' \subseteq [id : Ids, ans : {"none", "working", "terminal", "never", "unknown"}]
  <2>1. lookup' = lookup \/ \E i \in unknown : lookup' = {[id |-> i, ans |-> "none"]}
    BY Zenon DEF Service
  <2>2. lookup \subseteq [id : Ids, ans : {"none", "working", "terminal", "never", "unknown"}]
    BY Zenon DEF Inv, TypeOK
  <2>3. QED
    BY <2>1, <2>2
<1>5. LookupSafe'
  <2> SUFFICES ASSUME NEW q \in lookup'
               PROVE  /\ mem[q.id].d # "Queued" /\ mem[q.id].l # "none"
                      /\ ~InCommand(q.id)
                      /\ q.ans = "never" => ~OnWire(q.id)
    BY <1>1 DEF LookupSafe, InCommand, OnWire, venueVars
  <2>1. CASE q \in lookup
    BY <2>1, Zenon DEF Inv, LookupSafe
  <2>2. CASE q.ans = "none" /\ q.id \in unknown
    BY <2>2, NotBusy, MemFacts, Zenon
  <2>3. QED
    BY <1>3, <2>1, <2>2, Zenon
<1>6. TypeOK'
  BY <1>1, <1>2, <1>4, Zenon DEF Inv, TypeOK, venueVars
<1>7. SendOnce' /\ NoDuplicateRequest'
  BY <1>1 DEF Inv, SendOnce, NoDuplicateRequest, OnWire, venueVars
<1>8. BootApart'
  BY <1>1 DEF Inv, BootApart, Running
<1>9. QED
  BY <1>2, <1>5, <1>6, <1>7, <1>8 DEF Inv
=============================================================================
