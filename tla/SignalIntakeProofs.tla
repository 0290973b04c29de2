------------------------- MODULE SignalIntakeProofs -------------------------
(***************************************************************************)
(* What the signal intake promises, for every set of sources, strategies   *)
(* and dependencies, every capacity and any number of rows, republished    *)
(* rows and crashes.                                                       *)
(***************************************************************************)
EXTENDS SignalIntake, FiniteSetTheorems, TLAPS

\* The rows that a state has accepted are those up to its cursors, each retained or consumed.
TakenInOrder(e) ==
  /\ e.waiting \cup e.consumed = {r \in Rows : r.seq <= e.cursor[r.source]}
  /\ e.waiting \cap e.consumed = {}

\* Cursors and gaps speak of rows that were published.
GapFits(e, s) ==
  \/ e.gap[s] = NoGap
  \/ /\ e.gap[s].next = e.cursor[s] + 1
     /\ e.gap[s].next <= e.gap[s].observed
     /\ e.gap[s].observed <= published[s]

Good(e) ==
  /\ e \in EngineStates
  /\ TakenInOrder(e)
  /\ \A s \in Sources : e.cursor[s] <= published[s] /\ GapFits(e, s)

\* Every state on disk is good and has the same cursors, so a crash takes back no acceptance.
PastAgrees ==
  /\ eng \in past
  /\ \A e \in past : Good(e) /\ e.cursor = eng.cursor

\* Whatever lies in the directory, or was picked from it, was published.
WasPublished(r) == r \in Rows /\ r.seq <= published[r.source]
OnlyPublished ==
  /\ \A r \in spool \cup spoiled \cup quarantine : WasPublished(r)
  /\ scan.row # None => WasPublished(scan.row)
  /\ pending # None => WasPublished(pending)

\* The feed hands out one row at a time, and deletes only what is accepted.
OneAtATime ==
  /\ returned = pending
  /\ pending # None => Ready(eng, pending) /\ acknowledged = None /\ scan.busy = FALSE
  /\ scan.busy => acknowledged = None /\ pending = None
  /\ scan.busy \in BOOLEAN
  /\ acknowledged # None => acknowledged.seq <= eng.cursor[acknowledged.source]

Kept ==
  \A s \in Sources : \A n \in 1..published[s] :
    n <= eng.cursor[s] \/ Row(s, n) \in spool \cup spoiled \cup quarantine

IntakeInv ==
  /\ published \in [Sources -> Nat] /\ \A s \in Sources : published[s] <= MaxSeq[s]
  /\ PastAgrees /\ OnlyPublished /\ OneAtATime /\ Kept

-----------------------------------------------------------------------------
(* Rows. *)

\* A row is its source and its place in it.
LEMMA RowFacts ==
  /\ \A r \in Rows : /\ r.source \in Sources /\ r.seq \in Nat /\ 1 <= r.seq
                     /\ r.seq <= MaxSeq[r.source] /\ r = Row(r.source, r.seq)
  /\ \A s \in Sources : \A n \in Nat : 1 <= n /\ n <= MaxSeq[s] => Row(s, n) \in Rows
  /\ None \notin Rows
<1>1. \A s \in Sources : MaxSeq[s] \in Nat
  BY IntakeAssumption
<1>2. ASSUME NEW r \in Rows
      PROVE  /\ r.source \in Sources /\ r.seq \in Nat /\ 1 <= r.seq
             /\ r.seq <= MaxSeq[r.source] /\ r = Row(r.source, r.seq)
  <2>1. PICK s \in Sources : r \in {Row(s, n) : n \in 1..MaxSeq[s]}
    BY DEF Rows
  <2>2. PICK n \in 1..MaxSeq[s] : r = Row(s, n)
    BY <2>1
  <2> QED
    BY <1>1, <2>2 DEF Row
<1>3. ASSUME NEW s \in Sources, NEW n \in Nat, 1 <= n, n <= MaxSeq[s]
      PROVE  Row(s, n) \in Rows
  BY <1>1, <1>3 DEF Rows
<1>4. None.seq = 0
  BY DEF None
<1> QED
  BY <1>2, <1>3, <1>4

-----------------------------------------------------------------------------
(* The durable signal state. *)

\* accept: taking the next row of a source keeps a state good.
LEMMA AcceptedGood ==
  ASSUME published \in [Sources -> Nat], NEW e, Good(e), NEW r, WasPublished(r), Ready(e, r)
  PROVE  /\ Good(Accepted(e, r))
         /\ Accepted(e, r).cursor = [e.cursor EXCEPT ![r.source] = @ + 1]
         /\ e.cursor[r.source] < published[r.source]
<1> DEFINE f == Accepted(e, r)
<1>1. /\ r \in Rows /\ r.source \in Sources /\ r.seq \in Nat /\ r.seq <= published[r.source]
      /\ r.seq = e.cursor[r.source] + 1
  BY RowFacts DEF WasPublished, Ready, NextSequence
<1>2. /\ e.cursor \in [Sources -> Nat] /\ e.gap \in [Sources -> [next : Nat, observed : Nat]]
      /\ e.waiting \subseteq Rows /\ e.consumed \subseteq Rows
      /\ e.suspended \subseteq Rows /\ e.fitted \subseteq Rows
  BY DEF Good, EngineStates
<1>3. GapAfter(e.gap[r.source], r.seq) \in [next : Nat, observed : Nat]
  BY <1>1, <1>2 DEF GapAfter, NoGap
<1>4. /\ f.cursor = [e.cursor EXCEPT ![r.source] = r.seq]
      /\ f.gap = [e.gap EXCEPT ![r.source] = GapAfter(e.gap[r.source], r.seq)]
      /\ f.waiting = e.waiting \cup {r} /\ f.consumed = e.consumed
  BY <1>2 DEF Accepted, Good, EngineStates
<1>5. f \in EngineStates
  BY <1>1, <1>2, <1>3, Zenon DEF Accepted, Good, EngineStates
<1>6. TakenInOrder(f)
  <2>1. r \notin e.waiting \cup e.consumed
    BY <1>1, <1>2 DEF Good, TakenInOrder
  <2>2. {q \in Rows : q.seq <= f.cursor[q.source]} = {q \in Rows : q.seq <= e.cursor[q.source]} \cup {r}
    <3>1. ASSUME NEW q \in Rows
          PROVE  q.seq <= f.cursor[q.source] <=> q.seq <= e.cursor[q.source] \/ q = r
      <4>1. q.source \in Sources /\ q.seq \in Nat /\ q = Row(q.source, q.seq) /\ r = Row(r.source, r.seq)
        BY <1>1, RowFacts
      <4>2. CASE q.source # r.source
        BY <1>1, <1>2, <1>4, <4>1, <4>2
      <4>3. CASE q.source = r.source
        <5>1. f.cursor[q.source] = e.cursor[q.source] + 1
          BY <1>1, <1>2, <1>4, <4>3
        <5>2. e.cursor[q.source] \in Nat
          BY <1>2, <4>1
        <5>3. q = r <=> q.seq = r.seq
          BY <4>1, <4>3
        <5> QED
          BY <1>1, <4>1, <4>3, <5>1, <5>2, <5>3
      <4> QED
        BY <4>2, <4>3
    <3> QED
      BY <1>1, <3>1
  <2> QED
    BY <1>4, <2>1, <2>2 DEF Good, TakenInOrder
<1>7. ASSUME NEW s \in Sources
      PROVE  f.cursor[s] <= published[s] /\ GapFits(f, s)
  <2>1. CASE s # r.source
    BY <1>2, <1>4, <2>1 DEF Good, GapFits
  <2>2. CASE s = r.source
    <3>1. f.cursor[s] = r.seq /\ f.gap[s] = GapAfter(e.gap[s], r.seq)
      BY <1>1, <1>2, <1>4, <2>2
    <3>2. e.gap[s] \in [next : Nat, observed : Nat] /\ GapFits(e, s)
      BY <1>2 DEF Good
    <3> QED
      BY <1>1, <2>2, <3>1, <3>2 DEF GapFits, GapAfter, NoGap
  <2> QED
    BY <2>1, <2>2
<1> QED
  BY <1>1, <1>2, <1>4, <1>5, <1>6, <1>7 DEF Good

\* record_gap: a gap up to a published row keeps a state good.
LEMMA RecordGapGood ==
  ASSUME published \in [Sources -> Nat], NEW e, Good(e), NEW s \in Sources,
         NEW n \in Nat, e.cursor[s] < n, n <= published[s]
  PROVE  Good(RecordGap(e, s, n)) /\ RecordGap(e, s, n).cursor = e.cursor
<1> DEFINE f == RecordGap(e, s, n)
<1>1. /\ e.cursor \in [Sources -> Nat] /\ e.gap \in [Sources -> [next : Nat, observed : Nat]]
      /\ e.gap[s] \in [next : Nat, observed : Nat]
  BY DEF Good, EngineStates
<1>2. /\ GapTo(e, s, n) \in [next : Nat, observed : Nat]
      /\ GapTo(e, s, n).next = e.cursor[s] + 1
      /\ GapTo(e, s, n).observed = Larger(e.gap[s].observed, n)
  BY <1>1 DEF GapTo, NextSequence, Larger
<1>3. /\ f.cursor = e.cursor /\ f.waiting = e.waiting /\ f.consumed = e.consumed
      /\ f.gap = [e.gap EXCEPT ![s] = GapTo(e, s, n)]
  BY DEF RecordGap, Good, EngineStates
<1>4. f \in EngineStates
  BY <1>1, <1>2, Zenon DEF RecordGap, Good, EngineStates
<1>5. GapFits(f, s)
  <2>1. GapFits(e, s) /\ published[s] \in Nat /\ e.cursor[s] \in Nat
    BY <1>1 DEF Good
  <2> QED
    BY <1>1, <1>2, <1>3, <2>1 DEF GapFits, Larger, NoGap
<1>6. \A t \in Sources : t # s => GapFits(f, t)
  BY <1>1, <1>3 DEF Good, GapFits
<1> QED
  BY <1>3, <1>4, <1>5, <1>6 DEF Good, TakenInOrder

\* A strategy's answer moves a row from the retained to the consumed ones.
LEMMA ConsumedGood ==
  ASSUME NEW e, Good(e), NEW r \in e.waiting
  PROVE  LET f == [e EXCEPT !.waiting = e.waiting \ {r}, !.consumed = e.consumed \cup {r}]
         IN  Good(f) /\ f.cursor = e.cursor
  BY Zenon DEF Good, EngineStates, TakenInOrder, GapFits

\* Suspending a strategy and clearing its suspension touch neither rows nor cursors.
LEMMA SuspensionGood ==
  ASSUME NEW e, Good(e), NEW S \in SUBSET Rows, NEW F \in SUBSET Rows
  PROVE  LET f == [e EXCEPT !.suspended = S, !.fitted = F]
             g == [e EXCEPT !.suspended = S]
         IN  Good(f) /\ f.cursor = e.cursor /\ Good(g) /\ g.cursor = e.cursor
  BY Zenon DEF Good, EngineStates, TakenInOrder, GapFits

-----------------------------------------------------------------------------
(* Steps. *)

\* Nothing is published and every state is good.
LEMMA InitIntake == Init => IntakeInv
<1> SUFFICES ASSUME Init PROVE IntakeInv
  OBVIOUS
<1>1. eng \in EngineStates /\ TakenInOrder(eng)
  BY RowFacts DEF Init, EngineStates, TakenInOrder, NoGap
<1>2. Good(eng)
  BY <1>1 DEF Init, Good, GapFits
<1>3. PastAgrees
  BY <1>2 DEF Init, PastAgrees
<1>4. OnlyPublished /\ OneAtATime
  BY DEF Init, OnlyPublished, OneAtATime, NoScan
<1>5. published \in [Sources -> Nat] /\ (\A s \in Sources : published[s] <= MaxSeq[s]) /\ Kept
  BY IntakeAssumption DEF Init, Kept
<1> QED
  BY <1>3, <1>4, <1>5 DEF IntakeInv

\* A step that writes one record, or none, and leaves directory and feed alone.
LEMMA EngineKeeps ==
  ASSUME IntakeInv, UNCHANGED <<published, spool, spoiled, quarantine, scan, returned, acknowledged, pending>>,
         Good(eng'), eng'.cursor = eng.cursor, past' \subseteq past \cup {eng'}, eng' \in past'
  PROVE  IntakeInv'
<1>1. \A e : Good(e) => Good(e)'
  BY DEF Good, GapFits, EngineStates, TakenInOrder
<1>2. PastAgrees'
  BY <1>1 DEF IntakeInv, PastAgrees
<1>3. OnlyPublished' /\ OneAtATime' /\ Kept'
  BY DEF IntakeInv, OnlyPublished, WasPublished, OneAtATime, Kept, Ready, NextSequence
<1> QED
  BY <1>2, <1>3 DEF IntakeInv

\* A producer publishes the next row of a source.
LEMMA PublishKeeps ==
  ASSUME IntakeInv, NEW s \in Sources, Publish(s)
  PROVE  IntakeInv'
<1>1. /\ published \in [Sources -> Nat] /\ MaxSeq \in [Sources -> Nat]
      /\ published' = [published EXCEPT ![s] = @ + 1]
      /\ published[s] < MaxSeq[s]
      /\ UNCHANGED <<quarantine, eng, past, scan, returned, acknowledged, pending>>
  BY IntakeAssumption, Zenon DEF IntakeInv, Publish, feed
<1>2. /\ published' \in [Sources -> Nat]
      /\ \A t \in Sources : published[t] <= published'[t] /\ published'[t] <= MaxSeq[t]
      /\ \A t \in Sources : published[t] \in Nat /\ published'[t] \in Nat
      /\ published'[s] = published[s] + 1
      /\ \A t \in Sources : t # s => published'[t] = published[t]
  BY <1>1 DEF IntakeInv
<1>3. PICK new \in Rows : new = Row(s, published'[s]) /\ new.source = s /\ new.seq = published'[s]
  <2>1. Row(s, published'[s]) \in Rows
    BY <1>2, RowFacts
  <2> QED
    BY <2>1 DEF Row
<1>4. \A e : Good(e) => Good(e)'
  <2> SUFFICES ASSUME NEW e, Good(e) PROVE Good(e)'
    OBVIOUS
  <2>1. e.cursor \in [Sources -> Nat] /\ e.gap \in [Sources -> [next : Nat, observed : Nat]]
    BY DEF Good, EngineStates
  <2>2. \A t \in Sources : e.cursor[t] <= published'[t]
    BY <1>2, <2>1 DEF Good
  <2>3. \A t \in Sources : GapFits(e, t)'
    BY <1>2, <2>1 DEF Good, GapFits
  <2> QED
    BY <2>2, <2>3 DEF Good, EngineStates, TakenInOrder
<1>5. PastAgrees'
  BY <1>1, <1>4 DEF IntakeInv, PastAgrees
<1>6. \A r : WasPublished(r) => WasPublished(r)'
  BY <1>2, RowFacts DEF WasPublished
<1>7. WasPublished(new)'
  BY <1>2, <1>3 DEF WasPublished
<1>8. spool' \cup spoiled' = spool \cup spoiled \cup {new}
  BY <1>3 DEF Publish
<1>9. OnlyPublished'
  BY <1>1, <1>6, <1>7, <1>8 DEF IntakeInv, OnlyPublished
<1>10. OneAtATime'
  BY <1>1 DEF IntakeInv, OneAtATime, Ready, NextSequence
<1>11. Kept'
  <2> SUFFICES ASSUME NEW t \in Sources, NEW n \in 1..published'[t]
               PROVE  n <= eng.cursor[t] \/ Row(t, n) \in (spool \cup spoiled \cup quarantine)'
    BY <1>1 DEF Kept
  <2>1. CASE n \in 1..published[t]
    BY <1>1, <1>8, <2>1 DEF IntakeInv, Kept
  <2>2. CASE n \notin 1..published[t]
    <3>1. t = s /\ n = published'[s]
      BY <1>2, <2>2
    <3> QED
      BY <1>3, <1>8, <3>1
  <2> QED
    BY <2>1, <2>2
<1> QED
  BY <1>2, <1>5, <1>9, <1>10, <1>11 DEF IntakeInv

\* A row is put back into the directory.
LEMMA RepublishKeeps ==
  ASSUME IntakeInv, NEW r \in Rows, Republish(r)
  PROVE  IntakeInv'
<1>1. /\ UNCHANGED <<published, spoiled, quarantine, eng, past, scan, returned, acknowledged, pending>>
      /\ spool' = spool \cup {r} /\ WasPublished(r)
  BY DEF Republish, feed, WasPublished
<1>2. PastAgrees'
  BY <1>1 DEF IntakeInv, PastAgrees, Good, GapFits, EngineStates, TakenInOrder
<1>3. OnlyPublished' /\ OneAtATime' /\ Kept'
  BY <1>1 DEF IntakeInv, OnlyPublished, WasPublished, OneAtATime, Kept, Ready, NextSequence
<1> QED
  BY <1>1, <1>2, <1>3 DEF IntakeInv

\* A scan picks a row of the directory and renames unreadable ones.
LEMMA ScanKeeps ==
  ASSUME IntakeInv, Scan
  PROVE  IntakeInv'
<1>1. PICK pick \in spool \cup {None}, removed \in SUBSET (spoiled \ quarantine) :
        /\ scan' = [policy |-> policy, row |-> pick, busy |-> TRUE]
        /\ spoiled' = spoiled \ removed /\ quarantine' = quarantine \cup removed
  BY Zenon DEF Scan
<1>2. /\ UNCHANGED <<published, spool, eng, past, returned, acknowledged, pending>>
      /\ returned = None /\ acknowledged = None
  BY DEF Scan
<1>3. PastAgrees'
  BY <1>2 DEF IntakeInv, PastAgrees, Good, GapFits, EngineStates, TakenInOrder
<1>4. spool' \cup spoiled' \cup quarantine' = spool \cup spoiled \cup quarantine
  BY <1>1, <1>2
<1>5. scan'.row = pick /\ scan'.busy = TRUE
  BY <1>1
<1>6. OnlyPublished'
  BY <1>2, <1>4, <1>5 DEF IntakeInv, OnlyPublished, WasPublished
<1>7. OneAtATime'
  BY <1>2, <1>5, Zenon DEF IntakeInv, OneAtATime, Ready, NextSequence
<1>8. Kept'
  BY <1>2, <1>4 DEF IntakeInv, Kept
<1> QED
  BY <1>2, <1>3, <1>6, <1>7, <1>8 DEF IntakeInv

\* A scan without a usable row is dropped.
LEMMA ScanWastedKeeps ==
  ASSUME IntakeInv, ScanWasted
  PROVE  IntakeInv'
<1>1. /\ UNCHANGED <<published, spool, spoiled, quarantine, eng, past, returned, acknowledged, pending>>
      /\ scan'.row = None /\ scan'.busy = FALSE
  BY DEF ScanWasted, disk, NoScan
<1>2. PastAgrees'
  BY <1>1 DEF IntakeInv, PastAgrees, Good, GapFits, EngineStates, TakenInOrder
<1>3. OnlyPublished' /\ OneAtATime' /\ Kept'
  BY <1>1, Zenon DEF IntakeInv, OnlyPublished, WasPublished, OneAtATime, Kept, Ready, NextSequence
<1> QED
  BY <1>1, <1>2, <1>3 DEF IntakeInv

\* retire_acknowledged deletes a row that is accepted in every state on disk.
LEMMA RetireKeeps ==
  ASSUME IntakeInv, Retire
  PROVE  IntakeInv'
<1>1. /\ UNCHANGED <<published, spoiled, quarantine, eng, past, scan, returned, pending>>
      /\ spool' = spool \ {acknowledged} /\ acknowledged' = None
      /\ acknowledged.seq <= eng.cursor[acknowledged.source]
  BY DEF Retire, IntakeInv, OneAtATime
<1>2. PastAgrees'
  BY <1>1 DEF IntakeInv, PastAgrees, Good, GapFits, EngineStates, TakenInOrder
<1>3. OnlyPublished' /\ OneAtATime'
  BY <1>1 DEF IntakeInv, OnlyPublished, WasPublished, OneAtATime, Ready, NextSequence
<1>4. Kept'
  <2> SUFFICES ASSUME NEW s \in Sources, NEW n \in 1..published[s], ~(n <= eng.cursor[s])
               PROVE  Row(s, n) \in (spool \cup spoiled \cup quarantine)'
    BY <1>1 DEF Kept
  <2>1. Row(s, n) # acknowledged
    BY <1>1 DEF Row
  <2>2. Row(s, n) \in spool \cup spoiled \cup quarantine
    BY DEF IntakeInv, Kept
  <2> QED
    BY <1>1, <2>1, <2>2
<1> QED
  BY <1>1, <1>2, <1>3, <1>4 DEF IntakeInv

\* The engine writes at most one record that moves no cursor, and gives the row back, deletes an
\* accepted one or keeps the next one for acceptance.
LEMMA TurnKeeps ==
  ASSUME IntakeInv, UNCHANGED <<published, spool, spoiled, quarantine>>,
         Good(eng'), eng'.cursor = eng.cursor, past' \subseteq past \cup {eng'}, eng' \in past',
         scan' = NoScan, returned' = pending', pending = None \/ pending' = None, acknowledged = None,
         \/ pending' = None /\ acknowledged' = None
         \/ /\ pending' = None
            /\ acknowledged'.seq <= eng.cursor[acknowledged'.source]
         \/ acknowledged' = None /\ WasPublished(pending') /\ Ready(eng, pending')
  PROVE  IntakeInv'
<1>1. \A e : Good(e) => Good(e)'
  BY DEF Good, GapFits, EngineStates, TakenInOrder
<1>2. PastAgrees'
  BY <1>1 DEF IntakeInv, PastAgrees
<1>3. scan'.row = None /\ scan'.busy = FALSE
  BY DEF NoScan
<1>4. OnlyPublished' /\ Kept'
  BY <1>3 DEF IntakeInv, OnlyPublished, WasPublished, Kept
<1>5. OneAtATime'
  BY <1>3, Zenon DEF IntakeInv, OneAtATime, Ready, NextSequence
<1> QED
  BY <1>2, <1>4, <1>5, Zenon DEF IntakeInv

\* queue_signal_observation, for the row a scan handed over.
LEMMA ReceiveKeeps ==
  ASSUME IntakeInv, Receive
  PROVE  IntakeInv'
<1> DEFINE r == scan.row
<1>1. /\ UNCHANGED <<published, spool, spoiled, quarantine>> /\ scan' = NoScan
      /\ pending = None /\ returned = None /\ acknowledged = None
      /\ WasPublished(r) /\ Queue(r)
  BY DEF IntakeInv, Receive, ScanUsable, disk, OnlyPublished, OneAtATime
<1>2. /\ r \in Rows /\ r.source \in Sources /\ r.seq \in Nat /\ r.seq <= published[r.source]
  BY <1>1, RowFacts DEF WasPublished
<1>3. /\ Good(eng) /\ eng \in past /\ published \in [Sources -> Nat]
      /\ eng.cursor \in [Sources -> Nat] /\ eng.suspended \in SUBSET Rows
  BY DEF IntakeInv, PastAgrees, Good, EngineStates
<1>4. CASE Duplicate(eng, r) /\ Same /\ Acknowledge(r)
  BY <1>1, <1>3, <1>4, TurnKeeps DEF Duplicate, Same, Acknowledge
<1>5. CASE Same /\ Defer
  BY <1>1, <1>3, <1>5, TurnKeeps DEF Same, Defer
<1>6. CASE ~Duplicate(eng, r) /\ Synced(RecordGap(eng, r.source, r.seq)) /\ Defer
  <2>1. eng.cursor[r.source] < r.seq
    BY <1>2, <1>3, <1>6 DEF Duplicate
  <2>2. Good(eng') /\ eng'.cursor = eng.cursor
    BY <1>2, <1>3, <1>6, <2>1, RecordGapGood DEF Synced
  <2> QED
    BY <1>1, <1>6, <2>2, TurnKeeps DEF Synced, Defer
<1>7. CASE Suspend(r)
  <2>1. Good(eng') /\ eng'.cursor = eng.cursor
    <3>1. eng' = [eng EXCEPT !.suspended = eng.suspended \cup {r}]
      BY <1>3, <1>7 DEF Suspend, Synced, Good, EngineStates
    <3> QED
      BY <1>2, <1>3, <3>1, SuspensionGood, Zenon
  <2> QED
    BY <1>1, <1>7, <2>1, TurnKeeps DEF Suspend, Synced, Defer
<1>8. CASE Ready(eng, r) /\ Same /\ returned' = r /\ pending' = r /\ UNCHANGED acknowledged
  BY <1>1, <1>3, <1>8, TurnKeeps DEF Same
<1> QED
  BY <1>1, <1>4, <1>5, <1>6, <1>7, <1>8, Zenon DEF Queue

\* accept_pending_signals takes exactly the next row of its source, in the only state on disk.
LEMMA AcceptPendingKeeps ==
  ASSUME IntakeInv, AcceptPending
  PROVE  IntakeInv'
<1>1. /\ UNCHANGED <<published, spool, spoiled, quarantine, scan>>
      /\ pending # None /\ returned = pending /\ acknowledged = None
      /\ scan.busy = FALSE /\ WasPublished(pending) /\ Ready(eng, pending)
  BY DEF IntakeInv, AcceptPending, disk, OnlyPublished, OneAtATime
<1>2. /\ pending \in Rows /\ pending.source \in Sources /\ pending.seq \in Nat
      /\ pending.seq <= published[pending.source]
  BY <1>1, RowFacts DEF WasPublished
<1>3. /\ Good(eng) /\ eng \in past /\ published \in [Sources -> Nat]
      /\ eng.cursor \in [Sources -> Nat] /\ eng.suspended \in SUBSET Rows
  BY DEF IntakeInv, PastAgrees, Good, EngineStates
<1>4. \A e : Good(e) => Good(e)'
  BY <1>1 DEF Good, GapFits, EngineStates, TakenInOrder
<1>5. CASE /\ Good(eng') /\ eng'.cursor = eng.cursor /\ past' \subseteq past \cup {eng'} /\ eng' \in past'
           /\ Defer
  <2>1. PastAgrees'
    BY <1>4, <1>5, Zenon DEF IntakeInv, PastAgrees
  <2>2. OnlyPublished' /\ OneAtATime' /\ Kept'
    BY <1>1, <1>5 DEF IntakeInv, Defer, OnlyPublished, WasPublished, OneAtATime, Kept
  <2> QED
    BY <1>1, <2>1, <2>2 DEF IntakeInv
<1>6. CASE Same /\ Defer
  BY <1>3, <1>5, <1>6 DEF Same
<1>7. CASE Suspend(pending)
  <2>1. eng' = [eng EXCEPT !.suspended = eng.suspended \cup {pending}]
    BY <1>3, <1>7 DEF Suspend, Synced, Good, EngineStates
  <2>2. Good(eng') /\ eng'.cursor = eng.cursor
    BY <1>2, <1>3, <2>1, SuspensionGood, Zenon
  <2> QED
    BY <1>5, <1>7, <2>2 DEF Suspend, Synced
<1>8. CASE Synced(Accepted(eng, pending)) /\ Acknowledge(pending)
  <2>1. /\ Good(eng') /\ eng'.cursor = [eng.cursor EXCEPT ![pending.source] = @ + 1]
        /\ past' = {eng'}
    BY <1>1, <1>3, <1>8, AcceptedGood DEF Synced
  <2>2. PastAgrees'
    BY <1>4, <2>1 DEF PastAgrees
  <2>3. \A s \in Sources : eng.cursor[s] \in Nat /\ eng'.cursor[s] \in Nat /\ eng.cursor[s] <= eng'.cursor[s]
    BY <1>3, <2>1
  <2>4. pending.seq <= eng'.cursor[pending.source]
    BY <1>1, <1>2, <1>3, <2>1 DEF Ready, NextSequence
  <2>5. OnlyPublished'
    BY <1>1, <1>8 DEF IntakeInv, OnlyPublished, Acknowledge, WasPublished
  <2>6. OneAtATime'
    BY <1>1, <1>8, <2>4, Zenon DEF OneAtATime, Acknowledge
  <2>7. Kept'
    BY <1>1, <1>3, <2>3 DEF IntakeInv, Kept
  <2> QED
    BY <1>1, <2>2, <2>5, <2>6, <2>7 DEF IntakeInv
<1> QED
  BY <1>6, <1>7, <1>8, Zenon DEF AcceptPending

\* accept_signal_frontiers records a gap up to a published row.
LEMMA FrontierKeeps ==
  ASSUME IntakeInv, NEW s \in Sources, Frontier(s)
  PROVE  IntakeInv'
<1>1. /\ Good(eng) /\ published \in [Sources -> Nat]
      /\ eng.cursor \in [Sources -> Nat]
  BY DEF IntakeInv, PastAgrees, Good, EngineStates
<1>2. PICK n \in NextSequence(eng, s)..published[s] : Synced(RecordGap(eng, s, n))
  BY DEF Frontier
<1>3. n \in Nat /\ eng.cursor[s] < n /\ n <= published[s]
  BY <1>1 DEF NextSequence
<1>4. Good(eng') /\ eng'.cursor = eng.cursor
  BY <1>1, <1>2, <1>3, RecordGapGood DEF Synced
<1> QED
  BY <1>2, <1>4, EngineKeeps DEF Frontier, Synced, disk, feed

\* Answers, barriers, faults, cleared suspensions and boots move no cursor.
LEMMA QuietKeeps ==
  ASSUME IntakeInv,
         \/ Barrier \/ Boot
         \/ \E r \in Rows : Consume(r) \/ ClearSuspension(r)
         \/ \E d \in Destinations : Fault(d)
  PROVE  IntakeInv'
<1>1. /\ Good(eng) /\ eng \in past /\ eng.suspended \in SUBSET Rows /\ eng.fitted \in SUBSET Rows
      /\ eng \in EngineStates
  BY DEF IntakeInv, PastAgrees, Good, EngineStates
<1>2. CASE Barrier
  BY <1>1, <1>2, EngineKeeps DEF Barrier, disk, feed
<1>3. CASE Boot
  BY <1>1, <1>3, EngineKeeps DEF Boot, disk, feed
<1>4. ASSUME NEW r \in Rows, Consume(r) PROVE IntakeInv'
  <2>1. Good(eng') /\ eng'.cursor = eng.cursor
    <3>1. /\ r \in eng.waiting
          /\ eng' = [eng EXCEPT !.waiting = eng.waiting \ {r}, !.consumed = eng.consumed \cup {r}]
      BY <1>1, <1>4, Zenon DEF Consume, Unsynced, EngineStates
    <3> QED
      BY <1>1, <3>1, ConsumedGood, Zenon
  <2> QED
    BY <1>4, <2>1, EngineKeeps, Zenon DEF Consume, Unsynced, disk, feed
<1>5. ASSUME NEW r \in Rows, ClearSuspension(r) PROVE IntakeInv'
  <2>1. eng' = [eng EXCEPT !.suspended = eng.suspended \ {r}, !.fitted = eng.fitted \cup {r}]
    BY <1>1, <1>5, Zenon DEF ClearSuspension, Synced, EngineStates
  <2>2. Good(eng') /\ eng'.cursor = eng.cursor
    <3>1. eng.suspended \ {r} \in SUBSET Rows /\ eng.fitted \cup {r} \in SUBSET Rows
      BY <1>1
    <3> QED
      BY <1>1, <2>1, <3>1, SuspensionGood, Zenon
  <2> QED
    BY <1>5, <2>2, EngineKeeps, Zenon DEF ClearSuspension, Synced, disk, feed
<1>6. ASSUME NEW d \in Destinations, Fault(d) PROVE IntakeInv'
  BY <1>1, <1>6, EngineKeeps DEF Fault, disk, feed
<1> QED
  BY <1>2, <1>3, <1>4, <1>5, <1>6

\* A crash goes back to a state with the same cursors and forgets the feed.
LEMMA CrashKeeps ==
  ASSUME IntakeInv, Crash
  PROVE  IntakeInv' /\ eng'.cursor = eng.cursor
<1>1. /\ UNCHANGED <<published, spool, spoiled, quarantine>>
      /\ scan'.row = None /\ scan'.busy = FALSE
      /\ returned' = None /\ acknowledged' = None /\ pending' = None
      /\ eng' \in past /\ past' = {eng'}
  BY DEF Crash, disk, NoScan
<1>2. Good(eng') /\ eng'.cursor = eng.cursor
  BY <1>1 DEF IntakeInv, PastAgrees
<1>3. \A e : Good(e) => Good(e)'
  BY <1>1 DEF Good, GapFits, EngineStates, TakenInOrder
<1>4. PastAgrees'
  BY <1>1, <1>2, <1>3 DEF PastAgrees
<1>5. OnlyPublished' /\ OneAtATime' /\ Kept'
  BY <1>1, <1>2, Zenon DEF IntakeInv, OnlyPublished, WasPublished, OneAtATime, Kept
<1> QED
  BY <1>1, <1>2, <1>4, <1>5 DEF IntakeInv

\* Every step of the feed, the engine, the producers and the operator keeps the invariant.
LEMMA StepIntake == IntakeInv /\ [Next]_vars => IntakeInv'
<1> SUFFICES ASSUME IntakeInv, [Next]_vars PROVE IntakeInv'
  OBVIOUS
<1>1. CASE UNCHANGED vars
  <2>1. /\ UNCHANGED <<published, spool, spoiled, quarantine, scan, returned, acknowledged, pending, eng, past>>
        /\ Good(eng) /\ eng \in past
    BY <1>1 DEF vars, IntakeInv, PastAgrees
  <2> QED
    BY <2>1, EngineKeeps
<1>2. CASE Engine
  BY <1>2, ScanKeeps, ScanWastedKeeps, RetireKeeps, ReceiveKeeps, AcceptPendingKeeps, QuietKeeps DEF Engine
<1>3. CASE Crash
  BY <1>3, CrashKeeps
<1>4. CASE \E s \in Sources : Publish(s) \/ Frontier(s)
  BY <1>4, PublishKeeps, FrontierKeeps
<1>5. CASE \E r \in Rows : Republish(r) \/ Consume(r) \/ ClearSuspension(r)
  BY <1>5, RepublishKeeps, QuietKeeps
<1>6. CASE \E d \in Destinations : Fault(d)
  BY <1>6, QuietKeeps
<1> QED
  BY <1>1, <1>2, <1>3, <1>4, <1>5, <1>6 DEF Next

\* The inductive invariant of the intake.
THEOREM IntakeCorrect == Spec => []IntakeInv
  BY InitIntake, StepIntake, PTL DEF Spec

-----------------------------------------------------------------------------
(* What follows. *)

\* In every state a crash may leave, the rows up to a cursor were each accepted exactly once.
THEOREM AlwaysAcceptedOnceInOrder == Spec => []AcceptedOnceInOrder
<1>1. IntakeInv => AcceptedOnceInOrder
  <2> SUFFICES ASSUME IntakeInv, NEW e \in past, NEW s \in Sources
               PROVE  /\ {r.seq : r \in {q \in e.waiting \cup e.consumed : q.source = s}} = 1..e.cursor[s]
                      /\ e.waiting \cap e.consumed = {}
    BY DEF AcceptedOnceInOrder
  <2>1. /\ e.waiting \cup e.consumed = {r \in Rows : r.seq <= e.cursor[r.source]}
        /\ e.waiting \cap e.consumed = {}
        /\ e.cursor[s] \in Nat /\ e.cursor[s] <= MaxSeq[s] /\ MaxSeq[s] \in Nat
    BY IntakeAssumption DEF IntakeInv, PastAgrees, Good, TakenInOrder, EngineStates
  <2>2. ASSUME NEW r \in {q \in e.waiting \cup e.consumed : q.source = s}
        PROVE  r.seq \in 1..e.cursor[s]
    BY <2>1, RowFacts
  <2>3. ASSUME NEW n \in 1..e.cursor[s]
        PROVE  \E r \in {q \in e.waiting \cup e.consumed : q.source = s} : r.seq = n
    <3>1. Row(s, n) \in Rows /\ Row(s, n).seq = n /\ Row(s, n).source = s
      BY <2>1, RowFacts DEF Row
    <3> QED
      BY <2>1, <3>1
  <2> QED
    BY <2>1, <2>2, <2>3
<1> QED
  BY IntakeCorrect, <1>1, PTL

\* A published row is in the directory or its acceptance is certain to be on disk.
THEOREM AlwaysRowsNotLost == Spec => []RowsNotLost
<1>1. IntakeInv => RowsNotLost
  BY DEF IntakeInv, Kept, PastAgrees, RowsNotLost
<1> QED
  BY IntakeCorrect, <1>1, PTL

\* Every gap a crash may leave starts after the cursor and ends at a published row.
THEOREM AlwaysGapsReplay == Spec => []GapsReplay
<1>1. IntakeInv => GapsReplay
  BY DEF IntakeInv, PastAgrees, Good, GapFits, GapsReplay, HasGap
<1> QED
  BY IntakeCorrect, <1>1, PTL

\* The feed and the engine agree on the one row outstanding, which stays the next of its source.
THEOREM AlwaysOneRowOutstanding == Spec => []OneRowOutstanding
<1>1. IntakeInv => OneRowOutstanding
  BY DEF IntakeInv, OneAtATime, OneRowOutstanding
<1> QED
  BY IntakeCorrect, <1>1, PTL

\* Only the acceptance of the pending row moves a cursor; a crash moves none.
LEMMA CursorMoves ==
  ASSUME IntakeInv, [Next]_vars
  PROVE  \/ UNCHANGED eng.cursor
         \/ /\ pending # None /\ eng' = Accepted(eng, pending) /\ UNCHANGED published
<1>1. eng \in EngineStates
  BY DEF IntakeInv, PastAgrees, Good
<1>2. /\ \A s, n : RecordGap(eng, s, n).cursor = eng.cursor
      /\ \A S, F : [eng EXCEPT !.suspended = S, !.fitted = F].cursor = eng.cursor
      /\ \A S : [eng EXCEPT !.suspended = S].cursor = eng.cursor
      /\ \A S, F : [eng EXCEPT !.waiting = S, !.consumed = F].cursor = eng.cursor
  BY <1>1 DEF EngineStates, RecordGap
<1>3. CASE UNCHANGED vars
  BY <1>3, Zenon DEF vars
<1>4. CASE Scan \/ ScanWasted \/ Retire \/ Barrier \/ Boot
  BY <1>4, Zenon DEF Scan, ScanWasted, Retire, Barrier, Boot
<1>5. CASE Receive
  <2>1. \/ eng' = eng \/ eng' = RecordGap(eng, scan.row.source, scan.row.seq)
        \/ eng' = [eng EXCEPT !.suspended = @ \cup {scan.row}]
    BY <1>5 DEF Receive, Queue, Same, Synced, Suspend
  <2> QED
    BY <1>1, <2>1 DEF EngineStates, RecordGap
<1>6. CASE AcceptPending
  BY <1>2, <1>6, Zenon DEF AcceptPending, Same, Synced, Suspend, disk
<1>7. CASE Crash
  BY <1>7, CrashKeeps
<1>8. CASE \E s \in Sources : Publish(s) \/ Frontier(s)
  BY <1>2, <1>8 DEF Publish, Frontier, Synced
<1>9. CASE \E r \in Rows : Republish(r) \/ Consume(r) \/ ClearSuspension(r)
  <2>1. PICK r \in Rows : \/ eng' = eng \/ eng' = [eng EXCEPT !.waiting = @ \ {r}, !.consumed = @ \cup {r}]
                          \/ eng' = [eng EXCEPT !.suspended = @ \ {r}, !.fitted = @ \cup {r}]
    BY <1>9, Zenon DEF Republish, Consume, ClearSuspension, Synced, Unsynced
  <2> QED
    BY <1>1, <2>1, Zenon DEF EngineStates
<1>10. CASE \E d \in Destinations : Fault(d)
  BY <1>10 DEF Fault
<1> QED
  BY <1>3, <1>4, <1>5, <1>6, <1>7, <1>8, <1>9, <1>10 DEF Next, Engine

\* Through crashes, gaps and republished rows a cursor moves forward by one published row at a time.
THEOREM AlwaysImplementsStream == Spec => ImplementsStream
<1>1. Init => Stream!Init
  BY DEF Init, Stream!Init
<1>2. IntakeInv /\ [Next]_vars => [Stream!Next]_<<published, eng.cursor>>
  <2> SUFFICES ASSUME IntakeInv, [Next]_vars PROVE [Stream!Next]_<<published, eng.cursor>>
    OBVIOUS
  <2>1. CASE /\ pending # None /\ eng' = Accepted(eng, pending) /\ UNCHANGED published
    <3>1. /\ published \in [Sources -> Nat] /\ Good(eng) /\ WasPublished(pending) /\ Ready(eng, pending)
      BY <2>1, Zenon DEF IntakeInv, PastAgrees, OnlyPublished, OneAtATime
    <3>2. pending.source \in Sources
      BY <3>1, RowFacts, SMTT(30) DEF WasPublished
    <3>3. Stream!Accept(pending.source)
      BY <2>1, <3>1, AcceptedGood, Zenon DEF Stream!Accept
    <3> QED
      BY <3>2, <3>3 DEF Stream!Next
  <2>2. CASE UNCHANGED eng.cursor
    <3>1. UNCHANGED published \/ \E s \in Sources : published' = [published EXCEPT ![s] = @ + 1]
      BY Zenon DEF Next, Engine, vars, Scan, ScanWasted, Retire, Receive, AcceptPending, Barrier, Boot, Crash,
             Publish, Frontier, Republish, Consume, ClearSuspension, Fault, disk
    <3> QED
      BY <2>2, <3>1 DEF Stream!Next, Stream!Publish
  <2> QED
    BY <2>1, <2>2, CursorMoves
<1> QED
  BY IntakeCorrect, <1>1, <1>2, PTL DEF Spec, ImplementsStream, Stream!Spec

\* No gap and no suspension that withholds the pending row appears before it is accepted.
PendingWanted == pending # None => ~Withheld(pending)

\* A state with fewer suspensions and the same gaps withholds no more.
LEMMA BlockedLess ==
  ASSUME NEW e, NEW f, e.gap = f.gap, f.suspended \subseteq e.suspended,
         NEW d \in Destinations, ~InputsBlocked(e, d)
  PROVE  ~InputsBlocked(f, d)
  BY DEF InputsBlocked, Blocked, Suspended, To, HasGap

\* Frontiers wait for the pending row, and every other record leaves the gaps alone.
LEMMA StepWanted == IntakeInv /\ PendingWanted /\ [Next]_vars => PendingWanted'
<1> SUFFICES ASSUME IntakeInv, PendingWanted, [Next]_vars, pending' # None PROVE ~Withheld(pending)'
  BY DEF PendingWanted
<1>1. eng \in EngineStates
  BY DEF IntakeInv, PastAgrees, Good
<1>2. CASE UNCHANGED <<eng, pending>>
  BY <1>2, Zenon DEF PendingWanted, Withheld, InputsBlocked, Blocked, Suspended, To, HasGap
<1>3. CASE UNCHANGED vars \/ Scan \/ ScanWasted \/ Retire \/ Barrier \/ Boot
  BY <1>2, <1>3, Zenon DEF vars, Scan, ScanWasted, Retire, Barrier, Boot
<1>4. CASE Receive
  <2>1. pending' = scan.row /\ ~Withheld(scan.row) /\ eng' = eng
    BY <1>4 DEF Receive, Queue, Defer, Acknowledge, Suspend, Same
  <2> QED
    BY <2>1 DEF Withheld, InputsBlocked, Blocked, Suspended, To, HasGap
<1>5. CASE AcceptPending \/ Crash
  BY <1>5 DEF AcceptPending, Defer, Acknowledge, Suspend, Crash
<1>6. CASE \E s \in Sources : Publish(s) \/ Frontier(s)
  BY <1>2, <1>6, ZenonT(30) DEF Publish, Frontier
<1>7. CASE \E r \in Rows : Republish(r) \/ Consume(r) \/ ClearSuspension(r)
  <2>1. /\ pending' = pending
        /\ eng'.gap = eng.gap /\ eng'.suspended \subseteq eng.suspended
    <3>1. PICK r \in Rows : \/ eng' = eng \/ eng' = [eng EXCEPT !.waiting = @ \ {r}, !.consumed = @ \cup {r}]
                            \/ eng' = [eng EXCEPT !.suspended = @ \ {r}, !.fitted = @ \cup {r}]
      BY <1>7, Zenon DEF Republish, Consume, ClearSuspension, Synced, Unsynced
    <3>2. pending' = pending
      BY <1>7 DEF Republish, Consume, ClearSuspension
    <3> QED
      BY <1>1, <3>1, <3>2, Zenon DEF EngineStates
  <2>2. DestinationOf[pending.source] \in Destinations
    BY <2>1, RowFacts, IntakeAssumption DEF IntakeInv, OnlyPublished, WasPublished
  <2>3. ~InputsBlocked(eng, DestinationOf[pending.source]) => ~InputsBlocked(eng', DestinationOf[pending.source])
    BY <2>1, <2>2, BlockedLess
  <2> QED
    BY <2>1, <2>3 DEF PendingWanted, Withheld, HasGap
<1>8. CASE \E d \in Destinations : Fault(d)
  BY <1>2, <1>8 DEF Fault
<1> QED
  BY <1>3, <1>4, <1>5, <1>6, <1>7, <1>8 DEF Next, Engine

\* While a source a strategy depends on has a known gap, only missing rows are accepted for it.
THEOREM AlwaysGapWithholdsOthers == Spec => GapWithholdsOthers
<1>1. Init => PendingWanted
  BY Zenon DEF Init, PendingWanted
<1>2. IntakeInv /\ PendingWanted /\ [Next]_vars =>
        [\A s, g \in Sources :
           (/\ up /\ up' /\ eng'.cursor[s] # eng.cursor[s]
            /\ DestinationOf[g] \in Dependencies[DestinationOf[s]] /\ HasGap(eng, g))
             => HasGap(eng, s) /\ eng'.cursor[s] = eng.gap[s].next]_vars
  <2> SUFFICES ASSUME IntakeInv, PendingWanted, [Next]_vars, NEW s \in Sources, NEW g \in Sources,
                      eng'.cursor[s] # eng.cursor[s],
                      DestinationOf[g] \in Dependencies[DestinationOf[s]], HasGap(eng, g)
               PROVE  HasGap(eng, s) /\ eng'.cursor[s] = eng.gap[s].next
    OBVIOUS
  <2>1. /\ pending # None /\ eng' = Accepted(eng, pending)
    BY CursorMoves, Zenon
  <2>2. /\ published \in [Sources -> Nat] /\ Good(eng) /\ WasPublished(pending) /\ Ready(eng, pending)
        /\ ~Withheld(pending) /\ eng.cursor \in [Sources -> Nat]
    BY <2>1, Zenon DEF IntakeInv, PastAgrees, OnlyPublished, OneAtATime, PendingWanted, Good, EngineStates
  <2>3. pending.source \in Sources /\ eng'.cursor = [eng.cursor EXCEPT ![pending.source] = @ + 1]
    BY <2>1, <2>2, RowFacts, AcceptedGood, Zenon DEF WasPublished
  <2>4. pending.source = s /\ eng'.cursor[s] = eng.cursor[s] + 1
    BY <2>2, <2>3, Zenon
  <2>5. InputsBlocked(eng, DestinationOf[s])
    BY DEF InputsBlocked, Blocked
  <2>6. HasGap(eng, s)
    BY <2>2, <2>4, <2>5, Zenon DEF Withheld
  <2> QED
    BY <2>2, <2>4, <2>6, Zenon DEF Good, GapFits, HasGap
<1> QED
  BY IntakeCorrect, StepWanted, <1>1, <1>2, PTL DEF Spec, GapWithholdsOthers

-----------------------------------------------------------------------------
(* Retention. *)

\* One strategy at most has a second row retained, and there is one row too many at most.
Bounded(e) ==
  /\ IsFiniteSet(e.waiting) /\ Cardinality(e.waiting) <= Capacity + 1
  /\ \A d \in Destinations : Cardinality(To(d, e.waiting)) <= 2
  /\ \A c, d \in Destinations :
       Cardinality(To(c, e.waiting)) > 1 /\ Cardinality(To(d, e.waiting)) > 1 => c = d

RetentionKept == \A e \in past : Bounded(e)

\* Retaining fewer rows keeps the bounds.
LEMMA LessBounded ==
  ASSUME NEW e, NEW f, Bounded(e), f.waiting \subseteq e.waiting
  PROVE  Bounded(f)
<1>1. /\ IsFiniteSet(f.waiting) /\ Cardinality(f.waiting) <= Cardinality(e.waiting)
      /\ Cardinality(f.waiting) \in Nat /\ Cardinality(e.waiting) \in Nat
  BY FS_Subset, FS_CardinalityType DEF Bounded
<1>2. ASSUME NEW d \in Destinations
      PROVE  /\ Cardinality(To(d, f.waiting)) <= Cardinality(To(d, e.waiting))
             /\ Cardinality(To(d, f.waiting)) \in Nat /\ Cardinality(To(d, e.waiting)) \in Nat
  <2>1. To(d, f.waiting) \subseteq To(d, e.waiting) /\ To(d, e.waiting) \subseteq e.waiting
    BY DEF To
  <2>2. IsFiniteSet(To(d, e.waiting))
    BY <2>1, FS_Subset DEF Bounded
  <2> QED
    BY <2>1, <2>2, FS_Subset, FS_CardinalityType, Zenon
<1>3. Capacity \in Nat
  BY IntakeAssumption
<1>4. Cardinality(f.waiting) <= Capacity + 1
  BY <1>1, <1>3 DEF Bounded
<1>5. \A d \in Destinations : Cardinality(To(d, f.waiting)) <= 2
  BY <1>2 DEF Bounded
<1>6. \A c, d \in Destinations :
        Cardinality(To(c, f.waiting)) > 1 /\ Cardinality(To(d, f.waiting)) > 1 => c = d
  BY <1>2 DEF Bounded
<1> QED
  BY <1>1, <1>4, <1>5, <1>6, Zenon DEF Bounded

\* One row more makes a set larger by one at most.
LEMMA AddOne ==
  ASSUME NEW S, IsFiniteSet(S), NEW x
  PROVE  /\ IsFiniteSet(S \cup {x}) /\ Cardinality(S) \in Nat /\ Cardinality(S \cup {x}) \in Nat
         /\ Cardinality(S \cup {x}) <= Cardinality(S) + 1
<1>1. IsFiniteSet(S \cup {x}) /\ Cardinality(S \cup {x}) = IF x \in S THEN Cardinality(S) ELSE Cardinality(S) + 1
  BY FS_AddElement
<1>2. Cardinality(S) \in Nat /\ Cardinality(S \cup {x}) \in Nat
  BY <1>1, FS_CardinalityType
<1> QED
  BY <1>1, <1>2

\* can_accept: a row joins an idle strategy below capacity, or is the one recovery row in all.
LEMMA AcceptedBounded ==
  ASSUME NEW e \in EngineStates, Bounded(e), NEW r \in Rows, NEW full, CanAccept(e, r, full)
  PROVE  Bounded(Accepted(e, r))
<1> DEFINE w == e.waiting
           v == w \cup {r}
           to == DestinationOf[r.source]
<1>1. Accepted(e, r).waiting = v
  BY SMTT(30) DEF Accepted, EngineStates
<1>2. /\ IsFiniteSet(v) /\ Cardinality(v) <= Cardinality(w) + 1
      /\ Cardinality(w) \in Nat /\ Cardinality(v) \in Nat /\ Capacity \in Nat
  BY AddOne, IntakeAssumption, Zenon DEF Bounded
<1>3. \A d \in Destinations : d # to => To(d, v) = To(d, w)
  BY DEF To
<1>4. ASSUME NEW d \in Destinations
      PROVE  IsFiniteSet(To(d, w)) /\ Cardinality(To(d, w)) \in Nat
  <2>1. To(d, w) \in SUBSET w /\ IsFiniteSet(w)
    BY Zenon DEF To, Bounded
  <2>2. IsFiniteSet(To(d, w))
    BY <2>1, FS_Subset, Zenon
  <2> QED
    BY <2>2, FS_CardinalityType, Zenon
<1>5. to \in Destinations
  BY RowFacts, IntakeAssumption, SMTT(30)
<1>6. /\ Cardinality(To(to, v)) <= Cardinality(To(to, w)) + 1
      /\ Cardinality(To(to, v)) \in Nat
  <2>1. To(to, v) = To(to, w) \cup {r}
    BY DEF To
  <2> QED
    BY <1>4, <1>5, <2>1, AddOne, Zenon
<1>7. /\ \A d \in Destinations : Cardinality(To(d, w)) <= 2
      /\ \A c, d \in Destinations : Cardinality(To(c, w)) > 1 /\ Cardinality(To(d, w)) > 1 => c = d
  BY DEF Bounded
<1>8. /\ \/ To(to, w) = {} /\ Cardinality(w) < Capacity
         \/ Cardinality(w) <= Capacity /\ \A d \in Destinations : Cardinality(To(d, w)) <= 1
  BY Zenon DEF CanAccept, ConsumerPending, OrdinaryCapacity, RecoveryCapacity
<1> HIDE DEF v, w, to
<1>9. Cardinality(v) <= Capacity + 1
  BY <1>2, <1>8
<1>10. \A d \in Destinations : Cardinality(To(d, v)) <= 2
  <2> SUFFICES ASSUME NEW d \in Destinations PROVE Cardinality(To(d, v)) <= 2
    OBVIOUS
  <2>1. CASE d # to
    BY <1>3, <1>7, <2>1
  <2>2. CASE d = to
    BY <1>4, <1>6, <1>8, <2>2, FS_EmptySet
  <2> QED
    BY <2>1, <2>2
<1>11. \A c, d \in Destinations : Cardinality(To(c, v)) > 1 /\ Cardinality(To(d, v)) > 1 => c = d
  <2>1. CASE To(to, w) = {}
    <3>1. Cardinality(To(to, v)) <= 1
      BY <1>6, <2>1, FS_EmptySet
    <3>2. \A c \in Destinations : Cardinality(To(c, v)) > 1 => To(c, v) = To(c, w)
      BY <1>3, <1>6, <3>1
    <3> QED
      BY <1>7, <3>2
  <2>2. CASE \A d \in Destinations : Cardinality(To(d, w)) <= 1
    <3>1. \A c \in Destinations : Cardinality(To(c, v)) > 1 => c = to
      BY <1>3, <1>4, <2>2
    <3> QED
      BY <3>1
  <2> QED
    BY <1>8, <2>1, <2>2
<1> QED
  BY <1>1, <1>2, <1>9, <1>10, <1>11, Zenon DEF Bounded

\* Only an acceptance adds a row to those retained, and a crash goes back to a bounded state.
LEMMA StepRetention == IntakeInv /\ RetentionKept /\ [Next]_vars => RetentionKept'
<1> SUFFICES ASSUME IntakeInv, RetentionKept, [Next]_vars PROVE RetentionKept'
  OBVIOUS
<1>1. eng \in EngineStates /\ eng \in past /\ Bounded(eng)
  BY DEF IntakeInv, PastAgrees, Good, RetentionKept
<1>2. ASSUME past' \subseteq past \cup {eng'}, eng' \in past \/ eng'.waiting \subseteq eng.waiting
      PROVE  RetentionKept'
  <2>1. Bounded(eng')
    BY <1>1, <1>2, LessBounded DEF RetentionKept
  <2> QED
    BY <1>2, <2>1 DEF RetentionKept, Bounded, To
<1>3. CASE UNCHANGED <<eng, past>>
  BY <1>1, <1>2, <1>3
<1>4. CASE UNCHANGED vars \/ Scan \/ ScanWasted \/ Retire \/ Boot
  BY <1>3, <1>4, Zenon DEF vars, Scan, ScanWasted, Retire, Boot
<1>5. CASE Barrier \/ Crash
  BY <1>1, <1>2, <1>5, Zenon DEF Barrier, Crash
<1>6. CASE Receive
  <2>1. \/ eng' = eng /\ past' = past
        \/ eng' = RecordGap(eng, scan.row.source, scan.row.seq) /\ past' = {eng'}
        \/ eng' = [eng EXCEPT !.suspended = @ \cup {scan.row}] /\ past' = {eng'}
    BY <1>6, Zenon DEF Receive, Queue, Same, Synced, Suspend
  <2>2. eng'.waiting = eng.waiting /\ past' \subseteq past \cup {eng'}
    BY <1>1, <2>1 DEF EngineStates, RecordGap
  <2> QED
    BY <1>2, <2>2
<1>7. CASE AcceptPending
  <2>1. PICK full \in BytesFull(pending), over \in OverBudget(pending) :
          \/ Same \/ Suspend(pending)
          \/ CanAccept(eng, pending, full) /\ Synced(Accepted(eng, pending))
    BY <1>7 DEF AcceptPending
  <2>2. CASE Same
    BY <1>3, <2>2 DEF Same
  <2>3. CASE Suspend(pending)
    BY <1>1, <1>2, <2>3, Zenon DEF Suspend, Synced, EngineStates
  <2>4. CASE CanAccept(eng, pending, full) /\ Synced(Accepted(eng, pending))
    <3>1. pending \in Rows
      BY <1>7, Zenon DEF AcceptPending, IntakeInv, OnlyPublished, WasPublished
    <3>2. Bounded(eng') /\ past' = {eng'}
      BY <1>1, <2>4, <3>1, AcceptedBounded DEF Synced
    <3> QED
      BY <3>2 DEF RetentionKept, Bounded, To
  <2> QED
    BY <2>1, <2>2, <2>3, <2>4
<1>8. CASE \E s \in Sources : Publish(s) \/ Frontier(s)
  <2>1. PICK s \in Sources : \/ UNCHANGED <<eng, past>>
                             \/ \E n : eng' = RecordGap(eng, s, n) /\ past' = {eng'}
    BY <1>8 DEF Publish, Frontier, Synced
  <2>2. eng'.waiting = eng.waiting /\ past' \subseteq past \cup {eng'}
    BY <1>1, <2>1 DEF EngineStates, RecordGap
  <2> QED
    BY <1>2, <2>2, Zenon
<1>9. CASE \E r \in Rows : Republish(r) \/ Consume(r) \/ ClearSuspension(r)
  <2>1. PICK r \in Rows : \/ eng' = eng \/ eng' = [eng EXCEPT !.waiting = @ \ {r}, !.consumed = @ \cup {r}]
                          \/ eng' = [eng EXCEPT !.suspended = @ \ {r}, !.fitted = @ \cup {r}]
    BY <1>9, Zenon DEF Republish, Consume, ClearSuspension, Synced, Unsynced
  <2>2. past' \subseteq past \cup {eng'}
    BY <1>9 DEF Republish, Consume, ClearSuspension, Synced, Unsynced
  <2>3. eng'.waiting \subseteq eng.waiting
    BY <1>1, <2>1, ZenonT(30) DEF EngineStates
  <2> QED
    BY <1>2, <2>2, <2>3
<1>10. CASE \E d \in Destinations : Fault(d)
  BY <1>3, <1>10 DEF Fault
<1> QED
  BY <1>4, <1>5, <1>6, <1>7, <1>8, <1>9, <1>10 DEF Next, Engine

\* Recovery exceeds the one row per strategy, and the channel's capacity, by one row in all.
THEOREM AlwaysRetentionBounded == Spec => []RetentionBounded
<1>1. Init => RetentionKept
  <2> SUFFICES ASSUME Init PROVE Bounded(eng)
    BY Zenon DEF Init, RetentionKept
  <2>1. eng.waiting = {} /\ \A d \in Destinations : To(d, eng.waiting) = {}
    BY DEF Init, To
  <2>2. Capacity \in Nat
    BY IntakeAssumption, Zenon
  <2> QED
    BY <2>1, <2>2, FS_EmptySet, SMTT(30) DEF Bounded
<1>2. IntakeInv /\ RetentionKept => RetentionBounded
  <2> SUFFICES ASSUME IntakeInv, RetentionKept PROVE RetentionBounded
    OBVIOUS
  <2> DEFINE more == {d \in Destinations : Cardinality(To(d, eng.waiting)) > 1}
  <2>1. Bounded(eng)
    BY DEF IntakeInv, PastAgrees, RetentionKept
  <2>2. more = {} \/ \E d : more = {d}
    BY <2>1 DEF Bounded
  <2>3. Cardinality(more) <= 1
    <3>1. CASE more = {}
      BY <3>1, FS_EmptySet
    <3>2. ASSUME NEW d, more = {d} PROVE Cardinality(more) = 1
      BY <3>2, FS_Singleton, Zenon
    <3> HIDE DEF more
    <3> QED
      BY <2>2, <3>1, <3>2
  <2> QED
    BY <2>1, <2>3 DEF Bounded, RetentionBounded
<1> QED
  BY IntakeCorrect, StepRetention, <1>1, <1>2, PTL DEF Spec
=============================================================================
