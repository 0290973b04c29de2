---------------------------- MODULE SignalIntake ----------------------------
(***************************************************************************)
(* How signal rows reach a strategy.  A producer leaves immutable rows in  *)
(* a spool directory; a scanner on the blocking pool picks one under a     *)
(* copy of the engine's requests; the engine classifies it against its     *)
(* cursor, journals it, delivers it and acknowledges it, and the scanner   *)
(* deletes an acknowledged row.  Rows may be unreadable, missing or        *)
(* published again, and the engine may stop anywhere.                      *)
(*                                                                         *)
(* A row is its source and sequence.  A row whose availability time has    *)
(* not come is one not yet published.  The scanner's memory of deferred    *)
(* rows only saves reads of immutable files and is left out.               *)
(***************************************************************************)
EXTENDS Integers, FiniteSets

CONSTANTS Sources, Destinations,
          DestinationOf,  \* the strategy each source addresses
          Dependencies,   \* dependency_closure: the strategies each strategy's inputs come from
          Active,         \* strategies whose callbacks run
          Capacity,       \* SIGNAL_CHANNEL_CAPACITY
          Large,          \* rows SIGNAL_CHANNEL_BYTES may have no room for beside others
          Spoilable,      \* rows that may turn out unreadable
          Faulty,         \* strategies whose callback may panic
          Heavy,          \* rows that may exceed the subscription budget
          MaxSeq,         \* bound: rows of each source
          MaxRepublish,   \* bound: rows published again
          MaxCrashes      \* bound: stops of the engine

None == [source |-> "none", seq |-> 0]
NoGap == [next |-> 0, observed |-> 0]

ASSUME IntakeAssumption ==
  /\ DestinationOf \in [Sources -> Destinations]
  /\ Dependencies \in [Destinations -> SUBSET Destinations]
  /\ \A d \in Destinations :
       d \in Dependencies[d] /\ \A e \in Dependencies[d] : Dependencies[e] \subseteq Dependencies[d]
  /\ Active \subseteq Destinations /\ \A r \in Spoilable \cup Heavy \cup Large : r.source \in Sources
  /\ Faulty \subseteq Destinations
  /\ Capacity \in Nat \ {0}
  /\ MaxSeq \in [Sources -> Nat] /\ MaxRepublish \in Nat /\ MaxCrashes \in Nat

VARIABLES published,    \* how far each producer has published
          spool,        \* readable rows in the directory
          spoiled,      \* unreadable rows in the directory
          quarantine,   \* rows renamed away
          eng,          \* the engine's durable signal state, as it stands in memory
          past,         \* the states a crash may leave on disk
          faulted,      \* strategies whose callback panicked in this process
          policy,       \* gap requests and blocked destinations the feed was given
          scan,         \* the scan in flight: the policy it copied and the row it picked
          returned,     \* the row the feed handed out
          acknowledged, \* the row whose deletion is due
          pending,      \* pending_signal_deliveries
          up, republished, crashes

vars == <<published, spool, spoiled, quarantine, eng, past, faulted, policy, scan, returned,
          acknowledged, pending, up, republished, crashes>>

disk == <<published, spool, spoiled, quarantine>>
feed == <<scan, returned, acknowledged>>
bounds == <<republished, crashes>>

Row(s, n) == [source |-> s, seq |-> n]
Rows == UNION {{Row(s, n) : n \in 1..MaxSeq[s]} : s \in Sources}
To(d, rows) == {r \in rows : DestinationOf[r.source] = d}

-----------------------------------------------------------------------------
(* SignalState. *)

HasGap(e, s) == e.gap[s] # NoGap
NextSequence(e, s) == e.cursor[s] + 1

\* blocked and signal_inputs_blocked
Suspended(e, d) == To(d, e.suspended) # {}


Blocked(e, d) == Suspended(e, d) \/ \E s \in Sources : HasGap(e, s) /\ DestinationOf[s] = d

\* Mutant: the gaps of the strategies it reads withhold a strategy's inputs, its own do not.
InputsBlockedByOthers(e, d) == \E from \in Dependencies[d] \ {d} : Blocked(e, from)

InputsBlocked(e, d) == \E from \in Dependencies[d] : Blocked(e, from)

ConsumerPending(e, d) == To(d, e.waiting) # {}
OrdinaryCapacity(e) == Cardinality(e.waiting) < Capacity

\* Mutant: the limit of one extra row in all is forgotten.
RecoveryCapacityInAll(e) == Cardinality(e.waiting) <= Capacity

RecoveryCapacity(e) ==
  /\ Cardinality(e.waiting) <= Capacity
  /\ \A d \in Destinations : Cardinality(To(d, e.waiting)) <= 1
PrefixCapacity(e, d) ==
  /\ ~Suspended(e, d)
  /\ (~ConsumerPending(e, d) /\ OrdinaryCapacity(e)) \/ RecoveryCapacity(e)

CanAccept(e, r, full) ==
  /\ ~Suspended(e, DestinationOf[r.source])
  /\ \/ ~ConsumerPending(e, DestinationOf[r.source]) /\ OrdinaryCapacity(e) /\ ~full
     \/ e.gap[r.source].next = r.seq /\ RecoveryCapacity(e)

Duplicate(e, r) == r.seq <= e.cursor[r.source]

\* Mutant: a row after a missing one is taken for the next.
ReadyAfterGap(e, r) == r.seq > e.cursor[r.source]

Ready(e, r) == r.seq = NextSequence(e, r.source)

Larger(a, b) == IF a >= b THEN a ELSE b

\* The gap a row past the next one, or a producer's frontier, shows.
GapTo(e, s, n) == [next |-> NextSequence(e, s), observed |-> Larger(e.gap[s].observed, n)]
RecordGap(e, s, n) == [e EXCEPT !.gap[s] = GapTo(e, s, n)]

\* accept
\* Mutant: the gap keeps the position it was recorded at.
GapAfterStays(gap, n) == IF n >= gap.observed THEN NoGap ELSE gap

GapAfter(gap, n) == IF n >= gap.observed THEN NoGap ELSE [gap EXCEPT !.next = n + 1]
Accepted(e, r) ==
  [e EXCEPT !.cursor[r.source] = r.seq,
            !.gap[r.source] = GapAfter(@, r.seq),
            !.waiting = @ \cup {r}]

\* Mutant: a known gap is not asked for.
RequestsNoGaps(e) ==
  [gaps    |-> {},
   blocked |-> {d \in Destinations :
                  InputsBlocked(e, d) \/ ConsumerPending(e, d) \/ ~OrdinaryCapacity(e)}]

\* update_signal_requests
Requests(e) ==
  [gaps    |-> {Row(s, e.gap[s].next) : s \in {g \in Sources :
                  HasGap(e, g) /\ PrefixCapacity(e, DestinationOf[g])}},
   blocked |-> {d \in Destinations :
                  InputsBlocked(e, d) \/ ConsumerPending(e, d) \/ ~OrdinaryCapacity(e)}]

-----------------------------------------------------------------------------
(* The spool. *)

NoScan == [policy |-> [gaps |-> {}, blocked |-> {}], row |-> None, busy |-> FALSE]

Init ==
  /\ published = [s \in Sources |-> 0]
  /\ spool = {} /\ spoiled = {} /\ quarantine = {}
  /\ eng = [cursor |-> [s \in Sources |-> 0], gap |-> [s \in Sources |-> NoGap],
            waiting |-> {}, consumed |-> {}, suspended |-> {}, fitted |-> {}]
  /\ past = {eng}
  /\ faulted = {}
  /\ policy = Requests(eng)
  /\ scan = NoScan /\ returned = None /\ acknowledged = None /\ pending = None
  /\ up = TRUE /\ republished = 0 /\ crashes = 0

\* The producer (external to the engine) names a row by source and sequence and never
\* replaces an existing file.
Publish(s) ==
  /\ published[s] < MaxSeq[s]
  /\ published' = [published EXCEPT ![s] = @ + 1]
  /\ \/ spool' = spool \cup {Row(s, published'[s])} /\ UNCHANGED spoiled
     \/ Row(s, published'[s]) \in Spoilable /\ spoiled' = spoiled \cup {Row(s, published'[s])} /\ UNCHANGED spool
  /\ UNCHANGED <<quarantine, eng, past, faulted, policy, feed, pending, up, bounds>>

\* A restarted producer replays its journal, or an operator restores a row.
Republish(r) ==
  /\ republished < MaxRepublish
  /\ r.seq <= published[r.source] /\ r \notin spool \cup spoiled
  /\ spool' = spool \cup {r}
  /\ republished' = republished + 1
  /\ UNCHANGED <<published, spoiled, quarantine, eng, past, faulted, policy, feed, pending, up, crashes>>

\* identity_eligible
Eligible(p, r) ==
  IF \E g \in p.gaps : g.source = r.source
    THEN \A g \in p.gaps : g.source = r.source => r.seq <= g.seq
    ELSE DestinationOf[r.source] \notin p.blocked

\* One pass in file-name order: rows read before the pick that are unreadable are renamed away,
\* unless the quarantine already holds that name.
First(rows) == {r \in rows : \A q \in rows : r.seq <= q.seq}
Pass(candidates, unreadable, pick, removed) ==
  /\ \/ candidates = {} /\ pick = None /\ removed = unreadable
     \/ /\ pick \in First(candidates)
        /\ removed \subseteq unreadable
        /\ \A u \in unreadable : (u.seq < pick.seq => u \in removed) /\ (u.seq > pick.seq => u \notin removed)

\* Mutant: the next row is looked for although the last was neither acknowledged nor deferred.
ScanOutstanding ==
  /\ up /\ ~scan.busy /\ acknowledged = None
  /\ LET exact == spool \cap policy.gaps
         unread == spoiled \ quarantine
         asked == {u \in unread : \E g \in policy.gaps : g.seq = u.seq}
     IN  \E pick \in spool \cup {None}, removed \in SUBSET unread :
           /\ IF exact # {}
                THEN Pass(exact, asked, pick, removed)
                ELSE /\ asked \subseteq removed
                     /\ Pass({r \in spool : Eligible(policy, r)}, unread \ asked, pick, removed \ asked)
           /\ scan' = [policy |-> policy, row |-> pick, busy |-> TRUE]
           /\ spoiled' = spoiled \ removed
           /\ quarantine' = quarantine \cup removed
  /\ UNCHANGED <<published, spool, eng, past, faulted, policy, returned, acknowledged, pending, up, bounds>>

Scan ==
  /\ up /\ ~scan.busy /\ returned = None /\ acknowledged = None
  /\ LET exact == spool \cap policy.gaps
         unread == spoiled \ quarantine
         asked == {u \in unread : \E g \in policy.gaps : g.seq = u.seq}
     IN  \E pick \in spool \cup {None}, removed \in SUBSET unread :
           /\ IF exact # {}
                THEN Pass(exact, asked, pick, removed)
                ELSE /\ asked \subseteq removed
                     /\ Pass({r \in spool : Eligible(policy, r)}, unread \ asked, pick, removed \ asked)
           /\ scan' = [policy |-> policy, row |-> pick, busy |-> TRUE]
           /\ spoiled' = spoiled \ removed
           /\ quarantine' = quarantine \cup removed
  /\ UNCHANGED <<published, spool, eng, past, faulted, policy, returned, acknowledged, pending, up, bounds>>

\* The row a scan picked is handed out only under the requests it was picked for.
ScanUsable(s) == s.row # None /\ s.policy = policy

ScanWasted ==
  /\ up /\ scan.busy /\ ~ScanUsable(scan)
  /\ scan' = NoScan
  /\ UNCHANGED <<disk, eng, past, faulted, policy, returned, acknowledged, pending, up, bounds>>

\* retire_acknowledged
Retire ==
  /\ up /\ acknowledged # None
  /\ spool' = spool \ {acknowledged}
  /\ acknowledged' = None
  /\ UNCHANGED <<published, spoiled, quarantine, eng, past, faulted, policy, scan, returned, pending, up, bounds>>

-----------------------------------------------------------------------------
(* The engine.  Every turn ends in update_signal_requests. *)

Unsynced(e) == eng' = e /\ past' = past \cup {e} /\ policy' = Requests(e)
Synced(e) == eng' = e /\ past' = {e} /\ policy' = Requests(e)
Same == UNCHANGED <<eng, past, policy>>

Defer == returned' = None /\ pending' = None /\ UNCHANGED acknowledged
Acknowledge(r) == returned' = None /\ pending' = None /\ acknowledged' = r

\* suspend_signal_subscription_budget: the row whose subscriptions exceed the budget stops its
\* strategy's intake until the strategy's routes fit.
Suspend(r) == Synced([eng EXCEPT !.suspended = @ \cup {r}]) /\ Defer

\* A large row may find no room in SIGNAL_CHANNEL_BYTES beside retained ones, and a row may name
\* more subscriptions than the budget allows.
BytesFull(r) == IF r \in Large /\ eng.waiting # {} THEN BOOLEAN ELSE {FALSE}
OverBudget(r) == IF r \in Heavy /\ r \notin eng.fitted THEN BOOLEAN ELSE {FALSE}

Withheld(r) ==
  \/ DestinationOf[r.source] \notin Active
  \/ InputsBlocked(eng, DestinationOf[r.source]) /\ ~HasGap(eng, r.source)

\* queue_signal_observation
Queue(r) ==
  \/ Duplicate(eng, r) /\ Same /\ Acknowledge(r)
  \/ ~Duplicate(eng, r) /\ Withheld(r) /\ Same /\ Defer
  \/ /\ ~Duplicate(eng, r) /\ ~Ready(eng, r) /\ ~Withheld(r)
     /\ IF GapTo(eng, r.source, r.seq) # eng.gap[r.source]
          THEN Synced(RecordGap(eng, r.source, r.seq))
          ELSE Same
     /\ Defer
  \/ /\ Ready(eng, r) /\ ~Withheld(r)
     /\ \E full \in BytesFull(r), over \in OverBudget(r) :
          \/ ~CanAccept(eng, r, full) /\ Same /\ Defer
          \/ CanAccept(eng, r, full) /\ over /\ Suspend(r)
          \/ /\ CanAccept(eng, r, full) /\ ~over /\ Same
             /\ returned' = r /\ pending' = r /\ UNCHANGED acknowledged

Receive ==
  /\ up /\ scan.busy /\ ScanUsable(scan) /\ pending = None
  /\ Queue(scan.row)
  /\ scan' = NoScan
  /\ UNCHANGED <<disk, faulted, up, bounds>>

\* Mutant: the row is acknowledged although its record is not known to be on disk.
AcceptUnsynced ==
  /\ up /\ pending # None /\ CanAccept(eng, pending, FALSE)
  /\ Unsynced(Accepted(eng, pending)) /\ Acknowledge(pending)
  /\ UNCHANGED <<disk, faulted, scan, up, bounds>>

\* accept_pending_signals, once the row's symbols are followed.
AcceptPending ==
  /\ up /\ pending # None
  /\ \E full \in BytesFull(pending), over \in OverBudget(pending) :
       \/ ~CanAccept(eng, pending, full) /\ Same /\ Defer
       \/ CanAccept(eng, pending, full) /\ over /\ Suspend(pending)
       \/ /\ CanAccept(eng, pending, full) /\ ~over
          /\ Synced(Accepted(eng, pending)) /\ Acknowledge(pending)
  /\ UNCHANGED <<disk, faulted, scan, up, bounds>>

\* accept_signal_frontiers: the producer reports how far it had published when asked.
Frontier(s) ==
  /\ up /\ pending = None
  /\ \E n \in NextSequence(eng, s)..published[s] :
       /\ GapTo(eng, s, n) # eng.gap[s]
       /\ Synced(RecordGap(eng, s, n))
  /\ UNCHANGED <<disk, faulted, feed, pending, up, bounds>>

\* A strategy answers every row it is given with ConsumeSignalObservation or
\* RejectSignalObservation; the barrier comes at the end of the pass.
Consume(r) ==
  /\ up /\ r \in eng.waiting /\ DestinationOf[r.source] \in Active \ faulted
  /\ Unsynced([eng EXCEPT !.waiting = @ \ {r}, !.consumed = @ \cup {r}])
  /\ UNCHANGED <<disk, faulted, feed, pending, up, bounds>>

Barrier ==
  /\ up /\ past # {eng}
  /\ past' = {eng}
  /\ UNCHANGED <<disk, eng, faulted, policy, feed, pending, up, bounds>>

\* StrategyHost.fault: a panicking callback is given nothing more in this process.
Fault(d) ==
  /\ up /\ d \in Faulty \ faulted
  /\ faulted' = faulted \cup {d}
  /\ UNCHANGED <<disk, eng, past, policy, feed, pending, up, bounds>>

\* maintain_signal_routes: the strategy's routes, the row's subscriptions included, fit again.
ClearSuspension(r) ==
  /\ up /\ r \in eng.suspended
  /\ Synced([eng EXCEPT !.suspended = @ \ {r}, !.fitted = @ \cup {r}])
  /\ UNCHANGED <<disk, faulted, feed, pending, up, bounds>>

Crash ==
  /\ up /\ crashes < MaxCrashes
  /\ up' = FALSE /\ crashes' = crashes + 1
  /\ \E e \in past : eng' = e /\ past' = {e}
  /\ scan' = NoScan /\ returned' = None /\ acknowledged' = None /\ pending' = None
  /\ UNCHANGED <<disk, faulted, policy, republished>>

\* SignalState::replay rebuilds the state; every retained row is delivered again.
Boot ==
  /\ ~up
  /\ up' = TRUE /\ faulted' = {} /\ policy' = Requests(eng)
  /\ UNCHANGED <<disk, eng, past, feed, pending, bounds>>

Engine == Scan \/ ScanWasted \/ Retire \/ Receive \/ AcceptPending \/ Barrier \/ Boot

Next ==
  \/ Engine \/ Crash
  \/ \E s \in Sources : Publish(s) \/ Frontier(s)
  \/ \E r \in Rows : Republish(r) \/ Consume(r) \/ ClearSuspension(r)
  \/ \E d \in Destinations : Fault(d)

\* The engine's loop keeps turning (one of its steps is always possible: with nothing else to
\* do it scans), it is restarted when it stops, and a strategy answers every row it was given.
\* Nothing is assumed of producers, operators or crashes.
Fairness ==
  /\ []<><<Scan \/ ScanWasted \/ Retire \/ Receive \/ AcceptPending \/ Boot>>_<<scan, acknowledged, pending, up>>
  /\ WF_eng(\E r \in Rows : Consume(r))

Spec == Init /\ [][Next]_vars
FairSpec == Spec /\ Fairness

-----------------------------------------------------------------------------
EngineStates ==
  [cursor : [Sources -> Nat], gap : [Sources -> [next : Nat, observed : Nat]],
   waiting : SUBSET Rows, consumed : SUBSET Rows,
   suspended : SUBSET Rows, fitted : SUBSET Rows]

Policies == [gaps : SUBSET Rows, blocked : SUBSET Destinations]

\* The variables hold what the code's types allow.
TypeOK ==
  /\ published \in [Sources -> Nat] /\ \A s \in Sources : published[s] <= MaxSeq[s]
  /\ spool \subseteq Rows /\ spoiled \subseteq Rows /\ quarantine \subseteq Rows
  /\ eng \in EngineStates /\ past \subseteq EngineStates /\ eng \in past
  /\ faulted \subseteq Destinations /\ policy \in Policies
  /\ scan.policy \in Policies /\ scan.row \in Rows \cup {None} /\ scan.busy \in BOOLEAN
  /\ returned \in Rows \cup {None} /\ acknowledged \in Rows \cup {None} /\ pending \in Rows \cup {None}
  /\ up \in BOOLEAN /\ republished \in 0..MaxRepublish /\ crashes \in 0..MaxCrashes

\* In every state a crash may leave, the rows up to a source's cursor were each accepted exactly
\* once and are each either retained for their strategy or consumed, never both.
AcceptedOnceInOrder ==
  \A e \in past, s \in Sources :
    /\ {r.seq : r \in {q \in e.waiting \cup e.consumed : q.source = s}} = 1..e.cursor[s]
    /\ e.waiting \cap e.consumed = {}

\* A published row leaves the spool and the quarantine only when the disk is certain to hold its
\* acceptance (retire_acknowledged never deletes a row the log could still lose).
RowsNotLost ==
  \A s \in Sources : \A n \in 1..published[s] :
    \/ Row(s, n) \in spool \cup spoiled \cup quarantine
    \/ \A e \in past : n <= e.cursor[s]

\* Every gap a crash may leave is one replay accepts: it starts right after the cursor and ends
\* at a row the producer did publish.
GapsReplay ==
  \A e \in past, s \in Sources :
    HasGap(e, s) => /\ e.gap[s].next = e.cursor[s] + 1
                    /\ e.gap[s].next <= e.gap[s].observed
                    /\ e.gap[s].observed <= published[s]

\* The feed and the engine agree on the one row outstanding, and that row is still the next of
\* its source when it is accepted, so neither side's protocol error can be raised.
OneRowOutstanding ==
  /\ returned = pending
  /\ pending # None => Ready(eng, pending) /\ acknowledged = None /\ ~scan.busy

\* Recovery may exceed the one row per strategy and the channel's capacity by one row in all.
RetentionBounded ==
  /\ Cardinality(eng.waiting) <= Capacity + 1
  /\ Cardinality({d \in Destinations : Cardinality(To(d, eng.waiting)) > 1}) <= 1
  /\ \A d \in Destinations : Cardinality(To(d, eng.waiting)) <= 2

\* While a source of a strategy, or of one it depends on, has a known gap, the only rows accepted
\* for that strategy are the missing ones.
GapWithholdsOthers ==
  [][\A s, g \in Sources :
       (/\ up /\ up' /\ eng'.cursor[s] # eng.cursor[s]
        /\ DestinationOf[g] \in Dependencies[DestinationOf[s]] /\ HasGap(eng, g))
         => HasGap(eng, s) /\ eng'.cursor[s] = eng.gap[s].next]_vars

Stream == INSTANCE InOrderStream WITH Streams <- Sources, accepted <- eng.cursor

\* The intake implements the abstract stream: through crashes, gaps and republished rows a
\* source's cursor moves forward by one published row at a time.
ImplementsStream == Stream!Spec

\* Strategies no spoiled, over-budget or faulting source can reach.
Sound(d) ==
  /\ d \in Active \ Faulty
  /\ \A s \in Sources : DestinationOf[s] \in Dependencies[d] => \A r \in Spoilable \cup Heavy : r.source # s


CaughtUp(d) == \A s \in Sources : DestinationOf[s] = d => eng.cursor[s] = published[s] /\ ~HasGap(eng, s)
Restored ==
  /\ \A s \in Sources : \A n \in 1..published[s] : n <= eng.cursor[s] \/ Row(s, n) \in spool
  /\ eng.suspended = {} /\ faulted = {}

\* Once every missing row is restored, every suspension cleared and no strategy is down, all
\* sources of every active strategy catch up and their gaps close.
PrefixRecovers == <>[]Restored => <>[](\A d \in Active : CaughtUp(d))
=============================================================================
