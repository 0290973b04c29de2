-------------------------- MODULE StrategyEffects --------------------------
(***************************************************************************)
(* engine-core effects.rs, engine/strategy_effects.rs and the drain of     *)
(* engine/scheduling.rs: what happens to the actions a strategy callback   *)
(* returns.  A callback that changes durable state becomes a transition:   *)
(* it is journaled whole before its first effect, each effect is retired   *)
(* by a record of its own, and a boot resumes what is left.  Actions wait  *)
(* in one queue, move aside while a barrier is under way (waiting) or a    *)
(* symbol has a venue call in flight (deferred), and come back through a   *)
(* second queue (ready).                                                   *)
(***************************************************************************)
EXTENDS Integers, SequencesExt, FiniteSetsExt

CONSTANTS Callbacks,   \* the events strategies are woken with
          Inputs,      \* those the log retains until they are consumed
          External,    \* inputs accepted from outside; the others are published by strategies
          Owner,       \* the strategy a callback wakes
          Acts,        \* the actions it returns, in order
          Symbols,
          MaxBatch,    \* MAX_ORDERS_PER_BATCH, MAX_CANCELS_PER_BATCH
          TurnLimit,   \* 4 * MAX_INTENTS_PER_WAKE
          MaxCrashes   \* bound

Kinds == {"state", "publish", "consume", "place", "amend", "cancel"}

ASSUME EffectsAssumption ==
  /\ External \subseteq Inputs /\ Inputs \subseteq Callbacks
  /\ \A c \in Callbacks : \A ix \in DOMAIN Acts[c] : Acts[c][ix].kind \in Kinds
  /\ MaxBatch \in Nat \ {0} /\ TurnLimit \in Nat \ {0} /\ MaxCrashes \in Nat

VARIABLES phase,    \* "down", "restoring" (restore_strategy_effects) or "running"
          mode,     \* "idle" at the select, "fed" before the handler's drain, "drain" inside it
          q,        \* the queues: host.pending, ready_actions, deferred_actions, dispatches.waiting
          mem,      \* host.effects: transitions, which of them are journaled, next_id
          turn,     \* locals of drain: the two batches and the two counters
          disk,     \* what each prefix of the unsynced log replays to, the last barrier begun, and
                    \* whether strategy records await one
          write,    \* dispatches.write: the requests a barrier is being waited for
          busy,     \* busy_symbols
          given,    \* callbacks given to a strategy or, if external, accepted
          turned,   \* transitions the ordering guard has sent to the back of the queue
          crashes

vars == <<phase, mode, q, mem, turn, disk, write, busy, given, turned, crashes>>

Act(p) == Acts[p.cb][p.ix]
Durable(c) == \E ix \in DOMAIN Acts[c] : Acts[c][ix].kind \in {"state", "publish", "consume"}
Key(p) == <<p.cb, p.id, p.ix>>

-----------------------------------------------------------------------------
(* The log: the records and Effects::replay. *)

Queued(id, c) == [kind |-> "queued", cb |-> c, id |-> id, ix |-> 0]
Sent(p) == [kind |-> "sent", cb |-> p.cb, id |-> p.id, ix |-> p.ix]
Done(p) == [kind |-> "done", cb |-> p.cb, id |-> p.id, ix |-> p.ix]
Held(c) == [kind |-> "held", cb |-> c, id |-> 0, ix |-> 0]
Used(c) == [kind |-> "used", cb |-> c, id |-> 0, ix |-> 0]

EmptyLog == [ok |-> TRUE, next |-> 0, trans |-> << >>, held |-> {}, sent |-> << >>, ended |-> {}]

\* Effects::complete, where it succeeds: the last effect retires the transition.
Complete(trans, p) ==
  LET t == [trans[p.id] EXCEPT !.done = @ \cup {p.ix}]
  IN IF t.done = DOMAIN Acts[t.cb] THEN Restrict(trans, DOMAIN trans \ {p.id})
     ELSE [trans EXCEPT ![p.id] = t]

\* Whether replay takes the record: an id is not reused, an effect not completed twice.
Accepts(s, r) ==
  CASE r.kind = "queued" -> r.id >= s.next
    [] r.kind = "done" -> r.id \in DOMAIN s.trans /\ r.ix \notin s.trans[r.id].done
    [] OTHER -> TRUE

Replay(s, r) ==
  IF ~s.ok \/ ~Accepts(s, r) THEN [s EXCEPT !.ok = FALSE]
  ELSE CASE r.kind = "queued" ->
              [s EXCEPT !.next = r.id + 1, !.trans = @ @@ (r.id :> [cb |-> r.cb, done |-> {}])]
         [] r.kind = "done" ->
              [s EXCEPT !.trans = Complete(@, r), !.ended = @ \cup {<<r.cb, r.ix>>}]
         [] r.kind = "sent" -> [s EXCEPT !.sent = Append(@, <<r.cb, r.id, r.ix>>)]
         [] r.kind = "held" -> [s EXCEPT !.held = @ \cup {r.cb}]
         [] r.kind = "used" -> [s EXCEPT !.held = @ \ {r.cb}]

Log(d) == Last(d.past)
Logged(d, records) ==
  [d EXCEPT !.past = FoldLeft(LAMBDA ss, r : Append(ss, Replay(Last(ss), r)), @, records)]

\* A barrier the engine waits for; flush_strategy_prefix; begin_dispatch_barrier.
Synced(d) == [past |-> <<Log(d)>>, mark |-> 1, dirty |-> FALSE]
Flushed(d) == IF d.dirty THEN Synced(d) ELSE d
Begun(d) == [d EXCEPT !.mark = Len(d.past), !.dirty = FALSE]

-----------------------------------------------------------------------------
(* Callbacks become queued actions. *)

Items(c, id) == [ix \in DOMAIN Acts[c] |-> [cb |-> c, id |-> id, ix |-> ix]]

\* capture_actions: an id is used up whether or not the callback needs a transition.
Capture(m, c) ==
  [m EXCEPT !.next = @ + 1,
            !.trans = IF Durable(c) THEN @ @@ (m.next :> [cb |-> c, done |-> {}]) ELSE @]

\* feed, for callbacks woken one after the other.
FeedAll(st, cs) ==
  FoldLeft(LAMBDA x, c : [mem |-> Capture(x.mem, c), pend |-> x.pend \o Items(c, x.mem.next)],
           st, cs)

\* journal_transition: the transitions up to id that the log does not have, oldest first.
Unjournaled(m, last) ==
  LET ids == {t \in DOMAIN m.trans : t <= last /\ t \notin m.journaled}
  IN SortSeq(SetToSeq(ids), <)

JournalRecords(m, last) ==
  LET ids == Unjournaled(m, last) IN [i \in DOMAIN ids |-> Queued(ids[i], m.trans[ids[i]].cb)]

Journaled(m, last) == [m EXCEPT !.journaled = @ \cup ToSet(Unjournaled(m, last))]

JournaledLog(d, m, last) ==
  [Logged(d, JournalRecords(m, last)) EXCEPT !.dirty = @ \/ Unjournaled(m, last) # << >>]

\* complete_effect for each of ps; actions of a volatile callback have no effect to complete.
Keyed(ps) == SelectSeq(ps, LAMBDA p : Durable(p.cb))
DoneRecords(ps) == LET ks == Keyed(ps) IN [i \in DOMAIN ks |-> Done(ks[i])]
Completed(m, ps) ==
  LET trans == FoldLeft(Complete, m.trans, Keyed(ps))
  IN [m EXCEPT !.trans = trans, !.journaled = @ \cap DOMAIN trans]

-----------------------------------------------------------------------------
(* The batches. *)

NoWrite == << >>
NoTurn == [places |-> << >>, cancels |-> << >>, handled |-> 0, blocked |-> 0]

\* Mutant: an order the log already has is sent again.
PlaceOutcomesAgain(ps) ==
  {[disk |-> Logged(IF S = {} THEN disk
                    ELSE Begun(Logged(disk, [i \in DOMAIN ps |-> Sent(ps[i])])), DoneRecords(ps)),
    mem |-> Completed(mem, ps), write |-> IF S = {} THEN NoWrite ELSE ps, busy |-> busy,
    sent |-> S # {}] : S \in {{}, ToSet(ps)}}

\* flush_placements: an effect whose order is already in the books is only completed;
\* of the others risk admits any part, which a barrier then owns.
PlaceOutcomes(ps) ==
  LET Known(p) == Durable(p.cb) /\ Key(p) \in ToSet(Log(disk).sent)
      old == SelectSeq(ps, Known)
      new == SelectSeq(ps, LAMBDA p : ~Known(p))
      Outcome(S) ==
        LET taken == SelectSeq(new, LAMBDA p : p \in S)
            d == Logged(disk, DoneRecords(old) \o [i \in DOMAIN taken |-> Sent(taken[i])])
        IN [disk |-> Logged(IF S = {} THEN d ELSE Begun(d), DoneRecords(new)),
            mem |-> Completed(mem, ps), write |-> IF S = {} THEN write ELSE taken, busy |-> busy,
            sent |-> S # {}]
  IN {Outcome(S) : S \in SUBSET ToSet(new)}

\* flush_cancellations: a cancel of an order that was never sent needs no request.
CancelOutcomes(ps) ==
  {[disk |-> Logged(IF S = {} THEN disk ELSE Flushed(disk), DoneRecords(ps)),
    mem |-> Completed(mem, ps), write |-> write,
    busy |-> [s \in Symbols |-> busy[s] + Cardinality({p \in S : Act(p).sym = s})],
    sent |-> S # {}] : S \in SUBSET ToSet(ps)}

NoOutcome == [disk |-> disk, mem |-> mem, write |-> write, busy |-> busy, sent |-> FALSE]

\* drain flushes one batch before it fills the other, so at most one holds anything.
Outcomes(places, cancels) ==
  IF places # << >> THEN PlaceOutcomes(places)
  ELSE IF cancels # << >> THEN CancelOutcomes(cancels) ELSE {NoOutcome}

\* pause_drain, and the end of drain: strategy records reach the disk.
EndTurn(o) ==
  /\ mode' = "idle" /\ turn' = NoTurn
  /\ disk' = Flushed(o.disk) /\ mem' = o.mem /\ write' = o.write /\ busy' = o.busy

GoOn(o, t) ==
  /\ mode' = "drain" /\ turn' = t
  /\ disk' = o.disk /\ mem' = o.mem /\ write' = o.write /\ busy' = o.busy

\* load_ready_wake: the actions of one wake, which keeps a transition's actions together.
LoadReady(qs) ==
  LET r == qs.ready
      Cuts == {k \in DOMAIN r : k = Len(r) \/ r[k].id # r[k + 1].id}
  IN IF r = << >> THEN {qs}
     ELSE {[qs EXCEPT !.pend = @ \o SubSeq(r, 1, k), !.ready = SubSeq(r, k + 1, Len(r))] : k \in Cuts}

-----------------------------------------------------------------------------
(* drain, one action of the loop at a time. *)

Init ==
  /\ phase = "running" /\ mode = "idle"
  /\ q = [pend |-> << >>, ready |-> << >>, waiting |-> << >>, deferred |-> [s \in Symbols |-> << >>]]
  /\ mem = [trans |-> << >>, journaled |-> {}, next |-> 0]
  /\ turn = NoTurn /\ disk = [past |-> <<EmptyLog>>, mark |-> 1, dirty |-> FALSE]
  /\ write = NoWrite /\ busy = [s \in Symbols |-> 0]
  /\ given = {} /\ turned = {} /\ crashes = 0

\* Every handler ends in a drain; a tick drains too, and so does each turn of a paused wake.
BeginDrain ==
  /\ phase # "down"
  /\ mode = "fed" \/ (mode = "idle" /\ (q.pend # << >> \/ q.ready # << >>))
  /\ mode' = "drain" /\ turn' = NoTurn
  /\ q' \in IF q.pend = << >> THEN LoadReady(q) ELSE {q}
  /\ UNCHANGED <<phase, mem, disk, write, busy, given, turned, crashes>>

Parks(p) == write # NoWrite /\ Act(p).kind \in {"place", "amend"}

\* The ordering guard: the strategy has an older transition that is not finished.
Blocked(p) ==
  ~Parks(p) /\ \E t \in DOMAIN mem.trans : t < p.id /\ Owner[mem.trans[t].cb] = Owner[p.cb]

Draining == mode = "drain" /\ q.pend # << >>

\* A placement, amend or stop waits for the barrier under way, with the rest of its callback.
Park ==
  /\ Draining /\ Parks(Head(q.pend))
  /\ LET p == Head(q.pend)
         Mine(x) == x.id = p.id /\ Owner[x.cb] = Owner[p.cb]
     IN q' = [q EXCEPT !.pend = SelectSeq(Tail(@), LAMBDA x : ~Mine(x)),
                       !.waiting = @ \o <<p>> \o SelectSeq(Tail(q.pend), Mine)]
  /\ UNCHANGED <<phase, mode, mem, turn, disk, write, busy, given, turned, crashes>>

\* The queue after its head went to the back, seen blocked times in a row.
PushedBack == [q EXCEPT !.pend = Append(Tail(@), Head(@))]


\* An action behind an older transition goes to the back; a queue that went round whole
\* takes in a wake that came back, since that may hold the older transition.
PushBack ==
  /\ Draining /\ Blocked(Head(q.pend))
  /\ LET whole == turn.blocked + 1 >= Len(q.pend) /\ q.ready # << >>
     IN /\ q' \in IF whole THEN LoadReady(PushedBack) ELSE {PushedBack}
        /\ IF turn.handled + 1 >= TurnLimit
           THEN \E o \in Outcomes(turn.places, turn.cancels) : EndTurn(o)
           ELSE GoOn(NoOutcome, [turn EXCEPT !.handled = @ + 1,
                                             !.blocked = IF whole THEN 0 ELSE @ + 1])
  /\ turned' = turned \cup {x.id : x \in ToSet(Keyed(<<Head(q.pend)>>))}
  /\ UNCHANGED <<phase, given, crashes>>

Proceeds(p) == ~Parks(p) /\ ~Blocked(p)

\* journal_transition, before anything of the transition happens.
Journal ==
  /\ Draining
  /\ LET p == Head(q.pend)
     IN /\ Proceeds(p) /\ Durable(p.cb) /\ p.id \notin mem.journaled
        /\ mem' = Journaled(mem, p.id) /\ disk' = JournaledLog(disk, mem, p.id)
  /\ turn' = [turn EXCEPT !.blocked = 0]
  /\ UNCHANGED <<phase, mode, q, write, busy, given, turned, crashes>>

Current(p) == Proceeds(p) /\ (Durable(p.cb) => p.id \in mem.journaled)

\* An action of another kind than the batch: the batch goes out first, and if anything
\* was sent the action waits for the next turn.
Crosses(p) == \/ Act(p).kind # "place" /\ turn.places # << >>
              \/ Act(p).kind # "cancel" /\ turn.cancels # << >>

FlushFirst ==
  /\ Draining /\ Current(Head(q.pend)) /\ Crosses(Head(q.pend))
  /\ \E o \in Outcomes(turn.places, turn.cancels) :
       IF o.sent THEN EndTurn(o)
       ELSE GoOn(o, [NoTurn EXCEPT !.handled = turn.handled])
  /\ UNCHANGED <<phase, q, given, turned, crashes>>

TurnOver ==
  /\ Draining /\ Current(Head(q.pend)) /\ ~Crosses(Head(q.pend)) /\ turn.handled >= TurnLimit
  /\ \E o \in Outcomes(turn.places, turn.cancels) : EndTurn(o)
  /\ UNCHANGED <<phase, q, given, turned, crashes>>

\* The head is this iteration's action, and leaves the queue.
Handles(p) ==
  /\ Draining /\ p = Head(q.pend) /\ Current(p) /\ ~Crosses(p) /\ turn.handled < TurnLimit

Handled == [turn EXCEPT !.handled = @ + 1, !.blocked = 0]

\* An action refused on the spot: not the caller's order or position, or an opening or
\* amend beyond the wake's budget.
Refuse ==
  \E p \in ToSet(q.pend) :
    /\ Handles(p) /\ Act(p).kind \in {"place", "amend", "cancel"}
    /\ q' = [q EXCEPT !.pend = Tail(@)]
    /\ GoOn([NoOutcome EXCEPT !.disk = Logged(disk, DoneRecords(<<p>>)), !.mem = Completed(mem, <<p>>)],
            Handled)
    /\ UNCHANGED <<phase, given, turned, crashes>>

\* handle_durable_action, with the records it writes and the strategies it wakes:
\* a known event is not published again, a consumed input not consumed again.
StateRecords(a) ==
  CASE a.kind = "publish" /\ a.input \notin Log(disk).held -> <<Held(a.input)>>
    [] a.kind = "consume" /\ a.input \in Log(disk).held -> <<Used(a.input)>>
    [] OTHER -> << >>

ApplyState ==
  \E p \in ToSet(q.pend) :
    /\ Handles(p) /\ Act(p).kind \in {"state", "publish", "consume"}
    /\ LET records == StateRecords(Act(p))
           woken == IF Act(p).kind = "publish" /\ records # << >> THEN <<Act(p).input>> ELSE << >>
           after == FeedAll([mem |-> mem, pend |-> Tail(q.pend)], woken)
           d == [Logged(disk, records) EXCEPT !.dirty = @ \/ Act(p).kind = "state" \/ records # << >>]
       IN /\ q' = [q EXCEPT !.pend = after.pend]
          /\ GoOn([NoOutcome EXCEPT !.disk = Logged(d, DoneRecords(<<p>>)),
                                    !.mem = Completed(after.mem, <<p>>)], Handled)
    /\ UNCHANGED <<phase, given, turned, crashes>>

Busy(p) == busy[Act(p).sym] > 0


\* defer_action: a symbol with a call in flight.  A transition's rest goes along; an
\* action of a volatile callback goes alone.
Defer ==
  \E p \in ToSet(q.pend) :
    /\ Handles(p) /\ Act(p).kind \in {"place", "amend", "cancel"} /\ Busy(p)
    /\ LET Rest(x) == Durable(p.cb) /\ x.id = p.id
       IN q' = [q EXCEPT !.pend = SelectSeq(Tail(@), LAMBDA x : ~Rest(x)),
                         !.deferred[Act(p).sym] = @ \o <<p>> \o SelectSeq(Tail(q.pend), Rest)]
    /\ GoOn(NoOutcome, Handled)
    /\ UNCHANGED <<phase, given, turned, crashes>>

\* A placement or a cancel joins its batch; a full batch goes out at once, and if anything
\* was sent and actions are left, the turn ends.
Batch ==
  \E p \in ToSet(q.pend) :
    /\ Handles(p) /\ Act(p).kind \in {"place", "cancel"} /\ ~Busy(p)
    /\ q' = [q EXCEPT !.pend = Tail(@)]
    /\ LET places == IF Act(p).kind = "place" THEN Append(turn.places, p) ELSE turn.places
           cancels == IF Act(p).kind = "cancel" THEN Append(turn.cancels, p) ELSE turn.cancels
       IN IF Len(places) < MaxBatch /\ Len(cancels) < MaxBatch
          THEN GoOn(NoOutcome, [Handled EXCEPT !.places = places, !.cancels = cancels])
          ELSE \E o \in Outcomes(places, cancels) :
                 IF o.sent /\ Tail(q.pend) # << >> THEN EndTurn(o)
                 ELSE GoOn(o, [Handled EXCEPT !.places = << >>, !.cancels = << >>])
    /\ UNCHANGED <<phase, given, turned, crashes>>

\* process_amend, process_set_stop: handed to a barrier, and the effect is complete.
Amend ==
  \E p \in ToSet(q.pend) :
    /\ Handles(p) /\ Act(p).kind = "amend" /\ ~Busy(p)
    /\ q' = [q EXCEPT !.pend = Tail(@)]
    /\ LET o == [NoOutcome EXCEPT !.disk = Logged(Begun(disk), DoneRecords(<<p>>)),
                                  !.mem = Completed(mem, <<p>>), !.write = <<p>>]
       IN IF Tail(q.pend) # << >> THEN EndTurn(o) ELSE GoOn(o, Handled)
    /\ UNCHANGED <<phase, given, turned, crashes>>

\* The queue is empty: the batch goes out, then a wake that came back is taken in, or
\* the drain ends.
QueueEmpty ==
  /\ mode = "drain" /\ q.pend = << >>
  /\ \E o \in Outcomes(turn.places, turn.cancels) :
       IF q.ready = << >> THEN EndTurn(o) ELSE GoOn(o, [NoTurn EXCEPT !.handled = turn.handled])
  /\ q' \in LoadReady(q)
  /\ UNCHANGED <<phase, given, turned, crashes>>

Drain == \/ BeginDrain \/ Park \/ PushBack \/ Journal \/ FlushFirst \/ TurnOver \/ Refuse
         \/ ApplyState \/ Defer \/ Batch \/ Amend \/ QueueEmpty

-----------------------------------------------------------------------------
(* What the engine is woken by, rotation, crashes and boots. *)

Selects == phase # "down" /\ mode = "idle"

\* A callback nothing retains: a market event, a timer, order news.
Feed(c) ==
  /\ phase # "down" /\ mode \in {"idle", "fed"} /\ c \notin Inputs /\ c \notin given
  /\ LET after == FeedAll([mem |-> mem, pend |-> q.pend], <<c>>)
     IN mem' = after.mem /\ q' = [q EXCEPT !.pend = after.pend]
  /\ given' = given \cup {c} /\ mode' = "fed"
  /\ UNCHANGED <<phase, turn, disk, write, busy, turned, crashes>>

\* An observation or a control is accepted, on disk, and then delivered.
Accept(c) ==
  /\ phase = "running" /\ mode = "idle" /\ c \in External \ given
  /\ LET after == FeedAll([mem |-> mem, pend |-> q.pend], <<c>>)
     IN mem' = after.mem /\ q' = [q EXCEPT !.pend = after.pend]
  /\ disk' = Synced(Logged(disk, <<Held(c)>>))
  /\ given' = given \cup {c} /\ mode' = "fed"
  /\ UNCHANGED <<phase, turn, write, busy, turned, crashes>>


\* on_order_dispatch_durable: the requests leave, unless something changed meanwhile, and
\* the actions that waited for the barrier come back.
WriteDurable ==
  /\ Selects /\ write # NoWrite
  /\ \E S \in SUBSET ToSet(write) :
       busy' = [s \in Symbols |-> busy[s] + Cardinality({p \in S : Act(p).sym = s})]
  /\ disk' = [disk EXCEPT !.past = SubSeq(@, disk.mark, Len(@)), !.mark = 1]
  /\ write' = NoWrite
  /\ q' = [q EXCEPT !.ready = @ \o q.waiting, !.waiting = << >>]
  /\ UNCHANGED <<phase, mode, mem, turn, given, turned, crashes>>

\* take_venue_completion and release_symbols: the last call of a symbol frees its actions.
Completion(s) ==
  /\ Selects /\ busy[s] > 0
  /\ busy' = [busy EXCEPT ![s] = @ - 1]
  /\ q' = IF busy[s] > 1 THEN q
          ELSE [q EXCEPT !.ready = @ \o q.deferred[s], !.deferred[s] = << >>]
  /\ mode' = "fed"
  /\ UNCHANGED <<phase, mem, turn, disk, write, given, turned, crashes>>

\* Mutant: the base is written over transitions the log has not seen.
RotateUnjournaled ==
  /\ Selects /\ write = NoWrite
  /\ disk' = Synced([disk EXCEPT !.past = <<[Log(disk) EXCEPT !.next = mem.next]>>])
  /\ UNCHANGED <<phase, mode, q, mem, turn, write, busy, given, turned, crashes>>

\* on_tick: everything is journaled, then the base restates it.
Rotate ==
  /\ Selects /\ write = NoWrite
  /\ LET d == JournaledLog(disk, mem, mem.next)
     IN disk' = Synced([d EXCEPT !.past = <<[Log(d) EXCEPT !.next = mem.next]>>])
  /\ mem' = Journaled(mem, mem.next)
  /\ UNCHANGED <<phase, mode, q, turn, write, busy, given, turned, crashes>>

\* A prefix of the records since the last barrier survives.
Crash ==
  /\ phase # "down" /\ crashes < MaxCrashes /\ crashes' = crashes + 1
  /\ \E s \in ToSet(disk.past) :
       /\ disk' = [past |-> <<s>>, mark |-> 1, dirty |-> FALSE]
       /\ turned' = turned \cap DOMAIN s.trans
  /\ phase' = "down" /\ mode' = "idle" /\ turn' = NoTurn /\ write' = NoWrite
  /\ q' = [pend |-> << >>, ready |-> << >>, waiting |-> << >>, deferred |-> [s \in Symbols |-> << >>]]
  /\ mem' = [trans |-> << >>, journaled |-> {}, next |-> 0]
  /\ busy' = [s \in Symbols |-> 0]
  /\ UNCHANGED given

\* restore_strategy_effects queues what is not completed, oldest transition first.
Remaining(trans) ==
  LET ids == SortSeq(SetToSeq(DOMAIN trans), <)
      Left(id) == SelectSeq(Items(trans[id].cb, id), LAMBDA p : p.ix \notin trans[id].done)
  IN FoldLeft(LAMBDA ps, id : ps \o Left(id), << >>, ids)

Boot ==
  /\ phase = "down" /\ phase' = "restoring"
  /\ LET s == Log(disk)
     IN /\ mem' = [trans |-> s.trans, journaled |-> DOMAIN s.trans, next |-> s.next]
        /\ q' = [q EXCEPT !.pend = Remaining(s.trans)]
  /\ UNCHANGED <<mode, turn, disk, write, busy, given, turned, crashes>>

\* The restore loop ends; redeliver_durable_strategy_inputs feeds what the log retains.
Redeliver ==
  /\ phase = "restoring" /\ Selects /\ write = NoWrite
  /\ q.pend = << >> /\ q.ready = << >> /\ \A s \in Symbols : busy[s] = 0
  /\ \E cs \in SetToSeqs(Log(disk).held) :
       LET after == FeedAll([mem |-> mem, pend |-> q.pend], cs)
       IN mem' = after.mem /\ q' = [q EXCEPT !.pend = after.pend]
  /\ phase' = "running" /\ mode' = "fed"
  /\ UNCHANGED <<turn, disk, write, busy, given, turned, crashes>>

Next ==
  \/ Drain \/ WriteDurable \/ Rotate \/ Crash \/ Boot \/ Redeliver
  \/ \E c \in Callbacks : Feed(c) \/ Accept(c)
  \/ \E s \in Symbols : Completion(s)

Spec == Init /\ [][Next]_vars

\* The loop goes on (a step of a drain is possible unless the engine is idle with both queues
\* empty), and its select takes a finished barrier and a venue answer before it drains again.
\* Nothing is assumed of inputs, rotation or crashes.
LiveSpec ==
  /\ Spec /\ WF_phase(Boot \/ Redeliver)
  /\ []<>(mode = "idle" /\ q.pend = << >> /\ q.ready = << >>) \/ []<><<Drain>>_<<mode, q, mem, turn>>
  /\ SF_write(WriteDurable) /\ \A s \in Symbols : SF_busy(Completion(s))

-----------------------------------------------------------------------------
(* Properties. *)

\* At every instant every log a crash can leave replays: no transition id is used twice,
\* no effect is retired twice or before its transition is known.
LogReplays == \A s \in ToSet(disk.past) : s.ok

\* Whatever a crash cuts off, an input's decision is taken once and not lost: a log has at
\* most one order for each placement the input led to, and an input that was delivered and
\* is no longer retained has its transition in the log or all its effects retired.
DecidedOnce ==
  \A s \in ToSet(disk.past) : \A c \in Inputs :
    /\ \A i, j \in DOMAIN s.sent :
         s.sent[i][1] = c /\ s.sent[j][1] = c /\ s.sent[i][3] = s.sent[j][3] => i = j
    /\ \/ c \in s.held
       \/ \E t \in DOMAIN s.trans : s.trans[t].cb = c
       \/ {ix \in DOMAIN Acts[c] : <<c, ix>> \in s.ended} \in {{}, DOMAIN Acts[c]}




=============================================================================
