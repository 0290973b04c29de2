--------------------------- MODULE OrderDispatch ---------------------------
(***************************************************************************)
(* How an order gets from an admitted decision to the venue and back, and  *)
(* what survives a crash on the way: engine-core's order_dispatch, the     *)
(* placement half of venue_completion and the send boundary of the venue   *)
(* task, with the venue and the network around them.                       *)
(*                                                                         *)
(* The log is kept as `logged`, the states its replay can reach: logged[1] *)
(* is the replay of what is certainly on disk, and every appended record   *)
(* adds the replay of the log that ends with it.  A crash keeps a prefix   *)
(* of that sequence, a completed barrier drops what is before its mark.    *)
(* The state of an order is its dispatch phase and its ledger row.         *)
(***************************************************************************)
EXTENDS Integers, Sequences, FiniteSets

CONSTANTS Ids,          \* client order ids
          Symbols, SymbolOf,
          Opens,        \* ids whose intent is not reduce_only
          NetReduces,   \* ids whose venue request is reduce_only
          Leverages,    \* leverage values
          Want,         \* the leverage an id's intent asks for, NoLeverage for none
          NoLeverage,
          MaxBatch,     \* MAX_ORDERS_PER_BATCH
          MaxCrashes,   \* bound: crashes
          MaxFaults     \* bound: requests lost and leverages changed by others

ASSUME DispatchAssumption ==
  /\ SymbolOf \in [Ids -> Symbols]
  /\ Opens \subseteq Ids /\ NetReduces \subseteq Ids
  /\ NoLeverage \notin Leverages
  /\ Want \in [Ids -> Leverages \cup {NoLeverage}]
  /\ MaxBatch \in Nat \ {0} /\ MaxCrashes \in Nat /\ MaxFaults \in Nat

VARIABLES
  logged,      \* replay states of the log, from the durable frontier on
  mem,         \* the engine's dispatches.orders and order ledger
  write,       \* dispatches.write: the one durability wait
  unresolved,  \* dispatches.unresolved
  recovered,   \* dispatches.recovered
  lookup,      \* dispatches.lookup_pending and its answer, at most one
  admin,       \* the pending leverage mutation, at most one
  leverageAt,  \* leverage_at
  mayOpen,     \* may_open and private_stream_ready
  up,          \* "boot" while restore_order_dispatches runs, then "run"
  boot,        \* ids restore_order_dispatches has not reached
  cmds,        \* placement commands between dispatch_orders and their completion
  reply,       \* the venue task's answer for an id of a sent command
  travelling,  \* copies of an id's request between the socket and the venue
  venue,       \* the venue's own record of an id
  past,        \* ids that a crash has separated from the engine that sized them
  crashes, faults

engineVars == <<mem, unresolved, recovered, leverageAt, mayOpen>>
venueVars == <<travelling, venue>>
vars == <<logged, mem, write, unresolved, recovered, lookup, admin, leverageAt, mayOpen,
          up, boot, cmds, reply, travelling, venue, past, crashes, faults>>

Phases == {"none", "Queued", "Attempted", "invalid"}
Rows == {"none", "sent", "acked", "done"}
OrderState == [d : Phases, l : Rows]
States == [Ids -> OrderState]
WriteKinds == {"none", "Attempt", "Leverage", "Other"}
NoWrite == [kind |-> "none", ids |-> {}, mark |-> 1, synced |-> FALSE]
Empty == [i \in Ids |-> [d |-> "none", l |-> "none"]]
Final(log) == log[Len(log)]

-----------------------------------------------------------------------------
(* The log. *)

\* OrderDispatches::replay, for one record about one order in phase d.  A
\* repeated send, an attempt that is not queued and a queued record over a
\* queued one are refused.
ReplayPhase(d, r) ==
  IF r = "sent" THEN (IF d = "none" THEN "Queued" ELSE "invalid")
  ELSE IF r = "attempted" THEN (IF d = "Queued" THEN "Attempted" ELSE "invalid")
  ELSE IF r = "requeued" THEN (IF d \in {"Attempted", "none"} THEN "Queued" ELSE "invalid")
  ELSE IF r = "completed" THEN "none"
  ELSE d

\* The ledger's replay of the same record.
ReplayRow(l, r) ==
  IF r = "sent" THEN "sent"
  ELSE IF r = "ack" THEN (IF l = "done" THEN "done" ELSE "acked")
  ELSE IF r = "end" THEN "done"
  ELSE l

Replay(s, r) == [d |-> ReplayPhase(s.d, r), l |-> ReplayRow(s.l, r)]

\* The orders in which the loops over a batch can take its ids.
Orderings(S) == {o \in UNION {[1..n -> S] : n \in 0..MaxBatch} :
                   /\ \A i \in S : \E k \in DOMAIN o : o[k] = i
                   /\ \A j, k \in DOMAIN o : o[j] = o[k] => j = k}

\* One record per id of o, appended one after the other.
Logs(log, o, r) ==
  log \o [n \in 1..Len(o) |->
            [i \in Ids |-> IF \E k \in 1..n : o[k] = i THEN Replay(Final(log)[i], r)
                           ELSE Final(log)[i]]]

\* Up to two records per id: the order update and then, from
\* observe_order_dispatch or complete_order_dispatch, the completion.
LogsPairs(log, o, a, b) ==
  log \o [n \in 1..(2 * Len(o)) |->
            [i \in Ids |->
               IF \E k \in 1..Len(o) : 2 * k <= n /\ o[k] = i
               THEN Replay(Replay(Final(log)[i], a[i]), b[i])
               ELSE IF \E k \in 1..Len(o) : 2 * k = n + 1 /\ o[k] = i
               THEN Replay(Final(log)[i], a[i])
               ELSE Final(log)[i]]]

\* take_update(Reject or Cancelled) then complete_order_dispatch, for S.
EndRecord == [i \in Ids |-> IF mem[i].l = "done" THEN "skip" ELSE "end"]
CompletedRecord == [i \in Ids |-> IF mem[i].d = "none" THEN "skip" ELSE "completed"]
Ended(m, S) == [i \in Ids |-> IF i \in S THEN [d |-> "none", l |-> "done"] ELSE m[i]]

-----------------------------------------------------------------------------
TypeOK ==
  /\ logged \in Seq(States) /\ Len(logged) >= 1
  /\ mem \in States
  /\ write \in [kind : WriteKinds, ids : SUBSET Ids, mark : Nat, synced : BOOLEAN]
  /\ unresolved \subseteq Ids /\ recovered \subseteq Ids
  /\ lookup \subseteq [id : Ids, ans : {"none", "working", "terminal", "never", "unknown"}]
  /\ admin \subseteq [sym : Symbols, want : Leverages, orders : SUBSET Ids]
  /\ leverageAt \in [Symbols -> Leverages \cup {NoLeverage}]
  /\ mayOpen \in BOOLEAN
  /\ up \in {"boot", "run"} /\ boot \subseteq Ids
  /\ cmds \subseteq [ids : SUBSET Ids, auth : {"none", "current", "superseded"},
                     stage : {"queued", "sent"}]
  /\ reply \in [Ids -> {"none", "ack", "reject", "unsent", "lost"}]
  /\ travelling \in [Ids -> Nat]
  /\ venue \in [Ids -> {"absent", "live", "ended", "refused"}]
  /\ past \subseteq Ids
  /\ crashes \in 0..MaxCrashes /\ faults \in 0..MaxFaults

\* A process that has just come up with nothing to restore, in a family of processes that has
\* minted the ids p and crashed c times.
Started(p, c, f) ==
  /\ logged = <<Empty>> /\ mem = Empty /\ write = NoWrite
  /\ unresolved = {} /\ recovered = {} /\ lookup = {} /\ admin = {}
  /\ leverageAt = [s \in Symbols |-> NoLeverage]
  /\ mayOpen = TRUE /\ up = "run" /\ boot = {}
  /\ cmds = {} /\ reply = [i \in Ids |-> "none"]
  /\ travelling = [i \in Ids |-> 0] /\ venue = [i \in Ids |-> "absent"]
  /\ past = p /\ crashes = c /\ faults = f

Init == Started({}, 0, 0)

-----------------------------------------------------------------------------
(* Preparing and sending. *)

\* Mutant: a leverage change does not hold its symbol.
BusyPlacements == {SymbolOf[i] : i \in UNION {c.ids : c \in cmds}}

\* Mutant: a placement does not hold its symbols.
BusyLeverage == {a.sym : a \in admin}

\* busy_symbols: mark_symbols_busy when a command is queued, release_symbols
\* when its completion is handled.
BusySymbols == {SymbolOf[i] : i \in UNION {c.ids : c \in cmds}} \cup {a.sym : a \in admin}

\* missing_leverage.
Missing(i) == i \in Opens /\ Want[i] # NoLeverage /\ leverageAt[SymbolOf[i]] # Want[i]

\* opening_refusal is none.
ClearToOpen == mayOpen /\ unresolved = {}

\* Mutant: an advance that leaves queued commands their authority.
SupersededLater(cs) == cs

\* AuthorityEpoch::advance: every authority minted so far is superseded.
Superseded(cs) == {[c EXCEPT !.auth = IF @ = "none" THEN "none" ELSE "superseded"] : c \in cs}

\* Ids begin_order_preparation may take now.
Preparable(S) == {i \in S : SymbolOf[i] \notin BusySymbols /\ (admin = {} \/ ~Missing(i))}

\* begin_order_preparation with begin_order_attempt: ready orders are written
\* Attempted, and only when none is ready does the write wait for a leverage.
Prepare(log, S) ==
  LET batch == Preparable(S)
      ready == {i \in batch : ~Missing(i)}
  IN IF batch = {}
     THEN logged' = log /\ UNCHANGED write
     ELSE IF ready = {}
     THEN /\ logged' = log
          /\ write' = [kind |-> "Leverage", ids |-> batch, mark |-> Len(log), synced |-> FALSE]
     ELSE \E o \in Orderings(ready) :
            /\ logged' = Logs(log, o, "attempted")
            /\ write' = [kind |-> "Attempt", ids |-> ready,
                         mark |-> Len(log) + Len(o), synced |-> FALSE]

Running == up = "run"

\* Mutant: the durability wait may have two owners.
WriteAlwaysFree == TRUE

\* dispatches.write.is_none().
WriteFree == write.kind = "none"

\* process_intents: OrderSent for each accepted sibling, then
\* queue_order_dispatches.  Openings need opening_refusal to be none, and
\* siblings that want different leverages in one symbol are refused.  mint_id
\* never gives an id again: every boot has an epoch of its own.
Admit ==
  /\ Running /\ WriteFree
  /\ \E S \in SUBSET {i \in Ids \ past : mem[i].l = "none"} :
       /\ S # {}
       /\ \A i \in S : SymbolOf[i] \notin BusySymbols /\ (i \in Opens => ClearToOpen)
       /\ \A i, j \in S \cap Opens :
            (SymbolOf[i] = SymbolOf[j] /\ {Want[i], Want[j]} \subseteq Leverages) => Want[i] = Want[j]
       /\ \E o \in Orderings(S) : Prepare(Logs(logged, o, "sent"), S)
       /\ mem' = [i \in Ids |-> IF i \in S THEN [d |-> "Queued", l |-> "sent"] ELSE mem[i]]
  /\ UNCHANGED <<unresolved, recovered, lookup, admin, leverageAt, mayOpen, up, boot,
                 cmds, reply, venueVars, past, crashes, faults>>

\* service_order_dispatches after its channels are drained: prepare queued
\* orders when no write is outstanding, then start one status read.
Service ==
  /\ Running
  /\ LET queued == Preparable({i \in Ids : mem[i].d = "Queued"})
         unknown == {i \in Ids : mem[i].d = "Attempted" /\ SymbolOf[i] \notin BusySymbols}
     IN /\ \/ WriteFree /\ queued # {}
           \/ lookup = {} /\ unknown # {}
        /\ IF WriteFree /\ queued # {}
           THEN \E S \in SUBSET queued :
                  /\ S # {} /\ (Cardinality(S) = MaxBatch \/ S = queued)
                  /\ Prepare(logged, S)
           ELSE UNCHANGED <<logged, write>>
        /\ IF lookup = {} /\ unknown # {}
           THEN \E i \in unknown : lookup' = {[id |-> i, ans |-> "none"]}
           ELSE UNCHANGED lookup
  /\ UNCHANGED <<mem, unresolved, recovered, admin, leverageAt, mayOpen, up, boot,
                 cmds, reply, venueVars, past, crashes, faults>>

\* Another owner of the durability wait: a stop, an amend, a portfolio control.
BeginOther ==
  /\ Running /\ WriteFree
  /\ write' = [kind |-> "Other", ids |-> {}, mark |-> Len(logged), synced |-> FALSE]
  /\ UNCHANGED <<logged, mem, unresolved, recovered, lookup, admin, leverageAt, mayOpen, up,
                 boot, cmds, reply, venueVars, past, crashes, faults>>

\* The barrier completes; what was appended before it can no longer be lost.
SyncDone ==
  /\ write.kind # "none" /\ ~write.synced
  /\ logged' = SubSeq(logged, write.mark, Len(logged))
  /\ write' = [write EXCEPT !.synced = TRUE, !.mark = 1]
  /\ UNCHANGED <<mem, unresolved, recovered, lookup, admin, leverageAt, mayOpen, up, boot,
                 cmds, reply, venueVars, past, crashes, faults>>

\* Mutant: the result of the barrier is not waited for.
BarrierIgnored == TRUE

\* The durable channel has the result of the write's barrier.
BarrierDone == write.synced

\* Ids of the write that still have a dispatch, and those of them
\* refuse_changed_dispatch certainly refuses.  A reduction, and an opening
\* against changed risk or instrument state, may be refused as well.
Held == {i \in write.ids : mem[i].d # "none"}
Stale(S) == {i \in S : mem[i].l = "done" \/ (i \in Opens /\ (i \in recovered \/ ~ClearToOpen))}

Retire(S) ==
  /\ unresolved' = unresolved \ S
  /\ recovered' = recovered \ S

\* on_order_dispatch_durable, DispatchWrite::Attempt: refuse what changed
\* during the wait, mark the rest Attempted and queue one placement command; a
\* full lane refuses them unsent.
OnDurableAttempt ==
  /\ write.kind = "Attempt" /\ BarrierDone
  /\ write' = NoWrite
  /\ \E refused \in SUBSET Held :
       LET sent == Held \ refused
       IN /\ Stale(Held) \cup {i \in Held : Missing(i)} \subseteq refused
          /\ \/ /\ \E o \in Orderings(refused) :
                     logged' = LogsPairs(logged, o, EndRecord, CompletedRecord)
                /\ mem' = [i \in Ids |-> IF i \in sent THEN [mem[i] EXCEPT !.d = "Attempted"]
                                         ELSE Ended(mem, refused)[i]]
                /\ cmds' = IF sent = {} THEN cmds
                           ELSE cmds \cup {[ids |-> sent, stage |-> "queued",
                                            auth |-> IF sent \subseteq NetReduces THEN "none"
                                                     ELSE "current"]}
                /\ Retire(refused)
             \/ /\ sent # {}
                /\ \E o \in Orderings(Held) :
                     logged' = LogsPairs(logged, o, EndRecord, CompletedRecord)
                /\ mem' = Ended(mem, Held)
                /\ Retire(Held)
                /\ UNCHANGED cmds
  /\ UNCHANGED <<lookup, admin, leverageAt, mayOpen, up, boot, reply, venueVars,
                 past, crashes, faults>>

\* on_order_dispatch_durable, DispatchWrite::Leverage, with
\* dispatch_durable_leverage: one symbol and value is asked of the venue, or
\* the lane is full and the orders stay queued.
OnDurableLeverage ==
  /\ write.kind = "Leverage" /\ BarrierDone
  /\ write' = NoWrite
  /\ \E refused \in SUBSET Held :
       LET missing == {i \in Held \ refused : Missing(i)}
       IN /\ Stale(Held) \subseteq refused
          /\ \E o \in Orderings(refused) :
               logged' = LogsPairs(logged, o, EndRecord, CompletedRecord)
          /\ mem' = Ended(mem, refused)
          /\ Retire(refused)
          /\ \/ UNCHANGED <<admin, leverageAt>>
             \/ \E i \in missing :
                  /\ admin' = admin \cup
                       {[sym |-> SymbolOf[i], want |-> Want[i],
                         orders |-> {j \in missing : SymbolOf[j] = SymbolOf[i] /\ Want[j] = Want[i]}]}
                  /\ leverageAt' = [leverageAt EXCEPT ![SymbolOf[i]] = NoLeverage]
  /\ UNCHANGED <<lookup, mayOpen, up, boot, cmds, reply, venueVars, past, crashes, faults>>

OnDurableOther ==
  /\ write.kind = "Other" /\ BarrierDone
  /\ write' = NoWrite
  /\ UNCHANGED <<logged, mem, unresolved, recovered, lookup, admin, leverageAt, mayOpen, up,
                 boot, cmds, reply, venueVars, past, crashes, faults>>

\* What leverage_at holds after an administration: the value if some dependent
\* order was still authorized.
ConfirmedLeverage(queued, refused, want) == IF queued = refused THEN NoLeverage ELSE want

\* complete_leverage: an unconfirmed change, a changed account or a refused
\* dependent leaves the value unknown; a dependent that survives confirms it.
CompleteLeverage ==
  /\ Running
  /\ \E a \in admin :
       LET queued == {i \in a.orders : mem[i].d = "Queued"}
       IN \E refused \in SUBSET queued :
            /\ Stale(queued) \subseteq refused
            /\ \E o \in Orderings(refused) :
                 logged' = LogsPairs(logged, o, EndRecord, CompletedRecord)
            /\ mem' = Ended(mem, refused)
            /\ Retire(refused)
            /\ leverageAt' = [leverageAt EXCEPT ![a.sym] =
                                ConfirmedLeverage(queued, refused, a.want)]
            /\ admin' = admin \ {a}
  /\ UNCHANGED <<write, lookup, mayOpen, up, boot, cmds, reply, venueVars, past, crashes, faults>>

-----------------------------------------------------------------------------
(* Answers. *)

\* complete_orders: acknowledgements and refusals settle their orders, an
\* answer that says nothing leaves the attempt and is noted unresolved, and
\* the group's symbols are released.
CompleteOrders ==
  /\ Running
  /\ \E c \in cmds :
       LET acked == {i \in c.ids : reply[i] = "ack"}
           ended == {i \in c.ids : reply[i] \in {"reject", "unsent"}}
           lost == {i \in c.ids : reply[i] = "lost"}
           update == [i \in Ids |-> IF i \in acked THEN "ack"
                                    ELSE IF i \in ended THEN "end" ELSE "skip"]
           rest == cmds \ {c}
       IN /\ c.stage = "sent" /\ \A i \in c.ids : reply[i] # "none"
          /\ \E o \in Orderings(acked \cup ended) :
               logged' = LogsPairs(logged, o, update, CompletedRecord)
          /\ mem' = [i \in Ids |->
                       IF i \in ended THEN [d |-> "none", l |-> "done"]
                       ELSE IF i \in acked
                       THEN [d |-> "none", l |-> IF mem[i].l = "done" THEN "done" ELSE "acked"]
                       ELSE mem[i]]
          /\ unresolved' = (unresolved \ (acked \cup ended)) \cup lost
          /\ recovered' = recovered \ (acked \cup ended)
          /\ \/ lost # {} /\ unresolved \subseteq acked \cup ended /\ cmds' = Superseded(rest)
             \/ (lost = {} \/ unresolved # {}) /\ cmds' = rest
          /\ reply' = [i \in Ids |-> IF i \in c.ids THEN "none" ELSE reply[i]]
  /\ UNCHANGED <<write, lookup, admin, leverageAt, mayOpen, up, boot, venueVars,
                 past, crashes, faults>>

\* A private-stream ack, fill, cancel or reject through take_update.
PrivateUpdate ==
  /\ Running
  /\ \E i \in Ids, end \in BOOLEAN :
       /\ mem[i].l \in {"sent", "acked"}
       /\ IF end THEN venue[i] \in {"ended", "refused"}
          ELSE venue[i] \in {"live", "ended"} /\ (mem[i].l = "sent" \/ i \in unresolved)
       /\ logged' = LogsPairs(logged, <<i>>, [j \in Ids |-> IF end THEN "end" ELSE "ack"],
                              CompletedRecord)
       /\ mem' = [mem EXCEPT ![i] = [d |-> "none", l |-> IF end THEN "done" ELSE "acked"]]
       /\ Retire({i})
  /\ UNCHANGED <<write, lookup, admin, leverageAt, mayOpen, up, boot, cmds, reply, venueVars,
                 past, crashes, faults>>

\* Mutant: the local cancel is not journaled.
CancelQueuedSilently ==
  /\ Running
  /\ \E i \in Ids : mem[i].d = "Queued" /\ mem' = Ended(mem, {i}) /\ Retire({i})
  /\ UNCHANGED <<logged, write, lookup, admin, leverageAt, mayOpen, up, boot, cmds, reply,
                 venueVars, past, crashes, faults>>

\* process_cancels of an order that has not been attempted: it ends here,
\* whether or not its Attempted record is being written.
CancelQueued ==
  /\ Running
  /\ \E i \in Ids :
       /\ mem[i].d = "Queued"
       /\ logged' = LogsPairs(logged, <<i>>, EndRecord, CompletedRecord)
       /\ mem' = Ended(mem, {i})
       /\ Retire({i})
  /\ UNCHANGED <<write, lookup, admin, leverageAt, mayOpen, up, boot, cmds, reply, venueVars,
                 past, crashes, faults>>

\* Mutant: an answer that says nothing takes the attempt back.
TakesBackUnknown(ans) == ans \in {"never", "unknown"}

\* The one answer that takes an attempt back.
TakesBack(ans) == ans = "never"

\* Mutant: a read without an answer keeps the lookup lane.
KeepLane == lookup' = {q \in lookup : q.ans = "unknown"}

\* lookup_pending.remove.
FreeLane == lookup' = {}

\* on_order_lookup with apply_order_lookup.  A terminal answer whose fill total
\* disagrees with the ledger, another order's row and a failed read all count
\* as unknown.
OnLookup ==
  /\ \E q \in lookup :
       LET i == q.id
           held == mem[i].d # "none"
       IN /\ q.ans # "none"
          /\ \/ /\ ~held
                /\ UNCHANGED <<logged, mem, unresolved, recovered, cmds>>
             \/ /\ held /\ q.ans \in {"working", "terminal"}
                /\ logged' = LogsPairs(logged, <<i>>,
                               [j \in Ids |-> IF q.ans = "working" THEN "ack" ELSE "end"],
                               CompletedRecord)
                /\ mem' = [mem EXCEPT ![i] =
                             [d |-> "none", l |-> IF q.ans = "working" /\ mem[i].l # "done"
                                                  THEN "acked" ELSE "done"]]
                /\ Retire({i})
                /\ UNCHANGED cmds
             \/ /\ held /\ TakesBack(q.ans)
                /\ IF mem[i].d = "Attempted"
                   THEN /\ logged' = Logs(logged, <<i>>, "requeued")
                        /\ mem' = [mem EXCEPT ![i].d = "Queued"]
                   ELSE UNCHANGED <<logged, mem>>
                /\ unresolved' = unresolved \ {i}
                /\ UNCHANGED <<recovered, cmds>>
             \/ /\ held /\ q.ans = "unknown" /\ ~TakesBack(q.ans)
                /\ cmds' = IF unresolved = {} THEN Superseded(cmds) ELSE cmds
                /\ unresolved' = unresolved \cup {i}
                /\ UNCHANGED <<logged, mem, recovered>>
  /\ FreeLane
  /\ UNCHANGED <<write, admin, leverageAt, mayOpen, up, boot, reply, venueVars,
                 past, crashes, faults>>

-----------------------------------------------------------------------------
(* The rest of the engine, as far as dispatch depends on it. *)

\* latch_closed, clear_private_stream_ready.
Latch ==
  /\ Running /\ mayOpen
  /\ mayOpen' = FALSE
  /\ cmds' = Superseded(cmds)
  /\ UNCHANGED <<logged, mem, write, unresolved, recovered, lookup, admin, leverageAt, up, boot,
                 reply, venueVars, past, crashes, faults>>

Unlatch ==
  /\ Running /\ ~mayOpen
  /\ mayOpen' = TRUE
  /\ UNCHANGED <<logged, mem, write, unresolved, recovered, lookup, admin, leverageAt, up, boot,
                 cmds, reply, venueVars, past, crashes, faults>>

\* verify_leverage_against_view evicts a value the account contradicts.
EvictLeverage ==
  /\ Running /\ faults < MaxFaults
  /\ \E s \in Symbols : /\ leverageAt[s] # NoLeverage
                        /\ leverageAt' = [leverageAt EXCEPT ![s] = NoLeverage]
  /\ faults' = faults + 1
  /\ UNCHANGED <<logged, mem, write, unresolved, recovered, lookup, admin, mayOpen, up, boot,
                 cmds, reply, venueVars, past, crashes>>

\* on_tick's rotation: only with no dispatch write outstanding, and its base
\* restates the dispatches from memory.
Rotate ==
  /\ Running /\ WriteFree
  /\ logged' = <<mem>>
  /\ UNCHANGED <<mem, write, unresolved, recovered, lookup, admin, leverageAt, mayOpen, up, boot,
                 cmds, reply, venueVars, past, crashes, faults>>

\* Mutant: replay does not remember which dispatches it restored.
NothingForeign(open) == {}

\* The dispatches replay restores belong to the previous engine epoch.
Foreign(open) == open

\* The process dies with some part of the unsettled log; the next one replays
\* what is left.  Requests already on the network stay there.
Crash ==
  /\ crashes < MaxCrashes
  /\ \E k \in 1..Len(logged) :
       LET open == {i \in Ids : logged[k][i].d # "none"}
       IN /\ logged' = SubSeq(logged, 1, k)
          /\ mem' = logged[k]
          /\ recovered' = Foreign(open) /\ boot' = open /\ past' = past \cup open
  /\ write' = NoWrite /\ unresolved' = {} /\ lookup' = {} /\ admin' = {}
  /\ leverageAt' = [s \in Symbols |-> NoLeverage]
  /\ mayOpen' \in BOOLEAN /\ up' = "boot"
  /\ cmds' = {} /\ reply' = [i \in Ids |-> "none"]
  /\ crashes' = crashes + 1
  /\ UNCHANGED <<venueVars, faults>>

\* restore_order_dispatches, one order of its loop: a settled one is completed,
\* a queued opening is refused, a queued reduction is attempted (or refused if
\* it no longer reduces), an attempt is looked up.
BootRestore ==
  /\ up = "boot" /\ WriteFree /\ lookup = {}
  /\ \E i \in boot :
       /\ boot' = boot \ {i}
       /\ \/ /\ mem[i].l = "done" \/ mem[i].d = "Queued"
             /\ logged' = LogsPairs(logged, <<i>>, EndRecord, CompletedRecord)
             /\ mem' = Ended(mem, {i})
             /\ Retire({i})
             /\ UNCHANGED <<write, lookup>>
          \/ /\ mem[i].l # "done" /\ mem[i].d = "Queued" /\ i \notin Opens
             /\ logged' = Logs(logged, <<i>>, "attempted")
             /\ write' = [kind |-> "Attempt", ids |-> {i}, mark |-> Len(logged) + 1,
                          synced |-> FALSE]
             /\ UNCHANGED <<mem, unresolved, recovered, lookup>>
          \/ /\ mem[i].l # "done" /\ mem[i].d = "Attempted"
             /\ lookup' = {[id |-> i, ans |-> "none"]}
             /\ UNCHANGED <<logged, mem, write, unresolved, recovered>>
  /\ UNCHANGED <<admin, leverageAt, mayOpen, up, cmds, reply, venueVars, past, crashes, faults>>

BootDone ==
  /\ up = "boot" /\ boot = {} /\ WriteFree /\ lookup = {}
  /\ up' = "run"
  /\ UNCHANGED <<logged, mem, write, unresolved, recovered, lookup, admin, leverageAt, mayOpen,
                 boot, cmds, reply, venueVars, past, crashes, faults>>

-----------------------------------------------------------------------------
(* The venue task and the venue. *)

\* The venue task takes a placement command: a superseded authority, or one
\* that has expired, refuses it unsent; an adapter may also refuse some
\* requests before they are signed.
VenueSend ==
  /\ \E c \in cmds : \E out \in SUBSET c.ids :
       /\ c.stage = "queued"
       /\ c.auth = "superseded" => out = {}
       /\ cmds' = (cmds \ {c}) \cup {[c EXCEPT !.stage = "sent"]}
       /\ travelling' = [i \in Ids |-> travelling[i] + IF i \in out THEN 1 ELSE 0]
       /\ reply' = [i \in Ids |-> IF i \in c.ids \ out THEN "unsent" ELSE reply[i]]
  /\ UNCHANGED <<logged, mem, write, unresolved, recovered, lookup, admin, leverageAt, mayOpen,
                 up, boot, venue, past, crashes, faults>>

\* A request reaches the venue, which accepts or refuses it.
Arrive ==
  /\ \E i \in Ids, verdict \in {"live", "refused"} :
       /\ travelling[i] > 0
       /\ travelling' = [travelling EXCEPT ![i] = @ - 1]
       /\ venue' = [venue EXCEPT ![i] = IF @ = "absent" THEN verdict ELSE @]
  /\ UNCHANGED <<logged, mem, write, unresolved, recovered, lookup, admin, leverageAt, mayOpen,
                 up, boot, cmds, reply, past, crashes, faults>>

Lose ==
  /\ faults < MaxFaults
  /\ \E i \in Ids : travelling[i] > 0 /\ travelling' = [travelling EXCEPT ![i] = @ - 1]
  /\ faults' = faults + 1
  /\ UNCHANGED <<logged, mem, write, unresolved, recovered, lookup, admin, leverageAt, mayOpen,
                 up, boot, cmds, reply, venue, past, crashes>>

\* A resting order fills or is cancelled.
VenueEnds ==
  /\ \E i \in Ids : venue[i] = "live" /\ venue' = [venue EXCEPT ![i] = "ended"]
  /\ UNCHANGED <<logged, mem, write, unresolved, recovered, lookup, admin, leverageAt, mayOpen,
                 up, boot, cmds, reply, travelling, past, crashes, faults>>

\* The placement call returns for one request: what the venue did with it, or
\* a transport error that says nothing.
VenueReplies ==
  /\ \E c \in cmds : \E i \in c.ids, r \in {"ack", "reject", "lost"} :
       /\ c.stage = "sent" /\ reply[i] = "none"
       /\ r = "ack" => venue[i] \in {"live", "ended"}
       /\ r = "reject" => venue[i] = "refused"
       /\ reply' = [reply EXCEPT ![i] = r]
  /\ UNCHANGED <<logged, mem, write, unresolved, recovered, lookup, admin, leverageAt, mayOpen,
                 up, boot, cmds, travelling, venue, past, crashes, faults>>

\* order_status_named.  NeverAccepted carries the venue's proof that the
\* request was not and will not be accepted.
LookupAnswer ==
  /\ \E q \in lookup, a \in {"working", "terminal", "never", "unknown"} :
       /\ q.ans = "none"
       /\ a = "working" => venue[q.id] = "live"
       /\ a = "terminal" => venue[q.id] \in {"ended", "refused"}
       /\ a = "never" => venue[q.id] = "absent" /\ travelling[q.id] = 0
       /\ lookup' = {[q EXCEPT !.ans = a]}
  /\ UNCHANGED <<logged, mem, write, unresolved, recovered, admin, leverageAt, mayOpen,
                 up, boot, cmds, reply, venueVars, past, crashes, faults>>

Next ==
  \/ Admit \/ Service \/ BeginOther \/ SyncDone
  \/ OnDurableAttempt \/ OnDurableLeverage \/ OnDurableOther
  \/ CompleteLeverage \/ CompleteOrders \/ PrivateUpdate \/ CancelQueued \/ OnLookup
  \/ Latch \/ Unlatch \/ EvictLeverage \/ Rotate \/ Crash \/ BootRestore \/ BootDone
  \/ VenueSend \/ Arrive \/ Lose \/ VenueEnds \/ VenueReplies \/ LookupAnswer

Spec == Init /\ [][Next]_vars

-----------------------------------------------------------------------------
(* Fairness.  The select loop keeps polling its channels; every drain starts
   with service_order_dispatches, so a durability wait that is free again and
   again is not always taken by the later steps of the drain.  The durability
   thread answers, the venue task sends and its calls return within their
   timeouts.  The venue task keeps emptying its mailboxes, so a lane is not full
   at every try, and a status read that can tell what became of the order does
   not fail at every try. *)

Informed == LookupAnswer /\ \A q \in lookup' : q.ans # "unknown"
LeverageAsked == OnDurableLeverage /\ admin' # admin

Fairness ==
  /\ SF_<<write, lookup>>(Service)
  /\ WF_write(SyncDone \/ OnDurableAttempt \/ OnDurableLeverage \/ OnDurableOther)
  /\ WF_admin(CompleteLeverage) /\ WF_cmds(CompleteOrders)
  /\ WF_<<boot, up>>(BootRestore \/ BootDone)
  /\ WF_cmds(VenueSend) /\ WF_reply(VenueReplies) /\ WF_travelling(Arrive)
  /\ WF_lookup(LookupAnswer \/ OnLookup) /\ SF_lookup(Informed) /\ SF_admin(LeverageAsked)

-----------------------------------------------------------------------------
(* Properties. *)

OnWire(i) == travelling[i] > 0 \/ venue[i] # "absent"

\* A replay state that knows the order may be at the venue: attempted, or
\* already settled by an update.
Covered(s) == s.d = "Attempted" \/ (s.d = "none" /\ s.l \in {"acked", "done"})

InCommand(i) == \E c \in cmds : i \in c.ids

\* The write barrier (begin_order_attempt, on_order_dispatch_durable): wherever
\* a crash cuts the log, every order that has left the socket is replayed as
\* attempted or settled.  None is forgotten and none is taken for unsent.
DurableBeforeWire ==
  \A i \in Ids : OnWire(i) => \A k \in 1..Len(logged) : Covered(logged[k][i])

\* Requeueing after NeverAccepted, lost replies and restarts: the venue never
\* gets a second copy of a request it has, or that is still on its way.
NoDuplicateRequest ==
  \A i \in Ids : travelling[i] + (IF venue[i] = "absent" THEN 0 ELSE 1) <= 1

\* OrderDispatches::replay refuses a log with a repeated or ownerless
\* transition; no interleaving of handlers writes one, at any cut.
ReplayAccepts ==
  \A k \in 1..Len(logged), i \in Ids : logged[k][i].d # "invalid"

\* refuse_changed_dispatch and restore_order_dispatches: an opening decided
\* before a restart is never handed to the venue after it, also when its
\* attempt is taken back first.
PastOpeningUnsent ==
  \A c \in cmds : \A i \in c.ids : i \in Opens => i \notin past

\* note_unresolved, latch_closed and the authority epoch: a queued command that
\* adds exposure and would pass the send boundary was minted under a permission
\* that still stands; nothing is unresolved and nothing is latched.
AuthorityMeansClear ==
  \A c \in cmds :
    (/\ c.stage = "queued" /\ c.auth = "current"
     /\ \E i \in c.ids : i \in Opens /\ i \notin NetReduces) => ClearToOpen

\* on_tick's rotation guard: with no dispatch write outstanding, memory is the
\* replay of the log, so a base written from memory loses and invents nothing.
RotationRestates == write.kind = "none" => Final(logged) = mem

\* Leverage is global to a symbol: one administration at a time, none starts
\* behind another, and none overlaps a placement in its symbol.
LeverageExclusive ==
  /\ \A a, b \in admin : a = b
  /\ write.kind = "Leverage" => admin = {}
  /\ \A a \in admin : \A c \in cmds : \A i \in c.ids : SymbolOf[i] # a.sym

\* Every dispatch is eventually settled: busy symbols are released, the one
\* durability wait is handed on, and a lost reply is looked up until answered.
DispatchesSettle == \A i \in Ids : mem[i].d # "none" ~> mem[i].d = "none"

\* OpeningRefusal::OrderDispatchUnresolved: openings are held because "an
\* attempted order has no authoritative venue outcome".
UnresolvedIsAttempted == \A i \in unresolved : mem[i].d # "none"

-----------------------------------------------------------------------------
(* The inductive invariant behind the theorems of OrderDispatchProofs. *)

\* Memory is the replay of the log, but for the orders whose Attempted record
\* is written and not yet known to be durable.
MemTracksLog ==
  \A i \in Ids :
    Final(logged)[i] = IF write.kind = "Attempt" /\ i \in write.ids /\ mem[i].d = "Queued"
                       THEN [mem[i] EXCEPT !.d = "Attempted"] ELSE mem[i]

\* Every replay state is one the reader accepts, and only a logged order has a
\* dispatch.
LogWellFormed ==
  \A k \in 1..Len(logged), i \in Ids :
    logged[k][i].d # "invalid" /\ (logged[k][i].l = "none" => logged[k][i].d = "none")

\* From its mark on, the log covers the orders of an attempt being written,
\* which memory still holds as queued or no longer holds.
WriteCovered ==
  /\ write.mark \in 1..Len(logged)
  /\ write.synced => write.mark = 1
  /\ WriteFree => write = NoWrite
  /\ write.kind = "Attempt" =>
       \A i \in write.ids :
         /\ mem[i].d \in {"Queued", "none"}
         /\ \A k \in write.mark..Len(logged) : Covered(logged[k][i])

\* Every cut of the log covers what the venue task or the venue has.
WireCovered ==
  \A i \in Ids : (OnWire(i) \/ InCommand(i)) => \A k \in 1..Len(logged) : Covered(logged[k][i])

\* A queued order has not been handed over.
QueuedOffWire == \A i \in Ids : mem[i].d = "Queued" => ~OnWire(i) /\ ~InCommand(i)

\* A status read is about an order no command carries, and its NeverAccepted
\* is still true when it is applied.
LookupSafe ==
  \A q \in lookup :
    /\ mem[q.id].d # "Queued" /\ mem[q.id].l # "none"
    /\ ~InCommand(q.id)
    /\ q.ans = "never" => ~OnWire(q.id)

\* Commands are disjoint, and an unsent one carries nothing the venue has.
SendOnce ==
  /\ \A b, c \in cmds : b # c => b.ids \cap c.ids = {}
  /\ \A c \in cmds : c.stage = "queued" => \A i \in c.ids : ~OnWire(i)

\* What restore_order_dispatches has not reached is not yet written or sent.
BootApart ==
  /\ Running => boot = {}
  /\ \A i \in boot : ~InCommand(i) /\ i \notin write.ids

\* The invariants above as one; each step of the engine, the venue task or the
\* venue preserves it.
Inv == /\ TypeOK /\ MemTracksLog /\ LogWellFormed /\ WriteCovered /\ WireCovered
       /\ QueuedOffWire /\ LookupSafe /\ SendOnce /\ BootApart /\ NoDuplicateRequest
=============================================================================
