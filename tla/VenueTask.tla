------------------------------ MODULE VenueTask ------------------------------
(***************************************************************************)
(* The venue task and its client.  The engine hands commands to one of two *)
(* bounded mailboxes without waiting; the task moves them to a ready set,  *)
(* picks one by quota, class and arrival, makes one gateway call at a time *)
(* and answers through a bounded channel.                                  *)
(*                                                                         *)
(* A command is a constant: its class, its quota shape, the orders it      *)
(* names, whether it creates them, and whether it carries an authority.    *)
(* The venue's quota is any set of throttled shapes; a call's outcome is   *)
(* not modelled here (OrderDispatch has it), only that it is answered.     *)
(***************************************************************************)
EXTENDS Integers, FiniteSets, Sequences

CONSTANTS Commands,
          Class,              \* DispatchClass of each command, 1 (risk-reducing) to 4
          Shape,              \* QueuedCommand of each command
          Kind,               \* "send", "cancel", "amend" or "other"
          Orders,             \* the client ids each command names
          Authorised,         \* commands that carry a CommandAuthority
          CommandCapacity, UrgentCapacity, ReadyCapacity, CompletionCapacity,
          MaxAmendBatch,
          MaxThrottles        \* bound: times the venue's quota fills

ASSUME TaskAssumption ==
  /\ Class \in [Commands -> 1..4] /\ Authorised \subseteq Commands
  /\ Kind \in [Commands -> {"send", "cancel", "amend", "other"}]
  /\ \A c \in Commands : Kind[c] = "amend" <=> Class[c] = 2
  /\ \A c \in Commands : Kind[c] = "cancel" => Class[c] = 1
  /\ {CommandCapacity, UrgentCapacity, ReadyCapacity, CompletionCapacity, MaxAmendBatch}
       \subseteq Nat \ {0}
  /\ MaxThrottles \in Nat

VARIABLES submitted,    \* commands the engine has tried to hand over
          refused,      \* commands the client refused: their lane was full
          lapsed,       \* authorised commands whose authority is spent
          urgent, ordinary,   \* the mailboxes
          ready,        \* the ready set: the arrival number of each command in it
          arrivals,     \* the next arrival number
          pc,           \* where the task stands
          batch,        \* amends of a planned group still to be checked, with their arrivals
          calling,      \* the commands of the gateway call in flight, in order
          replies,      \* answers the task has still to send, in order
          completions,  \* the channel to the engine
          answered,     \* commands the task has answered, in order
          called,       \* commands whose gateway call was made, in order
          gauge,        \* in_flight_class
          throttled, throttles,
          closed        \* the engine has dropped its senders

vars == <<submitted, refused, lapsed, urgent, ordinary, ready, arrivals, pc, batch, calling, replies, completions,
          answered, called, gauge, throttled, throttles, closed>>

engineVars == <<submitted, refused, lapsed, closed>>
taskVars == <<batch, calling, replies, answered, called, gauge>>
readyVars == <<ready, arrivals>>
quotaVars == <<throttled, throttles>>

Shapes == {Shape[c] : c \in Commands}
Urgent(c) == Class[c] = 1
NoArrivals == [c \in {} |-> 0]

Init ==
  /\ submitted = {} /\ refused = {} /\ lapsed = {}
  /\ urgent = <<>> /\ ordinary = <<>> /\ ready = NoArrivals /\ arrivals = 0
  /\ pc = "urgent" /\ batch = NoArrivals /\ calling = <<>> /\ replies = <<>> /\ completions = <<>> /\ answered = <<>>
  /\ called = <<>> /\ gauge = 0 /\ throttled = {} /\ throttles = 0 /\ closed = FALSE

-----------------------------------------------------------------------------
(* The engine's side. *)

\* The engine cancels and amends only orders it placed, in this run or an earlier one.
Known(c) ==
  \A s \in Commands : Kind[s] = "send" /\ Kind[c] # "send" /\ Orders[s] \cap Orders[c] # {} =>
    s \in submitted \ refused

\* Mutant: the ordinary lane is never refused.
SubmitUnbounded(c) ==
  /\ ~closed /\ c \notin submitted
  /\ Known(c)
  /\ submitted' = submitted \cup {c}
  /\ \/ ~Urgent(c) /\ ordinary' = Append(ordinary, c) /\ UNCHANGED <<urgent, refused>>
     \/ /\ Urgent(c) /\ Len(urgent) < UrgentCapacity
        /\ urgent' = Append(urgent, c) /\ UNCHANGED <<ordinary, refused>>
  /\ UNCHANGED <<lapsed, readyVars, pc, completions, taskVars, quotaVars, closed>>

\* VenueClient::send: try_send into the lane of the command's class.
Submit(c) ==
  /\ ~closed /\ c \notin submitted
  /\ Known(c)
  /\ submitted' = submitted \cup {c}
  /\ \/ /\ Urgent(c) /\ Len(urgent) < UrgentCapacity
        /\ urgent' = Append(urgent, c) /\ UNCHANGED <<ordinary, refused>>
     \/ /\ ~Urgent(c) /\ Len(ordinary) < CommandCapacity
        /\ ordinary' = Append(ordinary, c) /\ UNCHANGED <<urgent, refused>>
     \/ /\ IF Urgent(c) THEN Len(urgent) >= UrgentCapacity ELSE Len(ordinary) >= CommandCapacity
        /\ refused' = refused \cup {c} /\ UNCHANGED <<urgent, ordinary>>
  /\ UNCHANGED <<lapsed, readyVars, pc, completions, taskVars, quotaVars, closed>>

\* AuthorityEpoch::advance: every permission given so far is spent.
Advance ==
  /\ lapsed # submitted \cap Authorised
  /\ lapsed' = submitted \cap Authorised
  /\ UNCHANGED <<submitted, refused, urgent, ordinary, readyVars, pc, completions, taskVars, quotaVars, closed>>

\* One permission outlives its time to live.
Expire(c) ==
  /\ c \in (submitted \cap Authorised) \ lapsed
  /\ lapsed' = lapsed \cup {c}
  /\ UNCHANGED <<submitted, refused, urgent, ordinary, readyVars, pc, completions, taskVars, quotaVars, closed>>

TakeCompletion ==
  /\ ~closed /\ completions # <<>>
  /\ completions' = Tail(completions)
  /\ UNCHANGED <<engineVars, urgent, ordinary, readyVars, pc, taskVars, quotaVars>>

\* The engine goes: its senders and its completion receiver are dropped together.
Close ==
  /\ ~closed /\ closed' = TRUE
  /\ UNCHANGED <<submitted, refused, lapsed, urgent, ordinary, readyVars, pc, completions, taskVars, quotaVars>>

\* quota_wait of the venue adapter.
Throttle(s) ==
  /\ s \notin throttled /\ throttles < MaxThrottles
  /\ throttled' = throttled \cup {s} /\ throttles' = throttles + 1
  /\ UNCHANGED <<engineVars, urgent, ordinary, readyVars, pc, completions, taskVars>>

Replenish(s) ==
  /\ s \in throttled /\ throttled' = throttled \ {s}
  /\ UNCHANGED <<engineVars, urgent, ordinary, readyVars, pc, completions, taskVars, throttles>>

-----------------------------------------------------------------------------
(* The task.  A turn drains the urgent mailbox, then the ordinary one as far as the ready set
   has room, then picks. *)

OrdinaryReady == Cardinality({c \in DOMAIN ready : ~Urgent(c)})

\* take: the command gets the next arrival number.
Take(c) ==
  /\ ready' = [d \in DOMAIN ready \cup {c} |-> IF d = c THEN arrivals ELSE ready[d]]
  /\ arrivals' = arrivals + 1

DrainUrgent ==
  /\ pc = "urgent"
  /\ IF urgent # <<>>
       THEN Take(Head(urgent)) /\ urgent' = Tail(urgent) /\ UNCHANGED pc
       ELSE pc' = "ordinary" /\ UNCHANGED <<readyVars, urgent>>
  /\ UNCHANGED <<engineVars, ordinary, completions, taskVars, quotaVars>>

DrainOrdinary ==
  /\ pc = "ordinary"
  /\ IF ordinary # <<>> /\ OrdinaryReady < ReadyCapacity
       THEN Take(Head(ordinary)) /\ ordinary' = Tail(ordinary) /\ UNCHANGED pc
       ELSE pc' = "pick" /\ UNCHANGED <<readyVars, ordinary>>
  /\ UNCHANGED <<engineVars, urgent, completions, taskVars, quotaVars>>

\* Mutant: an idle task listens to the ordinary mailbox alone.
IdleOrdinaryOnly ==
  /\ pc = "pick" /\ DOMAIN ready = {}
  /\ \/ ordinary # <<>> /\ pc' = "urgent"
     \/ closed /\ urgent = <<>> /\ ordinary = <<>> /\ pc' = "stopped"
  /\ UNCHANGED <<engineVars, urgent, ordinary, readyVars, completions, taskVars, quotaVars>>

\* Nothing is ready: the task waits for either mailbox, or stops when both are closed.
Idle ==
  /\ pc = "pick" /\ DOMAIN ready = {}
  /\ \/ (urgent # <<>> \/ ordinary # <<>>) /\ pc' = "urgent"
     \/ closed /\ urgent = <<>> /\ ordinary = <<>> /\ pc' = "stopped"
  /\ UNCHANGED <<engineVars, urgent, ordinary, readyVars, completions, taskVars, quotaVars>>

\* queued_send_ids, depends_on_a_queued_send, selectable
QueuedSends == {s \in DOMAIN ready : Kind[s] = "send"}

\* Mutant: a cancel does not wait for the placement it names.
DependsAmendOnly(c) == Kind[c] = "amend" /\ \E s \in QueuedSends : Orders[s] \cap Orders[c] # {}

Depends(c) ==
  Kind[c] \in {"cancel", "amend"} /\ \E s \in QueuedSends : Orders[s] \cap Orders[c] # {}
Selectable ==
  LET free == {c \in DOMAIN ready : ~Depends(c)}
  IN  IF free = {} THEN DOMAIN ready ELSE free

Waits(c) == Shape[c] \in throttled
Over(c) == IF Waits(c) THEN 1 ELSE 0

\* Mutant: arrival before class.
ChooseByArrival ==
  CHOOSE c \in Selectable : \A d \in Selectable :
    \/ Over(c) < Over(d)
    \/ Over(c) = Over(d) /\ ready[c] <= ready[d]

\* choose: quota, then class, then arrival.
Chosen ==
  CHOOSE c \in Selectable : \A d \in Selectable :
    \/ Over(c) < Over(d)
    \/ Over(c) = Over(d) /\ Class[c] < Class[d]
    \/ Over(c) = Over(d) /\ Class[c] = Class[d] /\ ready[c] <= ready[d]

\* Both lanes are known closed once their mailboxes ran dry after the engine went.
Draining == closed /\ urgent = <<>> /\ ordinary = <<>>

\* held_for: the picked command waits for quota, so all do; a spent authority is not held.
Holds == ~Draining /\ Waits(Chosen) /\ Chosen \notin lapsed

Hold ==
  /\ pc = "pick" /\ DOMAIN ready # {} /\ Holds
  /\ pc' = "held"
  /\ UNCHANGED <<engineVars, urgent, ordinary, readyVars, completions, taskVars, quotaVars>>

\* The shortest wait is over or a command arrived.
Wake ==
  /\ pc = "held" /\ pc' = "urgent"
  /\ UNCHANGED <<engineVars, urgent, ordinary, readyVars, completions, taskVars, quotaVars>>

Without(queue, drop) == [c \in DOMAIN queue \ drop |-> queue[c]]

\* One command that is not an amend: answered at the send boundary when its authority is spent,
\* called otherwise.
Dispatch ==
  /\ pc = "pick" /\ DOMAIN ready # {} /\ ~Holds /\ Kind[Chosen] # "amend"
  /\ ready' = Without(ready, {Chosen})
  /\ gauge' = Class[Chosen]
  /\ \/ /\ Chosen \in lapsed
        /\ replies' = <<Chosen>> /\ pc' = "refusing" /\ UNCHANGED <<calling, called>>
     \/ /\ Chosen \notin lapsed
        /\ calling' = <<Chosen>> /\ called' = Append(called, Chosen) /\ pc' = "calling" /\ UNCHANGED replies
  /\ UNCHANGED <<engineVars, urgent, ordinary, arrivals, completions, batch, answered, quotaVars>>

\* amend_batch: amends of distinct orders in arrival order behind the chosen one.
Amendable(c) == Kind[c] = "amend" /\ ~Depends(c)
Joiners ==
  {c \in DOMAIN ready \ {Chosen} :
     /\ Amendable(c) /\ Orders[c] \cap Orders[Chosen] = {}
     /\ \A d \in DOMAIN ready : Amendable(d) /\ ready[d] < ready[c] => Orders[d] \cap Orders[c] = {}}

\* The longest prefix of the group the quota takes: one when amends are throttled, any otherwise.
TakeAmends ==
  /\ pc = "pick" /\ DOMAIN ready # {} /\ ~Holds /\ Kind[Chosen] = "amend"
  /\ \E behind \in SUBSET Joiners :
       /\ Cardinality(behind) < MaxAmendBatch
       /\ \A c \in behind, d \in Joiners : ready[d] < ready[c] => d \in behind
       /\ Waits(Chosen) => behind = {}
       /\ batch' = [c \in behind \cup {Chosen} |-> ready[c]]
       /\ ready' = Without(ready, behind \cup {Chosen})
  /\ gauge' = 2 /\ pc' = "amending"
  /\ UNCHANGED <<engineVars, urgent, ordinary, arrivals, completions, calling, replies, answered, called, quotaVars>>

\* dispatch_amends: in arrival order, spent authorities are answered; the rest go out in one call.
CheckAmend ==
  /\ pc = "amending" /\ replies = <<>>
  /\ \E c \in DOMAIN batch :
       /\ \A d \in DOMAIN batch : batch[c] <= batch[d]
       /\ batch' = Without(batch, {c})
       /\ IF c \in lapsed
            THEN replies' = <<c>> /\ UNCHANGED calling
            ELSE calling' = Append(calling, c) /\ UNCHANGED replies
  /\ UNCHANGED <<engineVars, urgent, ordinary, readyVars, pc, completions, answered, called, gauge, quotaVars>>

CallAmends ==
  /\ pc = "amending" /\ replies = <<>> /\ DOMAIN batch = {}
  /\ \/ calling = <<>> /\ pc' = "urgent" /\ gauge' = 0 /\ UNCHANGED called
     \/ calling # <<>> /\ pc' = "calling" /\ called' = called \o calling /\ UNCHANGED gauge
  /\ UNCHANGED <<engineVars, urgent, ordinary, readyVars, completions, batch, calling, replies, answered, quotaVars>>

CallReturns ==
  /\ pc = "calling" /\ pc' = "replying"
  /\ replies' = calling /\ calling' = <<>>
  /\ UNCHANGED <<engineVars, urgent, ordinary, readyVars, completions, batch, answered, called, gauge, quotaVars>>

\* Mutant: an answer the channel has no room for is dropped.
ReplyDropping ==
  /\ replies # <<>>
  /\ completions' = IF closed \/ Len(completions) >= CompletionCapacity
                      THEN completions ELSE Append(completions, Head(replies))
  /\ answered' = IF Len(completions) >= CompletionCapacity THEN answered ELSE Append(answered, Head(replies))
  /\ replies' = Tail(replies)
  /\ UNCHANGED <<engineVars, urgent, ordinary, readyVars, pc, batch, calling, called, gauge, quotaVars>>

\* completions.send().await: waits for room; an answer to an engine that has gone is discarded.
Reply ==
  /\ replies # <<>>
  /\ \/ closed /\ UNCHANGED completions
     \/ ~closed /\ Len(completions) < CompletionCapacity /\ completions' = Append(completions, Head(replies))
  /\ answered' = Append(answered, Head(replies))
  /\ replies' = Tail(replies)
  /\ UNCHANGED <<engineVars, urgent, ordinary, readyVars, pc, batch, calling, called, gauge, quotaVars>>

\* The turn ends; a refused placement skips leave_flight.
EndTurn ==
  /\ replies = <<>>
  /\ \/ pc = "replying" /\ gauge' = 0
     \/ pc = "refusing" /\ UNCHANGED gauge
  /\ pc' = "urgent"
  /\ UNCHANGED <<engineVars, urgent, ordinary, readyVars, completions, batch, calling, replies, answered, called, quotaVars>>

Task == DrainUrgent \/ DrainOrdinary \/ Idle \/ Hold \/ Wake \/ Dispatch \/ TakeAmends \/ CheckAmend
          \/ CallAmends \/ CallReturns \/ Reply \/ EndTurn

Next ==
  \/ Task \/ Advance \/ TakeCompletion \/ Close
  \/ \E c \in Commands : Submit(c) \/ Expire(c)
  \/ \E s \in Shapes : Throttle(s) \/ Replenish(s)

\* The task is scheduled, gateway calls return, quota windows pass and the engine's loop takes
\* completions.
Fairness ==
  /\ WF_<<pc, ready, batch, replies>>(Task) /\ WF_completions(TakeCompletion)
  /\ WF_throttled(\E s \in Shapes : Replenish(s))

Spec == Init /\ [][Next]_vars
FairSpec == Spec /\ Fairness

-----------------------------------------------------------------------------
Elements(seq) == {seq[i] : i \in DOMAIN seq}
Once(seq) == \A i, j \in DOMAIN seq : seq[i] = seq[j] => i = j

\* The variables hold what the code's types and channel capacities allow.
TypeOK ==
  /\ submitted \subseteq Commands /\ refused \subseteq submitted /\ lapsed \subseteq Authorised
  /\ {urgent, ordinary, calling, replies, completions, answered, called} \subseteq Seq(Commands)
  /\ DOMAIN ready \subseteq Commands /\ ready \in [DOMAIN ready -> Nat] /\ arrivals \in Nat
  /\ DOMAIN batch \subseteq Commands /\ batch \in [DOMAIN batch -> Nat]
  /\ Len(urgent) <= UrgentCapacity /\ Len(ordinary) <= CommandCapacity
  /\ OrdinaryReady <= ReadyCapacity /\ Len(completions) <= CompletionCapacity
  /\ gauge \in 0..4 /\ throttled \subseteq Shapes /\ throttles \in Nat /\ closed \in BOOLEAN
  /\ pc \in {"urgent", "ordinary", "pick", "held", "refusing", "amending", "calling", "replying", "stopped"}

\* Where a command can be between its submission and its answer.
Places == <<Elements(urgent), Elements(ordinary), DOMAIN ready, DOMAIN batch,
            Elements(calling), Elements(replies), Elements(answered)>>

\* Every command the client took is in exactly one place, once, from its mailbox to its answer:
\* none is lost in a hold, a full channel or the drain after the engine went, and none is
\* called or answered twice.
EachAnsweredOnce ==
  /\ UNION {Places[i] : i \in DOMAIN Places} = submitted \ refused
  /\ \A i, j \in DOMAIN Places : i # j => Places[i] \cap Places[j] = {}
  /\ \A seq \in {urgent, ordinary, calling, replies, answered, called} : Once(seq)

\* A command leaves the ready set only when no other that the quota would take, and that is not
\* behind its own queued placement, is of a more urgent class or an earlier one of its class
\* (amends of one group apart).
UrgentFirst ==
  [][\A c \in DOMAIN ready \ DOMAIN ready', d \in DOMAIN ready \cap DOMAIN ready' :
       ~Waits(d) /\ ~Depends(d) =>
         \/ Class[c] < Class[d]
         \/ Class[c] = Class[d] /\ (ready[c] < ready[d] \/ Kind[c] = "amend")]_vars

\* A placement and a command that names one of its orders.
Names(c, s) == Kind[s] = "send" /\ Kind[c] \in {"cancel", "amend"} /\ Orders[s] \cap Orders[c] # {}

\* A cancel or an amend is called only after the placement it names was called, or was answered
\* without a call.  The exceptions are placements still in a mailbox, where queued_send_ids cannot
\* see them: an opening the ready set has no room for, and a reducing placement that came through
\* the urgent lane after this turn drained it while its amend came through the ordinary one.
CancelAfterItsSend ==
  [][\A c \in Elements(called') \ Elements(called),
        s \in (submitted \ refused) \ UNION {Elements(called), Elements(answered), Elements(replies)} :
       Names(c, s) =>
         \/ s \in Elements(ordinary) /\ OrdinaryReady >= ReadyCapacity
         \/ s \in Elements(urgent) /\ Kind[c] = "amend"]_vars

-----------------------------------------------------------------------------
(* The inductive invariant behind the theorems of VenueTaskProofs. *)

\* What the task holds at each point of its turn.
Stages ==
  /\ DOMAIN batch # {} => pc = "amending"
  /\ calling # <<>> => pc \in {"amending", "calling"}
  /\ replies # <<>> => pc \in {"refusing", "amending", "replying"}
  /\ \A c \in Elements(called) : \/ c \in Elements(answered) \cup Elements(replies)
                                 \/ pc = "calling" /\ c \in Elements(calling)

\* Arrival numbers order the ready set.
Arrivals ==
  /\ IsFiniteSet(DOMAIN ready)
  /\ \A c \in DOMAIN ready : ready[c] < arrivals
  /\ \A c, d \in DOMAIN ready : ready[c] = ready[d] => c = d

\* In a mailbox a command stands behind the placement it names, and has not left it before.
InOrder(lane, users) ==
  /\ \A i, j \in DOMAIN lane : Names(lane[i], lane[j]) => j < i
  /\ \A s \in Elements(lane), c \in users : Names(c, s) => c \in Elements(lane)

Taken == submitted \ refused

Lanes ==
  /\ \A c \in Elements(urgent) : Urgent(c)
  /\ \A c \in Elements(ordinary) : ~Urgent(c)
  /\ \A c \in submitted, s \in Commands : Names(c, s) => s \in Taken
  /\ InOrder(urgent, {c \in Taken : Urgent(c)})
  /\ InOrder(ordinary, {c \in Taken : ~Urgent(c)})

\* What the next call names is called already, or cannot be seen from the ready set.
Placed ==
  /\ pc = "pick" => \A c \in DOMAIN ready, s \in Elements(ordinary) :
                      Names(c, s) => OrdinaryReady >= ReadyCapacity
  /\ pc = "amending" => \A c \in DOMAIN batch \cup Elements(calling) :
                          Kind[c] = "amend" /\ \A s \in DOMAIN ready : ~Names(c, s)

\* A command is in one place, the task's hands are empty between turns, and the lanes keep a
\* command behind the placement it names.
TaskInv == TypeOK /\ EachAnsweredOnce /\ Stages /\ Arrivals /\ Lanes /\ Placed

\* Every command taken is eventually answered, through holds and a full completion channel, and a
\* task whose engine went stops.
AllAnswered ==
  <>[](submitted \ refused \subseteq Elements(answered) /\ (closed => pc = "stopped"))
=============================================================================
