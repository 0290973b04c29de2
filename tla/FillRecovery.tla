---------------------------- MODULE FillRecovery ----------------------------
(***************************************************************************)
(* How an execution at the venue reaches the log exactly once, what the    *)
(* risk kernel may miss meanwhile, and how openings are cancelled while    *)
(* they are not permitted.  Executions arrive on a private stream that can *)
(* break and lose some.  The engine closes a gap by reading the execution  *)
(* history and the account concurrently, a boot by reading them in turn.   *)
(*                                                                         *)
(* Every order is an opening of this engine, fills one unit at a time, on  *)
(* one symbol, towards its Side.  Placing is atomic here (OrderDispatch    *)
(* has its steps).  A time is the number of executions before it: `trades' *)
(* lists them in order, and a history boundary is the number of those that *)
(* lie more than RECOVERY_PAD_MS before it, which the venue's history      *)
(* surely shows.  Monotonic stamps are kept only as the order they decide: *)
(* what was received before a scan began, and whether anything was         *)
(* processed since.  `past' holds the states a crash may leave on disk; a  *)
(* run that ends with an error, or a boot that fails, is a crash.          *)
(*                                                                         *)
(* log:   n, how often each execution is counted; ids, recovered_exec_ids; *)
(*        filled, how much of each order is; sent and live, orders sent    *)
(*        and in flight; until, recovered_until_ms; open, may_open.        *)
(* mem:   reserved, the kernel's reservations; recent, its fills newer     *)
(*        than the account view; seen, the executions in that view;        *)
(*        before, those received but not taken when its scan began;        *)
(*        vanished, orders the boot found gone; ready,                     *)
(*        private_stream_ready; connected; proved, history_generation is   *)
(*        the current one; wanted, history_requested.                      *)
(* query: hist, the history is read too; upto and through, the executions  *)
(*        before the launch and those of them older than the pad; current, *)
(*        no gap since; stale, something processed since; account, seen,   *)
(*        rows, what the reads returned; proven, the history was read;     *)
(*        after, the log states since its barrier began.                   *)
(***************************************************************************)
EXTENDS Integers, FiniteSets, Sequences, Functions

CONSTANTS Orders,             \* the openings this engine may send
          Qty, Side,          \* of each order; Side is 1 or -1
          MaxFaults           \* bound: stream gaps, crashes, failed reads and lost replies together

ASSUME RecoveryAssumption ==
  /\ Qty \in [Orders -> Nat \ {0}] /\ Side \in [Orders -> {-1, 1}]
  /\ MaxFaults \in Nat

VARIABLES trades,   \* executions so far, in order
          closed,   \* orders the venue no longer works
          link, wire,   \* the private stream: "up" or "down", and what was received
          stage,    \* "off", the steps of a boot, or "run"
          log,      \* what the records written so far say
          past,     \* the states of it a crash may leave
          mem,      \* what only the process knows
          query,    \* the recovery phase and its reads
          halt,     \* halt_cancels: how far the cancel of each order got
          lookup,   \* the one status read under way
          faults    \* bound: how many are still to come

vars == <<trades, closed, link, wire, stage, log, past, mem, query, halt, lookup, faults>>

venueVars == <<trades, closed>>
haltVars == <<halt, lookup>>
engineVars == <<stage, log, past, mem, query, halt, lookup>>

Execs == UNION {{o} \X (1..Qty[o]) : o \in Orders}
Executed == Range(trades)
ExecsOf(o) == {e \in Execs : e[1] = o}
Net(S) == Cardinality({e \in S : Side[e[1]] = 1}) - Cardinality({e \in S : Side[e[1]] = -1})

Fill(e) == [kind |-> "fill", of |-> e]
Ended(o) == [kind |-> "ended", of |-> <<o>>]
Reset == [kind |-> "reset", of |-> <<>>]
Down == [kind |-> "down", of |-> <<>>]
Received(w) == {e \in Execs : Fill(e) \in Range(w)}

IdleQuery == [phase |-> "idle", hist |-> FALSE, upto |-> 0, through |-> 0, current |-> TRUE, stale |-> FALSE,
              before |-> {}, account |-> "none", seen |-> {}, rows |-> {},
              proven |-> FALSE, after |-> {}]

NoLookup == [of |-> {}, answer |-> "none", filled |-> 0]
NoHalt == [o \in Orders |-> "none"]

Logs == [n : [Execs -> Nat], ids : SUBSET Execs, filled : [Orders -> Nat], sent : SUBSET Orders,
         live : SUBSET Orders, until : 0..Len(trades), open : BOOLEAN]

Memories == [reserved : [Orders -> Nat], recent : SUBSET Execs, seen : SUBSET Execs,
             before : SUBSET Execs, vanished : SUBSET Orders, ready : BOOLEAN, connected : BOOLEAN,
             proved : BOOLEAN, wanted : BOOLEAN]

FreshMem == [reserved |-> [o \in Orders |-> 0], recent |-> {}, seen |-> {}, before |-> {}, vanished |-> {},
             ready |-> TRUE, connected |-> TRUE, proved |-> TRUE, wanted |-> FALSE]

FirstLog == [n |-> [e \in Execs |-> 0], ids |-> {}, filled |-> [o \in Orders |-> 0], sent |-> {}, live |-> {},
             until |-> 0, open |-> TRUE]

Init ==
  /\ trades = <<>> /\ closed = {}
  /\ link = "up" /\ wire = <<>> /\ stage = "run"
  /\ log = FirstLog /\ past = {FirstLog} /\ mem = FreshMem /\ query = IdleQuery
  /\ halt = NoHalt /\ lookup = NoLookup
  /\ faults = MaxFaults

-----------------------------------------------------------------------------
(* The venue and the private stream.                                       *)

Deliver(m) == wire' = IF link = "up" THEN Append(wire, m) ELSE wire

Trade(o) ==
  LET k == Cardinality(ExecsOf(o) \cap Executed) + 1
  IN  /\ o \in log.sent \ closed
      /\ trades' = Append(trades, <<o, k>>)
      /\ closed' = IF k = Qty[o] THEN closed \cup {o} ELSE closed
      /\ Deliver(Fill(<<o, k>>))
      /\ UNCHANGED <<link, engineVars, faults>>

\* The venue ends an order with some of it unfilled.
EndAtVenue(o) ==
  /\ o \in log.sent \ closed
  /\ closed' = closed \cup {o}
  /\ Deliver(Ended(o))
  /\ UNCHANGED <<trades, link, engineVars, faults>>

\* The socket dies; a failed redial or an unreadable frame is handed over as an error.
Drop ==
  /\ link = "up" /\ faults > 0
  /\ link' = "down" /\ wire' \in {wire, Append(wire, Down)}
  /\ faults' = faults - 1
  /\ UNCHANGED <<venueVars, engineVars>>

Redial ==
  /\ link = "down" /\ stage # "off"
  /\ link' = "up" /\ wire' = Append(wire, Reset)
  /\ UNCHANGED <<venueVars, engineVars, faults>>

-----------------------------------------------------------------------------
(* What one execution or ending does to the books.                         *)

\* Counting executions: their ids are kept, and an order they complete is no longer live.
Counted(l, R) ==
  LET c == [l EXCEPT !.n = [e \in Execs |-> IF e \in R THEN @[e] + 1 ELSE @[e]], !.ids = @ \cup R,
                     !.filled = [o \in Orders |-> @[o] + Cardinality(ExecsOf(o) \cap R)]]
  IN  [c EXCEPT !.live = {o \in @ : ExecsOf(o) \cap R # {} => c.filled[o] < Qty[o]}]

Remaining(l, o) == IF o \in l.live THEN Qty[o] - l.filled[o] ELSE 0

Reserve(m, l) == [m EXCEPT !.reserved = [o \in Orders |-> IF @[o] = 0 THEN 0 ELSE Remaining(l, o)]]

Matches(seen, l) == Net(seen) = Net({e \in Execs : l.n[e] > 0})

\* A record appended; only a barrier makes it safe.
Noted(q, l) == IF q.phase = "publishing" THEN [q EXCEPT !.after = @ \cup {l}] ELSE q

\* queue_halted_entry_cancels: with openings refused every live one is to be cancelled,
\* and an order that ended by any route leaves the halt.
Halted(h, l, m) ==
  [o \in Orders |-> IF o \notin l.live THEN "none"
                ELSE IF h[o] = "none" /\ ~(m.ready /\ l.open) THEN "queued" ELSE h[o]]

\* An ending or a fill that completes an order takes it out of the halt.
Kept(h, l) == [o \in Orders |-> IF o \in l.live THEN h[o] ELSE "none"]

\* What a recovery under way has read no longer describes the books or the stream.
Stale(q) == IF q.phase = "idle" THEN q ELSE [q EXCEPT !.stale = TRUE, !.before = {}]
Superseded(q) == IF q.phase = "idle" THEN q ELSE [q EXCEPT !.current = FALSE, !.before = {}]

-----------------------------------------------------------------------------
(* The engine at work.                                                     *)

Send(o) ==
  /\ stage = "run" /\ mem.ready /\ log.open /\ o \in Orders \ log.sent
  /\ log' = [log EXCEPT !.sent = @ \cup {o}, !.live = @ \cup {o}]
  /\ past' = {log'}
  /\ query' = IF query.phase = "publishing" THEN [query EXCEPT !.after = {log'}] ELSE query
  /\ mem' = [mem EXCEPT !.reserved[o] = Qty[o]]
  /\ UNCHANGED <<haltVars, venueVars, link, wire, stage, faults>>

\* Mutant: executions of the stream are not looked up.
TakeFillAgain ==
  \E e \in Execs :
    /\ stage = "run" /\ wire # <<>> /\ Head(wire) = Fill(e)
    /\ wire' = Tail(wire)
    /\ log' = Counted(log, {e}) /\ past' = past \cup {log'}
    /\ query' = Noted(Stale(query), log')
    /\ mem' = Reserve([mem EXCEPT !.recent = @ \cup {e}], log')
    /\ halt' = Kept(halt, log')
    /\ UNCHANGED <<lookup, venueVars, link, stage, faults>>

TakeFill ==
  \E e \in Execs :
    /\ stage = "run" /\ wire # <<>> /\ Head(wire) = Fill(e)
    /\ wire' = Tail(wire)
    /\ IF e \in log.ids
       THEN mem' = [mem EXCEPT !.before = @ \ {e}] /\ UNCHANGED <<log, past, query>>
       ELSE /\ log' = Counted(log, {e})
            /\ past' = past \cup {log'}
            /\ query' = Noted(Stale(query), log')
            /\ mem' = Reserve([mem EXCEPT !.recent = @ \cup ({e} \ mem.before), !.before = @ \ {e}], log')
    /\ halt' = Kept(halt, log')
    /\ UNCHANGED <<lookup, venueVars, link, stage, faults>>

TakeEnded ==
  \E o \in Orders :
    /\ stage = "run" /\ wire # <<>> /\ Head(wire) = Ended(o)
    /\ wire' = Tail(wire)
    /\ log' = [log EXCEPT !.live = @ \ {o}] /\ past' = past \cup {log'}
    /\ query' = Noted(Stale(query), log')
    /\ mem' = Reserve(mem, log')
    /\ halt' = Kept(halt, log')
    /\ UNCHANGED <<lookup, venueVars, link, stage, faults>>

\* `through': of the executions so far, how many are older than the pad.
Launched(m, w, through) ==
  [IdleQuery EXCEPT !.phase = "reading", !.hist = m.wanted, !.before = Received(w), !.account = "unread",
     !.upto = IF m.wanted THEN Len(trades) ELSE 0, !.through = IF m.wanted THEN through ELSE 0]

Disconnected(m) ==
  [m EXCEPT !.ready = FALSE, !.connected = FALSE, !.proved = FALSE, !.wanted = TRUE, !.before = {}]

TakeDown ==
  /\ stage = "run" /\ wire # <<>> /\ Head(wire) = Down
  /\ wire' = Tail(wire)
  /\ mem' = Disconnected(mem)
  /\ query' = Superseded(query)
  /\ halt' = Halted(halt, log, mem')
  /\ UNCHANGED <<lookup, venueVars, link, stage, log, past, faults>>

TakeReset(through) ==
  /\ stage = "run" /\ wire # <<>> /\ Head(wire) = Reset
  /\ wire' = Tail(wire)
  /\ mem' = [Disconnected(mem) EXCEPT !.connected = TRUE]
  /\ query' = IF query.phase = "idle" THEN Launched(mem', wire', through) ELSE Superseded(query)
  /\ halt' = Halted(halt, log, mem')
  /\ UNCHANGED <<lookup, venueVars, link, stage, log, past, faults>>

-----------------------------------------------------------------------------
(* Account and history recovery.                                           *)

\* `due': the periodic history checkpoint is.
Launch(due, through) ==
  /\ stage = "run" /\ query.phase = "idle"
  /\ mem' = [mem EXCEPT !.wanted = @ \/ due]
  /\ query' = Launched(mem', wire, through)
  /\ UNCHANGED <<haltVars, venueVars, link, wire, stage, log, past, faults>>

ReadAccount ==
  /\ query.phase = "reading" /\ query.account = "unread"
  /\ \/ query' = [query EXCEPT !.account = "ok", !.seen = Executed] /\ UNCHANGED faults
     \/ /\ faults > 0
        /\ query' = [query EXCEPT !.account = "failed"]
        /\ faults' = faults - 1
  /\ UNCHANGED <<haltVars, venueVars, link, wire, stage, log, past, mem>>

\* What a read of the execution history may return: every execution in the range that
\* is older than the pad, and any of the others.
HistoryReads(l, through, upto) ==
  {R \in SUBSET Range(SubSeq(trades, l.until + 1, upto)) :
     Range(SubSeq(trades, l.until + 1, through)) \subseteq R}

Adopts(q) == q.account = "ok" /\ q.current /\ ~q.stale
Drifts(l, q) == l.open /\ ~Matches(q.seen, l)

AdoptedLog(l, q) == IF Adopts(q) /\ Drifts(l, q) /\ q.hist THEN [l EXCEPT !.open = FALSE] ELSE l

\* Mutant: the view is stamped when it is adopted.
AdoptedStampedLate(l, m, q) ==
  LET ask == Drifts(l, q) /\ ~q.hist
      proved == m.proved /\ ~ask
  IN  IF ~Adopts(q) THEN m
      ELSE [m EXCEPT !.seen = q.seen, !.before = Received(wire), !.recent = {}, !.proved = proved,
              !.wanted = @ \/ ask, !.ready = (@ /\ ~ask) \/ (m.connected /\ proved)]

AdoptedMem(l, m, q) ==
  LET ask == Drifts(l, q) /\ ~q.hist
      proved == m.proved /\ ~ask
  IN  IF ~Adopts(q) THEN m
      ELSE [m EXCEPT !.seen = q.seen, !.before = q.before, !.recent = {}, !.proved = proved,
              !.wanted = @ \/ ask, !.ready = (@ /\ ~ask) \/ (m.connected /\ proved)]

Publish(q, l) ==
  [q EXCEPT !.phase = "publishing", !.after = {l}, !.rows = {}, !.upto = 0, !.through = 0]

Completed == stage = "run" /\ query.phase = "reading" /\ query.account # "unread"

CompleteAccount ==
  /\ Completed /\ ~query.hist
  /\ log' = AdoptedLog(log, query) /\ past' = past \cup {log'}
  /\ mem' = AdoptedMem(log, mem, query)
  /\ query' = IdleQuery
  /\ halt' = IF Adopts(query) THEN Halted(halt, log', mem') ELSE halt
  /\ UNCHANGED <<lookup, venueVars, link, wire, stage, faults>>

CompleteHistory ==
  /\ Completed /\ query.hist
  /\ \E R \in HistoryReads(log, query.through, query.upto) :
       query' = [query EXCEPT !.phase = "applying", !.rows = R, !.upto = 0]
  /\ UNCHANGED <<haltVars, venueVars, link, wire, stage, log, past, mem, faults>>

\* The history could not be read now, or (the boundary beyond RECOVERY_REACH_MS among
\* the reasons) will not be given at all.
CompleteFailed ==
  /\ Completed /\ query.hist /\ faults > 0 /\ faults' = faults - 1
  /\ mem' = [mem EXCEPT !.ready = FALSE, !.wanted = TRUE, !.proved = FALSE]
  /\ query' = Publish([query EXCEPT !.hist = FALSE], log)
  /\ UNCHANGED <<haltVars, venueVars, link, wire, stage, log, past>>

CompleteRefused ==
  /\ Completed /\ query.hist /\ faults > 0 /\ faults' = faults - 1
  /\ log' = [log EXCEPT !.open = FALSE] /\ past' = past \cup {log'}
  /\ query' = Publish(query, log')
  /\ UNCHANGED <<haltVars, venueVars, link, wire, stage, mem>>

\* One turn: at most one row (HISTORY_ROWS_PER_TURN in the code), then the end of the batch.
CanAdvance(l, q) ==
  /\ q.account = "ok" /\ Matches(q.seen, l)
  /\ l.open /\ l.live = {}

\* Mutant: the boundary is the time the batch ends, not the end of the range it read.
FinishAtNow(l, q) ==
  LET end == IF CanAdvance(l, q) THEN [l EXCEPT !.until = Len(trades)] ELSE l
  IN  /\ log' = end /\ past' = past \cup {l, end}
      /\ query' = Publish([q EXCEPT !.proven = TRUE], end)

Finish(l, q) ==
  LET end == IF CanAdvance(l, q) THEN [l EXCEPT !.until = q.through] ELSE l
  IN  /\ log' = end /\ past' = past \cup {l, end}
      /\ query' = Publish([q EXCEPT !.proven = TRUE], end)

ApplyTurn ==
  /\ stage = "run" /\ query.phase = "applying"
  /\ \/ query.rows = {} /\ Finish(log, query) /\ UNCHANGED mem
     \/ \E e \in query.rows :
          LET known == e \in log.ids
              l == IF known THEN log ELSE Counted(log, {e})
              q == [query EXCEPT !.rows = @ \ {e}, !.stale = @ \/ ~known, !.before = IF known THEN @ ELSE {}]
          IN  /\ mem' = IF known THEN mem ELSE Reserve([mem EXCEPT !.recent = @ \cup {e}], l)
              /\ IF q.rows = {} THEN Finish(l, q)
                 ELSE log' = l /\ past' = past \cup {l} /\ query' = q
  /\ halt' = Kept(halt, log')
  /\ UNCHANGED <<lookup, venueVars, link, wire, stage, faults>>

Durable ==
  /\ stage = "run" /\ query.phase = "publishing"
  /\ LET m == IF query.proven /\ query.current
              THEN [mem EXCEPT !.wanted = FALSE, !.proved = TRUE] ELSE mem
     IN  /\ log' = AdoptedLog(log, query)
         /\ past' = query.after \cup {log'}
         /\ mem' = AdoptedMem(log, m, query)
  /\ query' = IdleQuery
  /\ halt' = IF Adopts(query) THEN Halted(halt, log', mem') ELSE halt
  /\ UNCHANGED <<lookup, venueVars, link, wire, stage, faults>>

-----------------------------------------------------------------------------
(* Openings are cancelled while they are not permitted.                    *)

\* The tick that finds openings refused by what did not itself look.
OnTick ==
  /\ stage = "run" /\ halt' = Halted(halt, log, mem) /\ halt' # halt
  /\ UNCHANGED <<venueVars, link, wire, stage, log, past, mem, query, lookup, faults>>

DispatchHaltCancels ==
  /\ stage = "run" /\ \E o \in Orders : halt[o] = "queued"
  /\ halt' = [o \in Orders |-> IF halt[o] = "queued" THEN "sent" ELSE halt[o]]
  /\ UNCHANGED <<venueVars, link, wire, stage, log, past, mem, query, lookup, faults>>

\* The venue ends the order and says so, or refuses to cancel what has ended; or the
\* reply says nothing about what was done.
CancelReply(o) ==
  /\ stage = "run" /\ halt[o] = "sent"
  /\ \E cancels, taken \in BOOLEAN :
       /\ cancels => o \notin closed
       /\ IF cancels = (o \notin closed) /\ taken = cancels THEN UNCHANGED faults
          ELSE faults > 0 /\ faults' = faults - 1
       /\ closed' = IF cancels THEN closed \cup {o} ELSE closed
       /\ IF cancels THEN Deliver(Ended(o)) ELSE UNCHANGED wire
       /\ halt' = [halt EXCEPT ![o] = IF taken THEN "await" ELSE "resolve"]
  /\ UNCHANGED <<trades, link, stage, log, past, mem, query, lookup>>

\* Mutant: an accepted cancel is never asked about.
StartRefusedLookup(o) ==
  /\ stage = "run" /\ halt[o] = "resolve" /\ lookup = NoLookup
  /\ lookup' = [of |-> {o}, answer |-> "none", filled |-> 0]
  /\ UNCHANGED <<venueVars, link, wire, stage, log, past, mem, query, halt, faults>>

StartHaltLookup(o) ==
  /\ stage = "run" /\ halt[o] \in {"await", "resolve"} /\ lookup = NoLookup
  /\ halt' = [halt EXCEPT ![o] = "resolve"]
  /\ lookup' = [of |-> {o}, answer |-> "none", filled |-> 0]
  /\ UNCHANGED <<venueVars, link, wire, stage, log, past, mem, query, faults>>

\* "unsettled": another order's row, never accepted, unknown, unavailable or failed.
AnswerLookup(o) ==
  /\ lookup.of = {o} /\ lookup.answer = "none"
  /\ \/ o \notin closed /\ lookup' = [lookup EXCEPT !.answer = "working"] /\ UNCHANGED faults
     \/ /\ o \in closed /\ UNCHANGED faults
        /\ lookup' = [lookup EXCEPT !.answer = "terminal", !.filled = Cardinality(ExecsOf(o) \cap Executed)]
     \/ /\ faults > 0 /\ faults' = faults - 1
        /\ lookup' = [lookup EXCEPT !.answer = "unsettled"]
  /\ UNCHANGED <<venueVars, link, wire, stage, log, past, mem, query, halt>>

\* Mutant: any row of the order is taken as its ending.
RowProves(o) == halt[o] = "resolve" /\ lookup.answer \in {"terminal", "working"}

LookupProves(o) == halt[o] = "resolve" /\ lookup.answer = "terminal"

\* Mutant: the fill total is not compared.
NotCompared(o) == TRUE

TotalsAgree(o) == lookup.filled = log.filled[o]

ApplyHaltLookup(o) ==
  /\ stage = "run" /\ lookup.of = {o} /\ lookup.answer # "none"
  /\ lookup' = NoLookup
  /\ IF LookupProves(o) /\ TotalsAgree(o)
     THEN /\ log' = [log EXCEPT !.live = @ \ {o}] /\ past' = past \cup {log'}
          /\ query' = Noted(Stale(query), log') /\ mem' = Reserve(mem, log')
     ELSE mem' = [mem EXCEPT !.wanted = @ \/ LookupProves(o)] /\ UNCHANGED <<log, past, query>>
  /\ halt' = IF halt[o] = "resolve" /\ lookup.answer = "working" THEN [halt EXCEPT ![o] = "queued"]
             ELSE Kept(halt, log')
  /\ UNCHANGED <<venueVars, link, wire, stage, faults>>

-----------------------------------------------------------------------------
(* A crash, and the boot after it.                                         *)

Stop == link' = "down" /\ wire' = <<>> /\ stage' = "off" /\ mem' = FreshMem /\ query' = IdleQuery
        /\ halt' = NoHalt /\ lookup' = NoLookup

Crash ==
  /\ stage # "off" /\ faults > 0 /\ Stop
  /\ log' \in past /\ past' = {log'}
  /\ faults' = faults - 1
  /\ UNCHANGED venueVars

BootConnect ==
  /\ stage = "off"
  /\ stage' = "account" /\ link' = "up" /\ wire' = <<>>
  /\ UNCHANGED <<haltVars, venueVars, log, past, mem, query, faults>>

BootAccount ==
  /\ stage = "account"
  /\ stage' = "history"
  /\ mem' = [mem EXCEPT !.seen = Executed, !.before = Received(wire)]
  /\ UNCHANGED <<haltVars, venueVars, link, wire, log, past, query, faults>>

BootHistory(through) ==
  /\ stage = "history"
  /\ \E read \in HistoryReads(log, through, Len(trades)) :
     LET rows == read \ log.ids
         l == Counted(log, rows)
         matched == Matches(mem.seen, l) /\ l.live = {}
     IN  /\ log' = IF matched THEN [l EXCEPT !.until = through] ELSE l
         /\ past' = past \cup {log'} \cup {Counted(log, R) : R \in SUBSET rows}
  /\ stage' = "reconcile"
  /\ UNCHANGED <<haltVars, venueVars, link, wire, mem, query, faults>>

BootReconcile ==
  /\ stage = "reconcile"
  /\ LET found == [log EXCEPT !.open = @ /\ Matches(mem.seen, log)]
         ended == [found EXCEPT !.live = @ \ closed]
     IN  /\ log' = ended /\ past' = {found, ended}
         /\ mem' = [mem EXCEPT !.reserved = [o \in Orders |-> Remaining(ended, o)],
                              !.vanished = log.live \cap closed]
  /\ stage' = "run"
  /\ halt' = Halted(halt, log', mem')
  /\ UNCHANGED <<lookup, venueVars, link, wire, query, faults>>

-----------------------------------------------------------------------------
\* A step of the recovery under way, of a boot or of the status read: of each kind at
\* most one is possible at a time.
RecoveryStep == ReadAccount \/ CompleteAccount \/ CompleteHistory \/ ApplyTurn \/ Durable
BootStep == BootConnect \/ BootAccount \/ BootReconcile
LookupStep == \E o \in Orders : AnswerLookup(o) \/ ApplyHaltLookup(o)

Next ==
  \/ Drop \/ Redial \/ Crash \/ BootStep
  \/ \E o \in Orders : Trade(o) \/ EndAtVenue(o) \/ Send(o) \/ CancelReply(o) \/ StartHaltLookup(o)
  \/ \E through \in log.until..Len(trades) :
       TakeReset(through) \/ BootHistory(through) \/ \E due \in BOOLEAN : Launch(due, through)
  \/ TakeFill \/ TakeEnded \/ TakeDown
  \/ RecoveryStep \/ CompleteFailed \/ CompleteRefused
  \/ OnTick \/ DispatchHaltCancels \/ LookupStep

\* A step that stays possible is taken in the end. Of the stream, the recovery and the
\* status read this is said with the condition under which they have nothing to do,
\* which is when none of their steps is possible.
Fairness ==
  /\ WF_link(Redial) /\ WF_stage(BootStep \/ BootHistory(Len(trades)))
  /\ []<>(stage # "run" \/ wire = <<>>) \/ []<><<TakeFill \/ TakeEnded \/ TakeDown \/ TakeReset(Len(trades))>>_wire
  /\ []<>(query.phase = "idle") \/ []<><<RecoveryStep>>_query
  /\ SF_query(Launch(TRUE, Len(trades)))
  /\ WF_halt(OnTick \/ DispatchHaltCancels)
  /\ []<>(lookup = NoLookup) \/ []<><<LookupStep>>_lookup
  /\ \A o \in Orders : WF_halt(CancelReply(o)) /\ SF_lookup(StartHaltLookup(o))

Spec == Init /\ [][Next]_vars /\ Fairness

-----------------------------------------------------------------------------
\* Types; what the engine holds is among the states its log may be read back as.
TypeOK ==
  /\ trades \in Seq(Execs) /\ closed \subseteq Orders /\ link \in {"up", "down"}
  /\ stage \in {"off", "account", "history", "reconcile", "run"}
  /\ past \subseteq Logs /\ log \in past /\ query.after \subseteq past /\ mem \in Memories
  /\ query.phase \in {"idle", "reading", "applying", "publishing"}
  /\ halt \in [Orders -> {"none", "queued", "sent", "await", "resolve"}]
  /\ lookup.answer \in {"none", "working", "terminal", "unsettled"} /\ faults \in 0..MaxFaults

\* However an execution arrives - on the stream, in the history of a recovery or of a
\* boot, again after a crash that lost its record - it is counted at most once.
CountedOnce == \A e \in Execs : log.n[e] <= 1

\* No state a crash can leave has a history boundary beyond an execution it does not
\* hold: the next read would start after it and it would never be counted.
BoundaryKeepsReach ==
  \A l \in past : \A i \in 1..l.until : l.n[trades[i]] = 1

\* While openings are permitted, the position that is neither in the account view, nor
\* among the kernel's recent fills, nor waiting in the stream is within what is reserved
\* for orders in flight.  An order a boot found gone is excepted: it was recorded ended
\* with its last executions unread, and a gap not yet noticed may have lost them.
OpeningsSeeExposure ==
  LET missing == Executed \ (mem.seen \cup mem.recent \cup (Received(wire) \ log.ids))
      room == SumFunction(mem.reserved)
  IN  stage = "run" /\ mem.ready /\ log.open /\ (\A e \in missing : e[1] \notin mem.vanished)
        => Net(missing) \in -room..room

\* No state a crash can leave calls an order ended that the venue still works, whether
\* a stream message, a fill, a boot or the status read of a halt ended it.
EndedAtVenue == \A l \in past : l.sent \ l.live \subseteq closed

\* The status read of a halt ends an order only when every execution of it is counted,
\* though the answer is older than what was processed while it was on its way.
LookupEndsCounted ==
  [][\A o \in Orders : lookup.of = {o} /\ lookup' = NoLookup /\ stage' = "run" /\ o \in log.live \ log'.live =>
       \A e \in ExecsOf(o) \cap Executed : log'.n[e] = 1]_vars

\* In the end every execution is counted, openings are permitted again unless the latch
\* was taken, no halt is left, and behind the latch no opening is.
RecoverySettles ==
  <>[](/\ stage = "run" /\ \A e \in Executed : log.n[e] = 1
       /\ halt = NoHalt /\ IF log.open THEN mem.ready ELSE log.live = {})

=============================================================================
