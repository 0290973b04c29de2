--------------------------- MODULE VenueTaskProofs ---------------------------
(***************************************************************************)
(* The venue task, for every set of commands, every capacity and every     *)
(* quota: a command the client took is answered exactly once, the most     *)
(* urgent command goes first, and a cancel follows its placement.          *)
(***************************************************************************)
EXTENDS VenueTask, FiniteSetTheorems, WellFoundedInduction, TLAPS

-----------------------------------------------------------------------------
(* Queues. *)

\* Nothing queued.
LEMMA EmptyQueue ==
  << >> \in Seq(Commands) /\ Elements(<< >>) = {} /\ Once(<< >>) /\ Len(<< >>) = 0 /\ DOMAIN << >> = {}
<1>1. << >> \in Seq(Commands) /\ Len(<< >>) = 0 /\ DOMAIN << >> = {}
  OBVIOUS
<1>2. QED
  BY <1>1 DEF Elements, Once

\* The parts of a queue.
LEMMA QueueFacts ==
  ASSUME NEW q \in Seq(Commands)
  PROVE  /\ Len(q) \in Nat /\ DOMAIN q = 1..Len(q) /\ Elements(q) \subseteq Commands
         /\ \A i \in DOMAIN q : q[i] \in Elements(q)
         /\ q = << >> <=> Elements(q) = {}
<1>1. Len(q) \in Nat /\ DOMAIN q = 1..Len(q) /\ \A i \in 1..Len(q) : q[i] \in Commands
  OBVIOUS
<1>2. q # << >> => 1 \in DOMAIN q
  OBVIOUS
<1>3. q # << >> => q[1] \in Elements(q)
  BY <1>2 DEF Elements
<1>4. QED
  BY <1>1, <1>3, EmptyQueue DEF Elements

\* A queue of one command.
LEMMA SingleQueue ==
  ASSUME NEW c \in Commands
  PROVE  <<c>> \in Seq(Commands) /\ Elements(<<c>>) = {c} /\ Once(<<c>>)
<1>1. <<c>> \in Seq(Commands) /\ DOMAIN <<c>> = {1} /\ <<c>>[1] = c
  OBVIOUS
<1>2. QED
  BY <1>1 DEF Elements, Once

\* A command joins a queue.
LEMMA JoinQueue ==
  ASSUME NEW q \in Seq(Commands), NEW c \in Commands, NEW r, r = Append(q, c)
  PROVE  /\ r \in Seq(Commands) /\ Len(r) = Len(q) + 1 /\ Elements(r) = Elements(q) \cup {c}
         /\ DOMAIN r = DOMAIN q \cup {Len(q) + 1} /\ r[Len(q) + 1] = c
         /\ \A i \in DOMAIN q : r[i] = q[i] /\ i < Len(q) + 1
         /\ Once(q) /\ c \notin Elements(q) => Once(r)
<1>1. /\ r \in Seq(Commands) /\ Len(r) = Len(q) + 1
      /\ DOMAIN q = 1..Len(q) /\ DOMAIN r = 1..(Len(q) + 1) /\ r[Len(q) + 1] = c
      /\ \A i \in 1..Len(q) : r[i] = q[i]
      /\ Len(q) \in Nat
  OBVIOUS
<1>2. DOMAIN r = DOMAIN q \cup {Len(q) + 1} /\ \A i \in DOMAIN q : i < Len(q) + 1
  BY <1>1
<1>3. Elements(r) = Elements(q) \cup {c}
  BY <1>1, <1>2 DEF Elements
<1>4. ASSUME Once(q), c \notin Elements(q), NEW i \in DOMAIN r, NEW j \in DOMAIN r, r[i] = r[j]
      PROVE  i = j
  BY <1>1, <1>2, <1>4 DEF Once, Elements
<1>5. QED
  BY <1>1, <1>2, <1>3, <1>4 DEF Once

\* The first command leaves a queue.
LEMMA LeaveQueue ==
  ASSUME NEW q \in Seq(Commands), q # << >>, NEW r, r = Tail(q)
  PROVE  /\ r \in Seq(Commands) /\ Len(q) = Len(r) + 1 /\ Head(q) \in Commands
         /\ Head(q) = q[1] /\ Elements(q) = Elements(r) \cup {Head(q)}
         /\ \A i \in DOMAIN r : i + 1 \in DOMAIN q /\ r[i] = q[i + 1] /\ i \in Nat
         /\ Once(q) => Once(r) /\ Head(q) \notin Elements(r)
<1>1. /\ r \in Seq(Commands) /\ Len(q) = Len(r) + 1 /\ Head(q) \in Commands /\ Head(q) = q[1]
      /\ Len(r) \in Nat /\ DOMAIN q = 1..(Len(r) + 1) /\ DOMAIN r = 1..Len(r)
      /\ \A i \in 1..Len(r) : r[i] = q[i + 1]
  OBVIOUS
<1>2. \A i \in DOMAIN r : i + 1 \in DOMAIN q /\ r[i] = q[i + 1] /\ i \in Nat
  BY <1>1
<1>3. \A j \in DOMAIN q : j = 1 \/ (j - 1 \in DOMAIN r /\ r[j - 1] = q[j])
  <2> SUFFICES ASSUME NEW j \in DOMAIN q, j # 1 PROVE j - 1 \in DOMAIN r /\ r[j - 1] = q[j]
    OBVIOUS
  <2>1. j \in Nat /\ j - 1 \in 1..Len(r) /\ (j - 1) + 1 = j
    BY <1>1
  <2>2. QED
    BY <1>1, <2>1
<1>4. Elements(q) = Elements(r) \cup {Head(q)}
  <2>1. 1 \in DOMAIN q
    BY <1>1
  <2>2. Elements(q) \subseteq Elements(r) \cup {Head(q)}
    BY <1>1, <1>3 DEF Elements
  <2>3. Elements(r) \cup {Head(q)} \subseteq Elements(q)
    BY <1>1, <1>2, <2>1 DEF Elements
  <2>4. QED
    BY <2>2, <2>3
<1>5. ASSUME Once(q) PROVE Once(r) /\ Head(q) \notin Elements(r)
  <2>1. 1 \in DOMAIN q /\ \A i \in DOMAIN r : i + 1 # 1
    BY <1>1, <1>2
  <2>2. Head(q) \notin Elements(r)
    BY <1>1, <1>2, <1>5, <2>1 DEF Once, Elements
  <2>3. ASSUME NEW i \in DOMAIN r, NEW j \in DOMAIN r, r[i] = r[j] PROVE i = j
    <3>1. i + 1 = j + 1 /\ i \in Nat /\ j \in Nat
      BY <1>2, <1>5, <2>3 DEF Once
    <3>2. QED
      BY <3>1
  <2>4. QED
    BY <2>2, <2>3 DEF Once
<1>6. QED
  BY <1>1, <1>2, <1>4, <1>5

\* One queue behind another (the calls of an amend group).
LEMMA JoinedQueues ==
  ASSUME NEW p \in Seq(Commands), NEW q \in Seq(Commands), NEW r, r = p \o q
  PROVE  /\ r \in Seq(Commands) /\ Elements(r) = Elements(p) \cup Elements(q)
         /\ Once(p) /\ Once(q) /\ Elements(p) \cap Elements(q) = {} => Once(r)
<1> DEFINE m == Len(p)
           n == Len(q)
<1>1. /\ r \in Seq(Commands) /\ m \in Nat /\ n \in Nat /\ Len(r) = m + n
      /\ DOMAIN p = 1..m /\ DOMAIN q = 1..n /\ DOMAIN r = 1..(m + n)
      /\ \A i \in 1..m : r[i] = p[i]
      /\ \A i \in (m + 1)..(m + n) : r[i] = q[i - m]
  OBVIOUS
<1>2. \A i \in DOMAIN p : i \in DOMAIN r /\ r[i] = p[i] /\ i \in Nat
  BY <1>1
<1>3. \A i \in DOMAIN q : i + m \in DOMAIN r /\ r[i + m] = q[i] /\ i \in Nat
  <2> SUFFICES ASSUME NEW i \in DOMAIN q PROVE i + m \in DOMAIN r /\ r[i + m] = q[i] /\ i \in Nat
    OBVIOUS
  <2>1. i \in Nat /\ i + m \in (m + 1)..(m + n) /\ i + m \in 1..(m + n) /\ (i + m) - m = i
    BY <1>1
  <2>2. QED
    BY <1>1, <2>1
<1>4. \A j \in DOMAIN r : \/ j \in DOMAIN p /\ r[j] = p[j]
                          \/ j - m \in DOMAIN q /\ r[j] = q[j - m] /\ j \in Nat
  <2> SUFFICES ASSUME NEW j \in DOMAIN r, ~(j \in DOMAIN p)
               PROVE  j - m \in DOMAIN q /\ r[j] = q[j - m] /\ j \in Nat
    BY <1>2
  <2>1. j \in (m + 1)..(m + n) /\ j - m \in 1..n /\ j \in Nat
    BY <1>1
  <2>2. QED
    BY <1>1, <2>1
<1> HIDE DEF m, n
<1>5. Elements(r) = Elements(p) \cup Elements(q)
  <2>1. Elements(r) \subseteq Elements(p) \cup Elements(q)
    BY <1>4 DEF Elements
  <2>2. Elements(p) \cup Elements(q) \subseteq Elements(r)
    BY <1>2, <1>3, ZenonT(30) DEF Elements
  <2>3. QED
    BY <2>1, <2>2
<1>6. ASSUME Once(p), Once(q), Elements(p) \cap Elements(q) = {},
             NEW i \in DOMAIN r, NEW j \in DOMAIN r, r[i] = r[j]
      PROVE  i = j
  <2>1. \A a \in DOMAIN p, b \in DOMAIN q : p[a] # q[b]
    BY <1>6, Zenon DEF Elements
  <2>2. CASE i \in DOMAIN p /\ r[i] = p[i]
    <3>1. j \in DOMAIN p /\ r[j] = p[j]
      BY <1>4, <1>6, <2>1, <2>2, Zenon
    <3>2. QED
      BY <1>6, <2>2, <3>1, Zenon DEF Once
  <2>3. CASE i - m \in DOMAIN q /\ r[i] = q[i - m] /\ i \in Nat
    <3>1. j - m \in DOMAIN q /\ r[j] = q[j - m] /\ j \in Nat
      BY <1>4, <1>6, <2>1, <2>3, Zenon
    <3>2. i - m = j - m
      BY <1>6, <2>3, <3>1, Zenon DEF Once
    <3>3. QED
      BY <1>1, <2>3, <3>1, <3>2
  <2>4. QED
    BY <1>4, <2>2, <2>3
<1>7. QED
  BY <1>1, <1>5, <1>6, Zenon DEF Once

-----------------------------------------------------------------------------
(* Every command is in one place. *)

\* The places as sets: each member of all is in exactly one of them.
Apart(u, o, r, b, c, p, a, all) ==
  \A x : /\ x \in all <=> (x \in u \/ x \in o \/ x \in r \/ x \in b \/ x \in c \/ x \in p \/ x \in a)
         /\ x \in u => x \notin o /\ x \notin r /\ x \notin b /\ x \notin c /\ x \notin p /\ x \notin a
         /\ x \in o => x \notin r /\ x \notin b /\ x \notin c /\ x \notin p /\ x \notin a
         /\ x \in r => x \notin b /\ x \notin c /\ x \notin p /\ x \notin a
         /\ x \in b => x \notin c /\ x \notin p /\ x \notin a
         /\ x \in c => x \notin p /\ x \notin a
         /\ x \in p => x \notin a

\* EachAnsweredOnce in that form.
LEMMA PlacesApart ==
  EachAnsweredOnce <=>
    /\ Apart(Elements(urgent), Elements(ordinary), DOMAIN ready, DOMAIN batch,
             Elements(calling), Elements(replies), Elements(answered), submitted \ refused)
    /\ Once(urgent) /\ Once(ordinary) /\ Once(calling) /\ Once(replies) /\ Once(answered) /\ Once(called)
<1> DEFINE U == Elements(urgent)
           O == Elements(ordinary)
           R == DOMAIN ready
           B == DOMAIN batch
           C == Elements(calling)
           P == Elements(replies)
           A == Elements(answered)
           S == submitted \ refused
<1>1. /\ Places = <<U, O, R, B, C, P, A>>
      /\ EachAnsweredOnce <=>
           /\ UNION {Places[i] : i \in DOMAIN Places} = S
           /\ \A i, j \in DOMAIN Places : i # j => Places[i] \cap Places[j] = {}
           /\ \A seq \in {urgent, ordinary, calling, replies, answered, called} : Once(seq)
  BY DEF Places, EachAnsweredOnce
<1>2. (\A seq \in {urgent, ordinary, calling, replies, answered, called} : Once(seq)) <=>
        Once(urgent) /\ Once(ordinary) /\ Once(calling) /\ Once(replies) /\ Once(answered) /\ Once(called)
  OBVIOUS
<1> HIDE DEF U, O, R, B, C, P, A, S
<1>3. DOMAIN Places = 1..7 /\ 1..7 = {1, 2, 3, 4, 5, 6, 7}
  BY <1>1
<1>4. /\ Places[1] = U /\ Places[2] = O /\ Places[3] = R /\ Places[4] = B
      /\ Places[5] = C /\ Places[6] = P /\ Places[7] = A
  BY <1>1
<1>5. UNION {Places[i] : i \in DOMAIN Places} = S <=>
        \A x : x \in S <=> (x \in U \/ x \in O \/ x \in R \/ x \in B \/ x \in C \/ x \in P \/ x \in A)
  BY <1>3, <1>4
<1>6. (\A i, j \in DOMAIN Places : i # j => Places[i] \cap Places[j] = {}) <=>
        \A x : /\ x \in U => x \notin O /\ x \notin R /\ x \notin B /\ x \notin C /\ x \notin P /\ x \notin A
               /\ x \in O => x \notin R /\ x \notin B /\ x \notin C /\ x \notin P /\ x \notin A
               /\ x \in R => x \notin B /\ x \notin C /\ x \notin P /\ x \notin A
               /\ x \in B => x \notin C /\ x \notin P /\ x \notin A
               /\ x \in C => x \notin P /\ x \notin A
               /\ x \in P => x \notin A
  BY <1>3, <1>4
<1>7. QED
  BY <1>1, <1>2, <1>5, <1>6 DEF Apart, U, O, R, B, C, P, A, S

\* The same of the next state.
LEMMA NextPlacesApart ==
  ASSUME Apart(Elements(urgent'), Elements(ordinary'), DOMAIN ready', DOMAIN batch',
               Elements(calling'), Elements(replies'), Elements(answered'), submitted' \ refused'),
         Once(urgent'), Once(ordinary'), Once(calling'), Once(replies'), Once(answered'), Once(called')
  PROVE  EachAnsweredOnce'
<1>1. (EachAnsweredOnce <=>
        /\ Apart(Elements(urgent), Elements(ordinary), DOMAIN ready, DOMAIN batch,
                 Elements(calling), Elements(replies), Elements(answered), submitted \ refused)
        /\ Once(urgent) /\ Once(ordinary) /\ Once(calling) /\ Once(replies) /\ Once(answered)
        /\ Once(called))'
  BY PlacesApart, PTL
<1>2. QED
  BY <1>1

\* A step that moves no command.
LEMMA SamePlaces ==
  ASSUME EachAnsweredOnce,
         UNCHANGED <<submitted, refused, urgent, ordinary, ready, batch, calling, replies, answered, called>>
  PROVE  EachAnsweredOnce'
<1>1. /\ Apart(Elements(urgent), Elements(ordinary), DOMAIN ready, DOMAIN batch,
               Elements(calling), Elements(replies), Elements(answered), submitted \ refused)
      /\ Once(urgent) /\ Once(ordinary) /\ Once(calling) /\ Once(replies) /\ Once(answered) /\ Once(called)
  BY PlacesApart
<1>2. /\ urgent' = urgent /\ ordinary' = ordinary /\ ready' = ready /\ batch' = batch /\ calling' = calling
      /\ replies' = replies /\ answered' = answered /\ called' = called
      /\ submitted' = submitted /\ refused' = refused
  OBVIOUS
<1>3. Apart(Elements(urgent'), Elements(ordinary'), DOMAIN ready', DOMAIN batch',
            Elements(calling'), Elements(replies'), Elements(answered'), submitted' \ refused')
  BY <1>1, <1>2
<1>4. Once(urgent') /\ Once(ordinary') /\ Once(calling') /\ Once(replies') /\ Once(answered') /\ Once(called')
  BY <1>1, <1>2
<1>5. QED
  BY <1>3, <1>4, NextPlacesApart

\* The parts of the state.
LEMMA StateFacts ==
  ASSUME TypeOK
  PROVE  /\ urgent \in Seq(Commands) /\ ordinary \in Seq(Commands) /\ calling \in Seq(Commands)
         /\ replies \in Seq(Commands) /\ completions \in Seq(Commands) /\ answered \in Seq(Commands)
         /\ called \in Seq(Commands)
         /\ submitted \subseteq Commands /\ refused \subseteq submitted /\ DOMAIN ready \subseteq Commands
         /\ DOMAIN batch \subseteq Commands
         /\ \A c \in DOMAIN ready : ready[c] \in Nat
         /\ \A c \in DOMAIN batch : batch[c] \in Nat
  BY DEF TypeOK

\* The capacities and classes.
LEMMA ConstantFacts ==
  /\ \A c \in Commands : Class[c] \in 1..4 /\ Kind[c] \in {"send", "cancel", "amend", "other"}
  /\ CommandCapacity \in Nat \ {0} /\ UrgentCapacity \in Nat \ {0} /\ ReadyCapacity \in Nat \ {0}
  /\ CompletionCapacity \in Nat \ {0} /\ MaxAmendBatch \in Nat \ {0} /\ MaxThrottles \in Nat
  BY TaskAssumption

\* A command joins its lane behind every placement it names.
LEMMA JoinLane ==
  ASSUME NEW q \in Seq(Commands), NEW c \in Commands, NEW users, InOrder(q, users),
         Elements(q) \subseteq users, \A x \in users : ~Names(x, c), NEW r, r = Append(q, c)
  PROVE  InOrder(r, users \cup {c})
<1>1. /\ Elements(r) = Elements(q) \cup {c}
      /\ DOMAIN r = DOMAIN q \cup {Len(q) + 1} /\ r[Len(q) + 1] = c
      /\ \A i \in DOMAIN q : r[i] = q[i] /\ i < Len(q) + 1
  <2>1. Elements(r) = Elements(q) \cup {c}
    BY JoinQueue, ZenonT(30)
  <2>2. DOMAIN r = DOMAIN q \cup {Len(q) + 1} /\ r[Len(q) + 1] = c
    BY JoinQueue
  <2>3. \A i \in DOMAIN q : r[i] = q[i] /\ i < Len(q) + 1
    BY JoinQueue
  <2>4. QED
    BY <2>1, <2>2, <2>3
<1>2. ~Names(c, c)
  BY DEF Names
<1>3. ASSUME NEW i \in DOMAIN r, NEW j \in DOMAIN r, Names(r[i], r[j]) PROVE j < i
  <2>1. CASE j = Len(q) + 1
    <3>1. r[j] = c
      BY <1>1, <2>1
    <3>2. i \in DOMAIN q
      BY <1>1, <1>2, <1>3, <3>1
    <3>3. r[i] \in Elements(q)
      BY <1>1, <3>2 DEF Elements
    <3>4. QED
      BY <1>3, <3>1, <3>3
  <2>2. CASE j \in DOMAIN q /\ i = Len(q) + 1
    BY <1>1, <2>2
  <2>3. CASE j \in DOMAIN q /\ i \in DOMAIN q
    <3>1. Names(q[i], q[j])
      BY <1>1, <1>3, <2>3
    <3>2. QED
      BY <2>3, <3>1 DEF InOrder
  <2>4. QED
    BY <1>1, <2>1, <2>2, <2>3
<1>4. ASSUME NEW s \in Elements(r), NEW x \in users \cup {c}, Names(x, s) PROVE x \in Elements(r)
  BY <1>1, <1>2, <1>4 DEF InOrder
<1>5. QED
  BY <1>3, <1>4 DEF InOrder

\* The first command of a lane names no placement still in it.
LEMMA LeaveLane ==
  ASSUME NEW q \in Seq(Commands), q # << >>, NEW users, InOrder(q, users), Once(q), NEW r, r = Tail(q)
  PROVE  InOrder(r, users) /\ \A s \in Elements(r) : ~Names(Head(q), s)
<1>1. /\ Head(q) = q[1] /\ Elements(q) = Elements(r) \cup {Head(q)}
      /\ \A i \in DOMAIN r : i + 1 \in DOMAIN q /\ r[i] = q[i + 1] /\ i \in Nat
      /\ Len(q) = Len(r) + 1 /\ r \in Seq(Commands)
  <2>1. r \in Seq(Commands) /\ Len(q) = Len(r) + 1 /\ Head(q) = q[1]
    BY LeaveQueue
  <2>2. Elements(q) = Elements(r) \cup {Head(q)}
    BY LeaveQueue, Zenon
  <2>3. \A i \in DOMAIN r : i + 1 \in DOMAIN q /\ r[i] = q[i + 1] /\ i \in Nat
    BY LeaveQueue
  <2>4. QED
    BY <2>1, <2>2, <2>3
<1>2. 1 \in DOMAIN q /\ Len(r) \in Nat /\ DOMAIN r = 1..Len(r)
  <2>1. Len(r) \in Nat /\ DOMAIN q = 1..Len(q) /\ DOMAIN r = 1..Len(r)
    BY <1>1, QueueFacts
  <2>2. QED
    BY <1>1, <2>1
<1>3. ASSUME NEW s \in Elements(r), Names(Head(q), s) PROVE FALSE
  <2>1. PICK j \in DOMAIN r : s = r[j]
    BY <1>3 DEF Elements
  <2>2. Names(q[1], q[j + 1]) /\ j + 1 \in DOMAIN q
    BY <1>1, <1>3, <2>1
  <2>3. j + 1 < 1
    BY <1>2, <2>2 DEF InOrder
  <2>4. QED
    BY <1>2, <2>1, <2>3
<1>4. ASSUME NEW i \in DOMAIN r, NEW j \in DOMAIN r, Names(r[i], r[j]) PROVE j < i
  <2>1. Names(q[i + 1], q[j + 1]) /\ i + 1 \in DOMAIN q /\ j + 1 \in DOMAIN q
    BY <1>1, <1>4
  <2>2. j + 1 < i + 1
    BY <2>1 DEF InOrder
  <2>3. QED
    BY <1>1, <2>2
<1>5. ASSUME NEW s \in Elements(r), NEW x \in users, Names(x, s) PROVE x \in Elements(r)
  BY <1>1, <1>3, <1>5 DEF InOrder
<1>6. QED
  BY <1>3, <1>4, <1>5 DEF InOrder

-----------------------------------------------------------------------------
(* The steps of the engine. *)

\* Permissions, completions, quota and the engine's end touch nothing the commands are in.
LEMMA QuietStep ==
  ASSUME TaskInv,
         \/ Advance \/ TakeCompletion \/ Close
         \/ \E c \in Commands : Expire(c)
         \/ \E s \in Shapes : Throttle(s) \/ Replenish(s)
  PROVE  TaskInv'
<1>1. UNCHANGED <<submitted, refused, urgent, ordinary, ready, arrivals, pc, batch, calling, replies,
                  answered, called, gauge>>
  BY DEF Advance, TakeCompletion, Close, Expire, Throttle, Replenish, engineVars, taskVars, readyVars
<1>2. EachAnsweredOnce' /\ Stages' /\ Arrivals' /\ Lanes' /\ Placed'
  <2>1. EachAnsweredOnce'
    BY <1>1, SamePlaces DEF TaskInv
  <2>2. Stages' /\ Arrivals'
    BY <1>1 DEF TaskInv, Stages, Arrivals
  <2>3. Lanes'
    BY <1>1 DEF TaskInv, Lanes, Taken
  <2>4. OrdinaryReady' = OrdinaryReady
    BY <1>1 DEF OrdinaryReady
  <2>5. Placed'
    BY <1>1, <2>4 DEF TaskInv, Placed
  <2>6. QED
    BY <2>1, <2>2, <2>3, <2>5
<1>3. TypeOK'
  <2>1. OrdinaryReady' = OrdinaryReady
    BY <1>1 DEF OrdinaryReady
  <2>2. completions' \in Seq(Commands) /\ Len(completions') <= CompletionCapacity
    <3>1. CASE TakeCompletion
      <4>1. completions # << >> /\ completions' = Tail(completions) /\ completions \in Seq(Commands)
            /\ Len(completions) <= CompletionCapacity
        BY <3>1 DEF TakeCompletion, TaskInv, TypeOK
      <4>2. completions' \in Seq(Commands) /\ Len(completions) = Len(completions') + 1
        BY <4>1, LeaveQueue
      <4>3. Len(completions') \in Nat
        BY <4>2, QueueFacts
      <4>4. QED
        BY <4>1, <4>2, <4>3, ConstantFacts
    <3>2. CASE ~TakeCompletion
      <4>1. completions' = completions
        BY <3>2 DEF Advance, Close, Expire, Throttle, Replenish
      <4>2. QED
        BY <4>1 DEF TaskInv, TypeOK
    <3>3. QED
      BY <3>1, <3>2
  <2>3. lapsed' \subseteq Authorised
    BY DEF Advance, TakeCompletion, Close, Expire, Throttle, Replenish, engineVars, TaskInv, TypeOK
  <2>4. closed' \in BOOLEAN
    BY Zenon DEF Advance, TakeCompletion, Close, Expire, Throttle, Replenish, engineVars, TaskInv, TypeOK
  <2>5. throttled' \subseteq Shapes /\ throttles' \in Nat
    BY DEF Advance, TakeCompletion, Close, Expire, Throttle, Replenish, engineVars, quotaVars, TaskInv, TypeOK
  <2>6. QED
    BY <1>1, <2>1, <2>2, <2>3, <2>4, <2>5, Zenon DEF TaskInv, TypeOK
<1>4. QED
  BY <1>2, <1>3 DEF TaskInv

\* A new command stands in no place and is named by nothing submitted before it.
LEMMA NewCommand ==
  ASSUME TaskInv, NEW c \in Commands, c \notin submitted
  PROVE  /\ c \notin Elements(urgent) /\ c \notin Elements(ordinary) /\ c \notin DOMAIN ready
         /\ c \notin DOMAIN batch /\ c \notin Elements(calling) /\ c \notin Elements(replies)
         /\ c \notin Elements(answered) /\ c \notin Taken /\ c \notin refused
         /\ \A x \in submitted : ~Names(x, c)
         /\ \A x \in DOMAIN ready : x \in submitted
<1>1. Apart(Elements(urgent), Elements(ordinary), DOMAIN ready, DOMAIN batch,
            Elements(calling), Elements(replies), Elements(answered), submitted \ refused)
  BY PlacesApart DEF TaskInv
<1>2. refused \subseteq submitted
  BY DEF TaskInv, TypeOK
<1>3. \A x \in submitted : ~Names(x, c)
  BY DEF TaskInv, Lanes, Taken
<1>4. QED
  BY <1>1, <1>2, <1>3 DEF Apart, Taken

\* VenueClient::send into the urgent lane.
LEMMA SubmitUrgent ==
  ASSUME TaskInv, NEW c \in Commands, ~closed, c \notin submitted, Known(c),
         submitted' = submitted \cup {c}, refused' = refused,
         Urgent(c), Len(urgent) < UrgentCapacity, urgent' = Append(urgent, c), ordinary' = ordinary,
         UNCHANGED <<lapsed, readyVars, pc, completions, taskVars, quotaVars, closed>>
  PROVE  TaskInv'
<1> USE DEF readyVars, taskVars, quotaVars
<1>1. /\ c \notin Elements(urgent) /\ c \notin Elements(ordinary) /\ c \notin DOMAIN ready
      /\ c \notin DOMAIN batch /\ c \notin Elements(calling) /\ c \notin Elements(replies)
      /\ c \notin Elements(answered) /\ c \notin Taken /\ c \notin refused
      /\ \A x \in submitted : ~Names(x, c)
      /\ \A x \in DOMAIN ready : x \in submitted
  BY NewCommand
<1>2. urgent \in Seq(Commands) /\ submitted \subseteq Commands /\ refused \subseteq submitted
  BY StateFacts DEF TaskInv
<1>3. /\ urgent' \in Seq(Commands) /\ Len(urgent') = Len(urgent) + 1
      /\ Elements(urgent') = Elements(urgent) \cup {c}
  BY <1>2, JoinQueue, Zenon
<1>4. Taken' = Taken \cup {c}
  BY <1>1 DEF Taken
<1>5. EachAnsweredOnce'
  <2>1. Once(urgent')
    <3>1. Once(urgent)
      BY PlacesApart, Zenon DEF TaskInv
    <3>2. QED
      BY <1>1, <1>2, <3>1, JoinQueue, Zenon
  <2>2. Apart(Elements(urgent'), Elements(ordinary), DOMAIN ready, DOMAIN batch,
              Elements(calling), Elements(replies), Elements(answered), submitted' \ refused)
    <3>1. Apart(Elements(urgent), Elements(ordinary), DOMAIN ready, DOMAIN batch,
                Elements(calling), Elements(replies), Elements(answered), submitted \ refused)
      BY PlacesApart DEF TaskInv
    <3>2. QED
      BY <1>1, <1>3, <3>1 DEF Apart
  <2>3. Once(ordinary) /\ Once(calling) /\ Once(replies) /\ Once(answered) /\ Once(called)
    BY PlacesApart DEF TaskInv
  <2>4. QED
    BY <2>1, <2>2, <2>3, NextPlacesApart
<1>6. Lanes'
  <2>1. \A x \in Elements(urgent') : Urgent(x)
    BY <1>3 DEF TaskInv, Lanes
  <2>2. \A x \in submitted', s \in Commands : Names(x, s) => s \in Taken'
    <3>1. \A s \in Commands : Names(c, s) => s \in Taken
      BY DEF Known, Names, Taken
    <3>2. QED
      BY <1>4, <3>1, Zenon DEF TaskInv, Lanes
  <2>3. InOrder(urgent', {x \in Taken' : Urgent(x)})
    <3> DEFINE users == {x \in Taken : Urgent(x)}
    <3>1. InOrder(urgent, users)
      BY DEF TaskInv, Lanes
    <3>2. Elements(urgent) \subseteq users
      <4>1. \A x \in Elements(urgent) : x \in Taken
        BY PlacesApart DEF TaskInv, Apart, Taken
      <4>2. QED
        BY <4>1 DEF TaskInv, Lanes
    <3>3. \A x \in users : ~Names(x, c)
      BY <1>1 DEF Taken
    <3>4. {x \in Taken' : Urgent(x)} = users \cup {c}
      BY <1>4
    <3> HIDE DEF users
    <3>5. InOrder(urgent', users \cup {c})
      BY <1>2, <3>1, <3>2, <3>3, JoinLane, Zenon
    <3>6. QED
      BY <3>4, <3>5, Zenon
  <2>4. {x \in Taken' : ~Urgent(x)} = {x \in Taken : ~Urgent(x)}
    BY <1>4
  <2>5. QED
    BY <2>1, <2>2, <2>3, <2>4, Zenon DEF TaskInv, Lanes
<1>7. Stages' /\ Arrivals' /\ Placed'
  BY DEF TaskInv, Stages, Arrivals, Placed, OrdinaryReady
<1>8. TypeOK'
  <2>1. OrdinaryReady' = OrdinaryReady
    BY DEF OrdinaryReady
  <2>2. Len(urgent') <= UrgentCapacity
    <3>1. Len(urgent) \in Nat
      BY <1>2, QueueFacts
    <3>2. QED
      BY <1>3, <3>1, ConstantFacts
  <2>3. QED
    BY <1>2, <1>3, <2>1, <2>2 DEF TaskInv, TypeOK
<1>9. QED
  BY <1>5, <1>6, <1>7, <1>8 DEF TaskInv

\* VenueClient::send into the ordinary lane.
LEMMA SubmitOrdinary ==
  ASSUME TaskInv, NEW c \in Commands, ~closed, c \notin submitted, Known(c),
         submitted' = submitted \cup {c}, refused' = refused,
         ~Urgent(c), Len(ordinary) < CommandCapacity, ordinary' = Append(ordinary, c), urgent' = urgent,
         UNCHANGED <<lapsed, readyVars, pc, completions, taskVars, quotaVars, closed>>
  PROVE  TaskInv'
<1> USE DEF readyVars, taskVars, quotaVars
<1>1. /\ c \notin Elements(urgent) /\ c \notin Elements(ordinary) /\ c \notin DOMAIN ready
      /\ c \notin DOMAIN batch /\ c \notin Elements(calling) /\ c \notin Elements(replies)
      /\ c \notin Elements(answered) /\ c \notin Taken /\ c \notin refused
      /\ \A x \in submitted : ~Names(x, c)
      /\ \A x \in DOMAIN ready : x \in submitted
  BY NewCommand
<1>2. ordinary \in Seq(Commands) /\ submitted \subseteq Commands /\ refused \subseteq submitted
  BY StateFacts DEF TaskInv
<1>3. /\ ordinary' \in Seq(Commands) /\ Len(ordinary') = Len(ordinary) + 1
      /\ Elements(ordinary') = Elements(ordinary) \cup {c}
  BY <1>2, JoinQueue, Zenon
<1>4. Taken' = Taken \cup {c}
  BY <1>1 DEF Taken
<1>5. EachAnsweredOnce'
  <2>1. Once(ordinary')
    <3>1. Once(ordinary)
      BY PlacesApart, Zenon DEF TaskInv
    <3>2. QED
      BY <1>1, <1>2, <3>1, JoinQueue, Zenon
  <2>2. Apart(Elements(urgent), Elements(ordinary'), DOMAIN ready, DOMAIN batch,
              Elements(calling), Elements(replies), Elements(answered), submitted' \ refused)
    <3>1. Apart(Elements(urgent), Elements(ordinary), DOMAIN ready, DOMAIN batch,
                Elements(calling), Elements(replies), Elements(answered), submitted \ refused)
      BY PlacesApart DEF TaskInv
    <3>2. QED
      BY <1>1, <1>3, <3>1 DEF Apart
  <2>3. Once(urgent) /\ Once(calling) /\ Once(replies) /\ Once(answered) /\ Once(called)
    BY PlacesApart DEF TaskInv
  <2>4. QED
    BY <2>1, <2>2, <2>3, NextPlacesApart
<1>6. Lanes'
  <2>1. \A x \in Elements(ordinary') : ~Urgent(x)
    BY <1>3 DEF TaskInv, Lanes
  <2>2. \A x \in submitted', s \in Commands : Names(x, s) => s \in Taken'
    <3>1. \A s \in Commands : Names(c, s) => s \in Taken
      BY DEF Known, Names, Taken
    <3>2. QED
      BY <1>4, <3>1 DEF TaskInv, Lanes
  <2>3. InOrder(ordinary', {x \in Taken' : ~Urgent(x)})
    <3> DEFINE users == {x \in Taken : ~Urgent(x)}
    <3>1. InOrder(ordinary, users)
      BY DEF TaskInv, Lanes
    <3>2. Elements(ordinary) \subseteq users
      <4>1. \A x \in Elements(ordinary) : x \in Taken
        BY PlacesApart DEF TaskInv, Apart, Taken
      <4>2. QED
        BY <4>1, Zenon DEF TaskInv, Lanes
    <3>3. \A x \in users : ~Names(x, c)
      BY <1>1 DEF Taken
    <3>4. {x \in Taken' : ~Urgent(x)} = users \cup {c}
      BY <1>4
    <3> HIDE DEF users
    <3>5. InOrder(ordinary', users \cup {c})
      BY <1>2, <3>1, <3>2, <3>3, JoinLane, Zenon
    <3>6. QED
      BY <3>4, <3>5, Zenon
  <2>4. {x \in Taken' : Urgent(x)} = {x \in Taken : Urgent(x)}
    BY <1>4
  <2>5. QED
    BY <2>1, <2>2, <2>3, <2>4, Zenon DEF TaskInv, Lanes
<1>7. Stages' /\ Arrivals'
  BY DEF TaskInv, Stages, Arrivals
<1>8. OrdinaryReady' = OrdinaryReady
  BY DEF OrdinaryReady
<1>9. Placed'
  BY <1>1, <1>3, <1>8 DEF TaskInv, Placed
<1>10. TypeOK'
  <2>1. Len(ordinary') <= CommandCapacity
    <3>1. Len(ordinary) \in Nat
      BY <1>2, QueueFacts, Zenon
    <3>2. QED
      BY <1>3, <3>1, ConstantFacts
  <2>2. QED
    BY <1>2, <1>3, <1>8, <2>1, Zenon DEF TaskInv, TypeOK
<1>11. QED
  BY <1>5, <1>6, <1>7, <1>9, <1>10, Zenon DEF TaskInv

\* VenueClient::send, with the lane full or not.
LEMMA SubmitStep ==
  ASSUME TaskInv, NEW c \in Commands, Submit(c)
  PROVE  TaskInv'
<1>1. /\ ~closed /\ c \notin submitted /\ Known(c) /\ submitted' = submitted \cup {c}
      /\ UNCHANGED <<lapsed, readyVars, pc, completions, taskVars, quotaVars, closed>>
  BY DEF Submit
<1>2. CASE /\ Urgent(c) /\ Len(urgent) < UrgentCapacity
           /\ urgent' = Append(urgent, c) /\ UNCHANGED <<ordinary, refused>>
  BY <1>1, <1>2, SubmitUrgent
<1>3. CASE /\ ~Urgent(c) /\ Len(ordinary) < CommandCapacity
           /\ ordinary' = Append(ordinary, c) /\ UNCHANGED <<urgent, refused>>
  BY <1>1, <1>3, SubmitOrdinary
<1>4. CASE refused' = refused \cup {c} /\ UNCHANGED <<urgent, ordinary>>
  <2> USE DEF readyVars, taskVars, quotaVars
  <2>1. Taken' = Taken /\ submitted' \ refused' = submitted \ refused
    BY <1>1, <1>4 DEF Taken
  <2>2. EachAnsweredOnce' /\ Stages' /\ Arrivals' /\ Placed'
    <3>1. EachAnsweredOnce'
      <4>1. /\ Apart(Elements(urgent), Elements(ordinary), DOMAIN ready, DOMAIN batch,
                     Elements(calling), Elements(replies), Elements(answered), submitted' \ refused')
            /\ Once(urgent) /\ Once(ordinary) /\ Once(calling) /\ Once(replies) /\ Once(answered) /\ Once(called)
        BY <2>1, PlacesApart DEF TaskInv
      <4>2. QED
        BY <1>1, <1>4, <4>1, NextPlacesApart
    <3>2. Stages'
      BY <1>1, <1>4 DEF TaskInv, Stages
    <3>3. Arrivals'
      BY <1>1, <1>4 DEF TaskInv, Arrivals
    <3>4. OrdinaryReady' = OrdinaryReady
      BY <1>1, <1>4 DEF OrdinaryReady
    <3>5. Placed'
      BY <1>1, <1>4, <3>4 DEF TaskInv, Placed
    <3>6. QED
      BY <3>1, <3>2, <3>3, <3>5
  <2>3. Lanes'
    <3>1. \A s \in Commands : Names(c, s) => s \in Taken
      BY <1>1 DEF Known, Names, Taken
    <3>2. QED
      BY <1>1, <1>4, <2>1, <3>1 DEF TaskInv, Lanes
  <2>4. OrdinaryReady' = OrdinaryReady
    BY <1>1 DEF OrdinaryReady
  <2>5. TypeOK'
    BY <1>1, <1>4, <2>4, SMTT(30) DEF TaskInv, TypeOK
  <2>6. QED
    BY <2>2, <2>3, <2>5 DEF TaskInv
<1>5. QED
  BY <1>2, <1>3, <1>4 DEF Submit

-----------------------------------------------------------------------------
(* The steps of the task. *)

\* take: the ready set grows by one command with the latest arrival number.
LEMMA TakeFacts ==
  ASSUME TaskInv, NEW c \in Commands, c \notin DOMAIN ready, Take(c)
  PROVE  /\ DOMAIN ready' = DOMAIN ready \cup {c} /\ Arrivals' /\ arrivals' \in Nat
         /\ DOMAIN ready' \subseteq Commands /\ ready' \in [DOMAIN ready' -> Nat]
         /\ Urgent(c) => OrdinaryReady' = OrdinaryReady
         /\ ~Urgent(c) => OrdinaryReady' = OrdinaryReady + 1
         /\ OrdinaryReady \in Nat
<1>1. /\ ready' = [d \in DOMAIN ready \cup {c} |-> IF d = c THEN arrivals ELSE ready[d]]
      /\ arrivals' = arrivals + 1
  BY DEF Take
<1>2. /\ DOMAIN ready \subseteq Commands /\ (\A d \in DOMAIN ready : ready[d] \in Nat) /\ arrivals \in Nat
      /\ IsFiniteSet(DOMAIN ready)
      /\ \A d \in DOMAIN ready : ready[d] < arrivals
      /\ \A d, e \in DOMAIN ready : ready[d] = ready[e] => d = e
  BY StateFacts DEF TaskInv, Arrivals, TypeOK
<1>3. /\ DOMAIN ready' = DOMAIN ready \cup {c} /\ ready'[c] = arrivals
      /\ \A d \in DOMAIN ready : ready'[d] = ready[d]
  BY <1>1
<1>4. /\ DOMAIN ready' \subseteq Commands /\ ready' \in [DOMAIN ready' -> Nat]
  <2>1. \A d \in DOMAIN ready \cup {c} : (IF d = c THEN arrivals ELSE ready[d]) \in Nat
    BY <1>2
  <2>2. QED
    BY <1>1, <1>2, <1>3, <2>1
<1>5. IsFiniteSet(DOMAIN ready')
  BY <1>2, <1>3, FS_AddElement
<1>6. \A d \in DOMAIN ready' : ready'[d] < arrivals'
  <2> SUFFICES ASSUME NEW d \in DOMAIN ready' PROVE ready'[d] < arrivals'
    OBVIOUS
  <2>1. CASE d = c
    BY <1>1, <1>2, <1>3, <2>1
  <2>2. CASE d \in DOMAIN ready
    <3>1. ready'[d] = ready[d] /\ ready[d] \in Nat /\ ready[d] < arrivals
      BY <1>2, <1>3, <2>2
    <3>2. QED
      BY <1>1, <1>2, <3>1
  <2>3. QED
    BY <1>3, <2>1, <2>2
<1>7. \A d, e \in DOMAIN ready' : ready'[d] = ready'[e] => d = e
  <2> SUFFICES ASSUME NEW d \in DOMAIN ready', NEW e \in DOMAIN ready', ready'[d] = ready'[e] PROVE d = e
    OBVIOUS
  <2>1. \A x \in DOMAIN ready : ready'[x] \in Nat /\ ready'[x] < arrivals /\ ready'[x] # arrivals
    BY <1>2, <1>3
  <2>2. QED
    BY <1>2, <1>3, <2>1
<1>8. /\ Urgent(c) => OrdinaryReady' = OrdinaryReady
      /\ ~Urgent(c) => OrdinaryReady' = OrdinaryReady + 1
      /\ OrdinaryReady \in Nat
  <2> DEFINE old == {d \in DOMAIN ready : ~Urgent(d)}
             new == {d \in DOMAIN ready' : ~Urgent(d)}
  <2>1. IsFiniteSet(old) /\ c \notin old
    BY <1>2, FS_Subset
  <2>2. Urgent(c) => new = old
    BY <1>3
  <2>3. ~Urgent(c) => new = old \cup {c}
    BY <1>3
  <2>4. OrdinaryReady = Cardinality(old) /\ OrdinaryReady' = Cardinality(new)
    BY DEF OrdinaryReady, Urgent
  <2> HIDE DEF old, new
  <2>5. Cardinality(old \cup {c}) = Cardinality(old) + 1
    BY <2>1, FS_AddElement, Zenon
  <2>6. Cardinality(old) \in Nat
    BY <2>1, FS_CardinalityType
  <2>7. QED
    BY <2>2, <2>3, <2>4, <2>5, <2>6, Zenon
<1>9. arrivals' \in Nat
  BY <1>1, <1>2
<1>10. QED
  BY <1>3, <1>4, <1>5, <1>6, <1>7, <1>8, <1>9 DEF Arrivals

\* The places of the current state.
LEMMA PlaceFacts ==
  ASSUME TaskInv
  PROVE  /\ Apart(Elements(urgent), Elements(ordinary), DOMAIN ready, DOMAIN batch,
                  Elements(calling), Elements(replies), Elements(answered), submitted \ refused)
         /\ Once(urgent) /\ Once(ordinary) /\ Once(calling) /\ Once(replies) /\ Once(answered) /\ Once(called)
  BY PlacesApart DEF TaskInv

\* The urgent mailbox is drained.
LEMMA DrainUrgentStep ==
  ASSUME TaskInv, DrainUrgent
  PROVE  TaskInv'
<1> USE DEF engineVars, taskVars, quotaVars, readyVars
<1>1. pc = "urgent" /\ UNCHANGED <<engineVars, ordinary, completions, taskVars, quotaVars>>
  BY DEF DrainUrgent
<1>2. CASE urgent = << >>
  <2>1. pc' = "ordinary" /\ UNCHANGED <<readyVars, urgent>>
    BY <1>2 DEF DrainUrgent
  <2>2. EachAnsweredOnce' /\ Arrivals' /\ Lanes' /\ Placed'
    <3>1. EachAnsweredOnce'
      BY <1>1, <2>1, SamePlaces DEF TaskInv
    <3>2. Arrivals' /\ Placed'
      BY <1>1, <2>1 DEF TaskInv, Arrivals, Placed
    <3>3. Lanes'
      BY <1>1, <2>1 DEF TaskInv, Lanes, Taken
    <3>4. QED
      BY <3>1, <3>2, <3>3
  <2>3. Stages'
    BY <1>1, <2>1 DEF TaskInv, Stages
  <2>4. OrdinaryReady' = OrdinaryReady
    BY <2>1 DEF OrdinaryReady
  <2>5. TypeOK'
    BY <1>1, <2>1, <2>4 DEF TaskInv, TypeOK
  <2>6. QED
    BY <2>2, <2>3, <2>5 DEF TaskInv
<1>3. CASE urgent # << >>
  <2> DEFINE c == Head(urgent)
  <2>1. Take(c) /\ urgent' = Tail(urgent) /\ pc' = pc
    BY <1>3 DEF DrainUrgent
  <2>2. urgent \in Seq(Commands)
    BY StateFacts DEF TaskInv
  <2>3. /\ Apart(Elements(urgent), Elements(ordinary), DOMAIN ready, DOMAIN batch,
                 Elements(calling), Elements(replies), Elements(answered), submitted \ refused)
        /\ Once(urgent) /\ Once(ordinary) /\ Once(calling) /\ Once(replies) /\ Once(answered) /\ Once(called)
    BY PlaceFacts
  <2>4. urgent' \in Seq(Commands) /\ Len(urgent) = Len(urgent') + 1 /\ c \in Commands
    BY <1>3, <2>1, <2>2, LeaveQueue
  <2>5. Elements(urgent) = Elements(urgent') \cup {c}
    BY <1>3, <2>1, <2>2, LeaveQueue, Zenon
  <2>6. Once(urgent') /\ c \notin Elements(urgent')
    BY <1>3, <2>1, <2>2, <2>3, LeaveQueue, Zenon
  <2> HIDE DEF c
  <2>7. c \notin DOMAIN ready
    BY <2>3, <2>5 DEF Apart
  <2>8. Urgent(c)
    BY <2>5 DEF TaskInv, Lanes
  <2>9. /\ DOMAIN ready' = DOMAIN ready \cup {c} /\ Arrivals' /\ arrivals' \in Nat
        /\ DOMAIN ready' \subseteq Commands /\ ready' \in [DOMAIN ready' -> Nat]
        /\ OrdinaryReady' = OrdinaryReady
    BY <2>1, <2>4, <2>7, <2>8, TakeFacts, Zenon
  <2>10. EachAnsweredOnce'
    <3>1. Apart(Elements(urgent'), Elements(ordinary), DOMAIN ready', DOMAIN batch,
                Elements(calling), Elements(replies), Elements(answered), submitted \ refused)
      BY <2>3, <2>5, <2>6, <2>9, Zenon DEF Apart
    <3>2. QED
      BY <1>1, <2>3, <2>6, <3>1, NextPlacesApart, Zenon
  <2>11. Lanes'
    <3>1. InOrder(urgent, {x \in Taken : Urgent(x)})
      BY DEF TaskInv, Lanes
    <3>2. InOrder(urgent', {x \in Taken : Urgent(x)})
      BY <1>3, <2>1, <2>2, <2>3, <3>1, LeaveLane, Zenon
    <3>3. Taken' = Taken
      BY <1>1 DEF Taken
    <3>4. QED
      BY <1>1, <2>5, <3>2, <3>3 DEF TaskInv, Lanes
  <2>12. Stages'
    BY <1>1, <2>1, Zenon DEF TaskInv, Stages
  <2>13. Placed'
    BY <1>1, <2>1 DEF Placed
  <2>14. TypeOK'
    <3>1. Len(urgent') <= UrgentCapacity
      <4>1. Len(urgent') \in Nat /\ Len(urgent) <= UrgentCapacity
        BY <2>4, QueueFacts DEF TaskInv, TypeOK
      <4>2. QED
        BY <2>4, <4>1, ConstantFacts
    <3>2. QED
      BY <1>1, <2>1, <2>4, <2>9, <3>1 DEF TaskInv, TypeOK
  <2>15. QED
    BY <2>9, <2>10, <2>11, <2>12, <2>13, <2>14, Zenon DEF TaskInv
<1>4. QED
  BY <1>2, <1>3

\* The ordinary mailbox is drained as far as the ready set has room.
LEMMA DrainOrdinaryStep ==
  ASSUME TaskInv, DrainOrdinary
  PROVE  TaskInv'
<1> USE DEF engineVars, taskVars, quotaVars, readyVars
<1>1. pc = "ordinary" /\ UNCHANGED <<engineVars, urgent, completions, taskVars, quotaVars>>
  BY DEF DrainOrdinary
<1>0. OrdinaryReady \in Nat /\ ReadyCapacity \in Nat
  <2>1. IsFiniteSet({c \in DOMAIN ready : ~Urgent(c)})
    BY FS_Subset DEF TaskInv, Arrivals
  <2>2. QED
    BY <2>1, FS_CardinalityType, ConstantFacts DEF OrdinaryReady
<1>2. CASE ~(ordinary # << >> /\ OrdinaryReady < ReadyCapacity)
  <2>1. pc' = "pick" /\ UNCHANGED <<readyVars, ordinary>>
    BY <1>2 DEF DrainOrdinary
  <2>2. EachAnsweredOnce' /\ Arrivals' /\ Lanes'
    <3>1. EachAnsweredOnce'
      BY <1>1, <2>1, SamePlaces DEF TaskInv
    <3>2. Arrivals'
      BY <1>1, <2>1 DEF TaskInv, Arrivals
    <3>3. Lanes'
      BY <1>1, <2>1 DEF TaskInv, Lanes, Taken
    <3>4. QED
      BY <3>1, <3>2, <3>3
  <2>3. Stages'
    BY <1>1, <2>1 DEF TaskInv, Stages
  <2>4. OrdinaryReady' = OrdinaryReady
    BY <2>1 DEF OrdinaryReady
  <2>5. TypeOK'
    BY <1>1, <2>1, <2>4 DEF TaskInv, TypeOK
  <2>6. Placed'
    <3>1. ordinary = << >> => Elements(ordinary) = {}
      BY EmptyQueue
    <3>2. ordinary # << >> => OrdinaryReady >= ReadyCapacity
      BY <1>0, <1>2
    <3>3. QED
      BY <2>1, <2>4, <3>1, <3>2 DEF Placed
  <2>7. QED
    BY <2>2, <2>3, <2>5, <2>6 DEF TaskInv
<1>3. CASE ordinary # << >> /\ OrdinaryReady < ReadyCapacity
  <2> DEFINE c == Head(ordinary)
  <2>1. Take(c) /\ ordinary' = Tail(ordinary) /\ pc' = pc
    BY <1>3 DEF DrainOrdinary
  <2>2. ordinary \in Seq(Commands)
    BY StateFacts DEF TaskInv
  <2>3. /\ Apart(Elements(urgent), Elements(ordinary), DOMAIN ready, DOMAIN batch,
                 Elements(calling), Elements(replies), Elements(answered), submitted \ refused)
        /\ Once(urgent) /\ Once(ordinary) /\ Once(calling) /\ Once(replies) /\ Once(answered) /\ Once(called)
    BY PlaceFacts
  <2>4. ordinary' \in Seq(Commands) /\ Len(ordinary) = Len(ordinary') + 1 /\ c \in Commands
    BY <1>3, <2>1, <2>2, LeaveQueue
  <2>5. Elements(ordinary) = Elements(ordinary') \cup {c}
    BY <1>3, <2>1, <2>2, LeaveQueue, Zenon
  <2>6. Once(ordinary') /\ c \notin Elements(ordinary')
    BY <1>3, <2>1, <2>2, <2>3, LeaveQueue, Zenon
  <2> HIDE DEF c
  <2>7. c \notin DOMAIN ready
    BY <2>3, <2>5 DEF Apart
  <2>8. ~Urgent(c)
    BY <2>5 DEF TaskInv, Lanes
  <2>9. /\ DOMAIN ready' = DOMAIN ready \cup {c} /\ Arrivals' /\ arrivals' \in Nat
        /\ DOMAIN ready' \subseteq Commands /\ ready' \in [DOMAIN ready' -> Nat]
        /\ OrdinaryReady' = OrdinaryReady + 1
    BY <2>1, <2>4, <2>7, <2>8, TakeFacts, Zenon
  <2>10. EachAnsweredOnce'
    <3>1. Apart(Elements(urgent), Elements(ordinary'), DOMAIN ready', DOMAIN batch,
                Elements(calling), Elements(replies), Elements(answered), submitted \ refused)
      BY <2>3, <2>5, <2>6, <2>9, Zenon DEF Apart
    <3>2. QED
      BY <1>1, <2>3, <2>6, <3>1, NextPlacesApart, Zenon
  <2>11. Lanes'
    <3>1. InOrder(ordinary, {x \in Taken : ~Urgent(x)})
      BY DEF TaskInv, Lanes
    <3>2. InOrder(ordinary', {x \in Taken : ~Urgent(x)})
      BY <1>3, <2>1, <2>2, <2>3, <3>1, LeaveLane, Zenon
    <3>3. Taken' = Taken
      BY <1>1 DEF Taken
    <3>4. QED
      BY <1>1, <2>5, <3>2, <3>3 DEF TaskInv, Lanes
  <2>12. Stages'
    BY <1>1, <2>1, Zenon DEF TaskInv, Stages
  <2>13. Placed'
    BY <1>1, <2>1 DEF Placed
  <2>14. TypeOK'
    <3>1. Len(ordinary') <= CommandCapacity
      <4>1. Len(ordinary') \in Nat /\ Len(ordinary) <= CommandCapacity
        BY <2>4, QueueFacts DEF TaskInv, TypeOK
      <4>2. QED
        BY <2>4, <4>1, ConstantFacts
    <3>2. OrdinaryReady' <= ReadyCapacity
      BY <1>0, <1>3, <2>9
    <3>3. QED
      BY <1>1, <2>1, <2>4, <2>9, <3>1, <3>2, Zenon DEF TaskInv, TypeOK
  <2>15. QED
    BY <2>9, <2>10, <2>11, <2>12, <2>13, <2>14 DEF TaskInv
<1>4. QED
  BY <1>2, <1>3, Zenon

\* Waiting, waking and the end of a turn move nothing.
LEMMA TurnStep ==
  ASSUME TaskInv, Idle \/ Hold \/ Wake \/ EndTurn
  PROVE  TaskInv'
<1>1. /\ UNCHANGED <<submitted, refused, lapsed, closed, urgent, ordinary, ready, arrivals, completions,
                     batch, calling, replies, answered, called, throttled, throttles>>
      /\ pc \notin {"amending", "calling"}
      /\ pc' \in {"urgent", "held", "stopped"}
      /\ replies # << >> => FALSE
      /\ gauge' \in {0, gauge}
  BY DEF TaskInv, Stages, Idle, Hold, Wake, EndTurn, engineVars, taskVars, readyVars, quotaVars
<1>2. EachAnsweredOnce' /\ Arrivals' /\ Lanes'
  <2>1. EachAnsweredOnce'
    BY <1>1, SamePlaces DEF TaskInv
  <2>2. Arrivals'
    BY <1>1 DEF TaskInv, Arrivals
  <2>3. Lanes'
    BY <1>1 DEF TaskInv, Lanes, Taken
  <2>4. QED
    BY <2>1, <2>2, <2>3
<1>3. Placed'
  BY <1>1, Zenon DEF Placed
<1>4. Stages'
  BY <1>1 DEF TaskInv, Stages
<1>5. TypeOK'
  <2>1. OrdinaryReady' = OrdinaryReady
    BY <1>1 DEF OrdinaryReady
  <2>2. gauge' \in 0..4
    BY <1>1 DEF TaskInv, TypeOK
  <2>3. QED
    BY <1>1, <2>1, <2>2 DEF TaskInv, TypeOK
<1>6. QED
  BY <1>2, <1>3, <1>4, <1>5, Zenon DEF TaskInv

\* The gateway call returns: its commands are to be answered.
LEMMA CallReturnsStep ==
  ASSUME TaskInv, CallReturns
  PROVE  TaskInv'
<1>1. /\ UNCHANGED <<submitted, refused, lapsed, closed, urgent, ordinary, ready, arrivals, completions,
                     batch, answered, called, gauge, throttled, throttles>>
      /\ pc = "calling" /\ pc' = "replying" /\ replies' = calling /\ calling' = << >>
  BY DEF CallReturns, engineVars, readyVars, quotaVars
<1>2. replies = << >>
  BY <1>1 DEF TaskInv, Stages
<1>3. Elements(replies) = {} /\ Elements(calling') = {} /\ Once(calling') /\ calling' \in Seq(Commands)
  BY <1>1, <1>2, EmptyQueue
<1>4. /\ Apart(Elements(urgent), Elements(ordinary), DOMAIN ready, DOMAIN batch,
               Elements(calling), Elements(replies), Elements(answered), submitted \ refused)
      /\ Once(urgent) /\ Once(ordinary) /\ Once(calling) /\ Once(replies) /\ Once(answered) /\ Once(called)
  BY PlaceFacts
<1>5. EachAnsweredOnce'
  <2>1. Apart(Elements(urgent), Elements(ordinary), DOMAIN ready, DOMAIN batch,
              Elements(calling'), Elements(replies'), Elements(answered), submitted \ refused)
    BY <1>1, <1>3, <1>4 DEF Apart
  <2>2. QED
    BY <1>1, <1>3, <1>4, <2>1, NextPlacesApart, Zenon
<1>6. Arrivals' /\ Lanes'
  BY <1>1, Zenon DEF TaskInv, Arrivals, Lanes, Taken
<1>7. Placed'
  BY <1>1 DEF Placed
<1>8. Stages'
  BY <1>1, <1>3 DEF TaskInv, Stages
<1>9. TypeOK'
  <2>1. OrdinaryReady' = OrdinaryReady
    BY <1>1 DEF OrdinaryReady
  <2>2. QED
    BY <1>1, <1>3, <2>1 DEF TaskInv, TypeOK
<1>10. QED
  BY <1>5, <1>6, <1>7, <1>8, <1>9 DEF TaskInv

\* An answer goes to the channel, or nowhere when the engine has gone.
LEMMA ReplyStep ==
  ASSUME TaskInv, Reply
  PROVE  TaskInv'
<1> DEFINE c == Head(replies)
<1>1. /\ UNCHANGED <<submitted, refused, lapsed, closed, urgent, ordinary, ready, arrivals, pc,
                     batch, calling, called, gauge, throttled, throttles>>
      /\ replies # << >> /\ answered' = Append(answered, c) /\ replies' = Tail(replies)
  BY DEF Reply, engineVars, readyVars, quotaVars
<1>2. /\ Apart(Elements(urgent), Elements(ordinary), DOMAIN ready, DOMAIN batch,
               Elements(calling), Elements(replies), Elements(answered), submitted \ refused)
      /\ Once(urgent) /\ Once(ordinary) /\ Once(calling) /\ Once(replies) /\ Once(answered) /\ Once(called)
  BY PlaceFacts
<1>3. replies \in Seq(Commands) /\ answered \in Seq(Commands) /\ completions \in Seq(Commands)
  BY StateFacts DEF TaskInv
<1>4. replies' \in Seq(Commands) /\ c \in Commands /\ Elements(replies) = Elements(replies') \cup {c}
  BY <1>1, <1>3, LeaveQueue, Zenon
<1>5. Once(replies') /\ c \notin Elements(replies')
  BY <1>1, <1>2, <1>3, LeaveQueue, Zenon
<1>6. completions' \in Seq(Commands) /\ Len(completions') <= CompletionCapacity
  <2>1. CASE completions' = completions
    BY <2>1 DEF TaskInv, TypeOK
  <2>2. CASE Len(completions) < CompletionCapacity /\ completions' = Append(completions, c)
    <3>1. completions' \in Seq(Commands) /\ Len(completions') = Len(completions) + 1
      BY <1>3, <1>4, <2>2, JoinQueue
    <3>2. Len(completions) \in Nat
      BY <1>3, QueueFacts, Zenon
    <3>3. QED
      BY <2>2, <3>1, <3>2, ConstantFacts
  <2>3. QED
    BY <2>1, <2>2 DEF Reply
<1> HIDE DEF c
<1>7. c \notin Elements(answered)
  BY <1>2, <1>4 DEF Apart
<1>8. answered' \in Seq(Commands) /\ Elements(answered') = Elements(answered) \cup {c}
  <2>1. answered \in Seq(Commands) /\ c \in Commands /\ answered' = Append(answered, c)
    BY <1>1, <1>3, <1>4
  <2>2. answered' \in Seq(Commands)
    BY <2>1, JoinQueue
  <2>3. Elements(answered') = Elements(answered) \cup {c}
    BY <2>1, JoinQueue, ZenonT(30)
  <2>4. QED
    BY <2>2, <2>3
<1>9. Once(answered')
  BY <1>1, <1>2, <1>3, <1>4, <1>7, JoinQueue, Zenon
<1>10. EachAnsweredOnce'
  <2>1. Apart(Elements(urgent), Elements(ordinary), DOMAIN ready, DOMAIN batch,
              Elements(calling), Elements(replies'), Elements(answered'), submitted \ refused)
    BY <1>2, <1>4, <1>5, <1>8, Zenon DEF Apart
  <2>2. QED
    BY <1>1, <1>2, <1>5, <1>9, <2>1, NextPlacesApart
<1>11. Arrivals' /\ Lanes'
  BY <1>1 DEF TaskInv, Arrivals, Lanes, Taken
<1>12. OrdinaryReady' = OrdinaryReady
  BY <1>1, Zenon DEF OrdinaryReady
<1>13. Placed'
  BY <1>1, <1>12, Zenon DEF TaskInv, Placed
<1>14. Stages'
  BY <1>1, <1>4, <1>8, Zenon DEF TaskInv, Stages
<1>15. TypeOK'
  BY <1>1, <1>4, <1>6, <1>8, <1>12, Zenon DEF TaskInv, TypeOK
<1>16. QED
  BY <1>10, <1>11, <1>13, <1>14, <1>15 DEF TaskInv

\* What remains of a set of queued commands.
LEMMA WithoutFacts ==
  ASSUME NEW q, NEW drop, NEW r, r = Without(q, drop), \A c \in DOMAIN q : q[c] \in Nat
  PROVE  /\ DOMAIN r = DOMAIN q \ drop /\ r \in [DOMAIN r -> Nat]
         /\ \A c \in DOMAIN r : r[c] = q[c]
<1>1. r = [c \in DOMAIN q \ drop |-> q[c]]
  BY DEF Without
<1>2. DOMAIN r = DOMAIN q \ drop /\ \A c \in DOMAIN r : r[c] = q[c]
  BY <1>1
<1>3. QED
  BY <1>1, <1>2

\* An amend of the group is answered or joins the call.
LEMMA CheckAmendStep ==
  ASSUME TaskInv, CheckAmend
  PROVE  TaskInv'
<1>1. /\ UNCHANGED <<submitted, refused, lapsed, closed, urgent, ordinary, ready, arrivals, completions, pc,
                     answered, called, gauge, throttled, throttles>>
      /\ pc = "amending" /\ replies = << >>
  BY DEF CheckAmend, engineVars, readyVars, quotaVars
<1>2. PICK c \in DOMAIN batch :
        /\ batch' = Without(batch, {c})
        /\ \/ replies' = <<c>> /\ calling' = calling
           \/ calling' = Append(calling, c) /\ replies' = replies
  BY Zenon DEF CheckAmend
<1>3. /\ Apart(Elements(urgent), Elements(ordinary), DOMAIN ready, DOMAIN batch,
               Elements(calling), Elements(replies), Elements(answered), submitted \ refused)
      /\ Once(urgent) /\ Once(ordinary) /\ Once(calling) /\ Once(replies) /\ Once(answered) /\ Once(called)
  BY PlaceFacts
<1>4. /\ c \in Commands /\ calling \in Seq(Commands) /\ DOMAIN batch \subseteq Commands
      /\ \A d \in DOMAIN batch : batch[d] \in Nat
  BY StateFacts DEF TaskInv
<1>5. DOMAIN batch' = DOMAIN batch \ {c} /\ batch' \in [DOMAIN batch' -> Nat]
  BY <1>2, <1>4, WithoutFacts, Zenon
<1>6. Elements(replies) = {}
  BY <1>1, EmptyQueue, Zenon
<1>7. c \notin Elements(calling)
  BY <1>2, <1>3 DEF Apart
<1>8. /\ calling' \in Seq(Commands) /\ replies' \in Seq(Commands) /\ Once(calling') /\ Once(replies')
      /\ \/ Elements(calling') = Elements(calling) /\ Elements(replies') = {c}
         \/ Elements(calling') = Elements(calling) \cup {c} /\ Elements(replies') = {}
  <2>1. CASE replies' = <<c>> /\ calling' = calling
    BY <1>3, <1>4, <2>1, SingleQueue, Zenon
  <2>2. CASE calling' = Append(calling, c) /\ replies' = replies
    <3>1. calling' \in Seq(Commands) /\ Elements(calling') = Elements(calling) \cup {c}
      BY <1>4, <2>2, JoinQueue, ZenonT(30)
    <3>2. Once(calling')
      BY <1>3, <1>4, <1>7, <2>2, JoinQueue, Zenon
    <3>3. QED
      BY <1>1, <1>6, <2>2, <3>1, <3>2, EmptyQueue
  <2>3. QED
    BY <1>2, <2>1, <2>2, Zenon
<1>9. EachAnsweredOnce'
  <2>1. Apart(Elements(urgent), Elements(ordinary), DOMAIN ready, DOMAIN batch',
              Elements(calling'), Elements(replies'), Elements(answered), submitted \ refused)
    BY <1>2, <1>3, <1>5, <1>6, <1>8 DEF Apart
  <2>2. QED
    BY <1>1, <1>3, <1>8, <2>1, NextPlacesApart
<1>10. Arrivals' /\ Lanes'
  BY <1>1 DEF TaskInv, Arrivals, Lanes, Taken
<1>11. OrdinaryReady' = OrdinaryReady
  BY <1>1 DEF OrdinaryReady
<1>12. Placed'
  <2>1. DOMAIN batch' \cup Elements(calling') \subseteq DOMAIN batch \cup Elements(calling)
    BY <1>2, <1>5, <1>8
  <2>2. QED
    BY <1>1, <2>1 DEF TaskInv, Placed
<1>13. Stages'
  BY <1>1, <1>6, Zenon DEF TaskInv, Stages
<1>14. TypeOK'
  BY <1>1, <1>4, <1>5, <1>8, <1>11, Zenon DEF TaskInv, TypeOK
<1>15. QED
  BY <1>9, <1>10, <1>12, <1>13, <1>14, Zenon DEF TaskInv

\* The group is called, or there is nothing left of it to call.
LEMMA CallAmendsStep ==
  ASSUME TaskInv, CallAmends
  PROVE  TaskInv'
<1>1. /\ UNCHANGED <<submitted, refused, lapsed, closed, urgent, ordinary, ready, arrivals, completions,
                     batch, calling, replies, answered, throttled, throttles>>
      /\ pc = "amending" /\ replies = << >> /\ DOMAIN batch = {} /\ gauge' \in {0, gauge}
      /\ \/ calling = << >> /\ pc' = "urgent" /\ called' = called
         \/ calling # << >> /\ pc' = "calling" /\ called' = called \o calling
  BY DEF CallAmends, engineVars, readyVars, quotaVars
<1>2. /\ Apart(Elements(urgent), Elements(ordinary), DOMAIN ready, DOMAIN batch,
               Elements(calling), Elements(replies), Elements(answered), submitted \ refused)
      /\ Once(urgent) /\ Once(ordinary) /\ Once(calling) /\ Once(replies) /\ Once(answered) /\ Once(called)
  BY PlaceFacts
<1>3. Elements(replies) = {}
  BY <1>1, EmptyQueue
<1>4. Elements(called) \subseteq Elements(answered)
  BY <1>1, <1>3, Zenon DEF TaskInv, Stages
<1>5. Elements(called) \cap Elements(calling) = {}
  BY <1>2, <1>4, Zenon DEF Apart
<1>6. calling \in Seq(Commands) /\ called \in Seq(Commands)
  BY StateFacts DEF TaskInv
<1>7. /\ called' \in Seq(Commands) /\ Once(called')
      /\ \/ pc' = "urgent" /\ calling = << >> /\ Elements(called') = Elements(called)
         \/ pc' = "calling" /\ Elements(called') = Elements(called) \cup Elements(calling)
  <2>1. CASE called' = called /\ calling = << >> /\ pc' = "urgent"
    BY <1>2, <1>6, <2>1
  <2>2. CASE called' = called \o calling /\ pc' = "calling"
    <3>1. called' \in Seq(Commands) /\ Elements(called') = Elements(called) \cup Elements(calling)
      BY <1>6, <2>2, JoinedQueues, Zenon
    <3>2. Once(called')
      BY <1>2, <1>5, <1>6, <2>2, JoinedQueues, Zenon
    <3>3. QED
      BY <2>2, <3>1, <3>2
  <2>3. QED
    BY <1>1, <2>1, <2>2
<1>8. EachAnsweredOnce'
  BY <1>1, <1>2, <1>7, NextPlacesApart, Zenon
<1>9. Arrivals' /\ Lanes'
  BY <1>1, Zenon DEF TaskInv, Arrivals, Lanes, Taken
<1>10. Placed'
  BY <1>1, <1>7 DEF Placed
<1>11. Stages'
  <2>1. /\ DOMAIN batch' = {} /\ replies' = << >> /\ (calling' # << >> => pc' = "calling")
    BY <1>1, <1>7, Zenon
  <2>2. \A c \in Elements(called') : c \in Elements(answered') \/ (pc' = "calling" /\ c \in Elements(calling'))
    BY <1>1, <1>4, <1>7, Zenon
  <2>3. QED
    BY <2>1, <2>2, Zenon DEF Stages
<1>12. TypeOK'
  <2>1. OrdinaryReady' = OrdinaryReady
    BY <1>1 DEF OrdinaryReady
  <2>2. gauge' \in 0..4
    BY <1>1 DEF TaskInv, TypeOK
  <2>3. QED
    BY <1>1, <1>7, <2>1, <2>2, Zenon DEF TaskInv, TypeOK
<1>13. QED
  BY <1>8, <1>9, <1>10, <1>11, <1>12 DEF TaskInv

-----------------------------------------------------------------------------
(* The pick. *)

\* A number attached to each of some commands is least at one of them.
LEMMA LeastBy ==
  ASSUME NEW S, S # {}, NEW f, \A c \in S : f[c] \in Nat
  PROVE  \E c \in S : \A d \in S : f[c] <= f[d]
<1> DEFINE R == OpToRel(<, Nat)
           T == {f[c] : c \in S}
<1>1. IsWellFoundedOn(R, Nat)
  BY NatLessThanWellFounded
<1>2. \A x \in Nat, y \in Nat : <<y, x>> \in R <=> y < x
  BY DEF R, OpToRel
<1> HIDE DEF R
<1>3. T # {} /\ T \subseteq Nat
  OBVIOUS
<1> HIDE DEF T
<1>4. PICK m \in T : \A y \in T : ~(<<y, m>> \in R)
  BY <1>1, <1>3, WFMin, Zenon
<1>5. \A n \in T : m \in Nat /\ n \in Nat /\ ~(n < m)
  BY <1>2, <1>3, <1>4, Zenon
<1>6. \A n \in T : m <= n
  BY <1>5
<1>7. QED
  BY <1>4, <1>6 DEF T

\* selectable is never empty-handed: placements wait for nothing, so what depends on one is never
\* all there is.
LEMMA SelectableFacts ==
  ASSUME TaskInv, DOMAIN ready # {}
  PROVE  Selectable = {c \in DOMAIN ready : ~Depends(c)} /\ Selectable # {}
<1> DEFINE free == {c \in DOMAIN ready : ~Depends(c)}
<1>1. free # {}
  <2>1. PICK c \in DOMAIN ready : TRUE
    OBVIOUS
  <2>2. CASE Depends(c)
    <3>1. PICK s \in DOMAIN ready : Kind[s] = "send"
      BY <2>2 DEF Depends, QueuedSends
    <3>2. ~Depends(s)
      BY <3>1, Zenon DEF Depends
    <3>3. QED
      BY <3>2
  <2>3. QED
    BY <2>1, <2>2
<1>2. QED
  BY <1>1 DEF Selectable

\* choose: the picked command is free, and none that is free comes before it.
LEMMA ChosenFacts ==
  ASSUME TaskInv, DOMAIN ready # {}
  PROVE  /\ Chosen \in DOMAIN ready /\ Chosen \in Commands /\ ~Depends(Chosen)
         /\ \A d \in DOMAIN ready : ~Depends(d) =>
              \/ Over(Chosen) < Over(d)
              \/ Over(Chosen) = Over(d) /\ Class[Chosen] < Class[d]
              \/ Over(Chosen) = Over(d) /\ Class[Chosen] = Class[d] /\ ready[Chosen] <= ready[d]
<1>1. Selectable = {c \in DOMAIN ready : ~Depends(c)} /\ Selectable # {}
  BY SelectableFacts
<1>2. DOMAIN ready \subseteq Commands /\ \A c \in DOMAIN ready : ready[c] \in Nat
  BY StateFacts DEF TaskInv
<1>3. \A c \in Selectable : Class[c] \in Nat /\ ready[c] \in Nat /\ Over(c) \in Nat
  <2>1. \A c \in Selectable : c \in Commands /\ ready[c] \in Nat
    BY <1>1, <1>2
  <2>2. \A c \in Selectable : Class[c] \in Nat
    BY <2>1, ConstantFacts
  <2>3. QED
    BY <2>1, <2>2 DEF Over
<1> DEFINE Before(c, d) == \/ Over(c) < Over(d)
                           \/ Over(c) = Over(d) /\ Class[c] < Class[d]
                           \/ Over(c) = Over(d) /\ Class[c] = Class[d] /\ ready[c] <= ready[d]
<1>4. \E c \in Selectable : \A d \in Selectable : Before(c, d)
  <2> DEFINE f == [c \in Selectable |-> Over(c)]
  <2>1. PICK c1 \in Selectable : \A d \in Selectable : Over(c1) <= Over(d)
    <3>1. \A c \in Selectable : f[c] \in Nat /\ f[c] = Over(c)
      BY <1>3
    <3> HIDE DEF f
    <3>2. \E c \in Selectable : \A d \in Selectable : f[c] <= f[d]
      BY <1>1, <3>1, LeastBy
    <3>3. QED
      BY <3>1, <3>2
  <2> DEFINE S1 == {c \in Selectable : Over(c) = Over(c1)}
  <2>2. PICK c2 \in S1 : \A d \in S1 : Class[c2] <= Class[d]
    <3>1. S1 # {} /\ \A c \in S1 : Class[c] \in Nat
      BY <1>3, <2>1
    <3> HIDE DEF S1
    <3>2. QED
      BY <3>1, LeastBy, Zenon
  <2> DEFINE S2 == {c \in S1 : Class[c] = Class[c2]}
  <2>3. PICK c3 \in S2 : \A d \in S2 : ready[c3] <= ready[d]
    <3>1. S2 # {} /\ \A c \in S2 : ready[c] \in Nat
      BY <1>3, <2>2, Zenon
    <3> HIDE DEF S1, S2
    <3>2. QED
      BY <3>1, LeastBy, Zenon
  <2>4. /\ c3 \in Selectable /\ Over(c3) = Over(c1) /\ Class[c3] = Class[c2]
        /\ c2 \in Selectable /\ Over(c2) = Over(c1)
    BY <2>2, <2>3, Zenon
  <2>5. ASSUME NEW d \in Selectable PROVE Before(c3, d)
    <3>1. Over(c3) \in Nat /\ Over(d) \in Nat /\ Class[c3] \in Nat /\ Class[d] \in Nat
      BY <1>3, <2>4
    <3>2. Over(c3) <= Over(d)
      BY <2>1, <2>4
    <3>3. Over(c3) = Over(d) => Class[c3] <= Class[d]
      BY <2>2, <2>4, Zenon
    <3>4. Over(c3) = Over(d) /\ Class[c3] = Class[d] => ready[c3] <= ready[d]
      BY <2>3, <2>4
    <3>5. QED
      BY <3>1, <3>2, <3>3, <3>4
  <2>6. QED
    BY <2>4, <2>5
<1>5. Chosen = CHOOSE c \in Selectable : \A d \in Selectable : Before(c, d)
  BY DEF Chosen
<1>6. Chosen \in Selectable /\ \A d \in Selectable : Before(Chosen, d)
  <2> HIDE DEF Before
  <2>1. QED
    BY <1>4, <1>5
<1>7. QED
  BY <1>1, <1>2, <1>6

\* Picked commands leave the ready set; the others keep their arrivals.
LEMMA PickFacts ==
  ASSUME TaskInv, NEW drop, ready' = Without(ready, drop), arrivals' = arrivals
  PROVE  /\ DOMAIN ready' = DOMAIN ready \ drop /\ DOMAIN ready' \subseteq Commands
         /\ ready' \in [DOMAIN ready' -> Nat] /\ Arrivals'
         /\ OrdinaryReady' <= ReadyCapacity
<1>1. /\ DOMAIN ready \subseteq Commands /\ (\A d \in DOMAIN ready : ready[d] \in Nat)
      /\ IsFiniteSet(DOMAIN ready)
      /\ \A d \in DOMAIN ready : ready[d] < arrivals
      /\ \A d, e \in DOMAIN ready : ready[d] = ready[e] => d = e
  BY StateFacts DEF TaskInv, Arrivals
<1>2. /\ DOMAIN ready' = DOMAIN ready \ drop /\ ready' \in [DOMAIN ready' -> Nat]
      /\ \A c \in DOMAIN ready' : ready'[c] = ready[c]
  <2>1. ready' = [c \in DOMAIN ready \ drop |-> ready[c]]
    BY DEF Without
  <2>2. \A c \in DOMAIN ready \ drop : ready[c] \in Nat
    BY <1>1
  <2>3. QED
    BY <2>1, <2>2
<1>3. IsFiniteSet(DOMAIN ready')
  BY <1>1, <1>2, FS_Subset
<1>4. Arrivals'
  BY <1>1, <1>2, <1>3, Zenon DEF Arrivals
<1>5. OrdinaryReady' <= ReadyCapacity
  <2> DEFINE old == {d \in DOMAIN ready : ~Urgent(d)}
             new == {d \in DOMAIN ready' : ~Urgent(d)}
  <2>1. IsFiniteSet(old) /\ new \subseteq old
    BY <1>1, <1>2, FS_Subset, Zenon
  <2>2. OrdinaryReady = Cardinality(old) /\ OrdinaryReady' = Cardinality(new)
    BY DEF OrdinaryReady, Urgent
  <2>3. OrdinaryReady <= ReadyCapacity
    BY DEF TaskInv, TypeOK
  <2> HIDE DEF old, new
  <2>4. Cardinality(new) <= Cardinality(old) /\ IsFiniteSet(new)
    BY <2>1, FS_Subset
  <2>5. Cardinality(new) \in Nat /\ Cardinality(old) \in Nat
    BY <2>1, <2>4, FS_CardinalityType, Zenon
  <2>6. QED
    BY <2>2, <2>3, <2>4, <2>5, ConstantFacts
<1>6. QED
  BY <1>1, <1>2, <1>4, <1>5, Zenon

\* At the pick the task holds nothing, and all it called is answered.
LEMMA EmptyHands ==
  ASSUME TaskInv, pc = "pick"
  PROVE  /\ DOMAIN batch = {} /\ calling = << >> /\ replies = << >>
         /\ Elements(calling) = {} /\ Elements(replies) = {} /\ Elements(called) \subseteq Elements(answered)
<1>1. DOMAIN batch = {} /\ calling = << >> /\ replies = << >>
  BY Zenon DEF TaskInv, Stages
<1>2. Elements(calling) = {} /\ Elements(replies) = {}
  BY <1>1, EmptyQueue
<1>3. QED
  BY <1>1, <1>2 DEF TaskInv, Stages

\* The picked command is called, or answered when its authority is spent.
LEMMA DispatchStep ==
  ASSUME TaskInv, Dispatch
  PROVE  TaskInv'
<1> DEFINE c == Chosen
<1>1. /\ UNCHANGED <<submitted, refused, lapsed, closed, urgent, ordinary, arrivals, completions,
                     batch, answered, throttled, throttles>>
      /\ pc = "pick" /\ DOMAIN ready # {} /\ ready' = Without(ready, {c}) /\ gauge' = Class[c]
      /\ \/ replies' = <<c>> /\ pc' = "refusing" /\ calling' = calling /\ called' = called
         \/ calling' = <<c>> /\ called' = Append(called, c) /\ pc' = "calling" /\ replies' = replies
  BY Zenon DEF Dispatch, engineVars, quotaVars
<1>2. c \in DOMAIN ready /\ c \in Commands
  BY <1>1, ChosenFacts
<1> HIDE DEF c
<1>3. /\ DOMAIN ready' = DOMAIN ready \ {c} /\ DOMAIN ready' \subseteq Commands
      /\ ready' \in [DOMAIN ready' -> Nat] /\ Arrivals' /\ OrdinaryReady' <= ReadyCapacity
  BY <1>1, PickFacts, Zenon
<1>4. /\ DOMAIN batch = {} /\ calling = << >> /\ replies = << >>
      /\ Elements(calling) = {} /\ Elements(replies) = {} /\ Elements(called) \subseteq Elements(answered)
  BY <1>1, EmptyHands, Zenon
<1>5. /\ Apart(Elements(urgent), Elements(ordinary), DOMAIN ready, DOMAIN batch,
               Elements(calling), Elements(replies), Elements(answered), submitted \ refused)
      /\ Once(urgent) /\ Once(ordinary) /\ Once(calling) /\ Once(replies) /\ Once(answered) /\ Once(called)
  BY PlaceFacts
<1>6. c \notin Elements(called)
  BY <1>2, <1>4, <1>5 DEF Apart
<1>7. called \in Seq(Commands) /\ answered \in Seq(Commands)
  BY StateFacts, Zenon DEF TaskInv
<1>8. /\ calling' \in Seq(Commands) /\ replies' \in Seq(Commands) /\ called' \in Seq(Commands)
      /\ Once(calling') /\ Once(replies') /\ Once(called')
      /\ \/ /\ pc' = "refusing" /\ calling' = << >> /\ Elements(calling') = {} /\ Elements(replies') = {c}
            /\ Elements(called') = Elements(called)
         \/ /\ pc' = "calling" /\ replies' = << >> /\ Elements(calling') = {c} /\ Elements(replies') = {}
            /\ Elements(called') = Elements(called) \cup {c}
  <2>1. CASE replies' = <<c>> /\ pc' = "refusing" /\ calling' = calling /\ called' = called
    BY <1>2, <1>4, <1>5, <1>7, <2>1, SingleQueue, EmptyQueue, Zenon
  <2>2. CASE calling' = <<c>> /\ called' = Append(called, c) /\ pc' = "calling" /\ replies' = replies
    <3>0. called \in Seq(Commands) /\ c \in Commands /\ called' = Append(called, c)
      BY <1>2, <1>7, <2>2
    <3>1. called' \in Seq(Commands)
      BY <3>0, JoinQueue
    <3>2. Elements(called') = Elements(called) \cup {c}
      BY <3>0, JoinQueue, ZenonT(30)
    <3>3. Once(called')
      BY <1>2, <1>5, <1>6, <1>7, <2>2, JoinQueue, Zenon
    <3>4. calling' \in Seq(Commands) /\ Once(calling') /\ Elements(calling') = {c}
      BY <1>2, <2>2, SingleQueue
    <3>5. QED
      BY <1>4, <2>2, <3>1, <3>2, <3>3, <3>4, EmptyQueue, SMTT(30)
  <2>3. QED
    BY <1>1, <2>1, <2>2, Zenon
<1>9. EachAnsweredOnce'
  <2>1. Apart(Elements(urgent), Elements(ordinary), DOMAIN ready', DOMAIN batch,
              Elements(calling'), Elements(replies'), Elements(answered), submitted \ refused)
    BY <1>2, <1>3, <1>4, <1>5, <1>8, Zenon DEF Apart
  <2>2. QED
    BY <1>1, <1>5, <1>8, <2>1, NextPlacesApart, ZenonT(30)
<1>10. Lanes'
  BY <1>1, Zenon DEF TaskInv, Lanes, Taken
<1>11. Placed'
  BY <1>8 DEF Placed
<1>12. Stages'
  <2>1. DOMAIN batch' = {}
    BY <1>1, <1>4, Zenon
  <2>2. \A x \in Elements(called') : \/ x \in Elements(answered')
                                     \/ pc' = "calling" /\ x \in Elements(calling')
    BY <1>1, <1>4, <1>8, SMTT(30)
  <2>3. QED
    BY <1>8, <2>1, <2>2, SMTT(30) DEF Stages
<1>13. TypeOK'
  <2>1. gauge' \in 0..4
    BY <1>1, <1>2, ConstantFacts
  <2>2. pc' \in {"refusing", "calling"}
    BY <1>8
  <2>3. QED
    BY <1>1, <1>3, <1>8, <2>1, <2>2, ZenonT(30) DEF TaskInv, TypeOK
<1>14. QED
  BY <1>3, <1>9, <1>10, <1>11, <1>12, <1>13, Zenon DEF TaskInv

\* A group of amends leaves the ready set: none names a placement left in it.
LEMMA TakeAmendsStep ==
  ASSUME TaskInv, TakeAmends
  PROVE  TaskInv'
<1>1. /\ UNCHANGED <<submitted, refused, lapsed, closed, urgent, ordinary, arrivals, completions,
                     calling, replies, answered, called, throttled, throttles>>
      /\ pc = "pick" /\ DOMAIN ready # {} /\ gauge' = 2 /\ pc' = "amending" /\ Kind[Chosen] = "amend"
  BY DEF TakeAmends, engineVars, quotaVars
<1>2. PICK behind \in SUBSET Joiners :
        /\ batch' = [c \in behind \cup {Chosen} |-> ready[c]]
        /\ ready' = Without(ready, behind \cup {Chosen})
  BY Zenon DEF TakeAmends
<1>3. Chosen \in DOMAIN ready /\ ~Depends(Chosen)
  BY <1>1, ChosenFacts
<1> DEFINE group == behind \cup {Chosen}
<1>4. group \subseteq DOMAIN ready /\ \A c \in group : Kind[c] = "amend" /\ ~Depends(c)
  BY <1>1, <1>2, <1>3, Zenon DEF Joiners, Amendable
<1>5. batch' = [c \in group |-> ready[c]] /\ ready' = Without(ready, group)
  BY <1>2
<1> HIDE DEF group
<1>6. /\ DOMAIN ready' = DOMAIN ready \ group /\ DOMAIN ready' \subseteq Commands
      /\ ready' \in [DOMAIN ready' -> Nat] /\ Arrivals' /\ OrdinaryReady' <= ReadyCapacity
  BY <1>1, <1>5, PickFacts, ZenonT(30)
<1>7. DOMAIN batch' = group /\ DOMAIN batch' \subseteq Commands /\ batch' \in [DOMAIN batch' -> Nat]
  <2>1. DOMAIN ready \subseteq Commands /\ \A c \in DOMAIN ready : ready[c] \in Nat
    BY StateFacts, Zenon DEF TaskInv
  <2>2. \A c \in group : ready[c] \in Nat
    BY <1>4, <2>1
  <2>3. QED
    BY <1>4, <1>5, <2>1, <2>2, Zenon
<1>8. /\ DOMAIN batch = {} /\ calling = << >> /\ replies = << >>
      /\ Elements(calling) = {} /\ Elements(replies) = {} /\ Elements(called) \subseteq Elements(answered)
  BY <1>1, EmptyHands
<1>9. /\ Apart(Elements(urgent), Elements(ordinary), DOMAIN ready, DOMAIN batch,
               Elements(calling), Elements(replies), Elements(answered), submitted \ refused)
      /\ Once(urgent) /\ Once(ordinary) /\ Once(calling) /\ Once(replies) /\ Once(answered) /\ Once(called)
  BY PlaceFacts
<1>10. EachAnsweredOnce'
  <2>1. Apart(Elements(urgent), Elements(ordinary), DOMAIN ready', DOMAIN batch',
              Elements(calling), Elements(replies), Elements(answered), submitted \ refused)
    BY <1>4, <1>6, <1>7, <1>8, <1>9, Zenon DEF Apart
  <2>2. QED
    BY <1>1, <1>9, <2>1, NextPlacesApart, ZenonT(30)
<1>11. Lanes'
  BY <1>1, Zenon DEF TaskInv, Lanes, Taken
<1>12. Placed'
  <2>1. ASSUME NEW c \in group, NEW s \in DOMAIN ready' PROVE ~Names(c, s)
    <3>1. s \in DOMAIN ready /\ ~Depends(c)
      BY <1>4, <1>6
    <3>2. QED
      BY <3>1 DEF Depends, QueuedSends, Names
  <2>2. DOMAIN batch' \cup Elements(calling') = group
    BY <1>1, <1>7, <1>8, Zenon
  <2>3. QED
    BY <1>1, <1>4, <2>1, <2>2 DEF Placed
<1>13. Stages'
  BY <1>1, <1>8, Zenon DEF Stages
<1>14. TypeOK'
  BY <1>1, <1>6, <1>7 DEF TaskInv, TypeOK
<1>15. QED
  BY <1>6, <1>10, <1>11, <1>12, <1>13, <1>14, Zenon DEF TaskInv

-----------------------------------------------------------------------------
(* The invariant. *)

\* The task starts with nothing to do.
LEMMA InitTaskInv == Init => TaskInv
<1> SUFFICES ASSUME Init PROVE TaskInv
  OBVIOUS
<1>1. /\ submitted = {} /\ refused = {} /\ lapsed = {} /\ urgent = << >> /\ ordinary = << >>
      /\ arrivals = 0 /\ pc = "urgent" /\ calling = << >> /\ replies = << >> /\ completions = << >>
      /\ answered = << >> /\ called = << >> /\ gauge = 0 /\ throttled = {} /\ throttles = 0 /\ closed = FALSE
      /\ DOMAIN ready = {} /\ DOMAIN batch = {} /\ ready \in [DOMAIN ready -> Nat] /\ batch \in [DOMAIN batch -> Nat]
  BY DEF Init, NoArrivals
<1>2. << >> \in Seq(Commands) /\ Elements(<< >>) = {} /\ Once(<< >>) /\ Len(<< >>) = 0 /\ DOMAIN << >> = {}
  BY EmptyQueue
<1>3. OrdinaryReady = 0
  <2>1. {c \in DOMAIN ready : ~Urgent(c)} = {}
    BY <1>1
  <2>2. QED
    BY <2>1, FS_EmptySet DEF OrdinaryReady
<1>4. TypeOK
  <2>1. /\ 0 <= UrgentCapacity /\ 0 <= CommandCapacity /\ 0 <= ReadyCapacity /\ 0 <= CompletionCapacity
    BY ConstantFacts
  <2>2. {urgent, ordinary, calling, replies, completions, answered, called} \subseteq Seq(Commands)
    BY <1>1, <1>2
  <2>3. /\ Len(urgent) <= UrgentCapacity /\ Len(ordinary) <= CommandCapacity
        /\ OrdinaryReady <= ReadyCapacity /\ Len(completions) <= CompletionCapacity
    BY <1>1, <1>2, <1>3, <2>1
  <2>4. /\ submitted \subseteq Commands /\ refused \subseteq submitted /\ lapsed \subseteq Authorised
        /\ DOMAIN ready \subseteq Commands /\ DOMAIN batch \subseteq Commands /\ throttled \subseteq Shapes
    BY <1>1
  <2>5. throttles \in Nat /\ arrivals \in Nat /\ gauge \in 0..4
    BY <1>1
  <2>6. closed \in BOOLEAN
    BY <1>1, Zenon
  <2>7. pc \in {"urgent", "ordinary", "pick", "held", "refusing", "amending", "calling", "replying", "stopped"}
    BY <1>1
  <2>8. ready \in [DOMAIN ready -> Nat] /\ batch \in [DOMAIN batch -> Nat]
    BY <1>1
  <2>9. QED
    BY <2>2, <2>3, <2>4, <2>5, <2>6, <2>7, <2>8 DEF TypeOK
<1>5. EachAnsweredOnce
  <2>1. /\ Apart(Elements(urgent), Elements(ordinary), DOMAIN ready, DOMAIN batch,
                 Elements(calling), Elements(replies), Elements(answered), submitted \ refused)
        /\ Once(urgent) /\ Once(ordinary) /\ Once(calling) /\ Once(replies) /\ Once(answered) /\ Once(called)
    BY <1>1, <1>2 DEF Apart
  <2>2. QED
    BY <2>1, PlacesApart, Zenon
<1>6. Stages /\ Placed
  BY <1>1, <1>2 DEF Stages, Placed
<1>7. Arrivals
  BY <1>1, FS_EmptySet DEF Arrivals
<1>8. Lanes
  BY <1>1, <1>2 DEF Lanes, InOrder, Taken
<1>9. QED
  BY <1>4, <1>5, <1>6, <1>7, <1>8 DEF TaskInv

\* Every step keeps it.
LEMMA NextTaskInv == TaskInv /\ [Next]_vars => TaskInv'
<1> SUFFICES ASSUME TaskInv, [Next]_vars PROVE TaskInv'
  OBVIOUS
<1>1. CASE UNCHANGED vars
  <2>1. OrdinaryReady' = OrdinaryReady
    BY <1>1, Zenon DEF OrdinaryReady, vars
  <2>2. TypeOK' /\ Placed'
    BY <1>1, <2>1 DEF TaskInv, TypeOK, Placed, vars
  <2>3. EachAnsweredOnce' /\ Stages' /\ Arrivals' /\ Lanes'
    <3>1. EachAnsweredOnce'
      BY <1>1, SamePlaces, Zenon DEF TaskInv, vars
    <3>2. Stages' /\ Arrivals'
      BY <1>1, Zenon DEF TaskInv, Stages, Arrivals, vars
    <3>3. Lanes'
      BY <1>1 DEF TaskInv, Lanes, Taken, vars
    <3>4. QED
      BY <3>1, <3>2, <3>3
  <2>4. QED
    BY <2>2, <2>3 DEF TaskInv
<1>2. CASE Task
  BY <1>2, DrainUrgentStep, DrainOrdinaryStep, TurnStep, DispatchStep, TakeAmendsStep, CheckAmendStep,
     CallAmendsStep, CallReturnsStep, ReplyStep
  DEF Task
<1>3. ASSUME NEW c \in Commands, Submit(c) PROVE TaskInv'
  BY <1>3, SubmitStep
<1>4. CASE \/ Advance \/ TakeCompletion \/ Close
           \/ \E c \in Commands : Expire(c)
           \/ \E s \in Shapes : Throttle(s) \/ Replenish(s)
  BY <1>4, QuietStep
<1>5. QED
  BY <1>1, <1>2, <1>3, <1>4 DEF Next

\* In every behaviour, whatever the interleaving of submissions, expiries, quota and the engine's
\* end, the task's state is consistent: capacities respected, every command in one place, lanes in
\* order, hands empty between turns.
THEOREM TaskInvariant == Spec => []TaskInv
<1>1. QED
  BY InitTaskInv, NextTaskInv, PTL DEF Spec

\* Every command the client took is in exactly one place from its mailbox to its answer, and none
\* is called or answered twice.
THEOREM AnsweredExactlyOnce == Spec => []EachAnsweredOnce
<1>1. TaskInv => EachAnsweredOnce
  BY DEF TaskInv
<1>2. QED
  BY <1>1, TaskInvariant, PTL

-----------------------------------------------------------------------------
(* The order of the calls. *)

\* Only a pick takes commands out of the ready set.
LEMMA OnlyPicksRemove ==
  ASSUME TaskInv, [Next]_vars, ~Dispatch, ~TakeAmends
  PROVE  DOMAIN ready \subseteq DOMAIN ready'
<1> USE DEF engineVars, taskVars, readyVars, quotaVars
<1>1. CASE ready' = ready
  BY <1>1
<1>2. ASSUME NEW c, Take(c) PROVE DOMAIN ready \subseteq DOMAIN ready'
  BY <1>2 DEF Take
<1>3. CASE DrainUrgent
  BY <1>1, <1>2, <1>3 DEF DrainUrgent
<1>4. CASE DrainOrdinary
  BY <1>1, <1>2, <1>4 DEF DrainOrdinary
<1>5. CASE UNCHANGED vars \/ Idle \/ Hold \/ Wake \/ CheckAmend \/ CallAmends \/ CallReturns \/ Reply \/ EndTurn
  <2>1. ready' = ready
    BY <1>5, Zenon DEF vars, Idle, Hold, Wake, CheckAmend, CallAmends, CallReturns, Reply, EndTurn
  <2>2. QED
    BY <2>1, Zenon
<1>6. ASSUME NEW c \in Commands, Submit(c) PROVE DOMAIN ready \subseteq DOMAIN ready'
  BY <1>6 DEF Submit
<1>7. CASE \/ Advance \/ TakeCompletion \/ Close
           \/ \E c \in Commands : Expire(c)
           \/ \E s \in Shapes : Throttle(s) \/ Replenish(s)
  <2>1. ready' = ready
    BY <1>7 DEF Advance, TakeCompletion, Close, Expire, Throttle, Replenish
  <2>2. QED
    BY <2>1, Zenon
<1>8. QED
  BY <1>3, <1>4, <1>5, <1>6, <1>7, Zenon DEF Next, Task

\* A pick takes the chosen command, or a group of amends around it.
LEMMA PickTakes ==
  ASSUME TaskInv, Dispatch \/ TakeAmends, NEW c \in DOMAIN ready \ DOMAIN ready'
  PROVE  DOMAIN ready # {} /\ (c = Chosen \/ (Kind[Chosen] = "amend" /\ Kind[c] = "amend"))
<1>1. \A d \in DOMAIN ready : ready[d] \in Nat
  BY StateFacts DEF TaskInv
<1>2. CASE Dispatch
  <2>1. ready' = Without(ready, {Chosen})
    BY <1>2, Zenon DEF Dispatch
  <2>2. DOMAIN ready' = DOMAIN ready \ {Chosen}
    BY <2>1 DEF Without
  <2>3. c = Chosen
    BY <2>2, Zenon
  <2>4. QED
    BY <2>3, Zenon
<1>3. CASE TakeAmends
  <2>1. PICK behind \in SUBSET Joiners : ready' = Without(ready, behind \cup {Chosen})
    BY <1>3, Zenon DEF TakeAmends
  <2>2. DOMAIN ready' = DOMAIN ready \ (behind \cup {Chosen})
    BY <2>1, Zenon DEF Without
  <2>3. \A d \in behind : Kind[d] = "amend"
    BY <2>1 DEF Joiners, Amendable
  <2>4. DOMAIN ready # {} /\ Kind[Chosen] = "amend"
    BY <1>3, Zenon DEF TakeAmends
  <2>5. c = Chosen \/ c \in behind
    BY <2>2, Zenon
  <2>6. QED
    BY <2>3, <2>4, <2>5, Zenon
<1>4. QED
  BY <1>2, <1>3, Zenon

\* A command leaves the ready set only when no other that the quota would take, and that is not
\* behind its own queued placement, is of a more urgent class or an earlier one of its class.
THEOREM UrgentGoFirst == Spec => UrgentFirst
<1> DEFINE A == \A c \in DOMAIN ready \ DOMAIN ready', d \in DOMAIN ready \cap DOMAIN ready' :
                  ~Waits(d) /\ ~Depends(d) =>
                    \/ Class[c] < Class[d]
                    \/ Class[c] = Class[d] /\ (ready[c] < ready[d] \/ Kind[c] = "amend")
<1>1. TaskInv /\ [Next]_vars => [A]_vars
  <2> SUFFICES ASSUME TaskInv, [Next]_vars,
                      NEW c \in DOMAIN ready \ DOMAIN ready', NEW d \in DOMAIN ready \cap DOMAIN ready',
                      ~Waits(d), ~Depends(d)
               PROVE  \/ Class[c] < Class[d]
                      \/ Class[c] = Class[d] /\ (ready[c] < ready[d] \/ Kind[c] = "amend")
    OBVIOUS
  <2>1. Dispatch \/ TakeAmends
    BY OnlyPicksRemove
  <2>2. DOMAIN ready # {} /\ (c = Chosen \/ (Kind[Chosen] = "amend" /\ Kind[c] = "amend"))
    BY <2>1, PickTakes, Zenon
  <2>3. /\ Chosen \in Commands /\ Chosen \in DOMAIN ready
        /\ \/ Over(Chosen) < Over(d)
           \/ Over(Chosen) = Over(d) /\ Class[Chosen] < Class[d]
           \/ Over(Chosen) = Over(d) /\ Class[Chosen] = Class[d] /\ ready[Chosen] <= ready[d]
    BY <2>2, ChosenFacts
  <2>4. Over(d) = 0 /\ Over(Chosen) \in {0, 1}
    BY Zenon DEF Over
  <2>5. /\ c \in Commands /\ d \in Commands /\ ready[c] \in Nat /\ ready[d] \in Nat
    BY StateFacts, Zenon DEF TaskInv
  <2>6. Class[Chosen] < Class[d] \/ (Class[Chosen] = Class[d] /\ ready[Chosen] <= ready[d])
    BY <2>3, <2>4
  <2>7. Class[c] = Class[Chosen]
    <3>1. Kind[Chosen] = "amend" /\ Kind[c] = "amend" => Class[c] = 2 /\ Class[Chosen] = 2
      BY <2>3, <2>5, TaskAssumption, Zenon
    <3>2. QED
      BY <2>2, <3>1, Zenon
  <2>8. CASE Kind[c] = "amend"
    BY <2>6, <2>7, <2>8, Zenon
  <2>9. CASE c = Chosen
    <3>1. ready[c] # ready[d]
      BY Zenon DEF TaskInv, Arrivals
    <3>2. QED
      BY <2>5, <2>6, <2>9, <3>1
  <2>10. QED
    BY <2>2, <2>8, <2>9, Zenon
<1>2. QED
  BY <1>1, TaskInvariant, PTL DEF Spec, UrgentFirst

\* A call is made at the pick, or for the group of amends in hand.
LEMMA WhoIsCalled ==
  ASSUME TaskInv, [Next]_vars, NEW c \in Elements(called') \ Elements(called)
  PROVE  \/ pc = "pick" /\ c \in DOMAIN ready /\ ~Depends(c) /\ Kind[c] # "amend"
         \/ pc = "amending" /\ c \in Elements(calling) /\ DOMAIN batch = {} /\ replies = << >>
<1> USE DEF engineVars, taskVars, readyVars, quotaVars
<1>1. called' # called
  OBVIOUS
<1>2. Dispatch \/ CallAmends
  <2>1. ASSUME NEW x \in Commands, Submit(x) PROVE called' = called
    BY <2>1, Zenon DEF Submit
  <2>2. CASE \/ Advance \/ TakeCompletion \/ Close
             \/ \E x \in Commands : Expire(x)
             \/ \E s \in Shapes : Throttle(s) \/ Replenish(s)
    BY <1>1, <2>2 DEF Advance, TakeCompletion, Close, Expire, Throttle, Replenish
  <2>3. CASE UNCHANGED vars \/ DrainUrgent \/ DrainOrdinary \/ Idle \/ Hold \/ Wake \/ TakeAmends \/ CheckAmend
               \/ CallReturns \/ Reply \/ EndTurn
    BY <1>1, <2>3, Zenon
    DEF vars, DrainUrgent, DrainOrdinary, Idle, Hold, Wake, TakeAmends, CheckAmend, CallReturns, Reply, EndTurn
  <2>4. QED
    BY <1>1, <2>1, <2>2, <2>3 DEF Next, Task
<1>3. called \in Seq(Commands) /\ calling \in Seq(Commands)
  BY StateFacts, Zenon DEF TaskInv
<1>4. CASE Dispatch
  <2>1. /\ pc = "pick" /\ DOMAIN ready # {} /\ Kind[Chosen] # "amend"
        /\ called' = called \/ called' = Append(called, Chosen)
    BY <1>4, ZenonT(30) DEF Dispatch
  <2>2. Chosen \in DOMAIN ready /\ Chosen \in Commands /\ ~Depends(Chosen)
    BY <2>1, ChosenFacts
  <2>3. called' = Append(called, Chosen)
    BY <1>1, <2>1, SMTT(30)
  <2>4. Elements(called') = Elements(called) \cup {Chosen}
    BY <1>3, <2>2, <2>3, JoinQueue, ZenonT(30)
  <2>5. c = Chosen
    BY <2>4
  <2>6. QED
    BY <2>1, <2>2, <2>5
<1>5. CASE CallAmends
  <2>1. /\ pc = "amending" /\ replies = << >> /\ DOMAIN batch = {}
        /\ called' = called \/ called' = called \o calling
    BY <1>5 DEF CallAmends
  <2>2. called' = called \o calling
    BY <1>1, <2>1
  <2>3. Elements(called') = Elements(called) \cup Elements(calling)
    BY <1>3, <2>2, JoinedQueues, Zenon
  <2>4. QED
    BY <2>1, <2>3
<1>6. QED
  BY <1>2, <1>4, <1>5

\* A cancel or an amend is called only after the placement it names was called, or was answered
\* without a call, save for a placement still in a mailbox: one the full ready set kept out, and a
\* reducing one whose amend came through the ordinary mailbox behind it.
THEOREM CancelsFollowPlacements == Spec => CancelAfterItsSend
<1> DEFINE settled == UNION {Elements(called), Elements(answered), Elements(replies)}
           A == \A c \in Elements(called') \ Elements(called), s \in (submitted \ refused) \ settled :
                  Names(c, s) =>
                    \/ s \in Elements(ordinary) /\ OrdinaryReady >= ReadyCapacity
                    \/ s \in Elements(urgent) /\ Kind[c] = "amend"
<1>1. TaskInv /\ [Next]_vars => [A]_vars
  <2> SUFFICES ASSUME TaskInv, [Next]_vars,
                      NEW c \in Elements(called') \ Elements(called), NEW s \in (submitted \ refused) \ settled,
                      Names(c, s)
               PROVE  \/ s \in Elements(ordinary) /\ OrdinaryReady >= ReadyCapacity
                      \/ s \in Elements(urgent) /\ Kind[c] = "amend"
    OBVIOUS
  <2>1. s \notin Elements(called) /\ s \notin Elements(answered) /\ s \notin Elements(replies)
        /\ s \in submitted \ refused
    BY DEF settled
  <2> HIDE DEF settled
  <2>2. Apart(Elements(urgent), Elements(ordinary), DOMAIN ready, DOMAIN batch,
              Elements(calling), Elements(replies), Elements(answered), submitted \ refused)
    BY PlaceFacts
  <2>3. \/ s \in Elements(urgent) \/ s \in Elements(ordinary) \/ s \in DOMAIN ready
        \/ s \in DOMAIN batch \/ s \in Elements(calling)
    BY <2>1, <2>2, Zenon DEF Apart
  <2>4. /\ InOrder(urgent, {x \in Taken : Urgent(x)}) /\ InOrder(ordinary, {x \in Taken : ~Urgent(x)})
    BY DEF TaskInv, Lanes
  <2>5. Kind[s] = "send" /\ Kind[c] \in {"cancel", "amend"}
    BY DEF Names
  <2>6. CASE pc = "pick" /\ c \in DOMAIN ready /\ ~Depends(c) /\ Kind[c] # "amend"
    <3>1. c \in Taken /\ c \notin Elements(urgent) /\ c \in Commands
      BY <2>2, <2>6, StateFacts, Zenon DEF Apart, Taken, TaskInv
    <3>2. Urgent(c)
      BY <2>5, <2>6, <3>1, TaskAssumption, Zenon DEF Urgent
    <3>3. s \notin Elements(urgent)
      BY <2>4, <3>1, <3>2, Zenon DEF InOrder
    <3>4. s \notin DOMAIN ready
      BY <2>5, <2>6, Zenon DEF Depends, QueuedSends, Names
    <3>5. s \notin DOMAIN batch /\ s \notin Elements(calling)
      BY <2>6, EmptyHands
    <3>6. s \in Elements(ordinary)
      BY <2>3, <3>3, <3>4, <3>5, Zenon
    <3>7. OrdinaryReady >= ReadyCapacity
      BY <2>6, <3>6, Zenon DEF TaskInv, Placed
    <3>8. QED
      BY <3>6, <3>7
  <2>7. CASE pc = "amending" /\ c \in Elements(calling) /\ DOMAIN batch = {}
    <3>1. c \in Taken /\ c \notin Elements(ordinary) /\ c \in Commands
      <4>1. c \in Taken /\ c \notin Elements(ordinary)
        BY <2>2, <2>7, Zenon DEF Apart, Taken
      <4>2. QED
        BY <4>1, StateFacts DEF Taken, TaskInv
    <3>2. Kind[c] = "amend" /\ \A x \in DOMAIN ready : ~Names(c, x)
      BY <2>7 DEF TaskInv, Placed
    <3>3. ~Urgent(c)
      <4>1. Class[c] = 2
        BY <3>1, <3>2, TaskAssumption, Zenon
      <4>2. QED
        BY <4>1, SMTT(30) DEF Urgent
    <3>4. s \notin Elements(ordinary)
      BY <2>4, <3>1, <3>3 DEF InOrder
    <3>5. s \notin Elements(calling)
      <4>1. \A x \in Elements(calling) : Kind[x] = "amend"
        BY <2>7 DEF TaskInv, Placed
      <4>2. QED
        BY <2>5, <4>1, Zenon
    <3>6. QED
      BY <2>3, <2>7, <3>2, <3>4, <3>5, Zenon
  <2>8. QED
    BY <2>6, <2>7, WhoIsCalled
<1>2. QED
  BY <1>1, TaskInvariant, PTL DEF Spec, CancelAfterItsSend

=============================================================================
