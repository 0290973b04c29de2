------------------------- MODULE FillRecoveryProofs -------------------------
(***************************************************************************)
(* What fill recovery keeps on disk, for any orders and quantities and any *)
(* number of gaps, failed reads and crashes.                               *)
(***************************************************************************)
EXTENDS FillRecovery, FiniteSetTheorems, TLAPS

\* A state the log may be read back as: an execution is counted at most once, exactly when its
\* id is kept, an order is filled by as many as are kept of it, and the boundary passes none
\* that is missing.
GoodLog(l) ==
  /\ l \in [n : [Execs -> {0, 1}], ids : SUBSET Execs, filled : [Orders -> Nat], sent : SUBSET Orders,
            live : SUBSET Orders, until : Nat, open : BOOLEAN]
  /\ \A e \in Execs : l.n[e] = 1 <=> e \in l.ids
  /\ \A o \in Orders : l.filled[o] = Cardinality(ExecsOf(o) \cap l.ids)
  /\ l.until <= Len(trades)
  /\ \A i \in 1..l.until : trades[i] \in l.ids

\* Each order's executions are its first ones, and a working order has some left.
TradesInOrder ==
  /\ trades \in Seq(Execs)
  /\ \A o \in Orders : \E m \in 0..Qty[o] :
       /\ ExecsOf(o) \cap Executed = {<<o, j>> : j \in 1..m}
       /\ o \notin closed => m < Qty[o]

Fields == {"phase", "hist", "upto", "through", "current", "stale", "before", "account", "seen", "rows",
           "proven", "after"}
IsQuery(q) == q = [x \in Fields |-> q[x]]

\* What the reads under way returned, and what the log holds, leave out no execution up to the
\* boundary that the batch may set.
QueryFits(q, l) ==
  /\ IsQuery(q) /\ q.rows \subseteq Execs /\ \A k \in q.after : GoodLog(k)
  /\ q.phase = "reading" /\ q.hist =>
       /\ q.through \in Nat /\ q.upto \in Nat
       /\ l.until <= q.through /\ q.through <= q.upto /\ q.upto <= Len(trades)
  /\ q.phase = "applying" =>
       /\ q.through \in Nat /\ l.until <= q.through /\ q.through <= Len(trades)
       /\ \A i \in (l.until + 1)..q.through : trades[i] \in l.ids \cup q.rows

RecoveryInv ==
  /\ TradesInOrder
  /\ GoodLog(log) /\ \A l \in past : GoodLog(l)
  /\ QueryFits(query, log)
  /\ stage # "run" => query.phase = "idle"

-----------------------------------------------------------------------------
(* Executions. *)

\* An execution is its order and its place among the order's executions.
LEMMA ExecFacts ==
  /\ \A o \in Orders : \A k \in 1..Qty[o] : <<o, k>> \in Execs
  /\ \A o \in Orders : ExecsOf(o) = {<<o, k>> : k \in 1..Qty[o]}
<1>1. \A o \in Orders : {o} \X (1..Qty[o]) = {<<o, k>> : k \in 1..Qty[o]}
  OBVIOUS
<1>2. \A o \in Orders : \A k \in 1..Qty[o] : <<o, k>> \in Execs
  BY <1>1 DEF Execs
<1>3. ASSUME NEW o \in Orders PROVE ExecsOf(o) = {<<o, k>> : k \in 1..Qty[o]}
  <2>1. ASSUME NEW e \in ExecsOf(o) PROVE e \in {<<o, k>> : k \in 1..Qty[o]}
    <3>1. e[1] = o
      BY DEF ExecsOf
    <3>2. PICK p \in Orders : e \in {p} \X (1..Qty[p])
      BY DEF ExecsOf, Execs
    <3>3. p = o
      BY <3>1, <3>2
    <3> QED
      BY <1>1, <3>2, <3>3
  <2>2. ASSUME NEW k \in 1..Qty[o] PROVE <<o, k>> \in ExecsOf(o)
    BY <1>2 DEF ExecsOf
  <2> QED
    BY <2>1, <2>2
<1> QED
  BY <1>2, <1>3

\* The first m executions of an order are m executions.
LEMMA FirstAreSoMany ==
  ASSUME NEW o, NEW m \in Nat
  PROVE  IsFiniteSet({<<o, j>> : j \in 1..m}) /\ Cardinality({<<o, j>> : j \in 1..m}) = m
<1> DEFINE T == {<<o, j>> : j \in 1..m}
           f == [j \in 1..m |-> <<o, j>>]
<1>1. f \in Bijection(1..m, T)
  <2>1. f \in [1..m -> T]
    OBVIOUS
  <2>2. \A a, b \in 1..m : f[a] = f[b] => a = b
    OBVIOUS
  <2>3. \A t \in T : \E j \in 1..m : f[j] = t
    OBVIOUS
  <2> QED
    BY <2>1, <2>2, <2>3 DEF Bijection, Injection, Surjection, IsInjective
<1>2. ExistsBijection(1..m, T)
  BY <1>1 DEF ExistsBijection
<1>3. IsFiniteSet(1..m) /\ Cardinality(1..m) = m
  BY FS_Interval
<1> QED
  BY <1>2, <1>3, FS_Bijection

\* An order has as many executions as its quantity.
LEMMA FiniteExecs ==
  ASSUME NEW o \in Orders
  PROVE  IsFiniteSet(ExecsOf(o)) /\ Cardinality(ExecsOf(o)) = Qty[o]
<1>1. Qty[o] \in Nat
  BY RecoveryAssumption
<1>2. ExecsOf(o) = {<<o, j>> : j \in 1..Qty[o]}
  BY ExecFacts
<1> QED
  BY <1>1, <1>2, FirstAreSoMany, Zenon

-----------------------------------------------------------------------------
(* The books. *)

WithCounts(l, f, i, g) ==
  [n |-> f, ids |-> i, filled |-> g, sent |-> l.sent, live |-> l.live, until |-> l.until, open |-> l.open]
IsLog(l) == l = WithCounts(l, l.n, l.ids, l.filled)

\* The three counts of a log are updated at once.
LEMMA CountsUpdated ==
  ASSUME NEW l, IsLog(l), NEW f, NEW i, NEW g, NEW c, c = [l EXCEPT !.n = f, !.ids = i, !.filled = g]
  PROVE  c = WithCounts(l, f, i, g)
<1>1. DOMAIN l = {"n", "ids", "filled", "sent", "live", "until", "open"}
  BY DEF IsLog, WithCounts
<1>2. DOMAIN c = DOMAIN l
  OBVIOUS
<1>3. \A x \in DOMAIN l : c[x] = IF x = "filled" THEN g ELSE IF x = "ids" THEN i ELSE IF x = "n" THEN f ELSE l[x]
  BY <1>1, Zenon
<1>4. c = [x \in DOMAIN l |-> c[x]]
  BY <1>2, Zenon
<1>5. /\ c.n = f /\ c.ids = i /\ c.filled = g /\ c.sent = l.sent /\ c.live = l.live /\ c.until = l.until
      /\ c.open = l.open
  BY <1>1, <1>3
<1>6. c = [n |-> f, ids |-> i, filled |-> g, sent |-> l.sent, live |-> l.live, until |-> l.until, open |-> l.open]
  BY <1>1, <1>4, <1>5, Zenon
<1> QED
  BY <1>6, Zenon DEF WithCounts

\* Executions not yet known are counted once.
LEMMA CountedGood ==
  ASSUME NEW l, GoodLog(l), NEW R \in SUBSET Execs, R \cap l.ids = {}
  PROVE  /\ GoodLog(Counted(l, R))
         /\ Counted(l, R).ids = l.ids \cup R /\ Counted(l, R).until = l.until
         /\ Counted(l, R).sent = l.sent
         /\ Counted(l, R).live =
              {o \in l.live : ExecsOf(o) \cap R # {} => Cardinality(ExecsOf(o) \cap (l.ids \cup R)) < Qty[o]}
<1> DEFINE f == [e \in Execs |-> IF e \in R THEN l.n[e] + 1 ELSE l.n[e]]
           g == [o \in Orders |-> l.filled[o] + Cardinality(ExecsOf(o) \cap R)]
           c == [l EXCEPT !.n = f, !.ids = l.ids \cup R, !.filled = g]
           live == {o \in c.live : ExecsOf(o) \cap R # {} => c.filled[o] < Qty[o]}
<1>0. IsLog(l)
  BY DEF GoodLog, IsLog, WithCounts
<1>1. Counted(l, R) = [c EXCEPT !.live = live]
  BY <1>0, Zenon DEF Counted
<1>2. f \in [Execs -> {0, 1}] /\ \A e \in Execs : f[e] = 1 <=> e \in l.ids \cup R
  BY DEF GoodLog
<1>3. ASSUME NEW o \in Orders
      PROVE  g[o] \in Nat /\ g[o] = Cardinality(ExecsOf(o) \cap (l.ids \cup R))
  <2> DEFINE A == ExecsOf(o) \cap l.ids
             B == ExecsOf(o) \cap R
  <2>1. IsFiniteSet(A) /\ IsFiniteSet(B)
    <3>1. IsFiniteSet(ExecsOf(o))
      BY FiniteExecs
    <3> QED
      BY <3>1, FS_Subset
  <2>2. A \cap B = {} /\ ExecsOf(o) \cap (l.ids \cup R) = A \cup B
    OBVIOUS
  <2>3. l.filled[o] = Cardinality(A)
    BY Zenon DEF GoodLog
  <2>4. g[o] = Cardinality(A) + Cardinality(B)
    BY <2>3
  <2> HIDE DEF A, B, g
  <2>5. Cardinality(A) \in Nat /\ Cardinality(B) \in Nat /\ Cardinality(A \cap B) = 0
    BY <2>1, <2>2, FS_CardinalityType, FS_EmptySet, Zenon
  <2>6. Cardinality(A \cup B) = Cardinality(A) + Cardinality(B) - Cardinality(A \cap B)
    BY <2>1, FS_Union
  <2>7. Cardinality(A \cup B) = Cardinality(A) + Cardinality(B)
    BY <2>5, <2>6
  <2>8. g[o] \in Nat
    BY <2>4, <2>5
  <2> QED
    BY <2>2, <2>4, <2>7, <2>8, Zenon
<1>4. g \in [Orders -> Nat]
  BY <1>3, Zenon
<1> HIDE DEF f, g
<1>5. /\ c = [n |-> f, ids |-> l.ids \cup R, filled |-> g, sent |-> l.sent, live |-> l.live,
              until |-> l.until, open |-> l.open]
      /\ c.live = l.live /\ c.filled = g
  <2>1. c = [l EXCEPT !.n = f, !.ids = l.ids \cup R, !.filled = g]
    OBVIOUS
  <2> HIDE DEF c, live
  <2>2. c = WithCounts(l, f, l.ids \cup R, g)
    BY <1>0, <2>1, CountsUpdated, Zenon
  <2> QED
    BY <2>2 DEF WithCounts
<1>6. live = {o \in l.live : ExecsOf(o) \cap R # {} => g[o] < Qty[o]}
  BY <1>5, Zenon
<1> HIDE DEF c, live
<1>7. live \in SUBSET Orders
  BY <1>6 DEF GoodLog
<1>8. Counted(l, R) = [n |-> f, ids |-> l.ids \cup R, filled |-> g, sent |-> l.sent, live |-> live,
                       until |-> l.until, open |-> l.open]
  BY <1>1, <1>5
<1>9. live = {o \in l.live : ExecsOf(o) \cap R # {} => Cardinality(ExecsOf(o) \cap (l.ids \cup R)) < Qty[o]}
  BY <1>3, <1>6 DEF GoodLog
<1>10. /\ Counted(l, R).n = f /\ Counted(l, R).ids = l.ids \cup R /\ Counted(l, R).filled = g
       /\ Counted(l, R).sent = l.sent /\ Counted(l, R).live = live /\ Counted(l, R).until = l.until
  BY <1>8
<1>11. GoodLog(Counted(l, R))
  <2>1. Counted(l, R) \in [n : [Execs -> {0, 1}], ids : SUBSET Execs, filled : [Orders -> Nat],
                           sent : SUBSET Orders, live : SUBSET Orders, until : Nat, open : BOOLEAN]
    BY <1>2, <1>4, <1>7, <1>8 DEF GoodLog
  <2>2. \A o \in Orders : Counted(l, R).filled[o] = Cardinality(ExecsOf(o) \cap Counted(l, R).ids)
    BY <1>3, <1>10, Zenon
  <2>3. \A e \in Execs : Counted(l, R).n[e] = 1 <=> e \in Counted(l, R).ids
    BY <1>2, <1>10
  <2>4. l.until <= Len(trades) /\ \A i \in 1..l.until : trades[i] \in l.ids \cup R
    BY DEF GoodLog
  <2> QED
    BY <1>10, <2>1, <2>2, <2>3, <2>4, Zenon DEF GoodLog
<1> QED
  BY <1>9, <1>10, <1>11

\* Ending orders touches no execution.
LEMMA LiveGood ==
  ASSUME NEW l, GoodLog(l), NEW L \in SUBSET Orders
  PROVE  LET k == [l EXCEPT !.live = L] IN GoodLog(k) /\ k.ids = l.ids /\ k.until = l.until
  BY DEF GoodLog

\* Sending adds an order to those sent and in flight.
LEMMA SentGood ==
  ASSUME NEW l, GoodLog(l), NEW S \in SUBSET Orders, NEW L \in SUBSET Orders
  PROVE  LET k == [l EXCEPT !.sent = S, !.live = L] IN GoodLog(k) /\ k.ids = l.ids /\ k.until = l.until
  BY Zenon DEF GoodLog

\* Nor does the latch.
LEMMA OpenGood ==
  ASSUME NEW l, GoodLog(l), NEW b \in BOOLEAN
  PROVE  LET k == [l EXCEPT !.open = b] IN GoodLog(k) /\ k.ids = l.ids /\ k.until = l.until
  BY DEF GoodLog

\* A boundary may be set to where every execution is known.
LEMMA UntilGood ==
  ASSUME NEW l, GoodLog(l), NEW u \in Nat, u <= Len(trades), \A i \in 1..u : trades[i] \in l.ids
  PROVE  LET k == [l EXCEPT !.until = u] IN GoodLog(k) /\ k.ids = l.ids /\ k.until = u
  BY DEF GoodLog

-----------------------------------------------------------------------------
(* The venue. *)

\* What the venue appended before is where it was.
LEMMA TradesGrow ==
  ASSUME trades \in Seq(Execs), NEW e \in Execs, trades' = Append(trades, e)
  PROVE  /\ \A l : GoodLog(l) => GoodLog(l)'
         /\ \A q, l : QueryFits(q, l) /\ l.until \in Nat => QueryFits(q, l)'
<1>1. /\ Len(trades) \in Nat /\ Len(trades') = Len(trades) + 1
      /\ \A i \in 1..Len(trades) : trades'[i] = trades[i]
  OBVIOUS
<1>2. ASSUME NEW l, GoodLog(l) PROVE GoodLog(l)'
  <2>1. l.until \in Nat /\ l.until <= Len(trades')
    BY <1>1, <1>2 DEF GoodLog
  <2>2. \A i \in 1..l.until : trades'[i] \in l.ids
    BY <1>1, <1>2 DEF GoodLog
  <2> QED
    BY <1>2, <2>1, <2>2 DEF GoodLog, Execs, ExecsOf
<1>3. ASSUME NEW q, NEW l, QueryFits(q, l), l.until \in Nat PROVE QueryFits(q, l)'
  <2>1. IsQuery(q)' /\ q.rows \subseteq Execs /\ \A k \in q.after : GoodLog(k)'
    BY <1>2, <1>3, Zenon DEF QueryFits, IsQuery
  <2>2. ASSUME q.phase = "reading" /\ q.hist
        PROVE  /\ q.through \in Nat /\ q.upto \in Nat
               /\ l.until <= q.through /\ q.through <= q.upto /\ q.upto <= Len(trades')
    BY <1>1, <1>3, <2>2 DEF QueryFits
  <2>3. ASSUME q.phase = "applying"
        PROVE  /\ q.through \in Nat /\ l.until <= q.through /\ q.through <= Len(trades')
               /\ \A i \in (l.until + 1)..q.through : trades'[i] \in l.ids \cup q.rows
    BY <1>1, <1>3, <2>3 DEF QueryFits
  <2> QED
    BY <2>1, <2>2, <2>3, Zenon DEF QueryFits, Execs
<1> QED
  BY <1>2, <1>3

\* Nothing is executed and the log is empty.
LEMMA InitRecovery == Init => RecoveryInv
<1> SUFFICES ASSUME Init PROVE RecoveryInv
  OBVIOUS
<1>1. TradesInOrder
  <2>1. trades \in Seq(Execs) /\ Executed = {}
    BY DEF Init, Executed, Range
  <2>2. ASSUME NEW o \in Orders
        PROVE  /\ 0 \in 0..Qty[o] /\ 0 < Qty[o]
               /\ ExecsOf(o) \cap Executed = {<<o, j>> : j \in 1..0}
    <3>1. Qty[o] \in Nat \ {0}
      BY RecoveryAssumption
    <3> QED
      BY <2>1, <3>1
  <2> QED
    BY <2>1, <2>2 DEF TradesInOrder
<1>2. GoodLog(log)
  <2>1. log = FirstLog /\ trades = <<>>
    BY DEF Init
  <2>2. Cardinality({}) = 0
    BY FS_EmptySet
  <2>3. \A o \in Orders : log.filled[o] = Cardinality(ExecsOf(o) \cap log.ids)
    BY <2>1, <2>2 DEF FirstLog
  <2> QED
    BY <2>1, <2>3 DEF FirstLog, GoodLog
<1>3. QueryFits(query, log) /\ query.phase = "idle"
  BY DEF Init, QueryFits, IsQuery, Fields, IdleQuery
<1> QED
  BY <1>1, <1>2, <1>3 DEF RecoveryInv, Init

\* A trade is the next execution of a working order.
LEMMA TradeKeeps ==
  ASSUME RecoveryInv, NEW o \in Orders, Trade(o)
  PROVE  RecoveryInv'
<1> DEFINE k == Cardinality(ExecsOf(o) \cap Executed) + 1
<1>1. /\ o \notin closed /\ trades' = Append(trades, <<o, k>>)
      /\ closed' = IF k = Qty[o] THEN closed \cup {o} ELSE closed
      /\ UNCHANGED <<stage, log, past, query>>
  BY DEF Trade, engineVars
<1>2. PICK m \in 0..Qty[o] : /\ ExecsOf(o) \cap Executed = {<<o, j>> : j \in 1..m}
                             /\ o \notin closed => m < Qty[o]
  BY DEF RecoveryInv, TradesInOrder
<1>3. Qty[o] \in Nat
  BY RecoveryAssumption
<1>4. k = m + 1 /\ k \in 1..Qty[o]
  <2>1. m \in Nat
    BY <1>3
  <2>2. Cardinality(ExecsOf(o) \cap Executed) = m
    BY <1>2, <2>1, FirstAreSoMany, Zenon
  <2> QED
    BY <1>1, <1>2, <1>3, <2>1, <2>2, SMTT(30)
<1> HIDE DEF k
<1>5. <<o, k>> \in Execs
  BY <1>4, ExecFacts
<1>6. trades \in Seq(Execs) /\ trades' \in Seq(Execs) /\ Executed' = Executed \cup {<<o, k>>}
  <2>1. trades \in Seq(Execs)
    BY DEF RecoveryInv, TradesInOrder
  <2>2. /\ DOMAIN trades = 1..Len(trades) /\ DOMAIN trades' = 1..(Len(trades) + 1) /\ Len(trades) \in Nat
        /\ \A i \in 1..Len(trades) : trades'[i] = trades[i]
        /\ trades'[Len(trades) + 1] = <<o, k>>
    BY <1>1, <1>5, <2>1
  <2> QED
    BY <1>1, <1>5, <2>1, <2>2 DEF Executed, Range
<1>7. ASSUME NEW p \in Orders
      PROVE  \E x \in 0..Qty[p] : /\ ExecsOf(p) \cap Executed' = {<<p, j>> : j \in 1..x}
                                  /\ p \notin closed' => x < Qty[p]
  <2>1. CASE p # o
    <3>1. <<o, k>> \notin ExecsOf(p)
      BY <2>1 DEF ExecsOf
    <3>2. ExecsOf(p) \cap Executed' = ExecsOf(p) \cap Executed
      BY <1>6, <3>1
    <3>3. p \notin closed' => p \notin closed
      BY <1>1
    <3> QED
      BY <3>2, <3>3 DEF RecoveryInv, TradesInOrder
  <2>2. CASE p = o
    <3>1. ExecsOf(o) \cap Executed' = {<<o, j>> : j \in 1..m} \cup {<<o, k>>}
      BY <1>2, <1>5, <1>6, SMTT(30), Z3T(30) DEF ExecsOf
    <3>2. {<<o, j>> : j \in 1..m} \cup {<<o, k>>} = {<<o, j>> : j \in 1..k}
      BY <1>4
    <3>3. o \notin closed' => k < Qty[o]
      BY <1>1, <1>3, <1>4
    <3> QED
      BY <1>3, <1>4, <2>2, <3>1, <3>2, <3>3, SMTT(30)
  <2> QED
    BY <2>1, <2>2
<1>8. TradesInOrder'
  BY <1>6, <1>7 DEF TradesInOrder, ExecsOf, Execs
<1>9. /\ \A l : GoodLog(l) => GoodLog(l)'
      /\ \A q, l : QueryFits(q, l) /\ l.until \in Nat => QueryFits(q, l)'
  BY <1>1, <1>5, <1>6, TradesGrow, Zenon
<1>10. log.until \in Nat
  BY DEF RecoveryInv, GoodLog
<1> QED
  BY <1>1, <1>8, <1>9, <1>10, SMTT(30) DEF RecoveryInv

\* A read of the history returns executions, and all up to the pad.
LEMMA ReadsReach ==
  ASSUME trades \in Seq(Execs), NEW l, l.until \in Nat, NEW through \in Nat, NEW upto \in Nat,
         l.until <= through, through <= upto, upto <= Len(trades),
         NEW R \in HistoryReads(l, through, upto)
  PROVE  R \subseteq Execs /\ R \subseteq Executed /\ \A i \in (l.until + 1)..through : trades[i] \in R
<1> DEFINE a == l.until + 1
<1>1. a \in Nat /\ 1 <= a
  OBVIOUS
<1> HIDE DEF a
<1>2. ASSUME NEW b \in Nat, b <= Len(trades)
      PROVE  Range(SubSeq(trades, a, b)) = {trades[i] : i \in a..b}
  <2>1. CASE a > b
    BY <1>1, <1>2, <2>1 DEF Range
  <2>2. CASE a <= b
    <3>1. /\ DOMAIN SubSeq(trades, a, b) = 1..(b - a + 1)
          /\ \A j \in 1..(b - a + 1) : SubSeq(trades, a, b)[j] = trades[a + j - 1]
      BY <1>1, <1>2, <2>2
    <3>2. \A i \in a..b : i - a + 1 \in 1..(b - a + 1) /\ a + (i - a + 1) - 1 = i
      BY <1>1, <1>2
    <3>3. \A j \in 1..(b - a + 1) : a + j - 1 \in a..b
      BY <1>1, <1>2
    <3>4. Range(SubSeq(trades, a, b)) = {SubSeq(trades, a, b)[j] : j \in 1..(b - a + 1)}
      BY <3>1 DEF Range
    <3>5. ASSUME NEW j \in 1..(b - a + 1) PROVE SubSeq(trades, a, b)[j] \in {trades[i] : i \in a..b}
      BY <3>1, <3>3, Zenon
    <3>6. ASSUME NEW i \in a..b PROVE trades[i] \in {SubSeq(trades, a, b)[j] : j \in 1..(b - a + 1)}
      <4>1. SubSeq(trades, a, b)[i - a + 1] = trades[i]
        BY <3>1, <3>2, Zenon
      <4> QED
        BY <3>2, <4>1, Zenon
    <3> QED
      BY <3>4, <3>5, <3>6, Zenon
  <2> QED
    BY <1>1, <2>1, <2>2
<1>3. \A i \in a..upto : trades[i] \in Execs
  BY <1>1
<1>4. R \subseteq {trades[i] : i \in a..upto} /\ {trades[i] : i \in a..through} \subseteq R
  BY <1>2 DEF HistoryReads, a
<1>5. \A i \in a..upto : trades[i] \in Executed
  BY <1>1 DEF Executed, Range
<1> QED
  BY <1>3, <1>4, <1>5 DEF a

-----------------------------------------------------------------------------
(* The recovery phase. *)

\* The parts of a phase can be updated on their own.
LEMMA QueryParts ==
  ASSUME NEW q, IsQuery(q), NEW v, NEW w
  PROVE  /\ IsQuery([q EXCEPT !.after = v]) /\ IsQuery([q EXCEPT !.hist = v]) /\ IsQuery([q EXCEPT !.proven = v])
         /\ IsQuery([q EXCEPT !.stale = v, !.before = w]) /\ IsQuery([q EXCEPT !.current = v, !.before = w])
  BY Zenon DEF IsQuery

\* A phase that reads nothing asks nothing of the log.
LEMMA IdleFits ==
  ASSUME NEW l
  PROVE  QueryFits(IdleQuery, l)
  BY DEF QueryFits, IsQuery, Fields, IdleQuery

\* Marking a phase stale or superseded keeps what it read.
LEMMA MarkedFits ==
  ASSUME NEW q, NEW l, QueryFits(q, l)
  PROVE  /\ QueryFits(Stale(q), l) /\ Stale(q).phase = q.phase
         /\ QueryFits(Superseded(q), l) /\ Superseded(q).phase = q.phase
<1>1. ASSUME NEW t, IsQuery(t), t.after = q.after, t.phase = q.phase, t.hist = q.hist, t.upto = q.upto,
             t.through = q.through, t.rows = q.rows
      PROVE  QueryFits(t, l)
  BY <1>1, Zenon DEF QueryFits
<1>2. IsQuery(q)
  BY DEF QueryFits
<1>3. ASSUME NEW t, t = [q EXCEPT !.stale = TRUE, !.before = {}] \/ t = [q EXCEPT !.current = FALSE, !.before = {}]
      PROVE  /\ IsQuery(t) /\ t.after = q.after /\ t.phase = q.phase /\ t.hist = q.hist /\ t.upto = q.upto
             /\ t.through = q.through /\ t.rows = q.rows
  BY <1>2, <1>3, Zenon DEF IsQuery, Fields
<1> QED
  BY <1>1, <1>3, Zenon DEF Stale, Superseded

\* A record appended while a batch waits for its barrier is one a crash may leave.
LEMMA NotedFits ==
  ASSUME NEW q, NEW l, QueryFits(q, l), NEW k, GoodLog(k)
  PROVE  /\ QueryFits(Noted(q, k), l) /\ Noted(q, k).phase = q.phase
         /\ QueryFits([q EXCEPT !.after = {k}], l) /\ [q EXCEPT !.after = {k}].phase = q.phase
<1>1. ASSUME NEW A, \A x \in A : GoodLog(x)
      PROVE  QueryFits([q EXCEPT !.after = A], l) /\ [q EXCEPT !.after = A].phase = q.phase
  <2> DEFINE t == [q EXCEPT !.after = A]
  <2>1. /\ IsQuery(t) /\ t.after = A /\ t.phase = q.phase /\ t.hist = q.hist /\ t.upto = q.upto
        /\ t.through = q.through /\ t.rows = q.rows
    BY DEF QueryFits, IsQuery, Fields
  <2> HIDE DEF t
  <2>2. QueryFits(t, l)
    BY <1>1, <2>1, Zenon DEF QueryFits
  <2> QED
    BY <2>1, <2>2 DEF t
<1>2. \A x \in q.after \cup {k} : GoodLog(x)
  BY Zenon DEF QueryFits
<1>3. Noted(q, k) = q \/ Noted(q, k) = [q EXCEPT !.after = q.after \cup {k}]
  BY DEF Noted, QueryFits, IsQuery, Fields
<1>4. QueryFits([q EXCEPT !.after = {k}], l) /\ [q EXCEPT !.after = {k}].phase = q.phase
  <2>1. \A x \in {k} : GoodLog(x)
    OBVIOUS
  <2> QED
    BY <1>1, <2>1, Zenon
<1>5. QueryFits(Noted(q, k), l) /\ Noted(q, k).phase = q.phase
  <2>1. CASE Noted(q, k) = q
    BY <2>1
  <2>2. CASE Noted(q, k) = [q EXCEPT !.after = q.after \cup {k}]
    BY <1>1, <1>2, <2>2, SMTT(30)
  <2> QED
    BY <1>3, <2>1, <2>2
<1> QED
  BY <1>4, <1>5

\* Counting more executions behind the same boundary suits every phase.
LEMMA GrowsFits ==
  ASSUME NEW q, NEW l, QueryFits(q, l), NEW k, k.until = l.until, l.ids \subseteq k.ids
  PROVE  QueryFits(q, k)
  BY DEF QueryFits

\* A batch waiting for its barrier has set its boundary.
LEMMA PublishFits ==
  ASSUME NEW q, IsQuery(q), NEW l, NEW k, GoodLog(k)
  PROVE  QueryFits(Publish(q, k), l) /\ Publish(q, k).phase = "publishing"
<1> DEFINE t == Publish(q, k)
<1>1. IsQuery(t) /\ t.phase = "publishing" /\ t.after = {k} /\ t.rows = {}
  BY Zenon DEF IsQuery, Fields, Publish
<1> HIDE DEF t
<1>2. QueryFits(t, l)
  BY <1>1 DEF QueryFits
<1> QED
  BY <1>1, <1>2 DEF t

\* A recovery is launched for a range that starts at the boundary and ends now.
LEMMA LaunchedFits ==
  ASSUME NEW l, l.until \in Nat, trades \in Seq(Execs), NEW through \in l.until..Len(trades), NEW m, NEW w
  PROVE  QueryFits(Launched(m, w, through), l)
<1> DEFINE q == Launched(m, w, through)
<1>1. IsQuery(q) /\ q.phase = "reading" /\ q.rows = {} /\ q.after = {} /\ q.hist = m.wanted
  BY ZenonT(30) DEF Launched, IdleQuery, IsQuery, Fields
<1>2. /\ q.upto = IF m.wanted THEN Len(trades) ELSE 0
      /\ q.through = IF m.wanted THEN through ELSE 0
  BY DEF Launched, IdleQuery
<1> HIDE DEF q
<1>3. ASSUME q.hist PROVE q.upto = Len(trades) /\ q.through = through
  BY <1>1, <1>2, <1>3
<1>4. Len(trades) \in Nat /\ through \in Nat /\ l.until <= through /\ through <= Len(trades)
  OBVIOUS
<1>5. ASSUME q.hist
      PROVE  /\ q.through \in Nat /\ q.upto \in Nat
             /\ l.until <= q.through /\ q.through <= q.upto /\ q.upto <= Len(trades)
  BY <1>3, <1>4, <1>5
<1>6. QueryFits(q, l)
  BY <1>1, <1>5 DEF QueryFits
<1> QED
  BY <1>6 DEF q

\* What a step that executes nothing has to keep.
LEMMA BooksKeep ==
  ASSUME RecoveryInv, UNCHANGED trades, closed \subseteq closed',
         GoodLog(log'), \A l \in past' : GoodLog(l), QueryFits(query', log'),
         stage' # "run" => query'.phase = "idle"
  PROVE  RecoveryInv'
<1>1. TradesInOrder'
  BY Zenon DEF RecoveryInv, TradesInOrder, ExecsOf, Execs, Executed
<1>2. \A l : GoodLog(l) => GoodLog(l)'
  BY DEF GoodLog, Execs, ExecsOf
<1>3. \A q, l : QueryFits(q, l) => QueryFits(q, l)'
  BY <1>2, ZenonT(30) DEF QueryFits, IsQuery, Execs
<1>4. GoodLog(log)' /\ (\A l \in past : GoodLog(l))' /\ QueryFits(query, log)'
  BY <1>2, <1>3
<1> QED
  BY <1>1, <1>4 DEF RecoveryInv

-----------------------------------------------------------------------------
(* Steps. *)

\* The stream, the halt and the first reads of a boot leave the books and the phase alone.
LEMMA QuietKeeps ==
  ASSUME RecoveryInv,
         \/ UNCHANGED vars \/ Drop \/ Redial \/ OnTick \/ DispatchHaltCancels \/ BootConnect \/ BootAccount
         \/ \E o \in Orders : EndAtVenue(o) \/ CancelReply(o) \/ StartHaltLookup(o) \/ AnswerLookup(o)
  PROVE  RecoveryInv'
<1>1. UNCHANGED <<trades, log, past, query>> /\ closed \subseteq closed' /\ (stage' # "run" => stage # "run")
  <2>1. CASE UNCHANGED vars \/ Drop \/ Redial \/ OnTick \/ DispatchHaltCancels
    BY <2>1 DEF vars, Drop, Redial, OnTick, DispatchHaltCancels, venueVars, engineVars
  <2>2. CASE BootConnect \/ BootAccount
    BY <2>2, Zenon DEF BootConnect, BootAccount, venueVars, haltVars
  <2>3. CASE \E o \in Orders : EndAtVenue(o) \/ CancelReply(o)
    BY <2>3 DEF EndAtVenue, CancelReply, engineVars
  <2>4. CASE \E o \in Orders : StartHaltLookup(o) \/ AnswerLookup(o)
    BY <2>4, Zenon DEF StartHaltLookup, AnswerLookup, venueVars
  <2> QED
    BY <2>1, <2>2, <2>3, <2>4, Zenon
<1>2. /\ GoodLog(log') /\ \A l \in past' : GoodLog(l)
      /\ QueryFits(query', log') /\ (stage' # "run" => query'.phase = "idle")
  BY <1>1 DEF RecoveryInv
<1> QED
  BY <1>1, <1>2, BooksKeep

\* A record that counts an execution not known before, or ends orders, and supersedes what a
\* recovery under way has read.
LEMMA RecordKeeps ==
  ASSUME RecoveryInv, UNCHANGED <<trades, closed, stage>>, stage = "run",
         GoodLog(log'), log'.until = log.until, log.ids \subseteq log'.ids,
         past' = past \cup {log'}, query' = Noted(Stale(query), log')
  PROVE  RecoveryInv'
<1>1. QueryFits(query', log)
  BY MarkedFits, NotedFits, ZenonT(30) DEF RecoveryInv
<1>2. QueryFits(query', log')
  BY <1>1, GrowsFits
<1>3. \A l \in past' : GoodLog(l)
  BY DEF RecoveryInv
<1> QED
  BY <1>2, <1>3, BooksKeep

\* place_order: an order is recorded and made durable before it is sent.
LEMMA SendKeeps ==
  ASSUME RecoveryInv, NEW o \in Orders, Send(o)
  PROVE  RecoveryInv'
<1>1. /\ UNCHANGED <<trades, closed, stage>> /\ stage = "run" /\ past' = {log'}
      /\ query' = IF query.phase = "publishing" THEN [query EXCEPT !.after = {log'}] ELSE query
  BY DEF Send, venueVars
<1>2. GoodLog(log) /\ log.sent \in SUBSET Orders /\ log.live \in SUBSET Orders
  BY DEF RecoveryInv, GoodLog
<1>3. log' = [log EXCEPT !.sent = log.sent \cup {o}, !.live = log.live \cup {o}]
  BY <1>2 DEF Send, GoodLog
<1>4. GoodLog(log') /\ log'.ids = log.ids /\ log'.until = log.until
  <2>1. log.sent \cup {o} \in SUBSET Orders /\ log.live \cup {o} \in SUBSET Orders
    BY <1>2
  <2> QED
    BY <1>2, <1>3, <2>1, SentGood, ZenonT(40)
<1>5. QueryFits(query', log)
  BY <1>1, <1>4, NotedFits DEF RecoveryInv
<1>6. QueryFits(query', log')
  BY <1>4, <1>5, GrowsFits
<1> QED
  BY <1>1, <1>4, <1>6, BooksKeep, Zenon

\* journal_update: a fill of the stream is counted unless its id is known.
LEMMA TakeFillKeeps ==
  ASSUME RecoveryInv, TakeFill
  PROVE  RecoveryInv'
<1>1. PICK e \in Execs :
        IF e \in log.ids THEN UNCHANGED <<log, past, query>>
        ELSE log' = Counted(log, {e}) /\ past' = past \cup {log'} /\ query' = Noted(Stale(query), log')
  BY Zenon DEF TakeFill
<1>2. UNCHANGED <<trades, closed, stage>> /\ stage = "run"
  BY DEF TakeFill, venueVars
<1>3. CASE e \in log.ids
  <2>1. UNCHANGED <<log, past, query>>
    BY <1>1, <1>3
  <2> QED
    BY <1>2, <2>1, BooksKeep DEF RecoveryInv
<1>4. CASE e \notin log.ids
  <2>1. GoodLog(log') /\ log'.until = log.until /\ log.ids \subseteq log'.ids
    BY <1>1, <1>4, CountedGood DEF RecoveryInv
  <2> QED
    BY <1>1, <1>2, <1>4, <2>1, RecordKeeps, Zenon
<1> QED
  BY <1>3, <1>4

\* An ending of the stream, or one the status read of a halt proves, takes an order out of flight.
LEMMA EndingKeeps ==
  ASSUME RecoveryInv, TakeEnded \/ \E o \in Orders : ApplyHaltLookup(o)
  PROVE  RecoveryInv'
<1>1. PICK o \in Orders :
        \/ UNCHANGED <<log, past, query>>
        \/ /\ log' = [log EXCEPT !.live = @ \ {o}] /\ past' = past \cup {log'}
           /\ query' = Noted(Stale(query), log')
  BY DEF TakeEnded, ApplyHaltLookup
<1>2. UNCHANGED <<trades, closed, stage>> /\ stage = "run"
  BY DEF TakeEnded, ApplyHaltLookup, venueVars
<1>3. CASE UNCHANGED <<log, past, query>>
  BY <1>2, <1>3, BooksKeep DEF RecoveryInv
<1>4. CASE /\ log' = [log EXCEPT !.live = @ \ {o}] /\ past' = past \cup {log'}
           /\ query' = Noted(Stale(query), log')
  <2>1. GoodLog(log) /\ log.live \ {o} \in SUBSET Orders /\ log' = [log EXCEPT !.live = log.live \ {o}]
    BY <1>4, Zenon DEF RecoveryInv, GoodLog
  <2>2. GoodLog(log') /\ log'.until = log.until /\ log'.ids = log.ids
    BY <2>1, LiveGood
  <2> QED
    BY <1>2, <1>4, <2>2, RecordKeeps, Zenon
<1> QED
  BY <1>1, <1>3, <1>4, Zenon

\* A gap is noticed, and a recovery is launched unless one is under way.
LEMMA GapKeeps ==
  ASSUME RecoveryInv, TakeDown \/ \E through \in log.until..Len(trades) :
                        TakeReset(through) \/ \E due \in BOOLEAN : Launch(due, through)
  PROVE  RecoveryInv'
<1>1. UNCHANGED <<trades, closed, stage, log, past>> /\ stage = "run"
  BY DEF TakeDown, TakeReset, Launch, venueVars
<1>2. /\ trades \in Seq(Execs) /\ log.until \in Nat /\ GoodLog(log) /\ \A l \in past : GoodLog(l)
      /\ QueryFits(query, log)
  BY Zenon DEF RecoveryInv, TradesInOrder, GoodLog
<1>3. \/ query' = Superseded(query)
      \/ \E through \in log.until..Len(trades) : \E w : query' = Launched(mem', w, through)
  BY DEF TakeDown, TakeReset, Launch
<1>4. QueryFits(query', log)
  BY <1>2, <1>3, MarkedFits, LaunchedFits
<1> QED
  BY <1>1, <1>2, <1>4, BooksKeep

\* The account read beside the history changes none of what the history read needs.
LEMMA ReadAccountKeeps ==
  ASSUME RecoveryInv, ReadAccount
  PROVE  RecoveryInv'
<1>1. /\ UNCHANGED <<trades, closed, stage, log, past>>
      /\ \/ query' = [query EXCEPT !.account = "ok", !.seen = Executed]
         \/ query' = [query EXCEPT !.account = "failed"]
  BY DEF ReadAccount, venueVars
<1>2. QueryFits(query, log) /\ IsQuery(query)
  BY DEF RecoveryInv, QueryFits
<1>3. /\ IsQuery(query') /\ query'.after = query.after /\ query'.phase = query.phase
      /\ query'.hist = query.hist /\ query'.upto = query.upto
      /\ query'.through = query.through /\ query'.rows = query.rows
  BY <1>1, <1>2, Zenon DEF IsQuery, Fields
<1>4. QueryFits(query', log)
  BY <1>2, <1>3, Zenon DEF QueryFits
<1> QED
  BY <1>1, <1>3, <1>4, BooksKeep DEF RecoveryInv

\* adopt_recovery_account moves at most the latch.
LEMMA AdoptedGood ==
  ASSUME NEW l, GoodLog(l), NEW q
  PROVE  LET k == AdoptedLog(l, q) IN GoodLog(k) /\ k.ids = l.ids /\ k.until = l.until
<1>1. AdoptedLog(l, q) = l \/ AdoptedLog(l, q) = [l EXCEPT !.open = FALSE]
  BY Zenon DEF AdoptedLog
<1> QED
  BY <1>1, OpenGood, ZenonT(30)

\* The end of a phase, without a batch or after its barrier.
LEMMA EndKeeps ==
  ASSUME RecoveryInv, CompleteAccount \/ Durable
  PROVE  RecoveryInv'
<1>1. /\ UNCHANGED <<trades, closed, stage>> /\ stage = "run"
      /\ log' = AdoptedLog(log, query) /\ query' = IdleQuery
      /\ past' \subseteq past \cup query.after \cup {log'}
  BY DEF CompleteAccount, Completed, Durable, venueVars
<1>2. GoodLog(log')
  BY <1>1, AdoptedGood DEF RecoveryInv
<1>3. \A l \in past' : GoodLog(l)
  BY <1>1, <1>2, Zenon DEF RecoveryInv, QueryFits
<1> QED
  BY <1>1, <1>2, <1>3, IdleFits, BooksKeep, Zenon

\* A history that cannot be read moves at most the latch.
LEMMA FailedKeeps ==
  ASSUME RecoveryInv, CompleteFailed \/ CompleteRefused
  PROVE  RecoveryInv'
<1>1. /\ UNCHANGED <<trades, closed, stage>> /\ stage = "run"
      /\ log' = log \/ log' = [log EXCEPT !.open = FALSE]
      /\ past' \subseteq past \cup {log'}
      /\ query' = Publish(query, log') \/ query' = Publish([query EXCEPT !.hist = FALSE], log')
  BY DEF CompleteFailed, CompleteRefused, Completed, venueVars
<1>2. GoodLog(log')
  BY <1>1, OpenGood, ZenonT(30) DEF RecoveryInv
<1>3. \A l \in past' : GoodLog(l)
  BY <1>1, <1>2 DEF RecoveryInv
<1>4. IsQuery(query) /\ IsQuery([query EXCEPT !.hist = FALSE])
  BY QueryParts, Zenon DEF RecoveryInv, QueryFits
<1>5. QueryFits(query', log')
  BY <1>1, <1>2, <1>4, PublishFits
<1> QED
  BY <1>1, <1>2, <1>3, <1>5, BooksKeep, SMTT(30)

\* A history that was read holds every execution up to the pad.
LEMMA HistoryKeeps ==
  ASSUME RecoveryInv, CompleteHistory
  PROVE  RecoveryInv'
<1>1. UNCHANGED <<trades, closed, stage, log, past>> /\ stage = "run" /\ query.phase = "reading" /\ query.hist
  BY DEF CompleteHistory, Completed, venueVars
<1>2. PICK R \in HistoryReads(log, query.through, query.upto) :
        query' = [query EXCEPT !.phase = "applying", !.rows = R, !.upto = 0]
  BY Zenon DEF CompleteHistory
<1>3. /\ trades \in Seq(Execs) /\ log.until \in Nat /\ query.through \in Nat /\ query.upto \in Nat
      /\ log.until <= query.through /\ query.through <= query.upto /\ query.upto <= Len(trades)
      /\ IsQuery(query) /\ \A k \in query.after : GoodLog(k)
  BY <1>1, Zenon DEF RecoveryInv, TradesInOrder, GoodLog, QueryFits
<1>4. R \subseteq Execs /\ \A i \in (log.until + 1)..query.through : trades[i] \in R
  BY <1>3, ReadsReach
<1>5. /\ IsQuery(query') /\ query'.phase = "applying" /\ query'.rows = R
      /\ query'.after = query.after /\ query'.through = query.through
  BY <1>2, <1>3, ZenonT(30) DEF IsQuery, Fields
<1>6. Len(trades) \in Nat
  BY <1>3
<1>7. QueryFits(query', log)
  BY <1>3, <1>4, <1>5, <1>6 DEF QueryFits
<1> QED
  BY <1>1, <1>7, BooksKeep DEF RecoveryInv

\* The end of a batch sets the boundary to the end of the range it read, if at all.
LEMMA FinishGood ==
  ASSUME NEW l, GoodLog(l), NEW q, QueryFits(q, l), q.phase = "applying", q.rows = {},
         trades \in Seq(Execs), Finish(l, q)
  PROVE  /\ GoodLog(log') /\ past' \subseteq past \cup {l, log'}
         /\ QueryFits(query', log')
<1>1. /\ l.until \in Nat /\ q.through \in Nat /\ q.through <= Len(trades) /\ l.until <= q.through
      /\ \A i \in 1..q.through : trades[i] \in l.ids
  <2>1. /\ l.until \in Nat /\ \A i \in 1..l.until : trades[i] \in l.ids
    BY DEF GoodLog
  <2>2. /\ q.through \in Nat /\ q.through <= Len(trades) /\ l.until <= q.through
        /\ \A i \in (l.until + 1)..q.through : trades[i] \in l.ids
    BY DEF QueryFits
  <2> QED
    BY <2>1, <2>2, SMTT(30)
<1>2. /\ log' = l \/ log' = [l EXCEPT !.until = q.through]
      /\ past' = past \cup {l, log'} /\ query' = Publish([q EXCEPT !.proven = TRUE], log')
  BY Zenon DEF Finish
<1>3. GoodLog(log')
  BY <1>1, <1>2, UntilGood, SMTT(30)
<1>4. IsQuery([q EXCEPT !.proven = TRUE])
  BY QueryParts, Zenon DEF QueryFits
<1> QED
  BY <1>2, <1>3, <1>4, PublishFits, Zenon

\* apply_history_batch: a row is counted unless its id is known, and leaves the batch.
LEMMA ApplyTurnKeeps ==
  ASSUME RecoveryInv, ApplyTurn
  PROVE  RecoveryInv'
<1>1. UNCHANGED <<trades, closed, stage>> /\ stage = "run" /\ query.phase = "applying"
  BY Zenon DEF ApplyTurn, venueVars
<1>2. /\ trades \in Seq(Execs) /\ GoodLog(log) /\ QueryFits(query, log) /\ \A l \in past : GoodLog(l)
  BY DEF RecoveryInv, TradesInOrder
<1>3. ASSUME GoodLog(log'), QueryFits(query', log'), NEW l, GoodLog(l), past' \subseteq past \cup {l, log'}
      PROVE  RecoveryInv'
  <2>1. \A k \in past' : GoodLog(k)
    BY <1>2, <1>3
  <2> QED
    BY <1>1, <1>3, <2>1, BooksKeep, Zenon
<1>4. CASE query.rows = {} /\ Finish(log, query)
  BY <1>1, <1>2, <1>3, <1>4, FinishGood, Zenon
<1>5. ASSUME NEW e \in query.rows, NEW l, NEW q,
             l = IF e \in log.ids THEN log ELSE Counted(log, {e}),
             q = [query EXCEPT !.rows = @ \ {e}, !.stale = @ \/ ~(e \in log.ids),
                               !.before = IF e \in log.ids THEN @ ELSE {}],
             IF q.rows = {} THEN Finish(l, q) ELSE log' = l /\ past' = past \cup {l} /\ query' = q
      PROVE  RecoveryInv'
  <2>1. e \in Execs /\ IsQuery(query) /\ query.rows \subseteq Execs
    BY <1>2 DEF QueryFits
  <2>2. GoodLog(l) /\ l.until = log.until /\ l.ids = log.ids \cup {e}
    <3>1. CASE e \in log.ids
      BY <1>2, <1>5, <3>1, SMTT(30)
    <3>2. CASE e \notin log.ids
      BY <1>2, <1>5, <2>1, <3>2, CountedGood, SMTT(30)
    <3> QED
      BY <3>1, <3>2
  <2>3. /\ IsQuery(q) /\ q.phase = "applying" /\ q.rows = query.rows \ {e}
        /\ q.after = query.after /\ q.through = query.through
    BY <1>1, <1>5, <2>1, ZenonT(30) DEF IsQuery, Fields
  <2>4. QueryFits(q, l)
    <3>1. /\ q.through \in Nat /\ l.until <= q.through /\ q.through <= Len(trades)
          /\ \A k \in q.after : GoodLog(k)
      BY <1>1, <1>2, <2>2, <2>3, Zenon DEF QueryFits
    <3>2. \A i \in (l.until + 1)..q.through : trades[i] \in l.ids \cup q.rows
      BY <1>1, <1>2, <2>2, <2>3, Zenon DEF QueryFits
    <3> QED
      BY <2>1, <2>3, <3>1, <3>2, Zenon DEF QueryFits
  <2>5. CASE q.rows = {}
    <3>1. Finish(l, q)
      BY <1>5, <2>5
    <3> QED
      BY <1>2, <1>3, <2>2, <2>3, <2>4, <2>5, <3>1, FinishGood, SMTT(30)
  <2>6. CASE q.rows # {}
    <3>1. log' = l /\ past' = past \cup {l} /\ query' = q
      BY <1>5, <2>6
    <3> QED
      BY <1>3, <2>2, <2>4, <3>1, SMTT(30)
  <2> QED
    BY <2>5, <2>6, SMTT(30)
<1> QED
  BY <1>4, <1>5, Zenon DEF ApplyTurn

\* A crash goes back to one of the states on disk.
LEMMA CrashKeeps ==
  ASSUME RecoveryInv, Crash
  PROVE  RecoveryInv'
<1>1. /\ UNCHANGED <<trades, closed>> /\ log' \in past /\ past' = {log'} /\ query' = IdleQuery
  BY DEF Crash, Stop, venueVars
<1>2. query'.phase = "idle"
  BY <1>1 DEF IdleQuery
<1>3. GoodLog(log') /\ \A l \in past' : GoodLog(l)
  BY <1>1 DEF RecoveryInv
<1> QED
  BY <1>1, <1>2, <1>3, IdleFits, BooksKeep, SMTT(30)

\* recover_missed_fills counts what the history holds and the log does not, row by row.
LEMMA BootHistoryKeeps ==
  ASSUME RecoveryInv, NEW through \in log.until..Len(trades), BootHistory(through)
  PROVE  RecoveryInv'
<1>1. UNCHANGED <<trades, closed, query>> /\ stage = "history" /\ query.phase = "idle"
  BY DEF BootHistory, venueVars, RecoveryInv
<1>2. /\ trades \in Seq(Execs) /\ GoodLog(log) /\ log.until \in Nat /\ through \in Nat
      /\ log.until <= through /\ through <= Len(trades) /\ Len(trades) \in Nat
      /\ \A i \in 1..log.until : trades[i] \in log.ids
  BY DEF RecoveryInv, TradesInOrder, GoodLog
<1>3. PICK read \in HistoryReads(log, through, Len(trades)) :
        LET rows == read \ log.ids
            l == Counted(log, rows)
        IN  /\ log' = l \/ log' = [l EXCEPT !.until = through]
            /\ past' = past \cup {log'} \cup {Counted(log, R) : R \in SUBSET rows}
  BY Zenon DEF BootHistory
<1> DEFINE rows == read \ log.ids
           l == Counted(log, rows)
<1>4. read \subseteq Execs /\ \A i \in (log.until + 1)..through : trades[i] \in read
  BY <1>2, ReadsReach, SMTT(30)
<1>5. \A R \in SUBSET rows : GoodLog(Counted(log, R))
  BY <1>2, <1>4, CountedGood, Zenon
<1>6. GoodLog(l) /\ l.ids = log.ids \cup read
  BY <1>2, <1>4, CountedGood, SMTT(30)
<1> HIDE DEF l
<1>7. \A i \in 1..through : trades[i] \in l.ids
  BY <1>2, <1>4, <1>6
<1>8. GoodLog(log')
  <2>1. log' = l \/ log' = [l EXCEPT !.until = through]
    BY <1>3, Zenon DEF l
  <2> QED
    BY <1>2, <1>6, <1>7, <2>1, UntilGood, SMTT(30)
<1>9. \A k \in past' : GoodLog(k)
  <2>1. past' = past \cup {log'} \cup {Counted(log, R) : R \in SUBSET rows}
    BY <1>3, Zenon
  <2> HIDE DEF rows
  <2> QED
    BY <1>5, <1>8, <2>1 DEF RecoveryInv
<1>10. QueryFits(query', log')
  BY <1>1 DEF RecoveryInv, QueryFits
<1> QED
  BY <1>1, <1>8, <1>9, <1>10, BooksKeep, SMTT(30)

\* reconcile_with_venue moves the latch and ends orders the venue no longer works.
LEMMA BootReconcileKeeps ==
  ASSUME RecoveryInv, BootReconcile
  PROVE  RecoveryInv'
<1>1. UNCHANGED <<trades, closed, query>> /\ stage' = "run"
  BY DEF BootReconcile, venueVars
<1> DEFINE b == log.open /\ Matches(mem.seen, log)
           found == [log EXCEPT !.open = b]
           ended == [found EXCEPT !.live = found.live \ closed]
<1>2. GoodLog(log) /\ log.open \in BOOLEAN
  BY DEF RecoveryInv, GoodLog
<1>3. GoodLog(found) /\ found.ids = log.ids /\ found.until = log.until
  <2>1. b \in BOOLEAN
    OBVIOUS
  <2> HIDE DEF b
  <2> QED
    BY <1>2, <2>1, OpenGood
<1>4. GoodLog(ended) /\ ended.ids = log.ids /\ ended.until = log.until
  <2> HIDE DEF found
  <2>1. found.live \ closed \in SUBSET Orders
    BY <1>3 DEF GoodLog
  <2> QED
    BY <1>3, <2>1, LiveGood
<1>5. log' = ended /\ past' = {found, ended}
  BY <1>2, <1>3 DEF BootReconcile, GoodLog
<1> HIDE DEF found, ended
<1>6. QueryFits(query', log')
  BY <1>1, <1>4, <1>5, GrowsFits, SMTT(30) DEF RecoveryInv
<1> QED
  BY <1>1, <1>3, <1>4, <1>5, <1>6, BooksKeep, SMTT(30)

\* Every step of venue, stream, engine, boot and crash keeps the invariant.
LEMMA StepRecovery == RecoveryInv /\ [Next]_vars => RecoveryInv'
<1> SUFFICES ASSUME RecoveryInv, [Next]_vars PROVE RecoveryInv'
  OBVIOUS
<1>1. CASE UNCHANGED vars \/ Drop \/ Redial \/ OnTick \/ DispatchHaltCancels
  BY <1>1, QuietKeeps
<1>2. CASE Crash \/ BootStep
  BY <1>2, CrashKeeps, QuietKeeps, BootReconcileKeeps DEF BootStep
<1>3. CASE \E o \in Orders : Trade(o) \/ EndAtVenue(o) \/ Send(o) \/ CancelReply(o) \/ StartHaltLookup(o)
  BY <1>3, TradeKeeps, QuietKeeps, SendKeeps, SMTT(30)
<1>4. CASE \E through \in log.until..Len(trades) :
             TakeReset(through) \/ BootHistory(through) \/ \E due \in BOOLEAN : Launch(due, through)
  BY <1>4, GapKeeps, BootHistoryKeeps
<1>5. CASE TakeFill \/ TakeEnded \/ TakeDown
  BY <1>5, TakeFillKeeps, EndingKeeps, GapKeeps, SMTT(30)
<1>6. CASE RecoveryStep \/ CompleteFailed \/ CompleteRefused
  BY <1>6, ReadAccountKeeps, EndKeeps, HistoryKeeps, ApplyTurnKeeps, FailedKeeps, SMTT(30) DEF RecoveryStep
<1>7. CASE LookupStep
  BY <1>7, QuietKeeps, EndingKeeps DEF LookupStep
<1> QED
  BY <1>1, <1>2, <1>3, <1>4, <1>5, <1>6, <1>7, SMTT(30) DEF Next

\* The inductive invariant of fill recovery.
THEOREM RecoveryCorrect == Spec => []RecoveryInv
  BY InitRecovery, StepRecovery, PTL DEF Spec

\* However an execution arrives, and however often, it is counted at most once.
THEOREM AlwaysCountedOnce == Spec => []CountedOnce
<1>1. RecoveryInv => CountedOnce
  BY SMTT(30) DEF RecoveryInv, GoodLog, CountedOnce
<1> QED
  BY RecoveryCorrect, <1>1, PTL

\* No state a crash can leave has a history boundary beyond an execution it does not hold.
THEOREM AlwaysBoundaryKeepsReach == Spec => []BoundaryKeepsReach
<1>1. RecoveryInv => BoundaryKeepsReach
  BY DEF RecoveryInv, GoodLog, BoundaryKeepsReach
<1> QED
  BY RecoveryCorrect, <1>1, PTL

-----------------------------------------------------------------------------
(* What the log says has ended. *)

\* Nothing is kept that was not executed, and what is no longer in flight the venue ended.
Honest(l) == l.ids \subseteq Executed /\ l.sent \ l.live \subseteq closed

\* What the stream may have said by now.
Told == {Fill(e) : e \in Executed} \cup {Ended(o) : o \in closed} \cup {Reset, Down}

\* A terminal answer is about an order that ended, and gives all that was executed of it.
LookupTrue ==
  /\ lookup = [of |-> lookup.of, answer |-> lookup.answer, filled |-> lookup.filled]
  /\ lookup.answer = "terminal" =>
       \E o \in closed : lookup.of = {o} /\ lookup.filled = Cardinality(ExecsOf(o) \cap Executed)

EndingsInv ==
  /\ Honest(log) /\ (\A l \in past : Honest(l)) /\ \A l \in query.after : Honest(l)
  /\ query.rows \subseteq Executed
  /\ wire \in Seq(Told)
  /\ closed \subseteq Orders /\ LookupTrue

\* Nothing has happened.
LEMMA InitEndings == Init => EndingsInv
<1> SUFFICES ASSUME Init PROVE EndingsInv
  OBVIOUS
<1>1. Honest(log) /\ past = {log} /\ closed \subseteq Orders
  BY DEF Init, FirstLog, Honest
<1>2. query.rows = {} /\ query.after = {} /\ wire \in Seq(Told)
  BY DEF Init, IdleQuery
<1>3. LookupTrue
  BY DEF Init, NoLookup, LookupTrue
<1> QED
  BY <1>1, <1>2, <1>3, Zenon DEF EndingsInv

\* The records of an engine that moves a boundary or the latch, sends an order, or ends
\* orders that the venue ended.
LEMMA RecordsHonest ==
  ASSUME NEW l, GoodLog(l), Honest(l), NEW b, NEW o, NEW L, l.live \ L \subseteq closed
  PROVE  /\ Honest([l EXCEPT !.open = b]) /\ Honest([l EXCEPT !.until = b]) /\ Honest([l EXCEPT !.live = L])
         /\ Honest([l EXCEPT !.sent = l.sent \cup {o}, !.live = l.live \cup {o}])
<1> DEFINE k1 == [l EXCEPT !.open = b]
           k2 == [l EXCEPT !.until = b]
           k3 == [l EXCEPT !.live = L]
           k4 == [l EXCEPT !.sent = l.sent \cup {o}, !.live = l.live \cup {o}]
<1>1. /\ k1.ids = l.ids /\ k1.sent = l.sent /\ k1.live = l.live
      /\ k2.ids = l.ids /\ k2.sent = l.sent /\ k2.live = l.live
      /\ k3.ids = l.ids /\ k3.sent = l.sent /\ k3.live = L
  BY DEF GoodLog
<1>2. k4.ids = l.ids /\ k4.sent = l.sent \cup {o} /\ k4.live = l.live \cup {o}
  BY DEF GoodLog
<1> HIDE DEF k1, k2, k3, k4
<1>3. Honest(k1) /\ Honest(k2) /\ Honest(k3) /\ Honest(k4)
  BY <1>1, <1>2 DEF Honest
<1> QED
  BY <1>3 DEF k1, k2, k3, k4

\* Opening or closing the latch leaves honest records honest.
LEMMA LatchHonest ==
  ASSUME NEW l, GoodLog(l), Honest(l), NEW b
  PROVE  Honest([l EXCEPT !.open = b])
<1>1. l.live \ l.live \subseteq closed
  OBVIOUS
<1> QED
  BY <1>1, RecordsHonest, Zenon

\* Moving the recovery boundary leaves honest records honest.
LEMMA BoundaryHonest ==
  ASSUME NEW l, GoodLog(l), Honest(l), NEW b
  PROVE  Honest([l EXCEPT !.until = b])
<1>1. l.live \ l.live \subseteq closed
  OBVIOUS
<1> QED
  BY <1>1, RecordsHonest, Zenon

\* An order is taken for filled only when all of it is executed, and then the venue has ended it.
LEMMA CountedHonest ==
  ASSUME TradesInOrder, NEW l, GoodLog(l), Honest(l), NEW R \in SUBSET Execs, R \subseteq Executed, R \cap l.ids = {}
  PROVE  Honest(Counted(l, R))
<1> DEFINE k == Counted(l, R)
<1>1. /\ k.ids = l.ids \cup R /\ k.sent = l.sent
      /\ k.live = {o \in l.live : ExecsOf(o) \cap R # {} => Cardinality(ExecsOf(o) \cap (l.ids \cup R)) < Qty[o]}
  BY CountedGood
<1> HIDE DEF k
<1>2. ASSUME NEW o \in Orders, o \notin closed
      PROVE  Cardinality(ExecsOf(o) \cap (l.ids \cup R)) < Qty[o]
  <2>1. PICK m \in 0..Qty[o] : ExecsOf(o) \cap Executed = {<<o, j>> : j \in 1..m} /\ m < Qty[o]
    BY <1>2 DEF TradesInOrder
  <2>2. Qty[o] \in Nat /\ m \in Nat
    BY RecoveryAssumption
  <2>3. IsFiniteSet(ExecsOf(o) \cap Executed) /\ Cardinality(ExecsOf(o) \cap Executed) = m
    <3>1. IsFiniteSet({<<o, j>> : j \in 1..m}) /\ Cardinality({<<o, j>> : j \in 1..m}) = m
      BY <2>2, FirstAreSoMany, Zenon
    <3> QED
      BY <2>1, <3>1, Zenon
  <2>4. ExecsOf(o) \cap (l.ids \cup R) \in SUBSET (ExecsOf(o) \cap Executed)
    BY DEF Honest
  <2>5. /\ IsFiniteSet(ExecsOf(o) \cap (l.ids \cup R))
        /\ Cardinality(ExecsOf(o) \cap (l.ids \cup R)) <= Cardinality(ExecsOf(o) \cap Executed)
    BY <2>3, <2>4, FS_Subset
  <2>6. Cardinality(ExecsOf(o) \cap (l.ids \cup R)) \in Nat
    BY <2>5, FS_CardinalityType
  <2> QED
    BY <2>1, <2>2, <2>3, <2>5, <2>6, SMTT(30)
<1>3. k.sent \ k.live \subseteq closed
  <2>1. l.sent \in SUBSET Orders /\ l.sent \ l.live \subseteq closed
    BY DEF GoodLog, Honest
  <2> QED
    BY <1>1, <1>2, <2>1, Zenon
<1>4. k.ids \subseteq Executed
  BY <1>1 DEF Honest
<1> QED
  BY <1>3, <1>4, Zenon DEF Honest, k

\* What a step that executes nothing has to keep.
LEMMA HonestKeeps ==
  ASSUME EndingsInv, UNCHANGED trades, closed \subseteq closed', closed' \subseteq Orders,
         Honest(log'), \A l \in past' : Honest(l), \A l \in query'.after : Honest(l),
         query'.rows \subseteq Executed, wire' \in Seq(Told'), LookupTrue'
  PROVE  EndingsInv'
<1>1. Executed' = Executed
  BY DEF Executed
<1>2. \A l : Honest(l) => Honest(l)'
  BY <1>1 DEF Honest
<1>3. Honest(log)' /\ (\A l \in past : Honest(l))' /\ (\A l \in query.after : Honest(l))'
  BY <1>2
<1> QED
  BY <1>1, <1>3, SMTT(30) DEF EndingsInv

\* What the stream said stays true, and so does the rest of it.
LEMMA ToldKeeps ==
  ASSUME wire \in Seq(Told), Executed \subseteq Executed', closed \subseteq closed'
  PROVE  /\ wire \in Seq(Told') /\ (wire # <<>> => Head(wire) \in Told /\ Tail(wire) \in Seq(Told'))
         /\ \A m \in Told' : Append(wire, m) \in Seq(Told')
         /\ <<>> \in Seq(Told')
<1>1. Told \subseteq Told'
  BY DEF Told, Fill, Ended, Reset, Down
<1>2. wire \in Seq(Told')
  BY <1>1
<1> QED
  BY <1>2

\* What the stream said of an execution or of an ending.
LEMMA ToldTrue ==
  /\ \A e : Fill(e) \in Told => e \in Executed
  /\ \A o : Ended(o) \in Told => o \in closed
  BY Zenon DEF Told, Fill, Ended, Reset, Down

\* An answer stays true: of an order that ended no more is executed.
LEMMA LookupKeeps ==
  ASSUME LookupTrue, UNCHANGED lookup, closed \subseteq closed',
         \A o \in closed : ExecsOf(o) \cap Executed' = ExecsOf(o) \cap Executed
  PROVE  LookupTrue'
  BY ZenonT(30) DEF LookupTrue, ExecsOf, Execs

\* What marks, notes and batches leave of the reads of a phase.
LEMMA PhaseParts ==
  ASSUME NEW q, IsQuery(q), NEW k
  PROVE  /\ Stale(q).rows = q.rows /\ Stale(q).after = q.after /\ IsQuery(Stale(q))
         /\ Superseded(q).rows = q.rows /\ Superseded(q).after = q.after
         /\ Noted(q, k).rows = q.rows /\ Noted(q, k).after \subseteq q.after \cup {k}
         /\ Publish(q, k).rows = {} /\ Publish(q, k).after = {k}
         /\ [q EXCEPT !.after = {k}].rows = q.rows /\ [q EXCEPT !.after = {k}].after = {k}
<1>1. Stale(q).rows = q.rows /\ Stale(q).after = q.after /\ IsQuery(Stale(q))
  BY ZenonT(30) DEF IsQuery, Fields, Stale
<1>2. Superseded(q).rows = q.rows /\ Superseded(q).after = q.after
  BY DEF IsQuery, Fields, Superseded
<1>3. Noted(q, k).rows = q.rows /\ Noted(q, k).after \subseteq q.after \cup {k}
  BY DEF IsQuery, Fields, Noted
<1>4. Publish(q, k).rows = {} /\ Publish(q, k).after = {k}
  BY DEF IsQuery, Fields, Publish
<1>5. [q EXCEPT !.after = {k}].rows = q.rows /\ [q EXCEPT !.after = {k}].after = {k}
  BY DEF IsQuery, Fields
<1> QED
  BY <1>1, <1>2, <1>3, <1>4, <1>5

\* Trade and EndAtVenue: the venue executes and ends, and says so on the stream.
LEMMA VenueHonest ==
  ASSUME RecoveryInv, EndingsInv, NEW o \in Orders, Trade(o) \/ EndAtVenue(o)
  PROVE  EndingsInv'
<1> DEFINE k == Cardinality(ExecsOf(o) \cap Executed) + 1
<1>1. /\ o \notin closed /\ UNCHANGED <<log, past, query, lookup>>
      /\ closed \subseteq closed' /\ closed' \subseteq closed \cup {o}
      /\ \/ trades' = Append(trades, <<o, k>>) /\ Deliver(Fill(<<o, k>>))
         \/ UNCHANGED trades /\ o \in closed' /\ Deliver(Ended(o))
  BY DEF Trade, EndAtVenue, engineVars
<1> HIDE DEF k
<1>2. trades \in Seq(Execs)
  BY DEF RecoveryInv, TradesInOrder
<1>3. \/ trades' = Append(trades, <<o, k>>) /\ Executed' = Executed \cup {<<o, k>>}
      \/ UNCHANGED trades /\ Executed' = Executed
  <2>1. CASE trades' = Append(trades, <<o, k>>)
    <3>1. /\ DOMAIN trades = 1..Len(trades) /\ DOMAIN trades' = 1..(Len(trades) + 1) /\ Len(trades) \in Nat
          /\ \A i \in 1..Len(trades) : trades'[i] = trades[i]
          /\ trades'[Len(trades) + 1] = <<o, k>>
      BY <1>2, <2>1, SMTT(30)
    <3>2. Executed' = Executed \cup {<<o, k>>}
      <4>1. Executed = {trades[i] : i \in 1..Len(trades)}
        BY <3>1, Zenon DEF Executed, Range
      <4>2. Executed' = {trades'[i] : i \in 1..(Len(trades) + 1)}
        BY <3>1, Zenon DEF Executed, Range
      <4>3. 1..(Len(trades) + 1) = 1..Len(trades) \cup {Len(trades) + 1}
        BY <3>1
      <4> QED
        BY <3>1, <4>1, <4>2, <4>3, ZenonT(30)
    <3> QED
      BY <2>1, <3>2, Zenon
  <2>2. CASE UNCHANGED trades
    BY <2>2 DEF Executed
  <2> QED
    BY <1>1, <2>1, <2>2, Zenon
<1>4. Executed \subseteq Executed'
  BY <1>3
<1>5. \A p \in closed : ExecsOf(p) \cap Executed' = ExecsOf(p) \cap Executed
  <2>1. ASSUME NEW p \in closed PROVE <<o, k>> \notin ExecsOf(p)
    BY <1>1, Zenon DEF ExecsOf
  <2> QED
    BY <1>3, <2>1
<1>6. LookupTrue'
  BY <1>1, <1>5, LookupKeeps DEF EndingsInv
<1>7. wire' \in Seq(Told')
  <2>1. \/ <<o, k>> \in Executed' /\ Deliver(Fill(<<o, k>>))
        \/ o \in closed' /\ Deliver(Ended(o))
    BY <1>1, <1>3
  <2>2. PICK m \in Told' : Deliver(m)
    BY <2>1 DEF Told
  <2>3. wire \in Seq(Told') /\ Append(wire, m) \in Seq(Told')
    BY <1>1, <1>4, ToldKeeps, Zenon DEF EndingsInv
  <2> QED
    BY <2>2, <2>3, Zenon DEF Deliver
<1>8. \A l : Honest(l) => Honest(l)'
  BY <1>1, <1>4, Zenon DEF Honest
<1>9. Honest(log)' /\ (\A l \in past : Honest(l))' /\ (\A l \in query.after : Honest(l))' /\ query'.rows \subseteq Executed'
  BY <1>1, <1>4, <1>8, Zenon DEF EndingsInv
<1>10. closed' \subseteq Orders
  BY <1>1 DEF EndingsInv
<1> QED
  BY <1>6, <1>7, <1>9, <1>10 DEF EndingsInv

\* The stream, the halt and the first reads of a boot leave the books alone.
LEMMA QuietHonest ==
  ASSUME EndingsInv,
         \/ UNCHANGED vars \/ Drop \/ Redial \/ OnTick \/ DispatchHaltCancels \/ BootConnect \/ BootAccount
         \/ \E o \in Orders : CancelReply(o)
  PROVE  EndingsInv'
<1>1. /\ UNCHANGED <<trades, log, past, query, lookup>>
      /\ \/ closed' = closed /\ (wire' \in {wire, <<>>} \/ \E m \in {Reset, Down} : wire' = Append(wire, m))
         \/ \E o \in Orders : closed' = closed \cup {o} /\ Deliver(Ended(o))
  <2>1. CASE UNCHANGED vars \/ Drop \/ Redial
    BY <2>1 DEF vars, Drop, Redial, engineVars, venueVars
  <2>2. CASE OnTick \/ DispatchHaltCancels \/ BootConnect \/ BootAccount
    BY <2>2 DEF OnTick, DispatchHaltCancels, BootConnect, BootAccount, haltVars, venueVars
  <2>3. CASE \E o \in Orders : CancelReply(o)
    BY <2>3, Zenon DEF CancelReply
  <2> QED
    BY <2>1, <2>2, <2>3, Zenon
<1>2. Executed' = Executed /\ closed \subseteq closed' /\ closed' \subseteq Orders
  BY <1>1 DEF Executed, EndingsInv
<1>3. LookupTrue'
  BY <1>1, <1>2, LookupKeeps, SMTT(30) DEF EndingsInv
<1>4. wire \in Seq(Told') /\ <<>> \in Seq(Told') /\ \A m \in Told' : Append(wire, m) \in Seq(Told')
  BY <1>2, ToldKeeps DEF EndingsInv
<1>5. wire' \in Seq(Told')
  <2>1. CASE wire' \in {wire, <<>>}
    BY <1>4, <2>1, Zenon
  <2>2. CASE \E m \in {Reset, Down} : wire' = Append(wire, m)
    <3>1. Reset \in Told' /\ Down \in Told'
      BY DEF Told, Reset, Down
    <3> QED
      BY <1>4, <2>2, <3>1, Zenon
  <2>3. ASSUME NEW o \in Orders, closed' = closed \cup {o}, Deliver(Ended(o)) PROVE wire' \in Seq(Told')
    <3>1. Ended(o) \in Told'
      BY <2>3 DEF Told, Ended
    <3> QED
      BY <1>4, <2>3, <3>1, Zenon DEF Deliver
  <2> QED
    BY <1>1, <2>1, <2>2, <2>3, SMTT(30)
<1>6. /\ Honest(log') /\ (\A l \in past' : Honest(l)) /\ (\A l \in query'.after : Honest(l))
      /\ query'.rows \subseteq Executed
  BY <1>1 DEF EndingsInv
<1> QED
  BY <1>1, <1>2, <1>3, <1>5, <1>6, HonestKeeps, SMTT(30)

\* What a step of the engine on what it has received has to keep.
LEMMA EngineHonest ==
  ASSUME EndingsInv, UNCHANGED <<trades, closed>>, LookupTrue',
         wire' \in {wire, <<>>} \/ (wire # <<>> /\ wire' = Tail(wire)),
         Honest(log'), \A l \in past' : Honest(l), \A l \in query'.after : Honest(l), query'.rows \subseteq Executed
  PROVE  EndingsInv'
<1>1. Executed' = Executed /\ closed \subseteq closed' /\ closed' \subseteq Orders
  BY DEF Executed, EndingsInv
<1>2. wire \in Seq(Told') /\ <<>> \in Seq(Told') /\ (wire # <<>> => Tail(wire) \in Seq(Told'))
  BY <1>1, ToldKeeps, SMTT(30) DEF EndingsInv
<1>3. wire' \in Seq(Told')
  BY <1>2, ZenonT(30)
<1> QED
  BY <1>1, <1>3, HonestKeeps, Zenon

\* The same where the status read goes on, or is given up.
LEMMA LookupGoesOn ==
  ASSUME EndingsInv, UNCHANGED <<trades, closed>>, lookup' \in {lookup, NoLookup}
  PROVE  LookupTrue'
<1>1. Executed' = Executed
  BY DEF Executed
<1>2. CASE lookup' = lookup
  BY <1>1, <1>2, LookupKeeps DEF EndingsInv
<1>3. CASE lookup' = NoLookup
  BY <1>3 DEF LookupTrue, NoLookup
<1> QED
  BY <1>2, <1>3

\* The status read: StartHaltLookup asks, and AnswerLookup tells what the venue knows.
LEMMA AskHonest ==
  ASSUME EndingsInv, NEW o \in Orders, StartHaltLookup(o) \/ AnswerLookup(o)
  PROVE  EndingsInv'
<1>1. UNCHANGED <<trades, closed, wire, log, past, query>>
  BY DEF StartHaltLookup, AnswerLookup, venueVars
<1>2. LookupTrue /\ Executed' = Executed
  BY <1>1 DEF EndingsInv, Executed
<1>3. lookup' = [of |-> lookup'.of, answer |-> lookup'.answer, filled |-> lookup'.filled]
  BY <1>2, Zenon DEF StartHaltLookup, AnswerLookup, LookupTrue
<1>4. ASSUME lookup'.answer = "terminal"
      PROVE  o \in closed /\ lookup'.of = {o} /\ lookup'.filled = Cardinality(ExecsOf(o) \cap Executed)
  <2>1. ~StartHaltLookup(o)
    BY <1>4 DEF StartHaltLookup
  <2>2. /\ lookup.of = {o} /\ o \in closed
        /\ lookup' = [lookup EXCEPT !.answer = "terminal", !.filled = Cardinality(ExecsOf(o) \cap Executed)]
    BY <1>2, <1>4, <2>1, Zenon DEF AnswerLookup, LookupTrue
  <2> QED
    BY <1>2, <2>2 DEF LookupTrue
<1>5. ASSUME lookup'.answer = "terminal"
      PROVE  \E p \in closed' : lookup'.of = {p} /\ lookup'.filled = Cardinality(ExecsOf(p) \cap Executed)'
  <2>1. Cardinality(ExecsOf(o) \cap Executed)' = Cardinality(ExecsOf(o) \cap Executed)
    BY <1>2 DEF ExecsOf, Execs
  <2> QED
    BY <1>1, <1>4, <1>5, <2>1, Zenon
<1>6. LookupTrue'
  BY <1>3, <1>5, Zenon DEF LookupTrue
<1>7. /\ Honest(log') /\ (\A l \in past' : Honest(l)) /\ (\A l \in query'.after : Honest(l))
      /\ query'.rows \subseteq Executed
  BY <1>1, SMTT(30) DEF EndingsInv
<1> QED
  BY <1>1, <1>6, <1>7, EngineHonest, SMTT(30)

\* A record that supersedes what a recovery under way has read.
LEMMA RecordHonest ==
  ASSUME RecoveryInv, EndingsInv, UNCHANGED <<trades, closed>>, LookupTrue',
         wire' = wire \/ (wire # <<>> /\ wire' = Tail(wire)),
         Honest(log'), past' = past \cup {log'}, query' = Noted(Stale(query), log')
  PROVE  EndingsInv'
<1>1. IsQuery(query)
  BY DEF RecoveryInv, QueryFits
<1>2. Stale(query).rows = query.rows /\ Stale(query).after = query.after /\ IsQuery(Stale(query))
  BY <1>1, PhaseParts
<1>3. query'.rows = query.rows /\ query'.after \subseteq query.after \cup {log'}
  <2>1. /\ Noted(Stale(query), log').rows = Stale(query).rows
        /\ Noted(Stale(query), log').after \subseteq Stale(query).after \cup {log'}
    BY <1>2, PhaseParts, Zenon
  <2> QED
    BY <1>2, <2>1, Zenon
<1>4. (\A l \in past' : Honest(l)) /\ (\A l \in query'.after : Honest(l)) /\ query'.rows \subseteq Executed
  BY <1>3 DEF EndingsInv
<1> QED
  BY <1>4, EngineHonest, Zenon

\* place_order: an order is in flight from the record that it was sent.
LEMMA SendHonest ==
  ASSUME RecoveryInv, EndingsInv, NEW o \in Orders, Send(o)
  PROVE  EndingsInv'
<1>1. /\ UNCHANGED <<trades, closed, wire, lookup>> /\ past' = {log'}
      /\ query' = IF query.phase = "publishing" THEN [query EXCEPT !.after = {log'}] ELSE query
  BY DEF Send, venueVars, haltVars
<1>2. GoodLog(log) /\ Honest(log) /\ IsQuery(query)
  BY DEF RecoveryInv, EndingsInv, QueryFits
<1>3. log' = [log EXCEPT !.sent = log.sent \cup {o}, !.live = log.live \cup {o}]
  BY <1>2 DEF Send, GoodLog
<1>4. Honest(log')
  <2>1. log.live \ log.live \subseteq closed
    OBVIOUS
  <2> QED
    BY <1>2, <1>3, <2>1, RecordsHonest, ZenonT(30)
<1>5. query'.rows = query.rows /\ query'.after \subseteq query.after \cup {log'}
  BY <1>1, <1>2, PhaseParts, Zenon
<1>6. (\A l \in past' : Honest(l)) /\ (\A l \in query'.after : Honest(l)) /\ query'.rows \subseteq Executed
  BY <1>1, <1>4, <1>5, Zenon DEF EndingsInv
<1>7. LookupTrue'
  BY <1>1, LookupGoesOn, Zenon
<1> QED
  BY <1>1, <1>4, <1>6, <1>7, EngineHonest

\* journal_update: what the stream says was executed was.
LEMMA TakeFillHonest ==
  ASSUME RecoveryInv, EndingsInv, TakeFill
  PROVE  EndingsInv'
<1>1. PICK e \in Execs :
        /\ wire # <<>> /\ Head(wire) = Fill(e) /\ wire' = Tail(wire)
        /\ IF e \in log.ids THEN UNCHANGED <<log, past, query>>
           ELSE log' = Counted(log, {e}) /\ past' = past \cup {log'} /\ query' = Noted(Stale(query), log')
  BY ZenonT(30) DEF TakeFill
<1>2. UNCHANGED <<trades, closed, lookup>>
  BY DEF TakeFill, venueVars
<1>3. LookupTrue'
  BY <1>2, LookupGoesOn, Zenon
<1>4. CASE e \in log.ids
  <2>1. UNCHANGED <<log, past, query>>
    BY <1>1, <1>4, Zenon
  <2>2. /\ Honest(log') /\ (\A l \in past' : Honest(l)) /\ (\A l \in query'.after : Honest(l))
        /\ query'.rows \subseteq Executed
    BY <2>1 DEF EndingsInv
  <2> QED
    BY <1>1, <1>2, <1>3, <2>2, EngineHonest
<1>5. CASE e \notin log.ids
  <2>1. e \in Executed
    <3>1. Head(wire) \in Told
      BY <1>1 DEF EndingsInv
    <3> QED
      BY <1>1, <3>1, ToldTrue, Zenon
  <2>2. {e} \in SUBSET Execs /\ {e} \subseteq Executed /\ {e} \cap log.ids = {}
    BY <1>5, <2>1, Zenon
  <2>3. TradesInOrder /\ GoodLog(log) /\ Honest(log)
    BY DEF RecoveryInv, EndingsInv
  <2>4. Honest(log')
    BY <1>1, <1>5, <2>2, <2>3, CountedHonest, SMTT(30)
  <2> QED
    BY <1>1, <1>2, <1>3, <1>5, <2>4, RecordHonest, Zenon
<1> QED
  BY <1>4, <1>5, Zenon

\* An ending of the stream, or one the status read of a halt proves, is the venue's.
LEMMA EndingHonest ==
  ASSUME RecoveryInv, EndingsInv, TakeEnded \/ \E o \in Orders : ApplyHaltLookup(o)
  PROVE  EndingsInv'
<1>1. /\ UNCHANGED <<trades, closed>> /\ lookup' \in {lookup, NoLookup}
      /\ wire' = wire \/ (wire # <<>> /\ wire' = Tail(wire))
  BY DEF TakeEnded, ApplyHaltLookup, venueVars
<1>2. LookupTrue'
  BY <1>1, LookupGoesOn, Zenon
<1>3. PICK o \in Orders :
        \/ UNCHANGED <<log, past, query>>
        \/ /\ log' = [log EXCEPT !.live = @ \ {o}] /\ past' = past \cup {log'}
           /\ query' = Noted(Stale(query), log')
           /\ \/ wire # <<>> /\ Head(wire) = Ended(o)
              \/ lookup.of = {o} /\ lookup.answer = "terminal"
  BY DEF TakeEnded, ApplyHaltLookup, LookupProves
<1>4. CASE UNCHANGED <<log, past, query>>
  <2>1. /\ Honest(log') /\ (\A l \in past' : Honest(l)) /\ (\A l \in query'.after : Honest(l))
        /\ query'.rows \subseteq Executed
    BY <1>4 DEF EndingsInv
  <2> QED
    BY <1>1, <1>2, <2>1, EngineHonest, SMTT(30)
<1>5. CASE ~UNCHANGED <<log, past, query>>
  <2>1. o \in closed
    <3>1. wire # <<>> => Head(wire) \in Told
      BY DEF EndingsInv
    <3>2. lookup.answer = "terminal" => \E p \in closed : lookup.of = {p}
      BY ZenonT(30) DEF EndingsInv, LookupTrue
    <3> QED
      BY <1>3, <1>5, <3>1, <3>2, ToldTrue, SMTT(30)
  <2>2. GoodLog(log) /\ Honest(log) /\ log.live \ (log.live \ {o}) \subseteq closed
    BY <2>1 DEF RecoveryInv, EndingsInv
  <2>3. log' = [log EXCEPT !.live = log.live \ {o}]
    BY <1>3, <1>5, <2>2, Zenon DEF GoodLog
  <2>4. Honest(log')
    BY <2>2, <2>3, RecordsHonest, ZenonT(30)
  <2> QED
    BY <1>1, <1>2, <1>3, <1>5, <2>4, RecordHonest, SMTT(30)
<1> QED
  BY <1>4, <1>5, Zenon

\* A gap is noticed, or a recovery launched that has read nothing yet.
LEMMA GapHonest ==
  ASSUME RecoveryInv, EndingsInv,
         TakeDown \/ \E through \in log.until..Len(trades) :
                       TakeReset(through) \/ \E due \in BOOLEAN : Launch(due, through)
  PROVE  EndingsInv'
<1>1. /\ UNCHANGED <<trades, closed, lookup, log, past>>
      /\ wire' \in {wire, <<>>} \/ (wire # <<>> /\ wire' = Tail(wire))
  BY DEF TakeDown, TakeReset, Launch, venueVars, haltVars
<1>2. query' = Superseded(query) \/ \E t, w : query' = Launched(mem', w, t)
  BY DEF TakeDown, TakeReset, Launch
<1>3. \A m, w, t : Launched(m, w, t).rows = {} /\ Launched(m, w, t).after = {}
  BY DEF Launched, IdleQuery
<1>4. IsQuery(query)
  BY SMTT(30) DEF RecoveryInv, QueryFits
<1>5. (query'.rows = query.rows /\ query'.after = query.after) \/ (query'.rows = {} /\ query'.after = {})
  <2>1. CASE query' = Superseded(query)
    BY <1>4, <2>1, PhaseParts, Zenon
  <2>2. CASE \E t, w : query' = Launched(mem', w, t)
    BY <1>3, <2>2, Zenon
  <2> QED
    BY <1>2, <2>1, <2>2, Zenon
<1>6. LookupTrue'
  BY <1>1, LookupGoesOn, Zenon
<1>7. /\ Honest(log') /\ (\A l \in past' : Honest(l)) /\ (\A l \in query'.after : Honest(l))
      /\ query'.rows \subseteq Executed
  BY <1>1, <1>5, Zenon DEF EndingsInv
<1> QED
  BY <1>1, <1>6, <1>7, EngineHonest, SMTT(30)

\* Reading, adopting and giving up move at most the latch.
LEMMA PhaseHonest ==
  ASSUME RecoveryInv, EndingsInv, ReadAccount \/ CompleteAccount \/ Durable \/ CompleteFailed \/ CompleteRefused
  PROVE  EndingsInv'
<1>1. UNCHANGED <<trades, closed, wire, lookup>>
  BY DEF ReadAccount, CompleteAccount, Durable, CompleteFailed, CompleteRefused, venueVars, haltVars
<1>2. IsQuery(query) /\ GoodLog(log) /\ Honest(log) /\ IsQuery([query EXCEPT !.hist = FALSE])
  BY QueryParts, Zenon DEF RecoveryInv, EndingsInv, QueryFits
<1>3. log' = log \/ log' = [log EXCEPT !.open = FALSE]
  BY SMTT(30) DEF ReadAccount, CompleteAccount, Durable, CompleteFailed, CompleteRefused, AdoptedLog
<1>4. Honest(log')
  <2>1. Honest([log EXCEPT !.open = FALSE])
    BY <1>2, LatchHonest, Zenon
  <2> QED
    BY <1>2, <1>3, <2>1, Zenon
<1>5. past' \subseteq past \cup query.after \cup {log'}
  BY DEF ReadAccount, CompleteAccount, Durable, CompleteFailed, CompleteRefused
<1>6. \/ query'.rows = query.rows /\ query'.after = query.after
      \/ query'.rows = {} /\ query'.after \subseteq {log'}
  <2>1. CASE ReadAccount
    BY <1>2, <2>1, Zenon DEF ReadAccount, IsQuery, Fields
  <2>2. CASE CompleteAccount \/ Durable
    BY <2>2 DEF CompleteAccount, Durable, IdleQuery
  <2>3. CASE CompleteFailed \/ CompleteRefused
    <3>1. query' = Publish(query, log') \/ query' = Publish([query EXCEPT !.hist = FALSE], log')
      BY <2>3 DEF CompleteFailed, CompleteRefused
    <3> QED
      <4>1. Publish(query, log').rows = {} /\ Publish(query, log').after = {log'}
        BY <1>2, PhaseParts, Zenon
      <4>2. /\ Publish([query EXCEPT !.hist = FALSE], log').rows = {}
            /\ Publish([query EXCEPT !.hist = FALSE], log').after = {log'}
        BY <1>2, PhaseParts, Zenon
      <4> QED
        BY <3>1, <4>1, <4>2, Zenon
  <2> QED
    BY <2>1, <2>2, <2>3
<1>7. (\A l \in past' : Honest(l)) /\ (\A l \in query'.after : Honest(l)) /\ query'.rows \subseteq Executed
  BY <1>4, <1>5, <1>6 DEF EndingsInv
<1>8. LookupTrue'
  BY <1>1, LookupGoesOn, Zenon
<1> QED
  BY <1>1, <1>4, <1>7, <1>8, EngineHonest, SMTT(30)

\* The rows a recovery reads were executed.
LEMMA HistoryHonest ==
  ASSUME RecoveryInv, EndingsInv, CompleteHistory
  PROVE  EndingsInv'
<1>1. /\ UNCHANGED <<trades, closed, wire, lookup, log, past>>
      /\ query.phase = "reading" /\ query.hist
  BY DEF CompleteHistory, Completed, venueVars, haltVars
<1>2. PICK R \in HistoryReads(log, query.through, query.upto) :
        query' = [query EXCEPT !.phase = "applying", !.rows = R, !.upto = 0]
  BY Zenon DEF CompleteHistory
<1>3. /\ trades \in Seq(Execs) /\ log.until \in Nat /\ query.through \in Nat /\ query.upto \in Nat
      /\ log.until <= query.through /\ query.through <= query.upto /\ query.upto <= Len(trades)
      /\ IsQuery(query)
  BY <1>1 DEF RecoveryInv, TradesInOrder, GoodLog, QueryFits
<1>4. R \subseteq Executed
  BY <1>3, ReadsReach, Zenon
<1>5. query'.rows = R /\ query'.after = query.after
  BY <1>2, <1>3, Zenon DEF IsQuery, Fields
<1>6. LookupTrue'
  BY <1>1, LookupGoesOn, Zenon
<1>7. /\ Honest(log') /\ (\A l \in past' : Honest(l)) /\ (\A l \in query'.after : Honest(l))
      /\ query'.rows \subseteq Executed
  BY <1>1, <1>4, <1>5, Zenon DEF EndingsInv
<1> QED
  BY <1>1, <1>6, <1>7, EngineHonest

\* One turn counts at most one row, and the end of a batch moves at most the boundary.
LEMMA ApplyTurnHonest ==
  ASSUME RecoveryInv, EndingsInv, ApplyTurn
  PROVE  EndingsInv'
<1>1. UNCHANGED <<trades, closed, wire, lookup>>
  BY Zenon DEF ApplyTurn, venueVars
<1>2. LookupTrue'
  BY <1>1, LookupGoesOn, Zenon
<1>3. /\ TradesInOrder /\ GoodLog(log) /\ Honest(log) /\ IsQuery(query) /\ query.rows \subseteq Executed
      /\ query.rows \subseteq Execs
  BY DEF RecoveryInv, EndingsInv, QueryFits
<1>4. ASSUME NEW l, GoodLog(l), Honest(l), NEW q, IsQuery(q), Finish(l, q)
      PROVE  EndingsInv'
  <2>1. IsQuery([q EXCEPT !.proven = TRUE])
    BY <1>4, QueryParts, Zenon
  <2>2. /\ log' = l \/ log' = [l EXCEPT !.until = q.through]
        /\ past' = past \cup {l, log'} /\ query' = Publish([q EXCEPT !.proven = TRUE], log')
    BY <1>4, SMTT(30) DEF Finish
  <2>3. Honest(log')
    <3>1. Honest([l EXCEPT !.until = q.through])
      BY <1>4, BoundaryHonest, Zenon
    <3> QED
      BY <1>4, <2>2, <3>1, Zenon
  <2>4. query'.rows = {} /\ query'.after = {log'}
    BY <2>1, <2>2, PhaseParts, Zenon
  <2>5. (\A k \in past' : Honest(k)) /\ (\A k \in query'.after : Honest(k)) /\ query'.rows \subseteq Executed
    BY <1>4, <2>2, <2>3, <2>4, Zenon DEF EndingsInv
  <2> QED
    BY <1>1, <1>2, <2>3, <2>5, EngineHonest, SMTT(30)
<1>5. CASE query.rows = {} /\ Finish(log, query)
  BY <1>3, <1>4, <1>5, Zenon
<1>6. ASSUME NEW e \in query.rows, NEW l, NEW q,
             l = IF e \in log.ids THEN log ELSE Counted(log, {e}),
             q = [query EXCEPT !.rows = @ \ {e}, !.stale = @ \/ ~(e \in log.ids),
                               !.before = IF e \in log.ids THEN @ ELSE {}],
             IF q.rows = {} THEN Finish(l, q) ELSE log' = l /\ past' = past \cup {l} /\ query' = q
      PROVE  EndingsInv'
  <2>1. IsQuery(q) /\ q.rows = query.rows \ {e} /\ q.after = query.after
    BY <1>3, <1>6, Zenon DEF IsQuery, Fields
  <2>2. GoodLog(l) /\ Honest(l)
    <3>1. CASE e \in log.ids
      BY <1>3, <1>6, <3>1, Zenon
    <3>2. CASE e \notin log.ids
      <4>1. {e} \in SUBSET Execs /\ {e} \subseteq Executed /\ {e} \cap log.ids = {} /\ l = Counted(log, {e})
        BY <1>3, <1>6, <3>2, Zenon
      <4> QED
        BY <1>3, <4>1, CountedGood, CountedHonest, SMTT(30)
    <3> QED
      BY <3>1, <3>2
  <2>3. CASE q.rows = {}
    BY <1>4, <1>6, <2>1, <2>2, <2>3, SMTT(30)
  <2>4. CASE q.rows # {}
    <3>1. log' = l /\ past' = past \cup {l} /\ query' = q
      BY <1>6, <2>4, Zenon
    <3>2. /\ Honest(log') /\ (\A k \in past' : Honest(k)) /\ (\A k \in query'.after : Honest(k))
          /\ query'.rows \subseteq Executed
      BY <1>3, <2>1, <2>2, <3>1, SMTT(30) DEF EndingsInv
    <3> QED
      BY <1>1, <1>2, <3>2, EngineHonest, SMTT(30)
  <2> QED
    BY <2>3, <2>4, Zenon
<1> QED
  BY <1>5, <1>6, Zenon DEF ApplyTurn

\* A crash goes back to one of the states on disk, and forgets what was asked.
LEMMA CrashHonest ==
  ASSUME EndingsInv, Crash
  PROVE  EndingsInv'
<1>1. /\ UNCHANGED <<trades, closed>> /\ wire' = <<>> /\ lookup' = NoLookup /\ query' = IdleQuery
      /\ log' \in past /\ past' = {log'}
  BY DEF Crash, Stop, venueVars
<1>2. LookupTrue'
  BY <1>1, LookupGoesOn, Zenon
<1>3. query'.rows = {} /\ query'.after = {}
  BY <1>1 DEF IdleQuery
<1>4. /\ Honest(log') /\ (\A l \in past' : Honest(l)) /\ (\A l \in query'.after : Honest(l))
      /\ query'.rows \subseteq Executed
  BY <1>1, <1>3, Zenon DEF EndingsInv
<1> QED
  BY <1>1, <1>2, <1>4, EngineHonest, SMTT(30)

\* recover_missed_fills counts executions, row by row.
LEMMA BootHistoryHonest ==
  ASSUME RecoveryInv, EndingsInv, NEW through \in log.until..Len(trades), BootHistory(through)
  PROVE  EndingsInv'
<1>1. UNCHANGED <<trades, closed, wire, lookup, query>>
  BY SMTT(30) DEF BootHistory, venueVars, haltVars
<1>2. /\ TradesInOrder /\ trades \in Seq(Execs) /\ GoodLog(log) /\ Honest(log) /\ log.until \in Nat /\ through \in Nat
      /\ log.until <= through /\ through <= Len(trades) /\ Len(trades) \in Nat
  <2>1. TradesInOrder /\ trades \in Seq(Execs) /\ GoodLog(log) /\ Honest(log)
    BY Zenon DEF RecoveryInv, TradesInOrder, EndingsInv
  <2>2. log.until \in Nat
    BY <2>1 DEF GoodLog
  <2>3. Len(trades) \in Nat
    BY <2>1
  <2> QED
    BY <2>1, <2>2, <2>3
<1>3. PICK read \in HistoryReads(log, through, Len(trades)) :
        LET rows == read \ log.ids
            l == Counted(log, rows)
        IN  /\ log' = l \/ log' = [l EXCEPT !.until = through]
            /\ past' = past \cup {log'} \cup {Counted(log, R) : R \in SUBSET rows}
  BY Zenon DEF BootHistory
<1> DEFINE rows == read \ log.ids
           l == Counted(log, rows)
<1>4. read \subseteq Execs /\ read \subseteq Executed
  BY <1>2, ReadsReach
<1>5. ASSUME NEW R \in SUBSET rows PROVE GoodLog(Counted(log, R)) /\ Honest(Counted(log, R))
  <2>1. R \in SUBSET Execs /\ R \subseteq Executed /\ R \cap log.ids = {}
    BY <1>4, Zenon
  <2> QED
    BY <1>2, <2>1, CountedGood, CountedHonest
<1>6. GoodLog(l) /\ Honest(l)
  BY <1>5, SMTT(30)
<1> HIDE DEF l
<1>7. Honest(log')
  <2>1. log' = l \/ log' = [l EXCEPT !.until = through]
    BY <1>3, Zenon DEF l
  <2>2. Honest([l EXCEPT !.until = through])
    BY <1>6, BoundaryHonest, Zenon
  <2> QED
    BY <1>6, <2>1, <2>2, Zenon
<1>8. \A k \in past' : Honest(k)
  <2>1. past' = past \cup {log'} \cup {Counted(log, R) : R \in SUBSET rows}
    BY <1>3, Zenon
  <2> HIDE DEF rows
  <2> QED
    BY <1>5, <1>7, <2>1, Zenon DEF EndingsInv
<1>9. LookupTrue'
  BY <1>1, LookupGoesOn, Zenon
<1>10. (\A k \in query'.after : Honest(k)) /\ query'.rows \subseteq Executed
  BY <1>1, Zenon DEF EndingsInv
<1> QED
  BY <1>1, <1>7, <1>8, <1>9, <1>10, EngineHonest, SMTT(30)

\* reconcile_with_venue ends only orders the venue no longer works.
LEMMA BootReconcileHonest ==
  ASSUME RecoveryInv, EndingsInv, BootReconcile
  PROVE  EndingsInv'
<1>1. UNCHANGED <<trades, closed, wire, lookup, query>>
  BY DEF BootReconcile, venueVars
<1> DEFINE b == log.open /\ Matches(mem.seen, log)
           found == [log EXCEPT !.open = b]
           ended == [found EXCEPT !.live = found.live \ closed]
<1>2. GoodLog(log) /\ Honest(log)
  BY SMTT(30) DEF RecoveryInv, EndingsInv
<1>3. GoodLog(found) /\ Honest(found)
  <2>1. b \in BOOLEAN /\ log.live \ log.live \subseteq closed
    BY SMTT(30)
  <2> HIDE DEF b
  <2> QED
    BY <1>2, <2>1, OpenGood, RecordsHonest, ZenonT(30)
<1>4. Honest(ended)
  <2> HIDE DEF found
  <2>1. found.live \ (found.live \ closed) \subseteq closed
    OBVIOUS
  <2> QED
    BY <1>3, <2>1, RecordsHonest, ZenonT(30)
<1>5. log' = ended /\ past' = {found, ended}
  BY <1>2, <1>3, Zenon DEF BootReconcile, GoodLog
<1> HIDE DEF found, ended
<1>6. /\ Honest(log') /\ (\A l \in past' : Honest(l)) /\ (\A l \in query'.after : Honest(l))
      /\ query'.rows \subseteq Executed
  BY <1>1, <1>3, <1>4, <1>5, SMTT(30) DEF EndingsInv
<1>7. LookupTrue'
  BY <1>1, LookupGoesOn, Zenon
<1> QED
  BY <1>1, <1>6, <1>7, EngineHonest, SMTT(30)

\* Every step of venue, stream, engine, boot and crash keeps the log honest.
LEMMA StepEndings == RecoveryInv /\ EndingsInv /\ [Next]_vars => EndingsInv'
<1> SUFFICES ASSUME RecoveryInv, EndingsInv, [Next]_vars PROVE EndingsInv'
  OBVIOUS
<1>1. CASE UNCHANGED vars \/ Drop \/ Redial \/ OnTick \/ DispatchHaltCancels
  BY <1>1, QuietHonest, Zenon
<1>2. CASE Crash \/ BootStep
  BY <1>2, CrashHonest, QuietHonest, BootReconcileHonest, SMTT(30) DEF BootStep
<1>3. CASE \E o \in Orders : Trade(o) \/ EndAtVenue(o) \/ Send(o) \/ CancelReply(o) \/ StartHaltLookup(o)
  BY <1>3, VenueHonest, SendHonest, QuietHonest, AskHonest, SMTT(30)
<1>4. CASE \E through \in log.until..Len(trades) :
             TakeReset(through) \/ BootHistory(through) \/ \E due \in BOOLEAN : Launch(due, through)
  BY <1>4, GapHonest, BootHistoryHonest, Zenon
<1>5. CASE TakeFill \/ TakeEnded \/ TakeDown
  BY <1>5, TakeFillHonest, EndingHonest, GapHonest, SMTT(30)
<1>6. CASE RecoveryStep \/ CompleteFailed \/ CompleteRefused
  BY <1>6, PhaseHonest, HistoryHonest, ApplyTurnHonest, SMTT(30) DEF RecoveryStep
<1>7. CASE LookupStep
  BY <1>7, AskHonest, EndingHonest, Zenon DEF LookupStep
<1> QED
  BY <1>1, <1>2, <1>3, <1>4, <1>5, <1>6, <1>7, SMTT(30) DEF Next

\* The second inductive invariant, on top of the first: what the stream, the reads and the
\* status answer say of the venue is true when they are applied, however late.
THEOREM AlwaysHonest == Spec => []EndingsInv
<1>1. Init /\ [][Next]_vars /\ []RecoveryInv => []EndingsInv
  BY InitEndings, StepEndings, PTL
<1> QED
  BY <1>1, RecoveryCorrect, PTL DEF Spec

\* No state a crash can leave calls an order ended that the venue still works.
THEOREM AlwaysEndedAtVenue == Spec => []EndedAtVenue
<1>1. EndingsInv => EndedAtVenue
  BY DEF EndingsInv, Honest, EndedAtVenue
<1> QED
  BY AlwaysHonest, <1>1, PTL

\* Only the answer to it ends a status read in a running engine.
LEMMA OnlyAnswersEnd ==
  ASSUME [Next]_vars, NEW o \in Orders, lookup.of = {o}, lookup' = NoLookup, stage' = "run"
  PROVE  ApplyHaltLookup(o)
<1>1. lookup' # lookup
  BY DEF NoLookup
<1>2. ~UNCHANGED vars /\ ~Drop /\ ~Redial /\ ~OnTick /\ ~DispatchHaltCancels
  BY <1>1 DEF vars, Drop, Redial, OnTick, DispatchHaltCancels, engineVars
<1>3. ~Crash /\ ~BootStep
  BY <1>1 DEF Crash, Stop, BootStep, BootConnect, BootAccount, BootReconcile, haltVars
<1>4. ASSUME NEW p \in Orders
      PROVE  ~Trade(p) /\ ~EndAtVenue(p) /\ ~Send(p) /\ ~CancelReply(p) /\ ~StartHaltLookup(p) /\ ~AnswerLookup(p)
  <2>1. ~Trade(p) /\ ~EndAtVenue(p) /\ ~Send(p) /\ ~CancelReply(p)
    BY <1>1, SMTT(30) DEF Trade, EndAtVenue, Send, CancelReply, engineVars, haltVars
  <2>2. ~StartHaltLookup(p)
    BY Zenon DEF StartHaltLookup, NoLookup
  <2>3. ~AnswerLookup(p)
    BY Zenon DEF AnswerLookup, NoLookup
  <2> QED
    BY <2>1, <2>2, <2>3, Zenon
<1>5. ASSUME NEW t PROVE ~TakeReset(t) /\ ~BootHistory(t) /\ \A due : ~Launch(due, t)
  BY <1>1 DEF TakeReset, BootHistory, Launch, haltVars
<1>6. ~TakeFill /\ ~TakeEnded /\ ~TakeDown
  BY <1>1, Zenon DEF TakeFill, TakeEnded, TakeDown
<1>7. ~RecoveryStep /\ ~CompleteFailed /\ ~CompleteRefused
  BY <1>1, Zenon DEF RecoveryStep, ReadAccount, CompleteAccount, CompleteHistory, ApplyTurn, Durable,
     CompleteFailed, CompleteRefused, haltVars
<1>8. PICK p \in Orders : ApplyHaltLookup(p)
  BY <1>2, <1>3, <1>4, <1>5, <1>6, <1>7, Zenon DEF Next, LookupStep
<1>9. p = o
  BY <1>8 DEF ApplyHaltLookup
<1> QED
  BY <1>8, <1>9, Zenon

\* The status read of a halt ends an order only when every execution of it is counted: the
\* answer gives the order's total for good, the log holds none that was not executed, and the
\* totals agree.
THEOREM LookupEndsOnlyCounted == Spec => LookupEndsCounted
<1>1. ASSUME RecoveryInv, EndingsInv, [Next]_vars, NEW o \in Orders, lookup.of = {o}, lookup' = NoLookup,
             stage' = "run", o \in log.live \ log'.live
      PROVE  \A e \in ExecsOf(o) \cap Executed : log'.n[e] = 1
  <2>1. ApplyHaltLookup(o)
    BY <1>1, OnlyAnswersEnd, Zenon
  <2>2. /\ LookupProves(o) /\ TotalsAgree(o) /\ log' = [log EXCEPT !.live = @ \ {o}]
    BY <1>1, <2>1, Zenon DEF ApplyHaltLookup
  <2>3. GoodLog(log) /\ Honest(log) /\ LookupTrue
    BY <1>1 DEF RecoveryInv, EndingsInv
  <2>4. lookup.filled = Cardinality(ExecsOf(o) \cap Executed)
    BY <1>1, <2>2, <2>3, Zenon DEF LookupProves, LookupTrue
  <2>5. Cardinality(ExecsOf(o) \cap log.ids) = Cardinality(ExecsOf(o) \cap Executed)
    BY <2>2, <2>3, <2>4, Zenon DEF TotalsAgree, GoodLog
  <2>6. IsFiniteSet(ExecsOf(o))
    BY FiniteExecs
  <2>7. ExecsOf(o) \cap Executed \in SUBSET ExecsOf(o)
    OBVIOUS
  <2>8. IsFiniteSet(ExecsOf(o) \cap Executed)
    BY <2>6, <2>7, FS_Subset, Zenon
  <2>9. ExecsOf(o) \cap log.ids \in SUBSET (ExecsOf(o) \cap Executed)
    BY <2>3, Zenon DEF Honest
  <2>10. ExecsOf(o) \cap log.ids = ExecsOf(o) \cap Executed
    BY <2>5, <2>8, <2>9, FS_Subset, SMTT(30)
  <2>11. log'.n = log.n /\ \A e \in Execs : log.n[e] = 1 <=> e \in log.ids
    BY <2>2, <2>3, Zenon DEF GoodLog
  <2> QED
    BY <2>10, <2>11, Zenon DEF ExecsOf
<1>2. RecoveryInv /\ EndingsInv /\ [Next]_vars =>
        [\A o \in Orders : lookup.of = {o} /\ lookup' = NoLookup /\ stage' = "run" /\ o \in log.live \ log'.live =>
           \A e \in ExecsOf(o) \cap Executed : log'.n[e] = 1]_vars
  BY <1>1
<1>3. Init /\ [][Next]_vars /\ []RecoveryInv /\ []EndingsInv => LookupEndsCounted
  BY <1>2, PTL DEF LookupEndsCounted
<1> QED
  BY <1>3, RecoveryCorrect, AlwaysHonest, PTL DEF Spec
-----------------------------------------------------------------------------
(* What is on disk for good. *)

\* State k says at least what state l says: what is counted, which orders are known, which of
\* them are known to have ended, and how far the history has been read.
Extends(l, k) ==
  /\ \A e \in Execs : l.n[e] <= k.n[e]
  /\ l.sent \subseteq k.sent /\ l.sent \ l.live \subseteq k.sent \ k.live
  /\ l.until <= k.until

\* The engine's own state is one a crash may leave, and so are those since a barrier began,
\* which only a batch that waits for one keeps.
PastInv ==
  /\ log \in past /\ query.after \subseteq past
  /\ query.phase # "publishing" => query.after = {}

\* Every state a crash may leave after the step extends one a crash could have left before it.
PastExtended == \A k \in past' : \E l \in past : Extends(l, k)

\* Whatever all the states a crash may leave agree on - an execution counted, an order sent or
\* ended, a boundary - no step of the engine, no crash and no boot takes back.
DurableStays == [][PastExtended]_vars

\* Every state extends itself.
LEMMA SelfExtends ==
  ASSUME NEW l, GoodLog(l)
  PROVE  Extends(l, l)
<1>1. (\A e \in Execs : l.n[e] \in {0, 1}) /\ l.until \in Nat
  BY DEF GoodLog
<1> QED
  BY <1>1 DEF Extends

\* A state that keeps more ids counts more.
LEMMA MoreExtends ==
  ASSUME NEW l, GoodLog(l), NEW k, GoodLog(k), l.ids \subseteq k.ids, l.until <= k.until,
         l.sent \subseteq k.sent, l.sent \ l.live \subseteq k.sent \ k.live
  PROVE  Extends(l, k)
<1>1. \A e \in Execs : /\ l.n[e] \in {0, 1} /\ (l.n[e] = 1 <=> e \in l.ids)
                     /\ k.n[e] \in {0, 1} /\ (k.n[e] = 1 <=> e \in k.ids)
  BY DEF GoodLog
<1>2. \A e \in Execs : l.n[e] <= k.n[e]
  BY <1>1
<1> QED
  BY <1>2, Zenon DEF Extends

\* Executions not yet known are added.
LEMMA CountedExtends ==
  ASSUME NEW l, GoodLog(l), NEW R \in SUBSET Execs, R \cap l.ids = {}
  PROVE  Extends(l, Counted(l, R))
<1> DEFINE k == Counted(l, R)
<1>1. GoodLog(k) /\ k.ids = l.ids \cup R /\ k.until = l.until /\ k.sent = l.sent /\ k.live \subseteq l.live
  <2>1. /\ GoodLog(k) /\ k.ids = l.ids \cup R /\ k.until = l.until /\ k.sent = l.sent
        /\ k.live = {o \in l.live : ExecsOf(o) \cap R # {} => Cardinality(ExecsOf(o) \cap (l.ids \cup R)) < Qty[o]}
    BY CountedGood, Zenon
  <2> HIDE DEF k
  <2>2. k.live \subseteq l.live
    BY <2>1, Zenon
  <2> QED
    BY <2>1, <2>2
<1> HIDE DEF k
<1>2. /\ l.ids \subseteq k.ids /\ l.until <= k.until
      /\ l.sent \subseteq k.sent /\ l.sent \ l.live \subseteq k.sent \ k.live
  <2>1. l.until \in Nat
    BY DEF GoodLog
  <2> QED
    BY <1>1, <2>1
<1>3. Extends(l, k)
  BY <1>1, <1>2, MoreExtends, Zenon
<1> QED
  BY <1>3, Zenon DEF k

\* The latch takes nothing back.
LEMMA LatchExtends ==
  ASSUME NEW l, GoodLog(l), NEW b
  PROVE  Extends(l, [l EXCEPT !.open = b])
<1> DEFINE k == [l EXCEPT !.open = b]
<1>1. k.n = l.n /\ k.sent = l.sent /\ k.live = l.live /\ k.until = l.until
  BY DEF GoodLog
<1> HIDE DEF k
<1>2. Extends(l, l)
  BY SelfExtends
<1>3. Extends(l, k)
  BY <1>1, <1>2, Zenon DEF Extends
<1> QED
  BY <1>3 DEF k

\* The boundary only moves on.
LEMMA BoundaryExtends ==
  ASSUME NEW l, GoodLog(l), NEW k, GoodLog(k), Extends(l, k), NEW u \in Nat, k.until <= u
  PROVE  Extends(l, [k EXCEPT !.until = u])
<1> DEFINE m == [k EXCEPT !.until = u]
<1>1. m.n = k.n /\ m.sent = k.sent /\ m.live = k.live /\ m.until = u
  BY DEF GoodLog
<1> HIDE DEF m
<1>2. l.until \in Nat /\ k.until \in Nat /\ l.until <= k.until
  BY Zenon DEF GoodLog, Extends
<1>3. l.until <= m.until
  BY <1>1, <1>2
<1>4. Extends(l, m)
  BY <1>1, <1>3, Zenon DEF Extends
<1> QED
  BY <1>4 DEF m

\* An order that ends is known and no longer in flight.
LEMMA EndExtends ==
  ASSUME NEW l, NEW k, GoodLog(k), Extends(l, k), NEW L, L \subseteq k.live
  PROVE  Extends(l, [k EXCEPT !.live = L])
<1> DEFINE m == [k EXCEPT !.live = L]
<1>1. m.n = k.n /\ m.sent = k.sent /\ m.live = L /\ m.until = k.until
  BY DEF GoodLog
<1> HIDE DEF m
<1>2. Extends(l, m)
  BY <1>1, Zenon DEF Extends
<1> QED
  BY <1>2 DEF m

\* An order is sent once, and so is not among those that ended.
LEMMA SendExtends ==
  ASSUME NEW l, GoodLog(l), NEW o, o \notin l.sent
  PROVE  Extends(l, [l EXCEPT !.sent = l.sent \cup {o}, !.live = l.live \cup {o}])
<1> DEFINE k == [l EXCEPT !.sent = l.sent \cup {o}, !.live = l.live \cup {o}]
<1>1. k.n = l.n /\ k.sent = l.sent \cup {o} /\ k.live = l.live \cup {o} /\ k.until = l.until
  BY DEF GoodLog
<1> HIDE DEF k
<1>2. Extends(l, l)
  BY SelfExtends
<1>3. Extends(l, k)
  BY <1>1, <1>2, Zenon DEF Extends
<1> QED
  BY <1>3 DEF k

\* What a step has to keep of the states a crash may leave.
LEMMA StepExtends ==
  ASSUME RecoveryInv, PastInv, log' \in past', query'.after \subseteq past',
         query'.phase # "publishing" => query'.after = {},
         \A k \in past' : k \in past \/ Extends(log, k)
  PROVE  PastInv' /\ PastExtended
<1>1. PastInv'
  BY Zenon DEF PastInv
<1>2. ASSUME NEW k \in past' PROVE \E l \in past : Extends(l, k)
  <2>1. CASE k \in past
    <3>1. GoodLog(k)
      BY <2>1, Zenon DEF RecoveryInv
    <3> QED
      BY <2>1, <3>1, SelfExtends, Zenon
  <2>2. CASE Extends(log, k)
    BY <2>2, Zenon DEF PastInv
  <2> QED
    BY <2>1, <2>2
<1> QED
  BY <1>1, <1>2, Zenon DEF PastExtended

\* The stream, the venue, the halt, its status read and the first reads of a boot write no record.
LEMMA QuietExtends ==
  ASSUME RecoveryInv, PastInv,
         \/ UNCHANGED vars \/ Drop \/ Redial \/ OnTick \/ DispatchHaltCancels \/ BootConnect \/ BootAccount
         \/ \E o \in Orders : Trade(o) \/ EndAtVenue(o) \/ CancelReply(o) \/ StartHaltLookup(o) \/ AnswerLookup(o)
  PROVE  PastInv' /\ PastExtended
<1>1. UNCHANGED <<log, past, query>>
  <2>1. CASE UNCHANGED vars \/ Drop \/ Redial \/ OnTick \/ DispatchHaltCancels
    BY <2>1, Zenon DEF vars, Drop, Redial, OnTick, DispatchHaltCancels, engineVars
  <2>2. CASE BootConnect \/ BootAccount
    BY <2>2, Zenon DEF BootConnect, BootAccount
  <2>3. CASE \E o \in Orders : Trade(o) \/ EndAtVenue(o) \/ CancelReply(o)
    BY <2>3, Zenon DEF Trade, EndAtVenue, CancelReply, engineVars
  <2>4. CASE \E o \in Orders : StartHaltLookup(o) \/ AnswerLookup(o)
    BY <2>4, Zenon DEF StartHaltLookup, AnswerLookup
  <2> QED
    BY <2>1, <2>2, <2>3, <2>4, Zenon
<1>2. /\ log' \in past' /\ query'.after \subseteq past' /\ (query'.phase # "publishing" => query'.after = {})
      /\ \A k \in past' : k \in past
  BY <1>1, Zenon DEF PastInv
<1> QED
  BY <1>2, StepExtends, Zenon

\* A recovery that is superseded, launched or reading writes no record and waits for no barrier.
LEMMA ReadingExtends ==
  ASSUME RecoveryInv, PastInv,
         \/ TakeDown \/ ReadAccount \/ CompleteHistory
         \/ \E through \in log.until..Len(trades) : TakeReset(through) \/ \E due \in BOOLEAN : Launch(due, through)
  PROVE  PastInv' /\ PastExtended
<1>1. QueryFits(query, log) /\ IsQuery(query)
  BY Zenon DEF RecoveryInv, QueryFits
<1>2. UNCHANGED <<log, past>>
  BY Zenon DEF TakeDown, ReadAccount, CompleteHistory, TakeReset, Launch
<1>3. query'.after \subseteq query.after /\ (query'.phase # "publishing" => query'.after = {})
  <2>1. ASSUME NEW w, NEW through, query' = Launched(mem', w, through)
        PROVE  query'.after \subseteq query.after /\ (query'.phase # "publishing" => query'.after = {})
    BY <2>1 DEF Launched, IdleQuery
  <2>2. ASSUME query' = Superseded(query)
        PROVE  query'.after \subseteq query.after /\ (query'.phase # "publishing" => query'.after = {})
    <3>1. query'.after = query.after /\ query'.phase = query.phase
      BY <1>1, <2>2, PhaseParts, MarkedFits, Zenon
    <3> QED
      BY <3>1, Zenon DEF PastInv
  <2>3. CASE TakeDown \/ \E through \in log.until..Len(trades) :
               TakeReset(through) \/ \E due \in BOOLEAN : Launch(due, through)
    BY <2>1, <2>2, <2>3, Zenon DEF TakeDown, TakeReset, Launch
  <2>4. CASE ReadAccount
    <3>1. query'.after = query.after /\ query'.phase = query.phase
      BY <1>1, <2>4, Zenon DEF ReadAccount, IsQuery, Fields
    <3> QED
      BY <3>1, Zenon DEF PastInv
  <2>5. CASE CompleteHistory
    <3>1. query.phase = "reading"
      BY <2>5, Zenon DEF CompleteHistory, Completed
    <3>2. query.after = {}
      BY <3>1 DEF PastInv
    <3>3. query'.after = query.after
      BY <1>1, <2>5, ZenonT(30) DEF CompleteHistory, IsQuery, Fields
    <3> QED
      BY <3>2, <3>3, Zenon
  <2> QED
    BY <2>3, <2>4, <2>5, Zenon
<1>4. /\ log' \in past' /\ query'.after \subseteq past' /\ \A k \in past' : k \in past
  BY <1>2, <1>3, Zenon DEF PastInv
<1> QED
  BY <1>3, <1>4, StepExtends, Zenon

\* One record: what a crash may leave grows by the state after it.
LEMMA RecordExtends ==
  ASSUME RecoveryInv, PastInv, Extends(log, log'), past' = past \cup {log'}, query' = Noted(Stale(query), log')
  PROVE  PastInv' /\ PastExtended
<1>1. QueryFits(query, log) /\ IsQuery(query)
  BY Zenon DEF RecoveryInv, QueryFits
<1> DEFINE q == Stale(query)
<1>2. IsQuery(q) /\ q.after = query.after /\ q.phase = query.phase
  BY <1>1, PhaseParts, MarkedFits, Zenon
<1> HIDE DEF q
<1>3. query' = Noted(q, log')
  BY DEF q
<1>4. query'.after \subseteq query.after \cup {log'}
  BY <1>2, <1>3, PhaseParts, Zenon
<1>5. ASSUME query'.phase # "publishing" PROVE query'.after = {}
  <2>1. CASE q.phase = "publishing"
    <3>1. query' = [q EXCEPT !.after = q.after \cup {log'}]
      BY <1>2, <1>3, <2>1, Zenon DEF Noted, IsQuery, Fields
    <3>2. query'.phase = q.phase
      BY <1>2, <3>1, Zenon DEF IsQuery, Fields
    <3> QED
      BY <1>5, <2>1, <3>2, Zenon
  <2>2. CASE q.phase # "publishing"
    <3>1. query' = q
      BY <1>3, <2>2, Zenon DEF Noted
    <3> QED
      BY <1>2, <2>2, <3>1, Zenon DEF PastInv
  <2> QED
    BY <2>1, <2>2, Zenon
<1>6. log' \in past' /\ query'.after \subseteq past' /\ \A k \in past' : k \in past \/ Extends(log, k)
  BY <1>4, Zenon DEF PastInv
<1> QED
  BY <1>5, <1>6, StepExtends, Zenon

\* journal_update: a fill of the stream, counted unless its id is known.
LEMMA TakeFillExtends ==
  ASSUME RecoveryInv, PastInv, TakeFill
  PROVE  PastInv' /\ PastExtended
<1>1. PICK e \in Execs :
        IF e \in log.ids THEN UNCHANGED <<log, past, query>>
        ELSE log' = Counted(log, {e}) /\ past' = past \cup {log'} /\ query' = Noted(Stale(query), log')
  BY Zenon DEF TakeFill
<1>2. CASE e \in log.ids
  <2>1. UNCHANGED <<log, past, query>>
    BY <1>1, <1>2
  <2>2. /\ log' \in past' /\ query'.after \subseteq past' /\ (query'.phase # "publishing" => query'.after = {})
        /\ \A k \in past' : k \in past
    BY <2>1, Zenon DEF PastInv
  <2> QED
    BY <2>2, StepExtends, Zenon
<1>3. CASE e \notin log.ids
  <2>1. GoodLog(log) /\ {e} \in SUBSET Execs /\ {e} \cap log.ids = {}
    BY <1>3, Zenon DEF RecoveryInv
  <2>2. Extends(log, Counted(log, {e}))
    BY <2>1, CountedExtends, Zenon
  <2>3. Extends(log, log') /\ past' = past \cup {log'} /\ query' = Noted(Stale(query), log')
    BY <1>1, <1>3, <2>2, Zenon
  <2> QED
    BY <2>3, RecordExtends, Zenon
<1> QED
  BY <1>2, <1>3

\* An ending of the stream, or one the status read of a halt proves.
LEMMA EndingExtends ==
  ASSUME RecoveryInv, PastInv, TakeEnded \/ \E o \in Orders : ApplyHaltLookup(o)
  PROVE  PastInv' /\ PastExtended
<1>1. PICK o \in Orders :
        \/ UNCHANGED <<log, past, query>>
        \/ /\ log' = [log EXCEPT !.live = @ \ {o}] /\ past' = past \cup {log'}
           /\ query' = Noted(Stale(query), log')
  BY DEF TakeEnded, ApplyHaltLookup
<1>2. CASE UNCHANGED <<log, past, query>>
  <2>1. /\ log' \in past' /\ query'.after \subseteq past' /\ (query'.phase # "publishing" => query'.after = {})
        /\ \A k \in past' : k \in past
    BY <1>2, Zenon DEF PastInv
  <2> QED
    BY <2>1, StepExtends, Zenon
<1>3. CASE /\ log' = [log EXCEPT !.live = @ \ {o}] /\ past' = past \cup {log'}
           /\ query' = Noted(Stale(query), log')
  <2>1. GoodLog(log) /\ log.live \ {o} \subseteq log.live /\ log' = [log EXCEPT !.live = log.live \ {o}]
    BY <1>3, Zenon DEF RecoveryInv, GoodLog
  <2>2. Extends(log, log)
    BY <2>1, SelfExtends, Zenon
  <2>3. Extends(log, log')
    BY <2>1, <2>2, EndExtends, Zenon
  <2> QED
    BY <1>3, <2>3, RecordExtends, Zenon
<1> QED
  BY <1>1, <1>2, <1>3, Zenon

\* place_order: its barrier makes the order, and all before it, safe.
LEMMA SendStepExtends ==
  ASSUME RecoveryInv, PastInv, NEW o \in Orders, Send(o)
  PROVE  PastInv' /\ PastExtended
<1>1. /\ o \notin log.sent /\ past' = {log'}
      /\ query' = IF query.phase = "publishing" THEN [query EXCEPT !.after = {log'}] ELSE query
  BY Zenon DEF Send
<1>2. GoodLog(log) /\ QueryFits(query, log) /\ IsQuery(query)
  BY Zenon DEF RecoveryInv, QueryFits
<1>3. log' = [log EXCEPT !.sent = log.sent \cup {o}, !.live = log.live \cup {o}]
  BY <1>2 DEF Send, GoodLog
<1>4. Extends(log, log')
  BY <1>1, <1>2, <1>3, SendExtends, Zenon
<1>5. query'.after \subseteq {log'} /\ (query'.phase # "publishing" => query'.after = {})
  <2>1. CASE query.phase = "publishing"
    <3>1. query' = [query EXCEPT !.after = {log'}]
      BY <1>1, <2>1, Zenon
    <3>2. query'.after = {log'} /\ query'.phase = query.phase
      BY <1>2, <3>1, Zenon DEF IsQuery, Fields
    <3> QED
      BY <2>1, <3>2, Zenon
  <2>2. CASE query.phase # "publishing"
    BY <1>1, <2>2, Zenon DEF PastInv
  <2> QED
    BY <2>1, <2>2
<1>6. log' \in past' /\ query'.after \subseteq past' /\ \A k \in past' : k \in past \/ Extends(log, k)
  BY <1>1, <1>4, <1>5, Zenon
<1> QED
  BY <1>5, <1>6, StepExtends, Zenon

\* adopt_recovery_account moves at most the latch.
LEMMA AdoptedExtends ==
  ASSUME NEW l, GoodLog(l), NEW q
  PROVE  Extends(l, AdoptedLog(l, q))
<1>1. AdoptedLog(l, q) = l \/ AdoptedLog(l, q) = [l EXCEPT !.open = FALSE]
  BY Zenon DEF AdoptedLog
<1>2. Extends(l, l) /\ Extends(l, [l EXCEPT !.open = FALSE])
  BY SelfExtends, LatchExtends, Zenon
<1> QED
  BY <1>1, <1>2, Zenon

\* The end of a phase: after a barrier only the states since it began are left.
LEMMA EndExtendsPast ==
  ASSUME RecoveryInv, PastInv, CompleteAccount \/ Durable
  PROVE  PastInv' /\ PastExtended
<1>1. /\ log' = AdoptedLog(log, query) /\ query' = IdleQuery
      /\ past' = past \cup {log'} \/ past' = query.after \cup {log'}
  BY Zenon DEF CompleteAccount, Durable
<1>2. Extends(log, log')
  BY <1>1, AdoptedExtends, Zenon DEF RecoveryInv
<1>3. query'.after = {}
  BY <1>1, Zenon DEF IdleQuery
<1>4. log' \in past' /\ query'.after \subseteq past' /\ \A k \in past' : k \in past \/ Extends(log, k)
  BY <1>1, <1>2, <1>3, Zenon DEF PastInv
<1> QED
  BY <1>3, <1>4, StepExtends, Zenon

\* A history that cannot be read moves at most the latch.
LEMMA FailedExtends ==
  ASSUME RecoveryInv, PastInv, CompleteFailed \/ CompleteRefused
  PROVE  PastInv' /\ PastExtended
<1>1. /\ log' = log \/ log' = [log EXCEPT !.open = FALSE]
      /\ past' = past \cup {log'}
      /\ query' = Publish(query, log') \/ query' = Publish([query EXCEPT !.hist = FALSE], log')
  <2>1. CASE CompleteFailed
    <3>1. UNCHANGED <<log, past>> /\ query' = Publish([query EXCEPT !.hist = FALSE], log)
      BY <2>1, Zenon DEF CompleteFailed
    <3> QED
      BY <3>1, Zenon DEF PastInv
  <2>2. CASE CompleteRefused
    BY <2>2, Zenon DEF CompleteRefused
  <2> QED
    BY <2>1, <2>2, Zenon
<1>2. Extends(log, log')
  <2>1. GoodLog(log)
    BY Zenon DEF RecoveryInv
  <2>2. Extends(log, log) /\ Extends(log, [log EXCEPT !.open = FALSE])
    BY <2>1, SelfExtends, LatchExtends, Zenon
  <2> QED
    BY <1>1, <2>2, Zenon
<1>3. IsQuery(query) /\ IsQuery([query EXCEPT !.hist = FALSE]) /\ GoodLog(log)
  BY QueryParts, Zenon DEF RecoveryInv, QueryFits
<1>4. query'.after = {log'} /\ query'.phase = "publishing"
  <2>1. ASSUME NEW q, IsQuery(q), query' = Publish(q, log')
        PROVE  query'.after = {log'} /\ query'.phase = "publishing"
    BY <2>1, Zenon DEF Publish, IsQuery, Fields
  <2> QED
    BY <1>1, <1>3, <2>1, Zenon
<1>5. log' \in past' /\ query'.after \subseteq past' /\ \A k \in past' : k \in past \/ Extends(log, k)
  BY <1>1, <1>2, <1>4, Zenon
<1> QED
  BY <1>4, <1>5, StepExtends, Zenon

\* The end of a batch moves at most the boundary, on to the end of the range it read.
LEMMA FinishExtends ==
  ASSUME RecoveryInv, PastInv, NEW l, GoodLog(l), Extends(log, l), NEW q, IsQuery(q), l.until <= q.through,
         q.through \in Nat, Finish(l, q)
  PROVE  PastInv' /\ PastExtended
<1>1. /\ log' = l \/ log' = [l EXCEPT !.until = q.through]
      /\ past' = past \cup {l, log'} /\ query' = Publish([q EXCEPT !.proven = TRUE], log')
  BY Zenon DEF Finish
<1>2. Extends(log, log')
  <2>1. GoodLog(log)
    BY Zenon DEF RecoveryInv
  <2>2. Extends(log, [l EXCEPT !.until = q.through])
    BY <2>1, BoundaryExtends, Zenon
  <2> QED
    BY <1>1, <2>2, Zenon
<1>3. query'.after = {log'} /\ query'.phase = "publishing"
  <2>1. IsQuery([q EXCEPT !.proven = TRUE])
    BY QueryParts, Zenon
  <2>2. ASSUME NEW t, IsQuery(t), query' = Publish(t, log')
        PROVE  query'.after = {log'} /\ query'.phase = "publishing"
    BY <2>2, Zenon DEF Publish, IsQuery, Fields
  <2> QED
    BY <1>1, <2>1, <2>2, Zenon
<1>4. log' \in past' /\ query'.after \subseteq past' /\ \A k \in past' : k \in past \/ Extends(log, k)
  BY <1>1, <1>2, <1>3, Zenon
<1> QED
  BY <1>3, <1>4, StepExtends, Zenon

\* apply_history_batch: a row is counted unless its id is known.
LEMMA ApplyTurnExtends ==
  ASSUME RecoveryInv, PastInv, ApplyTurn
  PROVE  PastInv' /\ PastExtended
<1>1. query.phase = "applying"
  BY Zenon DEF ApplyTurn
<1>2. GoodLog(log) /\ QueryFits(query, log)
  BY Zenon DEF RecoveryInv
<1>3. /\ IsQuery(query) /\ query.rows \subseteq Execs /\ query.through \in Nat /\ log.until <= query.through
      /\ query.after = {}
  <2>1. query.after = {}
    BY <1>1 DEF PastInv
  <2> QED
    BY <1>1, <1>2, <2>1, Zenon DEF QueryFits
<1>4. CASE query.rows = {} /\ Finish(log, query)
  <2>1. Extends(log, log)
    BY <1>2, SelfExtends, Zenon
  <2> QED
    BY <1>2, <1>3, <1>4, <2>1, FinishExtends, Zenon
<1>5. ASSUME NEW e \in query.rows, NEW l, NEW q,
             l = IF e \in log.ids THEN log ELSE Counted(log, {e}),
             q = [query EXCEPT !.rows = @ \ {e}, !.stale = @ \/ ~(e \in log.ids),
                               !.before = IF e \in log.ids THEN @ ELSE {}],
             IF q.rows = {} THEN Finish(l, q) ELSE log' = l /\ past' = past \cup {l} /\ query' = q
      PROVE  PastInv' /\ PastExtended
  <2>1. GoodLog(l) /\ l.until = log.until /\ Extends(log, l)
    <3>1. CASE e \in log.ids
      <4>1. l = log
        BY <1>5, <3>1
      <4> QED
        BY <1>2, <4>1, SelfExtends, Zenon
    <3>2. CASE e \notin log.ids
      <4>1. {e} \in SUBSET Execs /\ {e} \cap log.ids = {} /\ l = Counted(log, {e})
        BY <1>3, <1>5, <3>2
      <4> QED
        BY <1>2, <4>1, CountedGood, CountedExtends, Zenon
    <3> QED
      BY <3>1, <3>2
  <2>2. IsQuery(q) /\ q.phase = "applying" /\ q.after = {} /\ q.through = query.through
    BY <1>1, <1>3, <1>5, ZenonT(30) DEF IsQuery, Fields
  <2>3. CASE q.rows = {}
    <3>1. Finish(l, q)
      BY <1>5, <2>3
    <3>2. l.until <= q.through /\ q.through \in Nat
      BY <1>3, <2>1, <2>2, Zenon
    <3> QED
      BY <2>1, <2>2, <3>1, <3>2, FinishExtends, Zenon
  <2>4. CASE q.rows # {}
    <3>1. log' = l /\ past' = past \cup {l} /\ query' = q
      BY <1>5, <2>4
    <3>2. /\ log' \in past' /\ query'.after = {} /\ query'.after \subseteq past'
          /\ \A k \in past' : k \in past \/ Extends(log, k)
      BY <2>1, <2>2, <3>1, Zenon
    <3> QED
      BY <3>2, StepExtends, Zenon
  <2> QED
    BY <2>3, <2>4, Zenon
<1> QED
  BY <1>4, <1>5, Zenon DEF ApplyTurn

\* A crash leaves one of the states, and nothing of the others.
LEMMA CrashExtends ==
  ASSUME RecoveryInv, PastInv, Crash
  PROVE  PastInv' /\ PastExtended
<1>1. log' \in past /\ past' = {log'} /\ query' = IdleQuery
  BY Zenon DEF Crash, Stop
<1>2. query'.after = {}
  BY <1>1 DEF IdleQuery
<1>3. log' \in past' /\ query'.after \subseteq past' /\ \A k \in past' : k \in past
  BY <1>1, <1>2, Zenon
<1> QED
  BY <1>2, <1>3, StepExtends, Zenon

\* recover_missed_fills counts what the history holds and the log does not, row by row.
LEMMA BootHistoryExtends ==
  ASSUME RecoveryInv, PastInv, NEW through \in log.until..Len(trades), BootHistory(through)
  PROVE  PastInv' /\ PastExtended
<1>1. UNCHANGED query
  BY Zenon DEF BootHistory
<1>2. /\ trades \in Seq(Execs) /\ GoodLog(log) /\ log.until \in Nat
  BY Zenon DEF RecoveryInv, TradesInOrder, GoodLog
<1>3. through \in Nat /\ log.until <= through /\ through <= Len(trades) /\ Len(trades) \in Nat
  BY <1>2
<1>4. PICK read \in HistoryReads(log, through, Len(trades)) :
        LET rows == read \ log.ids
            l == Counted(log, rows)
        IN  /\ log' = l \/ log' = [l EXCEPT !.until = through]
            /\ past' = past \cup {log'} \cup {Counted(log, R) : R \in SUBSET rows}
  BY Zenon DEF BootHistory
<1> DEFINE rows == read \ log.ids
           l == Counted(log, rows)
<1>5. rows \in SUBSET Execs /\ rows \cap log.ids = {}
  <2>1. read \subseteq Execs
    BY <1>2, <1>3, ReadsReach, SMTT(30)
  <2> QED
    BY <2>1, Zenon
<1>6. /\ log' = l \/ log' = [l EXCEPT !.until = through]
      /\ past' = past \cup {log'} \cup {Counted(log, R) : R \in SUBSET rows}
  BY <1>4, Zenon
<1> HIDE DEF rows
<1>7. \A R \in SUBSET rows : Extends(log, Counted(log, R))
  <2>1. ASSUME NEW R \in SUBSET rows PROVE R \in SUBSET Execs /\ R \cap log.ids = {}
    BY <1>5, Zenon
  <2> QED
    BY <1>2, <2>1, CountedExtends, Zenon
<1>8. GoodLog(l) /\ l.until = log.until /\ Extends(log, l)
  BY <1>2, <1>5, CountedGood, CountedExtends, Zenon
<1> HIDE DEF l
<1>9. Extends(log, log')
  <2>1. l.until <= through
    BY <1>3, <1>8, Zenon
  <2>2. Extends(log, [l EXCEPT !.until = through])
    BY <1>2, <1>3, <1>8, <2>1, BoundaryExtends, Zenon
  <2> QED
    BY <1>6, <1>8, <2>2, Zenon
<1>10. /\ log' \in past' /\ query'.after \subseteq past' /\ (query'.phase # "publishing" => query'.after = {})
       /\ \A k \in past' : k \in past \/ Extends(log, k)
  <2>1. query'.after \subseteq past /\ (query'.phase # "publishing" => query'.after = {})
    BY <1>1, Zenon DEF PastInv
  <2> QED
    BY <1>6, <1>7, <1>9, <2>1, Zenon
<1> QED
  BY <1>10, StepExtends, Zenon

\* reconcile_with_venue moves the latch and ends orders; its barrier leaves no state before it.
LEMMA BootReconcileExtends ==
  ASSUME RecoveryInv, PastInv, BootReconcile
  PROVE  PastInv' /\ PastExtended
<1>1. UNCHANGED query /\ query.phase = "idle"
  <2>1. stage # "run"
    BY Zenon DEF BootReconcile
  <2> QED
    BY <2>1, Zenon DEF BootReconcile, RecoveryInv
<1> DEFINE b == log.open /\ Matches(mem.seen, log)
           found == [log EXCEPT !.open = b]
           ended == [found EXCEPT !.live = found.live \ closed]
<1>2. GoodLog(log) /\ log.open \in BOOLEAN
  BY DEF RecoveryInv, GoodLog
<1>3. GoodLog(found) /\ Extends(log, found)
  <2>1. b \in BOOLEAN
    OBVIOUS
  <2> HIDE DEF b
  <2>2. GoodLog(found)
    BY <1>2, <2>1, OpenGood, Zenon
  <2> QED
    BY <1>2, <2>2, LatchExtends, Zenon
<1>4. Extends(log, ended)
  <2> HIDE DEF found
  <2>1. found.live \ closed \subseteq found.live
    OBVIOUS
  <2> QED
    BY <1>3, <2>1, EndExtends, Zenon
<1>5. log' = ended /\ past' = {found, ended}
  BY <1>2, <1>3, Zenon DEF BootReconcile, GoodLog
<1> HIDE DEF found, ended
<1>6. query'.after = {}
  BY <1>1 DEF PastInv
<1>7. log' \in past' /\ query'.after \subseteq past' /\ \A k \in past' : k \in past \/ Extends(log, k)
  BY <1>3, <1>4, <1>5, <1>6, Zenon
<1> QED
  BY <1>6, <1>7, StepExtends, Zenon

\* Every step leaves only states that extend one that could have been left before it.
LEMMA StepPast == RecoveryInv /\ PastInv /\ [Next]_vars => PastInv' /\ PastExtended
<1> SUFFICES ASSUME RecoveryInv, PastInv, [Next]_vars PROVE PastInv' /\ PastExtended
  OBVIOUS
<1>1. CASE UNCHANGED vars \/ Drop \/ Redial \/ OnTick \/ DispatchHaltCancels
  BY <1>1, QuietExtends, Zenon
<1>2. CASE Crash \/ BootStep
  BY <1>2, CrashExtends, QuietExtends, BootReconcileExtends, Zenon DEF BootStep
<1>3. CASE \E o \in Orders : Trade(o) \/ EndAtVenue(o) \/ Send(o) \/ CancelReply(o) \/ StartHaltLookup(o)
  BY <1>3, SendStepExtends, QuietExtends, Zenon
<1>4. CASE \E through \in log.until..Len(trades) :
             TakeReset(through) \/ BootHistory(through) \/ \E due \in BOOLEAN : Launch(due, through)
  BY <1>4, ReadingExtends, BootHistoryExtends, Zenon
<1>5. CASE TakeFill \/ TakeEnded \/ TakeDown
  BY <1>5, TakeFillExtends, EndingExtends, ReadingExtends, Zenon
<1>6. CASE RecoveryStep \/ CompleteFailed \/ CompleteRefused
  BY <1>6, ReadingExtends, EndExtendsPast, ApplyTurnExtends, FailedExtends, Zenon DEF RecoveryStep
<1>7. CASE LookupStep
  BY <1>7, QuietExtends, EndingExtends, Zenon DEF LookupStep
<1> QED
  BY <1>1, <1>2, <1>3, <1>4, <1>5, <1>6, <1>7, ZenonT(30) DEF Next

\* What the engine holds is among the states a crash may leave.
THEOREM AlwaysPast == Spec => []PastInv
<1>1. Init => PastInv
  BY DEF Init, PastInv, IdleQuery
<1>2. RecoveryInv /\ PastInv /\ [Next]_vars => PastInv'
  BY StepPast, Zenon
<1>3. Init /\ [][Next]_vars /\ []RecoveryInv => []PastInv
  BY <1>1, <1>2, PTL
<1> QED
  BY <1>3, RecoveryCorrect, PTL DEF Spec

\* No step, no crash and no boot takes back what every state a crash may leave holds: a
\* counted execution, a sent order, an ending or the history boundary.
THEOREM DurableAlwaysStays == Spec => DurableStays
<1>1. RecoveryInv /\ PastInv /\ [Next]_vars => [PastExtended]_vars
  BY StepPast, Zenon
<1>2. Init /\ [][Next]_vars /\ []RecoveryInv /\ []PastInv => DurableStays
  BY <1>1, PTL DEF DurableStays
<1> QED
  BY <1>2, RecoveryCorrect, AlwaysPast, PTL DEF Spec
=============================================================================
