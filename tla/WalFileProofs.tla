--------------------------- MODULE WalFileProofs ----------------------------
(***************************************************************************)
(* What the segment files of Wal hold and what a boot makes of them: the   *)
(* history a chain of frames restates, the segment open_current chooses,   *)
(* and what a power loss leaves of it.  For every number of records and    *)
(* segments and every damage a power loss may leave.                       *)
(***************************************************************************)
EXTENDS Wal, WellFoundedInduction, TLAPS

-----------------------------------------------------------------------------
(* Numbers and sequences. *)

\* A set of naturals that is not empty has a least element (MinOf in scan_frames).
LEMMA HasMin ==
  ASSUME NEW S, S \subseteq Nat, S # {}
  PROVE  \E m \in S : \A n \in S : m <= n
<1> DEFINE R == OpToRel(<, Nat)
<1>1. IsWellFoundedOn(R, Nat)
  BY NatLessThanWellFounded
<1>2. \A x \in Nat, y \in Nat : <<y, x>> \in R <=> y < x
  BY DEF R, OpToRel
<1> HIDE DEF R
<1>3. PICK m \in S : \A y \in S : ~(<<y, m>> \in R)
  BY <1>1, WFMin, Zenon
<1>4. \A n \in S : m \in Nat /\ n \in Nat /\ ~(n < m)
  BY <1>2, <1>3, Zenon
<1>5. QED
  BY <1>4

\* A set of segment ordinals that is not empty has a greatest element (Newest, Chosen).
LEMMA HasMax ==
  ASSUME NEW N \in Nat, NEW S, S \subseteq 1..N, S # {}
  PROVE  \E m \in S : \A n \in S : n <= m
<1> DEFINE T == {i \in 0..N : N - i \in S}
<1>1. T # {}
  <2>1. PICK s \in S : TRUE
    BY Zenon
  <2>2. N - s \in 0..N /\ N - (N - s) = s
    BY <2>1
  <2>3. N - s \in T
    BY <2>1, <2>2
  <2>4. QED
    BY <2>3, Zenon
<1>2. T \subseteq Nat
  OBVIOUS
<1>3. PICK x \in T : \A y \in T : x <= y
  BY <1>1, <1>2, HasMin, Zenon
<1>4. \A n \in S : N - n \in T /\ N - n \in Nat
  OBVIOUS
<1>5. \A n \in S : x <= N - n
  BY <1>3, <1>4, Zenon
<1>6. N - x \in S /\ x \in Nat
  BY <1>3
<1>7. QED
  BY <1>5, <1>6

\* MinOf and MaxOf are the least and the greatest element where there is one.
LEMMA MinOfIs ==
  ASSUME NEW S, S \subseteq Int, NEW m \in S, \A n \in S : m <= n
  PROVE  MinOf(S) = m
<1>1. MinOf(S) \in S /\ \A n \in S : MinOf(S) <= n
  BY Zenon DEF MinOf
<1>2. MinOf(S) \in Int /\ m \in Int
  BY <1>1, Zenon
<1>3. MinOf(S) <= m /\ m <= MinOf(S)
  BY <1>1, Zenon
<1>4. QED
  BY <1>2, <1>3

\* An upper bound in the set is its maximum.
LEMMA MaxOfIs ==
  ASSUME NEW S, S \subseteq Int, NEW m \in S, \A n \in S : n <= m
  PROVE  MaxOf(S) = m
<1>1. MaxOf(S) \in S /\ \A n \in S : n <= MaxOf(S)
  BY Zenon DEF MaxOf
<1>2. MaxOf(S) \in Int /\ m \in Int
  BY <1>1, Zenon
<1>3. MaxOf(S) <= m /\ m <= MaxOf(S)
  BY <1>1, Zenon
<1>4. QED
  BY <1>2, <1>3

\* What the proofs use of sequences, for any set of elements.
LEMMA SeqFacts ==
  ASSUME NEW S, NEW a \in Seq(S)
  PROVE  /\ Len(a) \in Nat
         /\ \A i \in 1..Len(a) : a[i] \in S
         /\ a # << >> => Len(a) > 0 /\ Head(a) = a[1] /\ a[1] \in S
         /\ a = << >> => Len(a) = 0
  OBVIOUS

\* A function on 1..n with values in S is a sequence over S.
LEMMA FunctionIsSeq ==
  ASSUME NEW S, NEW n \in Nat, NEW f \in [1..n -> S]
  PROVE  f \in Seq(S) /\ Len(f) = n
  OBVIOUS

\* The first n elements of a sequence.
LEMMA PrefixFacts ==
  ASSUME NEW S, NEW a \in Seq(S), NEW n \in 0..Len(a)
  PROVE  /\ SubSeq(a, 1, n) \in Seq(S) /\ Len(SubSeq(a, 1, n)) = n
         /\ \A i \in 1..n : SubSeq(a, 1, n)[i] = a[i]
  OBVIOUS

\* A sequence is its own longest prefix.
LEMMA WholePrefix ==
  ASSUME NEW S, NEW a \in Seq(S)
  PROVE  SubSeq(a, 1, Len(a)) = a
  OBVIOUS

\* One element more.
LEMMA AppendFacts ==
  ASSUME NEW S, NEW a \in Seq(S), NEW e \in S
  PROVE  /\ Append(a, e) \in Seq(S) /\ Len(Append(a, e)) = Len(a) + 1
         /\ \A i \in 1..Len(a) : Append(a, e)[i] = a[i]
         /\ Append(a, e)[Len(a) + 1] = e
  OBVIOUS

\* Two sequences in a row.
LEMMA ConcatFacts ==
  ASSUME NEW S, NEW a \in Seq(S), NEW b \in Seq(S)
  PROVE  /\ a \o b \in Seq(S) /\ Len(a \o b) = Len(a) + Len(b)
         /\ \A i \in 1..Len(a) : (a \o b)[i] = a[i]
         /\ \A i \in 1..Len(b) : (a \o b)[Len(a) + i] = b[i]
  OBVIOUS

\* Nothing behind a sequence leaves it as it is.
LEMMA ConcatEmpty ==
  ASSUME NEW S, NEW a \in Seq(S)
  PROVE  a \o << >> = a /\ << >> \o a = a
  OBVIOUS

\* Sequences of one length with the same elements are equal.
LEMMA SameSequence ==
  ASSUME NEW S, NEW a \in Seq(S), NEW b \in Seq(S), Len(a) = Len(b),
         \A i \in 1..Len(a) : a[i] = b[i]
  PROVE  a = b
  OBVIOUS

\* What a frame restates is a sequence of records.
LEMMA FrameFacts ==
  ASSUME NEW f \in Frame
  PROVE  /\ f.hist \in Seq(1..MaxRecords) /\ Len(f.hist) \in Nat
         /\ \A i \in 1..Len(f.hist) : f.hist[i] \in 1..MaxRecords
<1>1. f.hist \in Seq(1..MaxRecords)
  BY DEF Frame
<1>2. QED
  BY <1>1, SeqFacts, Zenon

-----------------------------------------------------------------------------
(* Chains of frames and the history they restate. *)

\* The elements of what a chain restates: those of its first frame, then one per record.
LEMMA RestatedFacts ==
  ASSUME NEW s \in Segments, NEW frames \in Seq(Frame), Chain(frames, s)
  PROVE  /\ Restated(frames) \in Seq(1..MaxRecords)
         /\ Len(Restated(frames)) = Restates(frames, Len(frames))
         /\ frames # << >> => Len(frames[1].hist) \in Nat
         /\ \A i \in 1..Len(Restated(frames)) :
              Restated(frames)[i] = IF i <= Len(frames[1].hist) THEN frames[1].hist[i]
                                    ELSE frames[i - Len(frames[1].hist) + 1].hist[1]
<1>0. Len(frames) \in Nat /\ (frames = << >> => Len(frames) = 0)
  BY SeqFacts
<1>1. CASE frames = << >>
  BY <1>0, <1>1 DEF Restated, Restates
<1>2. CASE frames # << >>
  <2> DEFINE first == frames[1].hist
             rest == [i \in 1..(Len(frames) - 1) |-> frames[i + 1].hist[1]]
  <2>1. /\ Len(frames) \in Nat /\ Len(frames) > 0 /\ Head(frames) = frames[1]
        /\ \A i \in 1..Len(frames) : frames[i] \in Frame
    BY <1>2, SeqFacts
  <2>2. first \in Seq(1..MaxRecords) /\ Len(first) \in Nat
    BY <2>1, FrameFacts
  <2>3. rest \in Seq(1..MaxRecords) /\ Len(rest) = Len(frames) - 1
    <3>1. \A i \in 1..(Len(frames) - 1) : frames[i + 1].hist[1] \in 1..MaxRecords
      <4> SUFFICES ASSUME NEW i \in 1..(Len(frames) - 1) PROVE frames[i + 1].hist[1] \in 1..MaxRecords
        OBVIOUS
      <4>1. i + 1 \in 1..Len(frames) /\ i + 1 # 1
        BY <2>1
      <4>2. frames[i + 1] \in Frame /\ Len(frames[i + 1].hist) = 1
        BY <2>1, <4>1 DEF Chain, IsRecord
      <4>3. QED
        BY <4>2, FrameFacts
    <3>2. rest \in [1..(Len(frames) - 1) -> 1..MaxRecords] /\ Len(frames) - 1 \in Nat
      BY <2>1, <3>1
    <3> HIDE DEF rest
    <3>3. QED
      BY <3>2, FunctionIsSeq, Zenon
  <2>4. Restated(frames) = first \o rest
    BY <1>2, <2>1, Zenon DEF Restated
  <2>5. \A j \in 1..(Len(frames) - 1) : rest[j] = frames[j + 1].hist[1]
    OBVIOUS
  <2> HIDE DEF first, rest
  <2>6. /\ first \o rest \in Seq(1..MaxRecords)
        /\ Len(first \o rest) = Len(first) + Len(rest)
        /\ \A i \in 1..Len(first) : (first \o rest)[i] = first[i]
        /\ \A i \in 1..Len(rest) : (first \o rest)[Len(first) + i] = rest[i]
    <3> DEFINE R == 1..MaxRecords
    <3>1. first \in Seq(R) /\ rest \in Seq(R)
      BY <2>2, <2>3
    <3> HIDE DEF R
    <3>2. first \o rest \in Seq(R)
      BY <3>1, ConcatFacts, Zenon
    <3>3. Len(first \o rest) = Len(first) + Len(rest)
      BY <3>1, ConcatFacts
    <3>4. \A i \in 1..Len(first) : (first \o rest)[i] = first[i]
      BY <3>1, ConcatFacts
    <3>5. \A i \in 1..Len(rest) : (first \o rest)[Len(first) + i] = rest[i]
      BY <3>1, ConcatFacts
    <3>6. QED
      BY <3>2, <3>3, <3>4, <3>5 DEF R
  <2>7. \A i \in 1..(Len(first) + Len(rest)) :
          (first \o rest)[i] = IF i <= Len(first) THEN first[i]
                               ELSE frames[i - Len(first) + 1].hist[1]
    <3>0. Len(first) \in Nat /\ Len(rest) \in Nat
      BY <2>1, <2>2, <2>3
    <3> SUFFICES ASSUME NEW i \in 1..(Len(first) + Len(rest))
                 PROVE  (first \o rest)[i] = IF i <= Len(first) THEN first[i]
                                             ELSE frames[i - Len(first) + 1].hist[1]
      OBVIOUS
    <3>a. CASE i <= Len(first)
      BY <2>6, <3>0, <3>a
    <3>b. CASE ~(i <= Len(first))
      <4> DEFINE j == i - Len(first)
      <4>1. j \in 1..Len(rest) /\ Len(first) + j = i
        BY <3>0, <3>b
      <4> HIDE DEF j
      <4>2. (first \o rest)[i] = frames[j + 1].hist[1]
        BY <2>3, <2>5, <2>6, <4>1
      <4>3. QED
        BY <3>b, <4>2 DEF j
    <3>1. QED
      BY <3>a, <3>b
  <2>8. Len(first) + Len(rest) = Restates(frames, Len(frames))
    BY <2>1, <2>2, <2>3 DEF Restates, first
  <2>9. QED
    BY <2>2, <2>4, <2>6, <2>7, <2>8, Zenon DEF first
<1>3. QED
  BY <1>1, <1>2, Zenon

\* A prefix of a chain is a chain, and restates a prefix.
LEMMA ChainPrefix ==
  ASSUME NEW s \in Segments, NEW frames \in Seq(Frame), Chain(frames, s),
         NEW n \in 0..Len(frames), s > 1 => n > 0
  PROVE  /\ SubSeq(frames, 1, n) \in Seq(Frame)
         /\ Chain(SubSeq(frames, 1, n), s)
         /\ Restates(frames, n) \in 0..Len(Restated(frames))
         /\ Restated(SubSeq(frames, 1, n)) = SubSeq(Restated(frames), 1, Restates(frames, n))
<1> DEFINE part == SubSeq(frames, 1, n)
<1>0. Len(frames) \in Nat /\ n \in Nat /\ (n > 0 => frames # << >>)
  BY SeqFacts
<1>1. /\ part \in Seq(Frame) /\ Len(part) = n
      /\ \A i \in 1..n : part[i] = frames[i]
  BY PrefixFacts
<1> HIDE DEF part
<1>a. n > 0 => part # << >>
  BY <1>0, <1>1, SeqFacts
<1>2. Chain(part, s)
  BY <1>0, <1>1, <1>a DEF Chain
<1>3. /\ Restated(frames) \in Seq(1..MaxRecords)
      /\ Len(Restated(frames)) = Restates(frames, Len(frames))
      /\ frames # << >> => Len(frames[1].hist) \in Nat
      /\ \A i \in 1..Len(Restated(frames)) :
           Restated(frames)[i] = IF i <= Len(frames[1].hist) THEN frames[1].hist[i]
                                 ELSE frames[i - Len(frames[1].hist) + 1].hist[1]
  BY RestatedFacts, Zenon
<1>4. /\ Restated(part) \in Seq(1..MaxRecords)
      /\ Len(Restated(part)) = Restates(part, n)
      /\ \A i \in 1..Len(Restated(part)) :
           Restated(part)[i] = IF i <= Len(part[1].hist) THEN part[1].hist[i]
                               ELSE part[i - Len(part[1].hist) + 1].hist[1]
  BY <1>1, <1>2, RestatedFacts, Zenon
<1> DEFINE r == Restates(frames, n)
<1>5. Restates(part, n) = r /\ r \in 0..Len(Restated(frames))
  <2>1. CASE n = 0
    <3>1. Len(Restated(frames)) \in Nat
      BY <1>3, SeqFacts
    <3>2. QED
      BY <2>1, <3>1 DEF Restates
  <2>2. CASE n > 0
    <3>1. part[1] = frames[1] /\ Len(frames[1].hist) \in Nat
      BY <1>0, <1>1, <1>3, <2>2
    <3>2. QED
      BY <1>0, <1>3, <2>2, <3>1 DEF Restates
  <2>3. QED
    BY <1>0, <2>1, <2>2
<1>6. /\ SubSeq(Restated(frames), 1, r) \in Seq(1..MaxRecords)
      /\ Len(SubSeq(Restated(frames), 1, r)) = r
      /\ \A i \in 1..r : SubSeq(Restated(frames), 1, r)[i] = Restated(frames)[i]
  BY <1>3, <1>5, PrefixFacts, Zenon
<1>7. \A i \in 1..r : Restated(part)[i] = Restated(frames)[i]
  <2> SUFFICES ASSUME NEW i \in 1..r PROVE Restated(part)[i] = Restated(frames)[i]
    OBVIOUS
  <2>0. n > 0
    <3>1. n = 0 => r = 0
      BY DEF Restates
    <3> HIDE DEF r
    <3>2. QED
      BY <1>0, <3>1
  <2>1. n > 0 /\ part[1] = frames[1] /\ Len(frames[1].hist) \in Nat
    BY <1>0, <1>1, <1>3, <2>0
  <2>2. ~(i <= Len(frames[1].hist)) => i - Len(frames[1].hist) + 1 \in 1..n
    BY <1>0, <2>1 DEF Restates
  <2>3. i \in 1..Len(Restated(part)) /\ i \in 1..Len(Restated(frames))
    BY <1>4, <1>5
  <2> HIDE DEF r
  <2>4. CASE i <= Len(frames[1].hist)
    BY <1>3, <1>4, <2>1, <2>3, <2>4, Zenon
  <2>5. CASE ~(i <= Len(frames[1].hist))
    <3>1. /\ Restated(part)[i] = part[i - Len(frames[1].hist) + 1].hist[1]
          /\ Restated(frames)[i] = frames[i - Len(frames[1].hist) + 1].hist[1]
      BY <1>3, <1>4, <2>1, <2>3, <2>5, Zenon
    <3>2. QED
      BY <1>1, <2>2, <2>5, <3>1, Zenon
  <2>6. QED
    BY <2>4, <2>5
<1> HIDE DEF r
<1>8. Restated(part) = SubSeq(Restated(frames), 1, r)
  BY <1>4, <1>5, <1>6, <1>7, SameSequence
<1>9. QED
  BY <1>1, <1>2, <1>5, <1>8 DEF part, r

\* A record behind a chain: append's frame adds its record to the history.
LEMMA ChainAppend ==
  ASSUME NEW s \in Segments, NEW frames \in Seq(Frame), Chain(frames, s), NEW n \in 1..MaxRecords
  PROVE  /\ RecordFrame(n) \in Frame /\ IsRecord(RecordFrame(n)) /\ Sound(RecordFrame(n))
         /\ Append(frames, RecordFrame(n)) \in Seq(Frame)
         /\ Chain(Append(frames, RecordFrame(n)), s)
         /\ Restated(Append(frames, RecordFrame(n))) = Append(Restated(frames), n)
<1> DEFINE e == RecordFrame(n)
           more == Append(frames, e)
<1>1. e \in Frame /\ IsRecord(e) /\ Sound(e) /\ e.hist = <<n>> /\ Len(e.hist) = 1 /\ e.hist[1] = n
  <2>1. <<n>> \in Seq(1..MaxRecords)
    OBVIOUS
  <2>2. QED
    BY <2>1 DEF RecordFrame, Frame, FrameKinds, IsRecord, Sound
<1> HIDE DEF e
<1>2. /\ more \in Seq(Frame) /\ Len(more) = Len(frames) + 1
      /\ \A i \in 1..Len(frames) : more[i] = frames[i]
      /\ more[Len(frames) + 1] = e
  BY <1>1, AppendFacts
<1> HIDE DEF more
<1>3. Len(frames) \in Nat /\ more # << >> /\ (Len(frames) = 0 <=> frames = << >>)
  BY <1>2, SeqFacts
<1>4. Chain(more, s)
  BY <1>1, <1>2, <1>3 DEF Chain
<1>5. /\ Restated(more) \in Seq(1..MaxRecords)
      /\ Len(Restated(more)) = Restates(more, Len(more))
      /\ more # << >> => Len(more[1].hist) \in Nat
      /\ \A i \in 1..Len(Restated(more)) :
           Restated(more)[i] = IF i <= Len(more[1].hist) THEN more[1].hist[i]
                               ELSE more[i - Len(more[1].hist) + 1].hist[1]
  BY <1>2, <1>4, RestatedFacts, Zenon
<1>6. /\ Restated(frames) \in Seq(1..MaxRecords)
      /\ Len(Restated(frames)) = Restates(frames, Len(frames))
      /\ frames # << >> => Len(frames[1].hist) \in Nat
      /\ \A i \in 1..Len(Restated(frames)) :
           Restated(frames)[i] = IF i <= Len(frames[1].hist) THEN frames[1].hist[i]
                                 ELSE frames[i - Len(frames[1].hist) + 1].hist[1]
  BY RestatedFacts, Zenon
<1> DEFINE h == Append(Restated(frames), n)
           m == Len(Restated(frames))
<1>7. /\ h \in Seq(1..MaxRecords) /\ Len(h) = m + 1
      /\ \A i \in 1..m : h[i] = Restated(frames)[i]
      /\ h[m + 1] = n
  BY <1>6, AppendFacts
<1> HIDE DEF h
<1>8. Restated(more) = h
  <2>1. CASE frames = << >>
    <3>1. Len(frames) = 0 /\ more[1] = e /\ m = 0 /\ Len(Restated(more)) = 1
      BY <1>1, <1>2, <1>3, <1>5, <1>6, <2>1 DEF Restates
    <3>2. Restated(more)[1] = n
      BY <1>1, <1>5, <3>1
    <3>3. QED
      BY <1>5, <1>7, <3>1, <3>2, SameSequence
  <2>2. CASE frames # << >>
    <3> DEFINE l == Len(frames[1].hist)
    <3>1. Len(frames) > 0 /\ more[1] = frames[1] /\ l \in Nat /\ m = l + Len(frames) - 1
          /\ Len(Restated(more)) = m + 1
      BY <1>2, <1>3, <1>5, <1>6, <2>2, SMTT(30) DEF Restates
    <3> HIDE DEF m, l
    <3>2. \A i \in 1..(m + 1) : Restated(more)[i] = h[i]
      <4> SUFFICES ASSUME NEW i \in 1..(m + 1) PROVE Restated(more)[i] = h[i]
        OBVIOUS
      <4>1. CASE i <= l
        <5>1. i \in 1..m
          BY <1>3, <3>1, <4>1
        <5>2. Restated(more)[i] = frames[1].hist[i] /\ Restated(frames)[i] = frames[1].hist[i]
          BY <1>5, <1>6, <3>1, <4>1, <5>1, Zenon DEF m, l
        <5>3. QED
          BY <1>7, <5>1, <5>2
      <4>2. CASE ~(i <= l)
        <5> DEFINE j == i - l + 1
        <5>1. j \in 1..(Len(frames) + 1) /\ (j <= Len(frames) <=> i <= m)
          BY <1>3, <3>1, <4>2
        <5>2. Restated(more)[i] = more[j].hist[1]
          BY <1>5, <3>1, <4>2, Zenon DEF l
        <5> HIDE DEF j
        <5>3. CASE i <= m
          <6>1. Restated(frames)[i] = frames[j].hist[1]
            <7>1. i \in 1..Len(Restated(frames)) /\ ~(i <= Len(frames[1].hist))
              BY <3>1, <4>2, <5>3 DEF l, m
            <7>2. Restated(frames)[i] = frames[i - Len(frames[1].hist) + 1].hist[1]
              BY <1>6, <7>1, Zenon
            <7>3. QED
              BY <7>2 DEF j, l
          <6>2. j \in 1..Len(frames)
            BY <1>3, <5>1, <5>3
          <6>3. QED
            BY <1>2, <1>7, <3>1, <5>2, <5>3, <6>1, <6>2
        <5>4. CASE ~(i <= m)
          <6>1. i = m + 1 /\ j = Len(frames) + 1
            BY <1>3, <3>1, <5>1, <5>4 DEF j
          <6>2. QED
            BY <1>1, <1>2, <1>7, <5>2, <6>1
        <5>5. QED
          BY <5>3, <5>4
      <4>3. QED
        BY <4>1, <4>2
    <3>3. QED
      BY <1>5, <1>7, <3>1, <3>2, SameSequence
  <2>3. QED
    BY <2>1, <2>2
<1>9. QED
  BY <1>1, <1>2, <1>4, <1>8 DEF e, more, h

\* push_to_os of records behind a chain leaves a chain.
LEMMA ChainConcat ==
  ASSUME NEW s \in Segments, NEW frames \in Seq(Frame), Chain(frames, s),
         NEW more \in Seq(Frame), \A i \in 1..Len(more) : IsRecord(more[i])
  PROVE  /\ frames \o more \in Seq(Frame) /\ Chain(frames \o more, s)
         /\ Len(frames \o more) = Len(frames) + Len(more)
         /\ frames # << >> => (frames \o more)[1] = frames[1]
<1> DEFINE all == frames \o more
<1>1. /\ all \in Seq(Frame) /\ Len(all) = Len(frames) + Len(more)
      /\ \A i \in 1..Len(frames) : all[i] = frames[i]
      /\ \A i \in 1..Len(more) : all[Len(frames) + i] = more[i]
  BY ConcatFacts
<1>2. Len(frames) \in Nat /\ Len(more) \in Nat /\ (frames # << >> => Len(frames) > 0)
  BY SeqFacts
<1> HIDE DEF all
<1>3. frames # << >> => all # << >> /\ all[1] = frames[1]
  BY <1>1, <1>2, SeqFacts
<1>4. \A i \in 1..Len(all) : i > Len(frames) => IsRecord(all[i])
  <2> SUFFICES ASSUME NEW i \in 1..Len(all), i > Len(frames) PROVE IsRecord(all[i])
    OBVIOUS
  <2> DEFINE j == i - Len(frames)
  <2>1. j \in 1..Len(more) /\ Len(frames) + j = i
    BY <1>1, <1>2
  <2> HIDE DEF j
  <2>2. QED
    BY <1>1, <2>1
<1>5. Chain(all, s)
  <2>1. s > 1 => all # << >> /\ Len(frames) > 0
    BY <1>2, <1>3 DEF Chain
  <2>2. \A i \in 1..Len(all) : IF i = 1 /\ s > 1 THEN all[i].kind = "base" ELSE IsRecord(all[i])
    <3> SUFFICES ASSUME NEW i \in 1..Len(all)
                 PROVE  IF i = 1 /\ s > 1 THEN all[i].kind = "base" ELSE IsRecord(all[i])
      OBVIOUS
    <3>1. CASE i <= Len(frames)
      <4>1. i \in 1..Len(frames) /\ all[i] = frames[i]
        BY <1>1, <1>2, <3>1
      <4>2. QED
        BY <4>1 DEF Chain
    <3>2. CASE ~(i <= Len(frames))
      BY <1>2, <1>4, <2>1, <3>2
    <3>3. QED
      BY <3>1, <3>2
  <2>3. QED
    BY <2>1, <2>2 DEF Chain
<1>6. QED
  BY <1>1, <1>3, <1>5 DEF all

\* A segment that holds only its base restates what the base carries.
LEMMA BaseAlone ==
  ASSUME NEW s \in Segments, s > 1, NEW h \in Seq(1..MaxRecords)
  PROVE  /\ <<BaseFrame(h)>> \in Seq(Frame) /\ Len(<<BaseFrame(h)>>) = 1
         /\ <<BaseFrame(h)>>[1].hist = h /\ <<BaseFrame(h)>>[1].kind = "base"
         /\ Chain(<<BaseFrame(h)>>, s) /\ Restated(<<BaseFrame(h)>>) = h
<1> DEFINE b == BaseFrame(h)
           one == <<b>>
<1>1. b \in Frame /\ b.hist = h /\ b.kind = "base"
  BY DEF BaseFrame, Frame, FrameKinds
<1> HIDE DEF b
<1>2. one \in Seq(Frame) /\ Len(one) = 1 /\ one[1] = b /\ one # << >>
  BY <1>1
<1> HIDE DEF one
<1>3. Chain(one, s)
  BY <1>1, <1>2 DEF Chain
<1>4. /\ Restated(one) \in Seq(1..MaxRecords)
      /\ Len(Restated(one)) = Restates(one, Len(one))
      /\ \A i \in 1..Len(Restated(one)) :
           Restated(one)[i] = IF i <= Len(one[1].hist) THEN one[1].hist[i]
                              ELSE one[i - Len(one[1].hist) + 1].hist[1]
  BY <1>2, <1>3, RestatedFacts, Zenon
<1>a. Len(h) \in Nat
  BY SeqFacts
<1>5. Len(h) \in Nat /\ Len(Restated(one)) = Len(h)
  BY <1>1, <1>2, <1>4, <1>a DEF Restates
<1>6. \A i \in 1..Len(h) : Restated(one)[i] = h[i]
  <2> SUFFICES ASSUME NEW i \in 1..Len(h) PROVE Restated(one)[i] = h[i]
    OBVIOUS
  <2>1. one[1].hist = h
    BY <1>1, <1>2
  <2>2. i \in 1..Len(Restated(one)) /\ i <= Len(one[1].hist)
    BY <1>5, <2>1
  <2>3. Restated(one)[i] = one[1].hist[i]
    BY <1>4, <2>2, Zenon
  <2>4. QED
    BY <2>1, <2>3
<1>7. Restated(one) = h
  BY <1>4, <1>5, <1>6, SameSequence
<1>8. QED
  BY <1>1, <1>2, <1>3, <1>7 DEF one, b

-----------------------------------------------------------------------------
(* Reading a file back: scan_frames, open_current's choice, and what it restates. *)

\* The parts of a file.
LEMMA FileFacts ==
  ASSUME NEW f \in File
  PROVE  /\ f.frames \in Seq(Frame) /\ Len(f.frames) \in Nat /\ f.synced \in Int
         /\ f.made \in BOOLEAN /\ f.named \in BOOLEAN /\ f.header \in Headers
         /\ \A i \in 1..Len(f.frames) : f.frames[i] \in Frame
         /\ f.frames = << >> <=> Len(f.frames) = 0
<1>1. f.frames \in Seq(Frame) /\ f.synced \in Int
      /\ f.made \in BOOLEAN /\ f.named \in BOOLEAN /\ f.header \in Headers
  BY DEF File
<1>2. QED
  BY <1>1, SeqFacts

\* scan_frames stops inside the file, at the first frame that is not sound.
LEMMA DecodedFacts ==
  ASSUME NEW f \in File
  PROVE  /\ Decoded(f) \in 0..Len(f.frames)
         /\ \A i \in 1..Decoded(f) : Sound(f.frames[i])
         /\ Decoded(f) < Len(f.frames) /\ f.header = "full" => ~Sound(f.frames[Decoded(f) + 1])
<1> DEFINE bad == {i \in 1..Len(f.frames) : ~Sound(f.frames[i])}
<1>0. Len(f.frames) \in Nat
  BY FileFacts
<1>1. CASE f.header # "full"
  BY <1>0, <1>1 DEF Decoded
<1>2. CASE f.header = "full" /\ bad = {}
  <2>1. Decoded(f) = Len(f.frames)
    BY <1>2 DEF Decoded
  <2>2. QED
    BY <1>0, <1>2, <2>1
<1>3. CASE f.header = "full" /\ bad # {}
  <2>1. Decoded(f) = MinOf(bad) - 1
    BY <1>3 DEF Decoded
  <2>2. bad \subseteq Nat /\ bad \subseteq Int
    BY <1>0
  <2>3. PICK m \in bad : \A n \in bad : m <= n
    BY <1>3, <2>2, HasMin, Zenon
  <2> HIDE DEF bad
  <2>4. MinOf(bad) = m
    BY <2>2, <2>3, MinOfIs, Zenon
  <2>5. m \in 1..Len(f.frames) /\ ~Sound(f.frames[m])
    BY <2>3 DEF bad
  <2>6. \A i \in 1..Len(f.frames) : i < m => Sound(f.frames[i])
    BY <1>0, <2>3, <2>5 DEF bad
  <2>7. QED
    BY <1>0, <2>1, <2>4, <2>5, <2>6
<1>4. QED
  BY <1>1, <1>2, <1>3

\* A full header and sound frames: the whole file is read.
LEMMA DecodedClean ==
  ASSUME NEW f \in File, f.header = "full", \A i \in 1..Len(f.frames) : Sound(f.frames[i])
  PROVE  Decoded(f) = Len(f.frames) /\ Good(f) = f.frames /\ ~Corrupt(f)
<1>1. Decoded(f) = Len(f.frames)
  BY DEF Decoded
<1>2. Len(f.frames) \in Nat /\ f.frames \in Seq(Frame)
  BY FileFacts
<1>3. Good(f) = f.frames
  BY <1>1, <1>2, WholePrefix DEF Good
<1>4. QED
  BY <1>1, <1>2, <1>3 DEF Corrupt

\* Only the last frame is damaged: everything before it is read.
LEMMA DecodedTorn ==
  ASSUME NEW f \in File, f.header = "full", Len(f.frames) > 0, ~Sound(f.frames[Len(f.frames)]),
         \A i \in 1..(Len(f.frames) - 1) : Sound(f.frames[i])
  PROVE  Decoded(f) = Len(f.frames) - 1
<1>1. Len(f.frames) \in Nat
  BY FileFacts
<1>2. /\ Decoded(f) \in 0..Len(f.frames)
      /\ \A i \in 1..Decoded(f) : Sound(f.frames[i])
      /\ Decoded(f) < Len(f.frames) => ~Sound(f.frames[Decoded(f) + 1])
  BY DecodedFacts
<1>3. Decoded(f) # Len(f.frames)
  <2> SUFFICES ASSUME Decoded(f) = Len(f.frames) PROVE FALSE
    OBVIOUS
  <2>1. Len(f.frames) \in 1..Decoded(f)
    BY <1>1
  <2>2. QED
    BY <1>2, <2>1
<1>4. ~(Decoded(f) < Len(f.frames) - 1)
  <2> SUFFICES ASSUME Decoded(f) < Len(f.frames) - 1 PROVE FALSE
    OBVIOUS
  <2>1. Decoded(f) + 1 \in 1..(Len(f.frames) - 1) /\ Decoded(f) < Len(f.frames)
    BY <1>1, <1>2
  <2>2. QED
    BY <1>2, <2>1
<1>5. QED
  BY <1>1, <1>2, <1>3, <1>4

\* The frames of a chain are sound.
LEMMA ChainSound ==
  ASSUME NEW s, NEW frames, Chain(frames, s)
  PROVE  \A i \in 1..Len(frames) : Sound(frames[i])
  BY DEF Chain, IsRecord, Sound

\* A file whose frames are a chain, or a chain and a torn tail on disk, is readable.
LEMMA ReadableChain ==
  ASSUME NEW f \in File, NEW s \in Segments, f.made, f.header = "full", Chain(f.frames, s)
  PROVE  Readable(f, s) /\ Decoded(f) = Len(f.frames) /\ Good(f) = f.frames
<1>1. Decoded(f) = Len(f.frames) /\ Good(f) = f.frames
  BY ChainSound, DecodedClean
<1>2. QED
  BY <1>1 DEF Readable

\* What is read of a readable file, and that open_current neither skips nor refuses it.
LEMMA ReadableFacts ==
  ASSUME NEW f \in File, NEW s \in Segments, Readable(f, s)
  PROVE  /\ f.made /\ f.header = "full" /\ ~Corrupt(f)
         /\ Decoded(f) \in 0..Len(f.frames) /\ (s > 1 => Decoded(f) > 0 /\ StartsWithBase(f))
         /\ Good(f) \in Seq(Frame) /\ Chain(Good(f), s) /\ Len(Good(f)) = Decoded(f)
         /\ \A i \in 1..Decoded(f) : Good(f)[i] = f.frames[i]
         /\ \A n \in 0..Decoded(f) : Restates(Good(f), n) = Restates(f.frames, n)
<1>1. f.frames \in Seq(Frame) /\ Len(f.frames) \in Nat
  BY FileFacts
<1>2. Decoded(f) \in 0..Len(f.frames)
  BY DecodedFacts
<1>3. /\ Good(f) \in Seq(Frame) /\ Len(Good(f)) = Decoded(f)
      /\ \A i \in 1..Decoded(f) : Good(f)[i] = f.frames[i]
  BY <1>1, <1>2, PrefixFacts DEF Good
<1>4. f.made /\ f.header = "full" /\ Chain(Good(f), s)
  BY DEF Readable
<1>5. ~Corrupt(f)
  <2>1. CASE Decoded(f) = Len(f.frames)
    BY <1>1, <2>1 DEF Corrupt
  <2>2. CASE Decoded(f) = Len(f.frames) - 1 /\ f.frames[Len(f.frames)].kind = "short"
    <3>1. Decoded(f) + 1 = Len(f.frames)
      BY <1>1, <2>2
    <3>2. QED
      BY <1>1, <2>2, <3>1 DEF Corrupt
  <2>3. QED
    BY <2>1, <2>2 DEF Readable
<1>6. s > 1 => Decoded(f) > 0 /\ StartsWithBase(f)
  <2> SUFFICES ASSUME s > 1 PROVE Decoded(f) > 0 /\ StartsWithBase(f)
    OBVIOUS
  <2>1. Good(f) # << >>
    BY <1>4 DEF Chain
  <2>2. Decoded(f) > 0
    BY <1>3, <2>1, SeqFacts
  <2>3. 1 \in 1..Decoded(f) /\ 1 \in 1..Len(Good(f))
    BY <1>1, <1>2, <1>3, <2>2
  <2>4. Good(f)[1].kind = "base"
    BY <1>4, <2>3 DEF Chain
  <2>5. QED
    BY <1>3, <2>2, <2>3, <2>4 DEF StartsWithBase
<1>7. \A n \in 0..Decoded(f) : Restates(Good(f), n) = Restates(f.frames, n)
  <2> SUFFICES ASSUME NEW n \in 0..Decoded(f), n # 0 PROVE Restates(Good(f), n) = Restates(f.frames, n)
    BY DEF Restates
  <2>1. Good(f)[1] = f.frames[1]
    BY <1>1, <1>2, <1>3
  <2>2. QED
    BY <2>1 DEF Restates
<1>8. QED
  BY <1>2, <1>3, <1>4, <1>5, <1>6, <1>7

\* A rotation that never finished is skipped by open_current.
LEMMA DeadSkipped ==
  ASSUME NEW f \in File, Dead(f), f.header = "full"
  PROVE  ~Corrupt(f) /\ ~StartsWithBase(f)
<1>1. f.frames \in Seq(Frame) /\ Len(f.frames) \in Nat /\ Decoded(f) \in 0..Len(f.frames)
  BY FileFacts, DecodedFacts
<1>2. CASE f.frames = << >>
  <2>1. Len(f.frames) = 0 /\ Decoded(f) = 0
    BY <1>1, <1>2
  <2>2. QED
    BY <2>1 DEF Corrupt, StartsWithBase
<1>3. CASE Len(f.frames) = 1 /\ f.frames[1].kind = "short"
  <2>1. ~Sound(f.frames[1])
    BY <1>3 DEF Sound
  <2>2. Decoded(f) = 0
    <3>1. /\ Len(f.frames) > 0 /\ ~Sound(f.frames[Len(f.frames)])
          /\ \A i \in 1..(Len(f.frames) - 1) : Sound(f.frames[i])
      BY <1>3, <2>1
    <3>2. Decoded(f) = Len(f.frames) - 1
      BY <3>1, DecodedTorn
    <3>3. QED
      BY <1>3, <3>2
  <2>3. QED
    BY <1>3, <2>2 DEF Corrupt, StartsWithBase
<1>4. QED
  BY <1>2, <1>3 DEF Dead

\* open_current chooses the segment it trusts below unfinished rotations.
LEMMA ChosenIs ==
  ASSUME NEW fs \in [Segments -> File], NEW c \in Segments, fs[c].made, ~Skipped(fs, c),
         Abandoned(fs, c, MaxSegments + 1)
  PROVE  Chosen(fs) = c
<1> DEFINE S == {s \in Segments : fs[s].made /\ ~Skipped(fs, s)}
<1>1. c \in S
  OBVIOUS
<1>2. \A s \in S : s <= c
  <2> SUFFICES ASSUME NEW s \in Segments, fs[s].made, s > c PROVE Skipped(fs, s)
    BY WalAssumption DEF Segments
  <2>1. Dead(fs[s]) /\ fs[s] \in File
    BY WalAssumption DEF Abandoned, Segments
  <2>2. s > 1
    BY WalAssumption DEF Segments
  <2>3. QED
    BY <2>1, <2>2, DeadSkipped DEF Skipped
<1>3. S \subseteq Int
  BY WalAssumption DEF Segments
<1> HIDE DEF S
<1>4. MaxOf(S) = c
  BY <1>1, <1>2, <1>3, MaxOfIs, Zenon
<1>5. QED
  BY <1>4 DEF Chosen, S

\* The live segment is the one open_current chooses, and it is not refused.
LEMMA LiveChosen ==
  ASSUME NEW fs \in [Segments -> File], NEW c, NEW k, Live(fs, c, k)
  PROVE  /\ Chosen(fs) = c /\ c \in Segments /\ ~Corrupt(fs[c])
         /\ Recovered(fs) = Restated(Good(fs[c]))
<1>1. c \in Segments /\ fs[c] \in File /\ Readable(fs[c], c) /\ Abandoned(fs, c, MaxSegments + 1)
  BY DEF Live
<1>2. /\ fs[c].made /\ fs[c].header = "full" /\ ~Corrupt(fs[c])
      /\ c > 1 => StartsWithBase(fs[c])
  BY <1>1, ReadableFacts
<1>3. Chosen(fs) = c
  BY <1>1, <1>2, ChosenIs DEF Skipped
<1>4. QED
  BY <1>1, <1>2, <1>3 DEF Recovered

\* What the live segment restates holds the first k records.
LEMMA LiveHolds ==
  ASSUME NEW fs \in [Segments -> File], NEW c, NEW k \in Nat, Live(fs, c, k)
  PROVE  /\ Restated(Good(fs[c])) \in Seq(1..MaxRecords)
         /\ Len(Restated(Good(fs[c]))) \in Nat /\ k <= Len(Restated(Good(fs[c])))
<1> DEFINE f == fs[c]
<1>1. c \in Segments /\ f \in File /\ Readable(f, c)
  BY DEF Live
<1>2. /\ Decoded(f) \in 0..Len(f.frames) /\ (c > 1 => Decoded(f) > 0)
      /\ Good(f) \in Seq(Frame) /\ Chain(Good(f), c) /\ Len(Good(f)) = Decoded(f)
      /\ \A n \in 0..Decoded(f) : Restates(Good(f), n) = Restates(f.frames, n)
      /\ \A i \in 1..Decoded(f) : Good(f)[i] = f.frames[i]
  BY <1>1, ReadableFacts
<1>3. Decoded(f) \in Nat
  BY <1>1, <1>2, FileFacts, SMTT(30)
<1>4. /\ Restated(Good(f)) \in Seq(1..MaxRecords)
      /\ Len(Restated(Good(f))) = Restates(Good(f), Decoded(f))
      /\ Good(f) # << >> => Len(Good(f)[1].hist) \in Nat
  BY <1>1, <1>2, RestatedFacts, Zenon
<1> HIDE DEF f
<1>5. Len(Restated(Good(f))) \in Nat
  BY <1>4, SeqFacts
<1>6. ASSUME Firm(f, c, k) PROVE k <= Len(Restated(Good(f)))
  <2>1. PICK n \in 0..Decoded(f) : k <= Restates(f.frames, n) /\ (c > 1 => n > 0)
    BY <1>6 DEF Firm
  <2>2. k <= Restates(Good(f), n) /\ n \in 0..Len(Good(f))
    BY <1>2, <2>1
  <2>3. Restates(Good(f), n) \in 0..Len(Restated(Good(f)))
    BY <1>1, <1>2, <2>1, <2>2, ChainPrefix
  <2>4. QED
    <3>1. Restates(Good(f), n) \in Nat /\ Restates(Good(f), n) <= Len(Restated(Good(f)))
      BY <1>5, <2>3
    <3>2. QED
      BY <1>5, <2>2, <3>1
<1>7. ASSUME Backed(fs, c, k) PROVE k <= Len(Restated(Good(f)))
  <2>1. c > 1 /\ k <= Len(f.frames[1].hist)
    BY <1>1, <1>7, WalAssumption DEF Backed, Segments, f
  <2>2. Good(f)[1] = f.frames[1] /\ Good(f) # << >> /\ Decoded(f) > 0
    BY <1>2, <1>3, <2>1 DEF Chain
  <2>3. Len(f.frames[1].hist) \in Nat /\ Len(Restated(Good(f))) = Len(f.frames[1].hist) + Decoded(f) - 1
    BY <1>3, <1>4, <2>2 DEF Restates
  <2>4. QED
    BY <1>3, <1>5, <2>1, <2>2, <2>3
<1>8. QED
  BY <1>4, <1>5, <1>6, <1>7 DEF Live, f

\* How another file may change without disturbing the live one: what is on disk stays as it is,
\* and a rotation that never finished stays unfinished.
Tame(f, g, s) ==
  /\ Solid(f, s) => g = f
  /\ g.made /\ (f.made => Dead(f)) => Dead(g)

\* Abandoned segments stay abandoned when every file between changes tamely.
LEMMA TameAbandoned ==
  ASSUME NEW fs \in [Segments -> File], NEW gs \in [Segments -> File],
         NEW c \in Segments, \A s \in Segments \ {c} : Tame(fs[s], gs[s], s),
         NEW b, NEW d, Abandoned(fs, b, d), ~(b < c /\ c < d)
  PROVE  Abandoned(gs, b, d)
<1> SUFFICES ASSUME NEW s \in Segments, s > b, s < d, gs[s].made PROVE Dead(gs[s])
  BY DEF Abandoned
<1>1. s # c /\ (fs[s].made => Dead(fs[s]))
  BY DEF Abandoned
<1>2. QED
  BY <1>1 DEF Tame

\* A segment stays backed by the one it restates.
LEMMA TameBacked ==
  ASSUME NEW fs \in [Segments -> File], NEW gs \in [Segments -> File],
         NEW c \in Segments, NEW k, Backed(fs, c, k),
         \A s \in Segments \ {c} : Tame(fs[s], gs[s], s),
         gs[c].frames[1].hist = fs[c].frames[1].hist
  PROVE  Backed(gs, c, k)
<1>1. PICK b \in Segments :
        /\ b < c /\ Solid(fs[b], b) /\ Abandoned(fs, b, c)
        /\ fs[c].frames[1].hist = Restated(fs[b].frames)
        /\ k <= Len(fs[c].frames[1].hist)
  BY DEF Backed
<1>2. b # c /\ ~(b < c /\ c < c)
  BY <1>1, WalAssumption, SMTT(30) DEF Segments
<1>3. gs[b] = fs[b] /\ Abandoned(gs, b, c)
  BY <1>1, <1>2, TameAbandoned DEF Tame
<1>4. QED
  BY <1>1, <1>3 DEF Backed

\* The live segment stays live when it stays readable and the others change tamely.
LEMMA TameLive ==
  ASSUME NEW fs \in [Segments -> File], NEW gs \in [Segments -> File],
         NEW c, NEW k, Live(fs, c, k),
         \A s \in Segments \ {c} : Tame(fs[s], gs[s], s),
         Readable(gs[c], c),
         Firm(fs[c], c, k) => Firm(gs[c], c, k),
         c > 1 => gs[c].frames[1].hist = fs[c].frames[1].hist
  PROVE  Live(gs, c, k)
<1>1. c \in Segments /\ Abandoned(fs, c, MaxSegments + 1)
  BY DEF Live
<1>2. c \in Nat /\ ~(c < c)
  BY <1>1, WalAssumption DEF Segments
<1>3. Abandoned(gs, c, MaxSegments + 1)
  BY <1>1, <1>2, TameAbandoned
<1>4. Backed(fs, c, k) => c > 1
  BY <1>1, WalAssumption DEF Backed, Segments
<1>5. Backed(fs, c, k) => Backed(gs, c, k)
  BY <1>1, <1>4, TameBacked
<1>6. QED
  BY <1>1, <1>3, <1>5 DEF Live

-----------------------------------------------------------------------------
(* What a power loss leaves. *)

\* The disk's copy of a segment file.
OnDisk(h, fr) == [made |-> TRUE, named |-> TRUE, header |-> h, frames |-> fr, synced |-> Len(fr)]

\* A file that came through a power loss has nothing left to lose.
LEMMA OnDiskFacts ==
  ASSUME NEW h \in Headers, NEW fr \in Seq(Frame)
  PROVE  /\ OnDisk(h, fr) \in File /\ Fixed(OnDisk(h, fr))
         /\ OnDisk(h, fr).synced \in -1..Len(OnDisk(h, fr).frames)
         /\ OnDisk(h, fr).made /\ OnDisk(h, fr).named
         /\ OnDisk(h, fr).header = h /\ OnDisk(h, fr).frames = fr /\ OnDisk(h, fr).synced = Len(fr)
<1>1. Len(fr) \in Nat
  BY SeqFacts
<1>2. OnDisk(h, fr) \in File
  BY <1>1 DEF OnDisk, File
<1>3. QED
  BY <1>1, <1>2 DEF OnDisk, Fixed

\* A file that was never made.
LEMMA NoFileFacts ==
  /\ NoFile \in File /\ NoFile.synced \in -1..Len(NoFile.frames) /\ ~NoFile.made
  /\ NoFile.header = "none"
  BY DEF NoFile, File, Headers

\* Damage is a frame the scan stops on.
LEMMA DamageFacts ==
  ASSUME NEW k \in TailKinds
  PROVE  Damage(k) \in Frame /\ ~Sound(Damage(k)) /\ Damage(k).kind = k /\ k \in {"short", "garbled"}
<1>1. << >> \in Seq(1..MaxRecords)
  OBVIOUS
<1>2. QED
  BY <1>1, WalAssumption DEF Damage, Frame, FrameKinds, Sound

\* What a power loss leaves of a file starts at its synced frames.
LEMMA AtLeastZero ==
  ASSUME NEW x \in Int
  PROVE  MaxOf({x, 0}) = IF x > 0 THEN x ELSE 0
<1>1. CASE x > 0
  BY <1>1, MaxOfIs
<1>2. CASE ~(x > 0)
  BY <1>2, MaxOfIs, SMTT(30)
<1>3. QED
  BY <1>1, <1>2

\* The copies the disk may hold of a file: all of it, its synced frames and some of the rest, those
\* and a damaged frame, an unfinished header, nothing.
LEMMA SurvivorCases ==
  ASSUME NEW f \in File, NEW g \in Survivors(f)
  PROVE  \/ (~f.made \/ Fixed(f)) /\ g = f
         \/ /\ f.made /\ f.header = "full" /\ ~Fixed(f)
            /\ \E n \in 0..Len(f.frames) : n >= f.synced /\ g = OnDisk("full", SubSeq(f.frames, 1, n))
         \/ /\ f.made /\ f.header = "full" /\ ~Fixed(f)
            /\ \E n \in 0..(Len(f.frames) - 1), k \in TailKinds :
                 n >= f.synced /\ g = OnDisk("full", Append(SubSeq(f.frames, 1, n), Damage(k)))
         \/ f.made /\ ~Fixed(f) /\ f.synced < 0 /\ \E h \in {"none", "part"} : g = OnDisk(h, << >>)
         \/ f.made /\ ~Fixed(f) /\ ~f.named /\ g = NoFile
<1>1. f.synced \in Int /\ Len(f.frames) \in Nat /\ f.made \in BOOLEAN /\ f.named \in BOOLEAN
  BY FileFacts
<1> DEFINE z == MaxOf({f.synced, 0})
<1>2. z = IF f.synced > 0 THEN f.synced ELSE 0
  BY <1>1, AtLeastZero
<1>3. z \in Nat /\ z >= f.synced
  BY <1>1, <1>2
<1>4. CASE ~f.made \/ Fixed(f)
  BY <1>4 DEF Survivors
<1>5. CASE f.made /\ ~Fixed(f)
  <2>1. \/ /\ f.header = "full"
           /\ \E n \in z..Len(f.frames) : g = OnDisk("full", SubSeq(f.frames, 1, n))
        \/ /\ f.header = "full"
           /\ \E n \in z..(Len(f.frames) - 1), k \in TailKinds :
                g = OnDisk("full", Append(SubSeq(f.frames, 1, n), Damage(k)))
        \/ ~(f.synced >= 0) /\ \E h \in {"none", "part"} : g = OnDisk(h, << >>)
        \/ ~f.named /\ g = NoFile
    <3> DEFINE kept == {OnDisk("full", SubSeq(f.frames, 1, n)) : n \in z..Len(f.frames)}
               torn == {OnDisk("full", Append(SubSeq(f.frames, 1, n), Damage(k))) :
                          n \in z..(Len(f.frames) - 1), k \in TailKinds}
               unheaded == IF f.synced >= 0 THEN {} ELSE {OnDisk("none", << >>), OnDisk("part", << >>)}
               gone == IF f.named THEN {} ELSE {NoFile}
    <3>1. Survivors(f) = IF ~f.made \/ Fixed(f) THEN {f}
                         ELSE (IF f.header = "full" THEN kept \cup torn ELSE {}) \cup unheaded \cup gone
      BY DEF Survivors, OnDisk
    <3>2. Survivors(f) = (IF f.header = "full" THEN kept \cup torn ELSE {}) \cup unheaded \cup gone
      BY <1>5, <3>1
    <3>3. g \in kept => \E n \in z..Len(f.frames) : g = OnDisk("full", SubSeq(f.frames, 1, n))
      BY Zenon
    <3>4. g \in torn => \E n \in z..(Len(f.frames) - 1), k \in TailKinds :
                          g = OnDisk("full", Append(SubSeq(f.frames, 1, n), Damage(k)))
      <4> DEFINE Torn(n, k) == OnDisk("full", Append(SubSeq(f.frames, 1, n), Damage(k)))
      <4>1. torn = {Torn(n, k) : n \in z..(Len(f.frames) - 1), k \in TailKinds}
        OBVIOUS
      <4> HIDE DEF torn, Torn, z
      <4>2. g \in torn => \E n \in z..(Len(f.frames) - 1), k \in TailKinds : g = Torn(n, k)
        BY <4>1
      <4>3. QED
        BY <4>2 DEF Torn
    <3>5. g \in unheaded => ~(f.synced >= 0) /\ \E h \in {"none", "part"} : g = OnDisk(h, << >>)
      <4>1. f.synced >= 0 => unheaded = {}
        OBVIOUS
      <4>2. ~(f.synced >= 0) => unheaded = {OnDisk("none", << >>), OnDisk("part", << >>)}
        OBVIOUS
      <4> HIDE DEF unheaded
      <4>3. QED
        BY <4>1, <4>2
    <3>6. g \in gone => ~f.named /\ g = NoFile
      BY Zenon
    <3> HIDE DEF kept, torn, unheaded, gone
    <3>7. \/ f.header = "full" /\ (g \in kept \/ g \in torn)
          \/ g \in unheaded \/ g \in gone
      BY <3>2
    <3>8. QED
      BY <3>3, <3>4, <3>5, <3>6, <3>7, Zenon
  <2> HIDE DEF z
  <2>2. \A n \in z..Len(f.frames) : n \in 0..Len(f.frames) /\ n >= f.synced
    BY <1>1, <1>3
  <2>3. \A n \in z..(Len(f.frames) - 1) : n \in 0..(Len(f.frames) - 1) /\ n >= f.synced
    BY <1>1, <1>3
  <2>4. (\E n \in z..Len(f.frames) : g = OnDisk("full", SubSeq(f.frames, 1, n)))
          => \E n \in 0..Len(f.frames) : n >= f.synced /\ g = OnDisk("full", SubSeq(f.frames, 1, n))
    BY <2>2, Zenon
  <2>5. (\E n \in z..(Len(f.frames) - 1), k \in TailKinds :
            g = OnDisk("full", Append(SubSeq(f.frames, 1, n), Damage(k))))
          => \E n \in 0..(Len(f.frames) - 1), k \in TailKinds :
               n >= f.synced /\ g = OnDisk("full", Append(SubSeq(f.frames, 1, n), Damage(k)))
    BY <2>3, Zenon
  <2>6. ~(f.synced >= 0) => f.synced < 0
    BY <1>1
  <2>7. QED
    BY <1>5, <2>1, <2>4, <2>5, <2>6, Zenon
<1>6. QED
  BY <1>1, <1>4, <1>5

\* What survives is on disk, and nothing else about it is lost again.
LEMMA SurvivorFacts ==
  ASSUME NEW f \in File, f.synced \in -1..Len(f.frames), NEW g \in Survivors(f)
  PROVE  g \in File /\ g.synced \in -1..Len(g.frames) /\ (g.made => Fixed(g))
<1>1. CASE (~f.made \/ Fixed(f)) /\ g = f
  BY <1>1
<1>2. CASE \E n \in 0..Len(f.frames) : g = OnDisk("full", SubSeq(f.frames, 1, n))
  <2>1. PICK n \in 0..Len(f.frames) : g = OnDisk("full", SubSeq(f.frames, 1, n))
    BY <1>2
  <2>2. SubSeq(f.frames, 1, n) \in Seq(Frame)
    BY FileFacts, PrefixFacts
  <2>3. QED
    BY <2>1, <2>2, OnDiskFacts, Zenon DEF Headers
<1>3. CASE \E n \in 0..(Len(f.frames) - 1), k \in TailKinds :
             g = OnDisk("full", Append(SubSeq(f.frames, 1, n), Damage(k)))
  <2>1. PICK n \in 0..(Len(f.frames) - 1), k \in TailKinds :
               g = OnDisk("full", Append(SubSeq(f.frames, 1, n), Damage(k)))
    BY <1>3
  <2>2. n \in 0..Len(f.frames)
    BY FileFacts
  <2>3. SubSeq(f.frames, 1, n) \in Seq(Frame) /\ Damage(k) \in Frame
    BY <2>2, FileFacts, PrefixFacts, DamageFacts
  <2>4. Append(SubSeq(f.frames, 1, n), Damage(k)) \in Seq(Frame)
    BY <2>3, AppendFacts
  <2>5. QED
    BY <2>1, <2>4, OnDiskFacts, Zenon DEF Headers
<1>4. CASE \E h \in {"none", "part"} : g = OnDisk(h, << >>)
  <2>1. << >> \in Seq(Frame)
    OBVIOUS
  <2>2. PICK h \in {"none", "part"} : g = OnDisk(h, << >>)
    BY <1>4
  <2>3. h \in Headers
    BY DEF Headers
  <2>4. QED
    BY <2>1, <2>2, <2>3, OnDiskFacts, Zenon
<1>5. CASE g = NoFile
  BY <1>5, NoFileFacts
<1>6. QED
  BY <1>1, <1>2, <1>3, <1>4, <1>5, SurvivorCases

\* A power loss changes a file that is not the live one tamely.
LEMMA SurvivorTame ==
  ASSUME NEW f \in File, NEW g \in Survivors(f), NEW s
  PROVE  Tame(f, g, s)
<1>1. Solid(f, s) => g = f
  BY SurvivorCases DEF Solid
<1>2. ASSUME g.made, f.made => Dead(f) PROVE Dead(g)
  <2>1. CASE g = f
    BY <1>2, <2>1
  <2>2. CASE f.made /\ f.header = "full" /\ ~Fixed(f)
             /\ \E n \in 0..Len(f.frames) : g = OnDisk("full", SubSeq(f.frames, 1, n))
    <3>1. f.frames = << >>
      BY <1>2, <2>2 DEF Dead
    <3>2. g = OnDisk("full", << >>)
      <4>1. PICK n \in 0..Len(f.frames) : g = OnDisk("full", SubSeq(f.frames, 1, n))
        BY <2>2
      <4>2. n = 0 /\ SubSeq(f.frames, 1, 0) = << >>
        BY <3>1
      <4>3. QED
        BY <4>1, <4>2, Zenon
    <3>3. QED
      BY <3>2 DEF OnDisk, Dead
  <2>3. CASE f.made /\ f.header = "full" /\ ~Fixed(f) /\ 0..(Len(f.frames) - 1) # {}
    BY <1>2, <2>3 DEF Dead
  <2>4. CASE \E h \in {"none", "part"} : g = OnDisk(h, << >>)
    BY <2>4 DEF OnDisk, Dead
  <2>5. CASE g = NoFile
    BY <1>2, <2>5, NoFileFacts
  <2>6. QED
    BY <2>1, <2>2, <2>3, <2>4, <2>5, SurvivorCases, Zenon
<1>3. QED
  BY <1>1, <1>2 DEF Tame

\* The first frame of a numbered segment restates the start of what the segment does.
LEMMA BaseIsPrefix ==
  ASSUME NEW s \in Segments, NEW frames \in Seq(Frame), Chain(frames, s), s > 1
  PROVE  \E n \in 0..Len(Restated(frames)) : frames[1].hist = SubSeq(Restated(frames), 1, n)
<1> DEFINE h == frames[1].hist
           r == Restated(frames)
<1>1. frames # << >> /\ Len(frames) \in Nat /\ Len(frames) > 0 /\ frames[1] \in Frame
  BY SeqFacts DEF Chain
<1>2. h \in Seq(1..MaxRecords) /\ Len(h) \in Nat
  BY <1>1, FrameFacts
<1>3. /\ r \in Seq(1..MaxRecords) /\ Len(r) = Restates(frames, Len(frames))
      /\ \A i \in 1..Len(r) :
           r[i] = IF i <= Len(h) THEN h[i] ELSE frames[i - Len(h) + 1].hist[1]
  BY RestatedFacts, Zenon
<1>4. Len(r) = Len(h) + Len(frames) - 1
  BY <1>1, <1>3 DEF Restates
<1> HIDE DEF h, r
<1>5. Len(h) \in 0..Len(r)
  BY <1>1, <1>2, <1>4
<1>6. /\ SubSeq(r, 1, Len(h)) \in Seq(1..MaxRecords) /\ Len(SubSeq(r, 1, Len(h))) = Len(h)
      /\ \A i \in 1..Len(h) : SubSeq(r, 1, Len(h))[i] = r[i]
  BY <1>3, <1>5, PrefixFacts, Zenon
<1>7. \A i \in 1..Len(h) : h[i] = SubSeq(r, 1, Len(h))[i]
  <2> SUFFICES ASSUME NEW i \in 1..Len(h) PROVE h[i] = r[i]
    BY <1>6
  <2>1. i \in 1..Len(r) /\ i <= Len(h)
    BY <1>1, <1>2, <1>4
  <2>2. QED
    BY <1>3, <2>1
<1>8. h = SubSeq(r, 1, Len(h))
  BY <1>2, <1>6, <1>7, SameSequence, Zenon
<1>9. QED
  BY <1>5, <1>8 DEF h, r

\* A new segment that does not survive: open_current falls back to the one its base restates.
LEMMA FallsBack ==
  ASSUME NEW fs \in [Segments -> File], NEW gs \in [Segments -> File],
         NEW c \in Segments, NEW k \in Nat, Backed(fs, c, k), Abandoned(fs, c, MaxSegments + 1),
         Chain(fs[c].frames, c),
         \A s \in Segments \ {c} : Tame(fs[s], gs[s], s), gs[c].made => Dead(gs[c])
  PROVE  \E d \in Segments :
           /\ Live(gs, d, k)
           /\ \E n \in 0..Len(Restated(fs[c].frames)) :
                Restated(Good(gs[d])) = SubSeq(Restated(fs[c].frames), 1, n)
<1>1. PICK b \in Segments :
        /\ b < c /\ Solid(fs[b], b) /\ Abandoned(fs, b, c)
        /\ fs[c].frames[1].hist = Restated(fs[b].frames)
        /\ k <= Len(fs[c].frames[1].hist)
  BY DEF Backed
<1>2. b \in Nat /\ c \in Nat /\ b # c /\ c > 1 /\ b >= 1
  BY <1>1, WalAssumption DEF Segments
<1>3. gs[b] = fs[b]
  BY <1>1, <1>2 DEF Tame
<1>4. Abandoned(gs, b, c) /\ Abandoned(gs, c, MaxSegments + 1)
  <2>1. ~(b < c /\ c < c) /\ ~(c < c /\ c < MaxSegments + 1)
    BY <1>2
  <2>2. QED
    BY <1>1, <2>1, TameAbandoned
<1>5. Abandoned(gs, b, MaxSegments + 1)
  <2> SUFFICES ASSUME NEW s \in Segments, s > b, s < MaxSegments + 1, gs[s].made PROVE Dead(gs[s])
    BY DEF Abandoned
  <2>1. s < c \/ s = c \/ s > c
    BY <1>2, WalAssumption DEF Segments
  <2>2. QED
    BY <1>4, <2>1 DEF Abandoned
<1> DEFINE f == fs[b]
<1>6. f \in File /\ f.made /\ f.header = "full" /\ Chain(f.frames, b) /\ Fixed(f)
  BY <1>1 DEF Solid
<1>7. Readable(f, b) /\ Decoded(f) = Len(f.frames) /\ Good(f) = f.frames
  BY <1>6, ReadableChain
<1>8. f.frames \in Seq(Frame) /\ Len(f.frames) \in Nat /\ (f.frames = << >> <=> Len(f.frames) = 0)
  BY <1>6, FileFacts
<1>9. Len(Restated(f.frames)) = Restates(f.frames, Len(f.frames))
  BY <1>6, <1>8, RestatedFacts, Zenon
<1>10. Firm(f, b, k)
  <2>1. b > 1 => Len(f.frames) > 0
    BY <1>6, <1>8 DEF Chain
  <2>2. f.named /\ f.synced = Len(f.frames)
    BY <1>6 DEF Fixed
  <2>3. k <= Restates(f.frames, Len(f.frames))
    BY <1>1, <1>9
  <2>4. Len(f.frames) \in 0..Decoded(f) /\ Len(f.frames) <= f.synced
    BY <1>7, <1>8, <2>2
  <2>5. QED
    BY <2>1, <2>2, <2>3, <2>4, Zenon DEF Firm
<1>11. Live(gs, b, k)
  BY <1>3, <1>5, <1>7, <1>10, Zenon DEF Live
<1>12. Restated(Good(gs[b])) = fs[c].frames[1].hist
  BY <1>1, <1>3, <1>7
<1>13. fs[c].frames \in Seq(Frame)
  BY FileFacts
<1>14. \E n \in 0..Len(Restated(fs[c].frames)) :
         fs[c].frames[1].hist = SubSeq(Restated(fs[c].frames), 1, n)
  BY <1>2, <1>13, BaseIsPrefix, Zenon
<1>15. QED
  BY <1>11, <1>12, <1>14

\* The live segment survives with its synced frames and some of the rest.
LEMMA KeepsLive ==
  ASSUME NEW fs \in [Segments -> File], NEW gs \in [Segments -> File],
         NEW c \in Segments, NEW k \in Nat, Live(fs, c, k), Chain(fs[c].frames, c),
         \A s \in Segments \ {c} : Tame(fs[s], gs[s], s),
         NEW n \in 0..Len(fs[c].frames), n >= fs[c].synced, c > 1 => n > 0,
         gs[c].named, gs[c].synced >= n, Readable(gs[c], c),
         Decoded(gs[c]) = n, Good(gs[c]) = SubSeq(fs[c].frames, 1, n)
  PROVE  /\ Live(gs, c, k)
         /\ \E m \in 0..Len(Restated(fs[c].frames)) :
              Restated(Good(gs[c])) = SubSeq(Restated(fs[c].frames), 1, m)
<1> DEFINE f == fs[c]
           g == gs[c]
<1>1. f \in File /\ g \in File /\ f.frames \in Seq(Frame) /\ Len(f.frames) \in Nat
      /\ f.synced \in Int /\ g.synced \in Int
  BY FileFacts
<1>2. /\ Len(SubSeq(f.frames, 1, n)) = n
      /\ \A i \in 1..n : SubSeq(f.frames, 1, n)[i] = f.frames[i]
  BY <1>1, PrefixFacts, Zenon
<1>3. \A i \in 1..n : Good(g)[i] = g.frames[i]
  BY <1>1, ReadableFacts
<1>4. \A i \in 1..n : g.frames[i] = f.frames[i]
  BY <1>2, <1>3
<1>5. c > 1 => g.frames[1].hist = f.frames[1].hist
  BY <1>1, <1>4, SMTT(30)
<1>6. Firm(f, c, k) => Firm(g, c, k)
  <2> SUFFICES ASSUME Firm(f, c, k) PROVE Firm(g, c, k)
    OBVIOUS
  <2>1. PICK m \in 0..Decoded(f) : (c > 1 => m > 0) /\ m <= f.synced /\ k <= Restates(f.frames, m)
    BY DEF Firm
  <2>2. Decoded(f) \in 0..Len(f.frames)
    BY <1>1, DecodedFacts
  <2>3. m \in Nat /\ m <= n /\ m \in 0..Decoded(g) /\ m <= g.synced
    BY <1>1, <2>1, <2>2
  <2>4. Restates(g.frames, m) = Restates(f.frames, m)
    <3>1. CASE m = 0
      BY <3>1 DEF Restates
    <3>2. CASE m # 0
      <4>1. g.frames[1] = f.frames[1]
        BY <1>1, <1>4, <2>3, <3>2
      <4>2. QED
        BY <3>2, <4>1 DEF Restates
    <3>3. QED
      BY <3>1, <3>2
  <2>5. g.named
    BY Zenon
  <2> HIDE DEF f, g
  <2>6. QED
    BY <2>1, <2>3, <2>4, <2>5 DEF Firm
<1>7. Live(gs, c, k)
  BY <1>5, <1>6, TameLive
<1>8. /\ Restates(f.frames, n) \in 0..Len(Restated(f.frames))
      /\ Restated(SubSeq(f.frames, 1, n)) = SubSeq(Restated(f.frames), 1, Restates(f.frames, n))
  BY <1>1, ChainPrefix
<1>9. QED
  BY <1>7, <1>8

\* A power loss while segment c is live: either the open will refuse what is left, or the segment it
\* will choose restates a prefix of what c did, with the first k records.
LEMMA AfterPowerLoss ==
  ASSUME NEW fs \in [Segments -> File], NEW gs \in [Segments -> File],
         NEW c, NEW k \in Nat, Live(fs, c, k),
         \A s \in Segments : gs[s] \in Survivors(fs[s])
  PROVE  \/ Corrupt(gs[Chosen(gs)])
         \/ \E d \in Segments :
              /\ Live(gs, d, k)
              /\ \E n \in 0..Len(Restated(Good(fs[c]))) :
                   Restated(Good(gs[d])) = SubSeq(Restated(Good(fs[c])), 1, n)
<1> DEFINE f == fs[c]
           g == gs[c]
           Falls == \E d \in Segments :
                      /\ Live(gs, d, k)
                      /\ \E n \in 0..Len(Restated(Good(fs[c]))) :
                           Restated(Good(gs[d])) = SubSeq(Restated(Good(fs[c])), 1, n)
<1>1. /\ c \in Segments /\ Readable(f, c) /\ Abandoned(fs, c, MaxSegments + 1)
      /\ Firm(f, c, k) \/ Backed(fs, c, k)
  BY DEF Live
<1>2. f \in File /\ g \in File /\ g \in Survivors(f)
  BY <1>1
<1>3. /\ f.frames \in Seq(Frame) /\ Len(f.frames) \in Nat /\ f.synced \in Int /\ f.named \in BOOLEAN
  BY <1>2, FileFacts
<1>4. \A s \in Segments \ {c} : Tame(fs[s], gs[s], s)
  BY SurvivorTame
<1>5. CASE g = f
  <2>1. Live(gs, c, k)
    BY <1>1, <1>4, <1>5, TameLive
  <2>2. Restated(Good(f)) \in Seq(1..MaxRecords) /\ Len(Restated(Good(f))) \in Nat
    BY LiveHolds
  <2>3. Restated(Good(g)) = SubSeq(Restated(Good(f)), 1, Len(Restated(Good(f))))
    BY <1>5, <2>2, WholePrefix, Zenon
  <2>4. QED
    BY <1>1, <2>1, <2>2, <2>3
<1>6. CASE f.made /\ ~Fixed(f)
  <2>1. f.header = "full" /\ Decoded(f) = Len(f.frames) /\ Good(f) = f.frames /\ Chain(f.frames, c)
    <3>1. Decoded(f) = Len(f.frames) /\ f.header = "full" /\ Chain(Good(f), c)
      BY <1>1, <1>6 DEF Readable
    <3>2. Good(f) = f.frames
      BY <1>3, <3>1, WholePrefix DEF Good
    <3>3. QED
      BY <3>1, <3>2, Zenon
  <2>2. ASSUME ~Firm(f, c, k), g.made => Dead(g) PROVE Falls
    <3>1. Backed(fs, c, k)
      BY <1>1, <2>2
    <3>2. QED
      BY <1>1, <1>4, <2>1, <2>2, <3>1, FallsBack, SMTT(30)
  <2>3. ASSUME NEW n \in 0..Len(f.frames), n >= f.synced, n = 0, c > 1 PROVE ~Firm(f, c, k)
    BY <1>3, <2>1, <2>3 DEF Firm
  <2>4. CASE \E n \in 0..Len(f.frames) : n >= f.synced /\ g = OnDisk("full", SubSeq(f.frames, 1, n))
    <3>1. PICK n \in 0..Len(f.frames) : n >= f.synced /\ g = OnDisk("full", SubSeq(f.frames, 1, n))
      BY <2>4
    <3>2. SubSeq(f.frames, 1, n) \in Seq(Frame) /\ Len(SubSeq(f.frames, 1, n)) = n
      BY <1>3, PrefixFacts
    <3>3. /\ g.made /\ g.named /\ g.header = "full" /\ g.synced = n
          /\ g.frames = SubSeq(f.frames, 1, n)
      <4>1. "full" \in Headers
        BY DEF Headers
      <4> DEFINE fr == SubSeq(f.frames, 1, n)
      <4>2. fr \in Seq(Frame) /\ Len(fr) = n /\ g = OnDisk("full", fr)
        BY <3>1, <3>2
      <4> HIDE DEF fr, g
      <4>3. /\ g.made /\ g.named /\ g.header = "full" /\ g.synced = n /\ g.frames = fr
        BY <4>1, <4>2, OnDiskFacts
      <4>4. QED
        BY <4>3 DEF fr
    <3>4. CASE c > 1 /\ n = 0
      <4>1. g.frames = << >>
        BY <3>3, <3>4
      <4>2. Dead(g)
        BY <4>1 DEF Dead
      <4>3. QED
        BY <2>2, <2>3, <3>1, <3>4, <4>2
    <3>5. CASE c > 1 => n > 0
      <4>1. Chain(g.frames, c)
        BY <1>1, <1>3, <2>1, <3>3, <3>5, ChainPrefix
      <4>2. Readable(g, c) /\ Decoded(g) = n /\ Good(g) = SubSeq(f.frames, 1, n)
        BY <1>1, <1>2, <3>2, <3>3, <4>1, ReadableChain, Zenon
      <4>3. g.synced >= n
        BY <1>3, <3>3
      <4>4. /\ Live(gs, c, k)
            /\ \E m \in 0..Len(Restated(f.frames)) :
                 Restated(Good(g)) = SubSeq(Restated(f.frames), 1, m)
        BY <1>1, <1>4, <2>1, <3>1, <3>3, <3>5, <4>2, <4>3, KeepsLive, Zenon
      <4>5. QED
        BY <1>1, <2>1, <4>4
    <3>6. QED
      BY <1>3, <3>4, <3>5
  <2>5. CASE \E n \in 0..(Len(f.frames) - 1), t \in TailKinds :
               n >= f.synced /\ g = OnDisk("full", Append(SubSeq(f.frames, 1, n), Damage(t)))
    <3>1. PICK n \in 0..(Len(f.frames) - 1), t \in TailKinds :
               n >= f.synced /\ g = OnDisk("full", Append(SubSeq(f.frames, 1, n), Damage(t)))
      BY <2>5
    <3>2. n \in 0..Len(f.frames) /\ n \in Nat
      BY <1>3
    <3> DEFINE part == SubSeq(f.frames, 1, n)
    <3>3. /\ part \in Seq(Frame) /\ Len(part) = n /\ \A i \in 1..n : part[i] = f.frames[i]
      BY <1>3, <3>2, PrefixFacts
    <3>4. /\ Damage(t) \in Frame /\ ~Sound(Damage(t)) /\ Damage(t).kind = t /\ t \in {"short", "garbled"}
      BY DamageFacts
    <3> HIDE DEF part
    <3>5. /\ Append(part, Damage(t)) \in Seq(Frame) /\ Len(Append(part, Damage(t))) = n + 1
          /\ \A i \in 1..n : Append(part, Damage(t))[i] = part[i]
          /\ Append(part, Damage(t))[n + 1] = Damage(t)
      BY <3>3, <3>4, AppendFacts
    <3>6. /\ g.made /\ g.named /\ g.header = "full" /\ g.synced = n + 1 /\ Fixed(g)
          /\ g.frames = Append(part, Damage(t))
      <4>1. "full" \in Headers
        BY DEF Headers
      <4> DEFINE fr == Append(part, Damage(t))
      <4>2. fr \in Seq(Frame) /\ Len(fr) = n + 1 /\ g = OnDisk("full", fr)
        BY <3>1, <3>5 DEF part
      <4> HIDE DEF fr, g
      <4>3. /\ g.made /\ g.named /\ g.header = "full" /\ g.synced = n + 1 /\ Fixed(g)
            /\ g.frames = fr
        BY <4>1, <4>2, OnDiskFacts
      <4>4. QED
        BY <4>3 DEF fr
    <3>7. Decoded(g) = n
      <4>1. \A i \in 1..n : Sound(g.frames[i])
        <5> SUFFICES ASSUME NEW i \in 1..n PROVE Sound(g.frames[i])
          OBVIOUS
        <5>1. g.frames[i] = f.frames[i] /\ i \in 1..Len(f.frames)
          BY <1>3, <3>2, <3>3, <3>5, <3>6
        <5>2. QED
          BY <2>1, <5>1, ChainSound
      <4>2. Len(g.frames) = n + 1 /\ ~Sound(g.frames[Len(g.frames)]) /\ Len(g.frames) - 1 = n
        BY <3>2, <3>4, <3>5, <3>6
      <4>3. Decoded(g) = Len(g.frames) - 1
        BY <1>2, <3>2, <3>6, <4>1, <4>2, DecodedTorn, SMTT(30)
      <4>4. QED
        BY <4>2, <4>3
    <3>8. Good(g) = part
      <4>1. g.frames \in Seq(Frame) /\ n \in 0..Len(g.frames)
        BY <3>2, <3>5, <3>6
      <4>2. /\ SubSeq(g.frames, 1, n) \in Seq(Frame) /\ Len(SubSeq(g.frames, 1, n)) = n
            /\ \A i \in 1..n : SubSeq(g.frames, 1, n)[i] = g.frames[i]
        BY <4>1, PrefixFacts
      <4>3. \A i \in 1..n : SubSeq(g.frames, 1, n)[i] = part[i]
        BY <3>5, <3>6, <4>2
      <4>4. SubSeq(g.frames, 1, n) = part
        BY <3>3, <4>2, <4>3, SameSequence, Zenon
      <4>5. QED
        BY <3>7, <4>4 DEF Good
    <3>9. CASE t = "garbled"
      <4>1. Corrupt(g)
        BY <3>2, <3>4, <3>5, <3>6, <3>7, <3>9 DEF Corrupt
      <4>2. ~Skipped(gs, c)
        BY <3>6, <4>1 DEF Skipped
      <4>3. Abandoned(gs, c, MaxSegments + 1)
        <5>1. ~(c < c)
          BY <1>1, WalAssumption DEF Segments
        <5>2. QED
          BY <1>1, <1>4, <5>1, TameAbandoned
      <4>4. Chosen(gs) = c
        BY <1>1, <3>6, <4>2, <4>3, ChosenIs
      <4>5. QED
        BY <4>1, <4>4
    <3>10. CASE t = "short"
      <4>1. CASE c > 1 /\ n = 0
        <5>1. Len(g.frames) = 1 /\ g.frames[1].kind = "short"
          BY <3>4, <3>5, <3>6, <3>10, <4>1
        <5>2. Dead(g)
          BY <3>6, <5>1 DEF Dead
        <5>3. QED
          BY <2>2, <2>3, <3>1, <3>2, <4>1, <5>2, Zenon
      <4>2. CASE c > 1 => n > 0
        <5>1. Chain(part, c)
          BY <1>1, <1>3, <2>1, <3>2, <4>2, ChainPrefix DEF part
        <5>2. Readable(g, c)
          <6>1. Len(g.frames) = n + 1 /\ g.frames[n + 1] = Damage(t)
            BY <3>5, <3>6, Zenon
          <6>2. Decoded(g) = Len(g.frames) - 1 /\ Len(g.frames) = n + 1
            BY <3>2, <3>7, <6>1
          <6>3. g.frames[Len(g.frames)].kind = "short"
            BY <3>4, <3>10, <6>1, <6>2, Zenon
          <6>4. Chain(Good(g), c)
            BY <3>8, <5>1, Zenon
          <6> QED
            BY <3>6, <6>2, <6>3, <6>4, Zenon DEF Readable
        <5>3. g.synced >= n
          BY <3>2, <3>6
        <5>4. QED
          BY <1>1, <1>4, <2>1, <3>1, <3>2, <3>6, <3>7, <3>8, <4>2, <5>2, <5>3, KeepsLive, SMTT(30), Z3T(30) DEF part
      <4>3. QED
        BY <3>2, <4>1, <4>2
    <3>11. QED
      BY <3>4, <3>9, <3>10
  <2>6. CASE f.synced < 0 /\ \E h \in {"none", "part"} : g = OnDisk(h, << >>)
    <3>1. ~Firm(f, c, k)
      BY <1>3, <2>1, <2>6 DEF Firm
    <3>2. Dead(g)
      BY <2>6 DEF Dead, OnDisk
    <3>3. QED
      BY <2>2, <3>1, <3>2
  <2>7. CASE ~f.named /\ g = NoFile
    <3>1. ~Firm(f, c, k) /\ ~g.made
      BY <2>7, NoFileFacts DEF Firm
    <3>2. QED
      BY <2>2, <3>1
  <2>8. QED
    BY <1>2, <1>6, <2>4, <2>5, <2>6, <2>7, SurvivorCases
<1>7. QED
  BY <1>2, <1>5, <1>6, SurvivorCases

-----------------------------------------------------------------------------
(* push_to_os, sync_data and the writer's segment. *)

\* The files of a state: their types, and no file synced past its end.
FilesOK(fs) ==
  /\ fs \in [Segments -> File]
  /\ \A s \in Segments : fs[s].synced \in -1..Len(fs[s].frames)

\* A push puts the frames behind those the file has.
LEMMA PushedFrames ==
  ASSUME NEW fs, FilesOK(fs), NEW c \in Segments, NEW more
  PROVE  Pushed(fs, c, more)[c].frames = fs[c].frames \o more
<1> DEFINE F == fs[c].frames \o more
<1>1. fs \in [Segments -> File] /\ fs[c] \in File
  BY Zenon DEF FilesOK
<1>2. Pushed(fs, c, more)[c] = [fs[c] EXCEPT !.frames = F]
  BY <1>1 DEF Pushed
<1> HIDE DEF F
<1>3. [fs[c] EXCEPT !.frames = F].frames = F
  BY <1>1, Zenon DEF File
<1> QED
  BY <1>2, <1>3, Zenon DEF F

\* What pushing records to the live segment c leaves: it is still live, and holds them.
PushFits(fs, c, k, more, gs) ==
  /\ FilesOK(gs) /\ Live(gs, c, k) /\ Chain(gs[c].frames, c)
  /\ gs[c].frames = fs[c].frames \o more
  /\ Len(gs[c].frames) = Len(fs[c].frames) + Len(more)
  /\ Restates(gs[c].frames, Len(gs[c].frames)) \in Nat
  /\ Restates(fs[c].frames, Len(fs[c].frames)) <= Restates(gs[c].frames, Len(gs[c].frames))
  /\ \A s \in Segments : gs[s].made = fs[s].made /\ (s # c => gs[s] = fs[s])

\* Records pushed to the live segment leave it live.
LEMMA PushFacts ==
  ASSUME NEW fs, FilesOK(fs), NEW c, NEW k \in Nat, Live(fs, c, k), Chain(fs[c].frames, c),
         NEW more \in Seq(Frame), \A i \in 1..Len(more) : IsRecord(more[i]),
         NEW gs, gs = Pushed(fs, c, more)
  PROVE  PushFits(fs, c, k, more, gs)
<1> DEFINE f == fs[c]
           g == gs[c]
           F == f.frames \o more
<1>1. c \in Segments /\ Readable(f, c) /\ fs \in [Segments -> File] /\ f \in File
  BY DEF Live, FilesOK
<1>2. /\ f.frames \in Seq(Frame) /\ Len(f.frames) \in Nat /\ f.synced \in -1..Len(f.frames)
      /\ f.frames = << >> <=> Len(f.frames) = 0
  BY <1>1, FileFacts DEF FilesOK
<1>3. Len(more) \in Nat
  BY SeqFacts, Zenon
<1>4. F \in Seq(Frame) /\ Chain(F, c) /\ Len(F) = Len(f.frames) + Len(more)
      /\ (f.frames # << >> => F[1] = f.frames[1])
  BY <1>1, <1>2, ChainConcat
<1>5. g = [f EXCEPT !.frames = F] /\ \A s \in Segments \ {c} : gs[s] = fs[s]
  BY <1>1 DEF Pushed
<1> HIDE DEF F
<1>6. /\ g \in File /\ g.frames = F /\ g.made = f.made /\ g.header = f.header
      /\ g.named = f.named /\ g.synced = f.synced
  BY <1>1, <1>4, <1>5, Zenon DEF File
<1>7. gs \in [Segments -> File]
  BY <1>1, <1>5, <1>6 DEF Pushed
<1>8. FilesOK(gs)
  <2> SUFFICES ASSUME NEW s \in Segments PROVE gs[s].synced \in -1..Len(gs[s].frames)
    BY <1>7 DEF FilesOK
  <2>1. CASE s = c
    BY <1>2, <1>3, <1>4, <1>6, <2>1, SMTT(30), Z3T(30)
  <2>2. CASE s # c
    BY <1>5, <2>2, SMTT(30) DEF FilesOK
  <2>3. QED
    BY <2>1, <2>2
<1>9. f.made /\ f.header = "full"
  BY <1>1, ReadableFacts, SMTT(30)
<1>10. Readable(g, c) /\ Decoded(g) = Len(F)
  BY <1>1, <1>4, <1>6, <1>9, ReadableChain, Zenon
<1>11. Firm(f, c, k) => Firm(g, c, k)
  <2> SUFFICES ASSUME Firm(f, c, k) PROVE Firm(g, c, k)
    BY Zenon
  <2>1. PICK n \in 0..Decoded(f) : (c > 1 => n > 0) /\ n <= f.synced /\ k <= Restates(f.frames, n)
    BY Zenon DEF Firm
  <2>2. f.named
    BY SMTT(30) DEF Firm
  <2>3. Decoded(f) \in 0..Len(f.frames)
    BY <1>1, DecodedFacts, Zenon
  <2>4. n \in 0..Decoded(g) /\ n <= Len(f.frames)
    BY <1>2, <1>3, <1>4, <1>10, <2>1, <2>3, SMTT(30), Z3T(30)
  <2>5. Restates(F, n) = Restates(f.frames, n)
    <3>1. CASE n = 0
      BY <3>1, Zenon DEF Restates
    <3>2. CASE n # 0
      <4>1. F[1] = f.frames[1]
        BY <1>2, <1>4, <2>4, <3>2, SMTT(30)
      <4>2. QED
        BY <3>2, <4>1, Zenon DEF Restates
    <3>3. QED
      BY <3>1, <3>2
  <2> HIDE DEF f, g
  <2>6. QED
    BY <1>6, <2>1, <2>2, <2>4, <2>5, Zenon DEF Firm
<1>12. c > 1 => g.frames[1].hist = f.frames[1].hist
  BY <1>4, <1>6, Zenon DEF Chain
<1>13. \A s \in Segments \ {c} : Tame(fs[s], gs[s], s)
  <2> SUFFICES ASSUME NEW s \in Segments \ {c} PROVE Tame(fs[s], gs[s], s)
    OBVIOUS
  <2>1. gs[s] = fs[s]
    BY <1>5, Zenon
  <2>2. QED
    BY <2>1, Zenon DEF Tame
<1>14. Live(gs, c, k)
  BY <1>1, <1>7, <1>10, <1>11, <1>12, <1>13, TameLive, Zenon
<1>15. /\ Restates(F, Len(F)) \in Nat
       /\ Restates(f.frames, Len(f.frames)) <= Restates(F, Len(F))
  <2>1. Restates(F, Len(F)) \in Nat
    BY <1>1, <1>4, RestatedFacts, SeqFacts, ZenonT(30)
  <2>2. CASE f.frames = << >>
    BY <1>2, <2>1, <2>2 DEF Restates
  <2>3. CASE f.frames # << >>
    <3>1. F[1] = f.frames[1] /\ Len(f.frames[1].hist) \in Nat
      <4>1. f.frames[1] \in Frame
        BY <1>2, <2>3, SeqFacts
      <4>2. QED
        BY <1>4, <2>3, <4>1, FrameFacts
    <3> DEFINE l == Len(f.frames[1].hist)
    <3>2. Len(f.frames) # 0 /\ Len(F) # 0
      BY <1>2, <1>3, <1>4, <2>3
    <3>3. Restates(f.frames, Len(f.frames)) = l + Len(f.frames) - 1
      BY <3>2 DEF Restates
    <3>4. Restates(F, Len(F)) = l + Len(F) - 1
      BY <3>1, <3>2 DEF Restates
    <3>5. l \in Nat
      BY <3>1, Zenon
    <3> HIDE DEF l, f
    <3>6. QED
      BY <1>2, <1>3, <1>4, <2>1, <3>3, <3>4, <3>5
  <2>4. QED
    BY <2>1, <2>2, <2>3
<1>16. QED
  BY <1>4, <1>5, <1>6, <1>8, <1>14, <1>15, Zenon DEF F, PushFits

\* sync_data of a file, where it keeps the file's name: the live segment stays live, a file on disk
\* stays as it is, and a live segment that is synced keeps all it restates.
LEMMA SyncFacts ==
  ASSUME FsyncNames, NEW fs, FilesOK(fs), NEW c, NEW k \in Nat, Live(fs, c, k), Chain(fs[c].frames, c),
         NEW t \in Segments, NEW gs, gs = Synced(fs, t)
  PROVE  /\ FilesOK(gs) /\ Live(gs, c, k)
         /\ \A s \in Segments : /\ gs[s].frames = fs[s].frames /\ gs[s].made = fs[s].made
                                /\ gs[s].header = fs[s].header /\ Tame(fs[s], gs[s], s)
                                /\ s # t => gs[s] = fs[s]
         /\ gs[t].named /\ gs[t].synced = Len(fs[t].frames)
         /\ t = c => /\ Solid(gs[c], c)
                     /\ \A j \in Nat : j <= Restates(fs[c].frames, Len(fs[c].frames)) => Live(gs, c, j)
<1>1. c \in Segments /\ Readable(fs[c], c) /\ fs \in [Segments -> File] /\ Abandoned(fs, c, MaxSegments + 1)
  BY DEF Live, FilesOK
<1>2. \A s \in Segments : /\ fs[s] \in File /\ fs[s].frames \in Seq(Frame) /\ Len(fs[s].frames) \in Nat
                          /\ fs[s].synced \in -1..Len(fs[s].frames)
                          /\ fs[s].made \in BOOLEAN /\ fs[s].named \in BOOLEAN
  BY <1>1, FileFacts DEF FilesOK
<1> DEFINE f == fs[t]
           g == gs[t]
<1>3. /\ g = [f EXCEPT !.synced = Len(f.frames), !.named = @ \/ FsyncNames]
      /\ \A s \in Segments \ {t} : gs[s] = fs[s]
  BY <1>1 DEF Synced
<1>4. /\ g \in File /\ g.frames = f.frames /\ g.made = f.made /\ g.header = f.header
      /\ g.named /\ g.synced = Len(f.frames)
  <2>1. (f.named \/ FsyncNames) = TRUE
    BY Zenon
  <2>2. g = [f EXCEPT !.synced = Len(f.frames), !.named = TRUE]
    BY <1>3, <2>1, Zenon
  <2>3. f \in File /\ Len(f.frames) \in Int
    BY <1>2
  <2> HIDE DEF f, g
  <2>4. QED
    BY <2>2, <2>3, Zenon DEF File
<1>5. Fixed(f) => g = f
  <2> SUFFICES ASSUME Fixed(f) PROVE g = f
    OBVIOUS
  <2>1. f.named = TRUE /\ f.synced = Len(f.frames)
    BY <1>2 DEF Fixed
  <2>2. g = [f EXCEPT !.synced = f.synced, !.named = f.named]
    BY <1>3, <2>1, Zenon
  <2>3. QED
    BY <1>2, <2>2, Zenon DEF File
<1>6. Fixed(g)
  BY <1>4, Zenon DEF Fixed
<1>7. Tame(f, g, t)
  <2>1. Solid(f, t) => g = f
    BY <1>5, Zenon DEF Solid
  <2>2. ASSUME g.made, f.made => Dead(f) PROVE Dead(g)
    BY <1>4, <1>5, <2>2 DEF Dead
  <2>3. QED
    BY <2>1, <2>2 DEF Tame
<1>8. \A s \in Segments : Tame(fs[s], gs[s], s)
  <2> SUFFICES ASSUME NEW s \in Segments PROVE Tame(fs[s], gs[s], s)
    OBVIOUS
  <2>1. CASE s = t
    BY <1>7, <2>1, Zenon
  <2>2. CASE s # t
    <3>1. gs[s] = fs[s]
      BY <1>3, <2>2
    <3>2. QED
      BY <3>1 DEF Tame
  <2>3. QED
    BY <2>1, <2>2
<1>9. gs \in [Segments -> File]
  BY <1>1, <1>3, <1>4, SMTT(30) DEF Synced
<1>10. FilesOK(gs)
  <2> SUFFICES ASSUME NEW s \in Segments PROVE gs[s].synced \in -1..Len(gs[s].frames)
    BY <1>9 DEF FilesOK
  <2>1. CASE s = t
    BY <1>2, <1>4, <2>1
  <2>2. CASE s # t
    BY <1>2, <1>3, <2>2
  <2>3. QED
    BY <2>1, <2>2
<1>11. CASE t # c
  <2>1. gs[c] = fs[c]
    BY <1>1, <1>3, <1>11, Zenon
  <2>2. Live(gs, c, k)
    BY <1>1, <1>8, <1>9, <2>1, TameLive
  <2>3. QED
    BY <1>3, <1>4, <1>8, <1>10, <1>11, <2>2, Zenon
<1>12. CASE t = c
  <2>1. f.made /\ f.header = "full"
    BY <1>1, <1>2, <1>12, ReadableFacts, Zenon
  <2>2. Readable(g, c) /\ Decoded(g) = Len(f.frames) /\ Solid(g, c)
    BY <1>1, <1>4, <1>6, <1>12, <2>1, ReadableChain, Zenon DEF Solid
  <2>3. Abandoned(gs, c, MaxSegments + 1)
    <3>1. ~(c < c)
      BY <1>1, WalAssumption, SMTT(30) DEF Segments
    <3>2. QED
      BY <1>1, <1>8, <1>9, <3>1, TameAbandoned
  <2>4. c > 1 => Len(f.frames) > 0
    BY <1>2, <1>12, SeqFacts, SMTT(30) DEF Chain
  <2>5. ASSUME NEW j \in Nat, j <= Restates(f.frames, Len(f.frames)) PROVE Live(gs, c, j)
    <3>1. Firm(g, c, j)
      <4>1. Len(f.frames) \in 0..Decoded(g) /\ Len(f.frames) <= g.synced
        BY <1>2, <1>4, <2>2, SMTT(30)
      <4>2. j <= Restates(g.frames, Len(f.frames)) /\ g.named
        BY <1>4, <2>5, SMTT(30)
      <4> HIDE DEF f, g
      <4>3. QED
        BY <2>4, <4>1, <4>2, Zenon DEF Firm
    <3>2. QED
      BY <1>1, <1>12, <2>2, <2>3, <3>1, Zenon DEF Live
  <2>6. k <= Restates(f.frames, Len(f.frames))
    <3>1. k <= Len(Restated(Good(f)))
      BY <1>1, <1>12, LiveHolds, Zenon
    <3>2. Good(f) = f.frames
      BY <1>1, <1>2, <1>12, <2>1, ReadableChain, Zenon
    <3>3. QED
      BY <1>1, <1>2, <1>12, <3>1, <3>2, RestatedFacts, Zenon
  <2>7. Live(gs, c, k)
    BY <2>5, <2>6
  <2>8. QED
    BY <1>3, <1>4, <1>8, <1>10, <1>12, <2>2, <2>5, <2>7, ZenonT(30)
<1>13. QED
  BY <1>11, <1>12

\* Appending to the buffer and pushing commute.
LEMMA ConcatAppend ==
  ASSUME NEW S, NEW a \in Seq(S), NEW b \in Seq(S), NEW e \in S
  PROVE  a \o Append(b, e) = Append(a \o b, e)
<1> DEFINE l == a \o Append(b, e)
           r == Append(a \o b, e)
<1>1. l \in Seq(S) /\ r \in Seq(S) /\ Len(l) = Len(r) /\ Len(l) = Len(a) + Len(b) + 1
  OBVIOUS
<1>2. ASSUME NEW i \in 1..Len(l) PROVE l[i] = r[i]
  <2>1. CASE i <= Len(a)
    BY <2>1
  <2>2. CASE i > Len(a)
    BY <2>2
  <2>3. QED
    BY <2>1, <2>2
<1> HIDE DEF l, r
<1>3. l = r
  BY <1>1, <1>2, SameSequence, Zenon
<1>4. QED
  BY <1>3 DEF l, r

\* The greatest ordinal in use (rotate_measured, the next index).
LEMMA NewestFacts ==
  ASSUME NEW fs, NEW c \in Segments, fs[c].made
  PROVE  /\ Newest(fs) \in Segments /\ fs[Newest(fs)].made /\ c <= Newest(fs)
         /\ \A s \in Segments : fs[s].made => s <= Newest(fs)
<1> DEFINE S == {s \in Segments : fs[s].made}
<1>1. S \subseteq 1..MaxSegments /\ S \subseteq Int /\ c \in S /\ MaxSegments \in Nat
  BY WalAssumption DEF Segments
<1>2. PICK m \in S : \A n \in S : n <= m
  <2> HIDE DEF S
  <2>1. S # {}
    BY <1>1
  <2>2. QED
    BY <1>1, <2>1, HasMax, Zenon
<1> HIDE DEF S
<1>3. MaxOf(S) = m
  BY <1>1, <1>2, MaxOfIs, Zenon
<1>4. Newest(fs) = m
  BY <1>3 DEF Newest, S
<1>5. QED
  BY <1>1, <1>2, <1>4 DEF S

\* The newest segment depends only on which files are made.
LEMMA NewestSame ==
  ASSUME NEW fs, NEW gs, \A s \in Segments : gs[s].made = fs[s].made
  PROVE  Newest(gs) = Newest(fs)
<1>1. {s \in Segments : gs[s].made} = {s \in Segments : fs[s].made}
  OBVIOUS
<1>2. QED
  BY <1>1, Zenon DEF Newest

\* What the writer's invariant says of the current segment and of the buffer behind it.
LEMMA WriterFacts ==
  ASSUME WalInv, mode = "open"
  PROVE  /\ FilesOK(files) /\ cur \in Segments /\ settled \in Nat /\ Len(hist) \in Nat
         /\ hist \in Seq(1..MaxRecords) /\ settled <= Len(hist)
         /\ files[cur] \in File /\ files[cur].frames \in Seq(Frame) /\ Len(files[cur].frames) \in Nat
         /\ buf \in Seq(Frame) /\ Len(buf) \in Nat /\ \A i \in 1..Len(buf) : IsRecord(buf[i])
         /\ Chain(files[cur].frames, cur) /\ Chain(files[cur].frames \o buf, cur)
         /\ files[cur].frames \o buf \in Seq(Frame)
         /\ Restated(files[cur].frames \o buf) = hist
<1>1. /\ FilesOK(files) /\ cur \in Segments /\ settled \in Nat
      /\ hist \in Seq(1..MaxRecords) /\ settled <= Len(hist) /\ buf \in Seq(Frame)
  BY DEF WalInv, TypeOK, FilesOK
<1>2. Len(hist) \in Nat /\ Len(buf) \in Nat
  BY <1>1, SeqFacts
<1>3. files[cur] \in File
  BY <1>1 DEF FilesOK
<1>4. files[cur].frames \in Seq(Frame) /\ Len(files[cur].frames) \in Nat
  BY <1>3, FileFacts
<1>5. /\ Chain(files[cur].frames, cur) /\ \A i \in 1..Len(buf) : IsRecord(buf[i])
      /\ Restated(files[cur].frames \o buf) = hist
  BY DEF WalInv, WriterInv
<1>6. Chain(files[cur].frames \o buf, cur) /\ files[cur].frames \o buf \in Seq(Frame)
  BY <1>1, <1>4, <1>5, ChainConcat, Zenon
<1>7. QED
  BY <1>1, <1>2, <1>3, <1>4, <1>5, <1>6, Zenon

\* push_to_os of the buffer while no rotation is running.
LEMMA BufferPushed ==
  ASSUME WalInv, Running, NEW gs, gs = Pushed(files, cur, buf)
  PROVE  /\ FilesOK(gs) /\ Live(gs, cur, settled) /\ Chain(gs[cur].frames, cur)
         /\ gs[cur].frames = files[cur].frames \o buf /\ gs[cur].frames \in Seq(Frame)
         /\ gs[cur].frames \o << >> = gs[cur].frames
         /\ Len(gs[cur].frames) = Len(files[cur].frames) + Len(buf) /\ Len(gs[cur].frames) \in Nat
         /\ Restates(files[cur].frames, Len(files[cur].frames)) <= Len(hist)
         /\ Restates(gs[cur].frames, Len(gs[cur].frames)) = Len(hist)
         /\ \A s \in Segments : gs[s].made = files[s].made /\ (s # cur => gs[s] = files[s])
<1>1. /\ FilesOK(files) /\ cur \in Segments /\ settled \in Nat /\ buf \in Seq(Frame)
      /\ \A i \in 1..Len(buf) : IsRecord(buf[i])
      /\ Chain(files[cur].frames, cur) /\ Restated(files[cur].frames \o buf) = hist
  BY WriterFacts, Zenon DEF Running
<1>2. Live(files, cur, settled)
  BY SMTT(30) DEF WalInv, WriterInv, Running
<1>4. /\ FilesOK(gs) /\ Live(gs, cur, settled) /\ Chain(gs[cur].frames, cur)
      /\ gs[cur].frames = files[cur].frames \o buf
      /\ Len(gs[cur].frames) = Len(files[cur].frames) + Len(buf)
      /\ Restates(files[cur].frames, Len(files[cur].frames)) <= Restates(gs[cur].frames, Len(gs[cur].frames))
      /\ \A s \in Segments : gs[s].made = files[s].made /\ (s # cur => gs[s] = files[s])
  <2>1. PushFits(files, cur, settled, buf, gs)
    BY <1>1, <1>2, PushFacts, Zenon
  <2>2. QED
    BY <2>1, Zenon DEF PushFits
<1>5. gs[cur].frames \in Seq(Frame) /\ Len(gs[cur].frames) \in Nat
  BY <1>1, <1>4, FileFacts, Zenon DEF FilesOK
<1>6. Restates(gs[cur].frames, Len(gs[cur].frames)) = Len(hist)
  BY <1>1, <1>4, <1>5, RestatedFacts, Zenon
<1>7. gs[cur].frames \o << >> = gs[cur].frames
  BY <1>5, ConcatEmpty
<1>8. QED
  BY <1>4, <1>5, <1>6, <1>7, Zenon

\* The parts of TypeOK that are not about the files.
LEMMA StepTypes ==
  ASSUME TypeOK, FilesOK(files'), cur' \in Segments, buf' \in Seq(Frame), \A i \in 1..Len(buf') : IsRecord(buf'[i]),
         nextSeq' \in Nat \ {0}, sync' \in 0..MaxSegments,
         pend' \in Seq([seg : Segments, upto : Nat]), rot' \in RotationSteps, mode' \in {"open", "down", "refused"},
         hist' \in Seq(1..MaxRecords), settled' \in Nat, issued' \in 0..MaxRecords, crashes' \in 0..MaxCrashes
  PROVE  TypeOK'
  BY Zenon DEF TypeOK, FilesOK, IsRecord, Sound
=============================================================================
