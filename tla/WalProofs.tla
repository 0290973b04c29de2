------------------------------ MODULE WalProofs ------------------------------
(***************************************************************************)
(* The segment files of Wal implement DurableLog, for every number of      *)
(* records, segments, crashes and pending barriers, every high-water mark  *)
(* and every damage a power loss may leave, where a sync of a file keeps   *)
(* its directory entry.                                                    *)
(***************************************************************************)
EXTENDS WalFileProofs

-----------------------------------------------------------------------------
(* Every step keeps WalInv. *)

\* Pending barriers stay covered while the segment only grows.
LEMMA PendingKept ==
  ASSUME WalInv, mode = "open", pend' = pend, cur' = cur, settled' \in Nat, settled <= settled',
         Restates(files[cur].frames, Len(files[cur].frames)) \in Nat,
         Restates(files'[cur].frames, Len(files'[cur].frames)) \in Nat,
         Restates(files[cur].frames, Len(files[cur].frames))
           <= Restates(files'[cur].frames, Len(files'[cur].frames))
  PROVE  /\ pend' \in Seq([seg : Segments, upto : Nat])
         /\ \A i \in 1..Len(pend') :
              /\ pend'[i].seg <= cur'
              /\ \/ pend'[i].upto <= settled'
                 \/ /\ pend'[i].seg = cur'
                    /\ pend'[i].upto <= Restates(files'[cur'].frames, Len(files'[cur'].frames))
<1>1. pend \in Seq([seg : Segments, upto : Nat]) /\ settled \in Nat
  BY DEF WalInv, TypeOK
<1>2. \A i \in 1..Len(pend) : pend[i] \in [seg : Segments, upto : Nat]
  BY <1>1, SeqFacts, Zenon
<1>3. \A i \in 1..Len(pend) :
        /\ pend[i].seg <= cur
        /\ \/ pend[i].upto <= settled
           \/ pend[i].seg = cur /\ pend[i].upto <= Restates(files[cur].frames, Len(files[cur].frames))
  BY SMTT(30) DEF WalInv, WriterInv
<1> DEFINE u == Restates(files[cur].frames, Len(files[cur].frames))
           v == Restates(files'[cur].frames, Len(files'[cur].frames))
<1>4. \A i \in 1..Len(pend) : pend[i].upto \in Nat
  BY <1>2
<1> HIDE DEF u, v
<1>5. \A i \in 1..Len(pend) : pend[i].upto <= u => pend[i].upto <= v
  BY <1>4 DEF u, v
<1>6. \A i \in 1..Len(pend) : pend[i].upto <= settled => pend[i].upto <= settled'
  BY <1>1, <1>4
<1>7. QED
  BY <1>1, <1>3, <1>5, <1>6, SMTT(30) DEF u, v

\* How much the current segment restates.
LEMMA CurrentRestates ==
  ASSUME WalInv, mode = "open"
  PROVE  Restates(files[cur].frames, Len(files[cur].frames)) \in Nat
<1>1. /\ cur \in Segments /\ files[cur].frames \in Seq(Frame) /\ Chain(files[cur].frames, cur)
  BY WriterFacts, SMTT(30)
<1>2. /\ Restated(files[cur].frames) \in Seq(1..MaxRecords)
      /\ Len(Restated(files[cur].frames)) = Restates(files[cur].frames, Len(files[cur].frames))
  BY <1>1, RestatedFacts, ZenonT(30)
<1>3. QED
  BY <1>2, SeqFacts

\* append keeps the invariant, with or without a push.
LEMMA AppendStep ==
  ASSUME WalInv, WalAppend
  PROVE  WalInv'
<1> DEFINE F == files[cur].frames
           C == F \o buf
           r == RecordFrame(issued + 1)
           full == Append(buf, r)
<1>1. mode = "open" /\ rot = "idle" /\ Running
  BY DEF WalAppend, Running
<1>2. /\ FilesOK(files) /\ cur \in Segments /\ settled \in Nat /\ Len(hist) \in Nat
      /\ hist \in Seq(1..MaxRecords) /\ settled <= Len(hist)
      /\ F \in Seq(Frame) /\ Len(F) \in Nat
      /\ buf \in Seq(Frame) /\ Len(buf) \in Nat /\ \A i \in 1..Len(buf) : IsRecord(buf[i])
      /\ Chain(F, cur) /\ Chain(C, cur) /\ C \in Seq(Frame) /\ Restated(C) = hist
  BY <1>1, WriterFacts, SMTT(30)
<1>3. /\ TypeOK /\ Live(files, cur, settled) /\ nextSeq = Len(F) + Len(buf) + 1 /\ sync \in {0, cur}
      /\ nextSeq \in Nat
  BY <1>1 DEF WalInv, WriterInv, TypeOK
<1>4. issued + 1 \in 1..MaxRecords /\ issued' = issued + 1 /\ issued' \in 0..MaxRecords
  BY WalAssumption DEF WalInv, TypeOK, WalAppend
<1>5. r \in Frame /\ IsRecord(r) /\ Append(C, r) \in Seq(Frame) /\ Chain(Append(C, r), cur)
      /\ Restated(Append(C, r)) = Append(hist, issued + 1)
  BY <1>2, <1>4, ChainAppend, Zenon
<1> HIDE DEF r
<1>6. full \in Seq(Frame) /\ Len(full) = Len(buf) + 1 /\ F \o full = Append(C, r)
      /\ \A i \in 1..Len(buf) : full[i] = buf[i]
      /\ full[Len(buf) + 1] = r
  <2>1. F \in Seq(Frame) /\ buf \in Seq(Frame) /\ r \in Frame
    BY <1>2, <1>5
  <2>2. F \o full = Append(C, r)
    <3> HIDE DEF F
    <3>1. QED
      BY <2>1, ConcatAppend
  <2>3. /\ Append(buf, r) \in Seq(Frame) /\ Len(Append(buf, r)) = Len(buf) + 1
        /\ \A i \in 1..Len(buf) : Append(buf, r)[i] = buf[i]
        /\ Append(buf, r)[Len(buf) + 1] = r
    BY <2>1, AppendFacts, Zenon
  <2>4. QED
    BY <2>2, <2>3, Zenon
<1>7. \A i \in 1..Len(full) : IsRecord(full[i])
  BY <1>2, <1>5, <1>6, SMTT(30)
<1>8. /\ hist' = Append(hist, issued + 1) /\ hist' \in Seq(1..MaxRecords) /\ Len(hist') = Len(hist) + 1
  BY <1>2, <1>4, AppendFacts DEF WalAppend
<1>9. /\ cur' = cur /\ sync' = sync /\ pend' = pend /\ rot' = rot /\ mode' = mode
      /\ settled' = settled /\ crashes' = crashes /\ nextSeq' = nextSeq + 1
  BY DEF WalAppend
<1>10. Restates(F, Len(F)) \in Nat
  BY <1>1, CurrentRestates
<1>a. Len(F) \in Nat /\ Len(buf) \in Nat
  BY <1>2
<1>c. settled' \in Nat /\ settled <= settled'
  BY <1>2, <1>9
<1>b. /\ sync' \in 0..MaxSegments /\ pend' \in Seq([seg : Segments, upto : Nat])
      /\ rot' \in RotationSteps /\ crashes' \in 0..MaxCrashes /\ settled' \in Nat
      /\ nextSeq' \in Nat \ {0} /\ mode' \in {"open", "down", "refused"} /\ cur' \in Segments
  BY <1>3, <1>9 DEF TypeOK
<1> HIDE DEF full
<1>11. CASE files' = Pushed(files, cur, full) /\ buf' = << >>
  <2> DEFINE G == files'[cur].frames
  <2>1. /\ FilesOK(files') /\ Live(files', cur, settled) /\ Chain(G, cur)
        /\ G = F \o full /\ Len(G) = Len(F) + Len(full)
        /\ Restates(G, Len(G)) \in Nat /\ Restates(F, Len(F)) <= Restates(G, Len(G))
    <3>1. /\ FilesOK(files) /\ settled \in Nat /\ Live(files, cur, settled) /\ Chain(files[cur].frames, cur)
          /\ full \in Seq(Frame) /\ files' = Pushed(files, cur, full)
      BY <1>2, <1>3, <1>6, <1>11, Zenon
    <3>2. QED
      <4>1. PushFits(files, cur, settled, full, files')
        BY <1>7, <3>1, PushFacts, Zenon
      <4>2. QED
        BY <4>1, Zenon DEF PushFits
  <2>2. /\ G \o << >> = G /\ << >> \in Seq(Frame) /\ Len(<< >>) = 0
    BY <1>5, <1>6, <2>1, ConcatEmpty, SMTT(60)
  <2>3. \A i \in 1..Len(pend') :
              /\ pend'[i].seg <= cur'
              /\ \/ pend'[i].upto <= settled'
                 \/ pend'[i].seg = cur' /\ pend'[i].upto <= Restates(files'[cur'].frames, Len(files'[cur'].frames))
    BY <1>1, <1>9, <1>10, <1>c, <2>1, PendingKept, Zenon
  <2>4. TypeOK'
    <3>1. FilesOK(files') /\ buf' \in Seq(Frame) /\ \A i \in 1..Len(buf') : IsRecord(buf'[i])
      BY <1>11, <2>1, <2>2
    <3>2. QED
      BY <1>3, <1>4, <1>8, <1>b, <3>1, StepTypes, Zenon
  <2>5. nextSeq' = Len(files'[cur'].frames) + Len(buf') + 1
    <3>1. nextSeq' = Len(F) + Len(buf) + 1 + 1 /\ Len(full) = Len(buf) + 1 /\ Len(G) = Len(F) + Len(full)
      BY <1>3, <1>6, <1>9, <2>1
    <3> HIDE DEF F, G
    <3>2. nextSeq' = Len(G) + 0 + 1
      BY <1>a, <3>1, SMTT(30)
    <3>3. QED
      BY <1>9, <1>11, <2>2, <3>2, Zenon DEF G
  <2>6. Restated(files'[cur'].frames \o buf') = hist'
    BY <1>5, <1>6, <1>8, <1>9, <1>11, <2>1, <2>2, Zenon
  <2>7. WriterInv'
    BY <1>1, <1>3, <1>9, <1>11, <2>1, <2>2, <2>3, <2>5, <2>6, SMTT(60), Z3T(60) DEF WriterInv
  <2>8. QED
    BY <1>1, <1>2, <1>8, <1>9, <2>4, <2>7, SMTT(30) DEF WalInv
<1>12. CASE buf' = full /\ files' = files
  <2>3. \A i \in 1..Len(pend') :
              /\ pend'[i].seg <= cur'
              /\ \/ pend'[i].upto <= settled'
                 \/ pend'[i].seg = cur' /\ pend'[i].upto <= Restates(files'[cur'].frames, Len(files'[cur'].frames))
    BY <1>1, <1>9, <1>10, <1>c, <1>12, PendingKept, SMTT(30), Z3T(30)
  <2>4. TypeOK'
    <3>1. FilesOK(files') /\ buf' \in Seq(Frame) /\ \A i \in 1..Len(buf') : IsRecord(buf'[i])
      BY <1>2, <1>6, <1>7, <1>12
    <3>2. QED
      BY <1>3, <1>4, <1>8, <1>b, <3>1, StepTypes, Zenon
  <2>5. nextSeq' = Len(files'[cur'].frames) + Len(buf') + 1
    <3>1. nextSeq' = Len(F) + Len(buf) + 1 + 1 /\ Len(full) = Len(buf) + 1
      BY <1>3, <1>6, <1>9
    <3> HIDE DEF F
    <3>2. nextSeq' = Len(F) + Len(full) + 1
      BY <1>a, <3>1
    <3>3. QED
      BY <1>9, <1>12, <3>2 DEF F
  <2>6. Restated(files'[cur'].frames \o buf') = hist'
    BY <1>5, <1>6, <1>8, <1>9, <1>12, Zenon
  <2>7. WriterInv'
    BY <1>1, <1>2, <1>3, <1>7, <1>9, <1>12, <2>3, <2>5, <2>6, Zenon DEF WriterInv
  <2>8. QED
    BY <1>1, <1>2, <1>8, <1>9, <2>4, <2>7 DEF WalInv
<1>13. QED
  BY <1>11, <1>12 DEF WalAppend, full, r

\* What a push of the whole buffer, synced or not, leaves of the writer's invariant: the segment
\* holds the history, the sequence is its next frame, pending barriers are covered.
LEMMA PushedWriter ==
  ASSUME WalInv, Running, NEW gs, gs = Pushed(files, cur, buf),
         \A s \in Segments : files'[s].frames = gs[s].frames, buf' = << >>, FilesOK(files'),
         hist' = hist, cur' = cur, nextSeq' = nextSeq, settled' \in Nat, settled <= settled'
  PROVE  /\ Chain(files'[cur'].frames, cur')
         /\ buf' \in Seq(Frame) /\ \A i \in 1..Len(buf') : IsRecord(buf'[i])
         /\ Restated(files'[cur'].frames \o buf') = hist'
         /\ nextSeq' = Len(files'[cur'].frames) + Len(buf') + 1
         /\ Restates(files'[cur'].frames, Len(files'[cur'].frames)) = Len(hist)
         /\ pend' = pend =>
            \A i \in 1..Len(pend') :
              /\ pend'[i].seg <= cur'
              /\ \/ pend'[i].upto <= settled'
                 \/ /\ pend'[i].seg = cur'
                    /\ pend'[i].upto <= Restates(files'[cur'].frames, Len(files'[cur'].frames))
<1> DEFINE F == files[cur].frames
           G == files'[cur'].frames
<1>1. mode = "open" /\ Len(hist) \in Nat /\ cur \in Segments /\ Len(F) \in Nat /\ Len(buf) \in Nat
      /\ Restated(F \o buf) = hist
  BY WriterFacts, SMTT(30) DEF Running
<1>2. /\ Chain(gs[cur].frames, cur)
      /\ gs[cur].frames = F \o buf /\ gs[cur].frames \in Seq(Frame)
      /\ gs[cur].frames \o << >> = gs[cur].frames
      /\ Len(gs[cur].frames) = Len(F) + Len(buf)
      /\ Restates(F, Len(F)) <= Len(hist)
      /\ Restates(gs[cur].frames, Len(gs[cur].frames)) = Len(hist)
  BY BufferPushed, SMTT(30)
<1>3. G = gs[cur].frames
  BY <1>1, SMTT(30)
<1>4. nextSeq' = Len(F) + Len(buf) + 1
  BY <1>1, Zenon DEF WalInv, WriterInv
<1>5. Restates(F, Len(F)) \in Nat
  BY <1>1, CurrentRestates
<1>6. << >> \in Seq(Frame) /\ Len(<< >>) = 0
  OBVIOUS
<1>7. nextSeq' = Len(G) + Len(buf') + 1
  <2>1. Len(G) = Len(F) + Len(buf)
    BY <1>2, <1>3, SMTT(30)
  <2> HIDE DEF F, G
  <2>2. QED
    BY <1>1, <1>4, <1>6, <2>1, SMTT(30)
<1>8. Restates(G, Len(G)) = Len(hist)
  BY <1>2, <1>3, SMTT(30)
<1>9. pend' = pend =>
            \A i \in 1..Len(pend') :
              /\ pend'[i].seg <= cur'
              /\ \/ pend'[i].upto <= settled'
                 \/ /\ pend'[i].seg = cur'
                    /\ pend'[i].upto <= Restates(files'[cur'].frames, Len(files'[cur'].frames))
  <2>1. files'[cur].frames = G
    OBVIOUS
  <2>2. /\ Restates(files'[cur].frames, Len(files'[cur].frames)) \in Nat
        /\ Restates(F, Len(F)) <= Restates(files'[cur].frames, Len(files'[cur].frames))
    BY <1>1, <1>2, <1>8, <2>1, ZenonT(30)
  <2>3. QED
    BY <1>1, <1>5, <2>2, PendingKept, SMTT(30)
<1>10. Chain(G, cur') /\ Restated(G \o buf') = hist'
  BY <1>1, <1>2, <1>3, Zenon
<1>11. QED
  BY <1>6, <1>7, <1>8, <1>9, <1>10, SMTT(60)

\* flush keeps the invariant.
LEMMA FlushStep ==
  ASSUME WalInv, WalFlush
  PROVE  WalInv'
<1>1. /\ Running /\ mode = "open" /\ rot = "idle" /\ files' = Pushed(files, cur, buf) /\ buf' = << >>
      /\ UNCHANGED <<cur, nextSeq, sync, pend, rot, mode, hist, settled, issued, crashes>>
  BY DEF WalFlush, Running
<1>2. TypeOK /\ settled \in Nat /\ settled <= settled' /\ settled' \in Nat
  BY <1>1, SMTT(30) DEF WalInv, TypeOK
<1>3. FilesOK(files') /\ Live(files', cur, settled)
  BY <1>1, BufferPushed
<1>4. /\ Chain(files'[cur'].frames, cur')
      /\ buf' \in Seq(Frame) /\ \A i \in 1..Len(buf') : IsRecord(buf'[i])
      /\ Restated(files'[cur'].frames \o buf') = hist'
      /\ nextSeq' = Len(files'[cur'].frames) + Len(buf') + 1
      /\ \A i \in 1..Len(pend') :
           /\ pend'[i].seg <= cur'
           /\ \/ pend'[i].upto <= settled'
              \/ /\ pend'[i].seg = cur'
                 /\ pend'[i].upto <= Restates(files'[cur'].frames, Len(files'[cur'].frames))
  BY <1>1, <1>2, <1>3, PushedWriter, Zenon
<1>5. TypeOK'
  <2>1. /\ sync' \in 0..MaxSegments /\ pend' \in Seq([seg : Segments, upto : Nat])
        /\ rot' \in RotationSteps /\ crashes' \in 0..MaxCrashes /\ settled' \in Nat
        /\ nextSeq' \in Nat \ {0} /\ mode' \in {"open", "down", "refused"} /\ cur' \in Segments
        /\ hist' \in Seq(1..MaxRecords) /\ issued' \in 0..MaxRecords
    BY <1>1, <1>2, SMTT(30) DEF TypeOK
  <2>2. QED
    BY <1>2, <1>3, <1>4, <2>1, StepTypes, Zenon
<1>6. sync' \in {0, cur'} /\ settled' <= Len(hist')
  BY <1>1, Zenon DEF WalInv, WriterInv
<1>7. WriterInv'
  BY <1>1, <1>3, <1>4, <1>6, Zenon DEF WriterInv
<1>8. QED
  BY <1>1, <1>5, <1>6, <1>7 DEF WalInv

\* A barrier on the caller keeps the invariant: it settles what it has synced.
LEMMA BarrierStep ==
  ASSUME FsyncNames, WalInv, WalBarrier
  PROVE  WalInv'
<1> DEFINE gs == Pushed(files, cur, buf)
<1>1. /\ Running /\ mode = "open" /\ rot = "idle" /\ files' = Synced(gs, cur) /\ buf' = << >>
      /\ settled' = Len(hist)
      /\ UNCHANGED <<cur, nextSeq, sync, pend, rot, mode, hist, issued, crashes>>
  BY DEF WalBarrier, Running
<1>2. TypeOK /\ settled \in Nat /\ settled <= settled' /\ settled' \in Nat /\ cur \in Segments
  BY <1>1, WriterFacts, SMTT(30) DEF WalInv
<1>3. /\ FilesOK(gs) /\ Live(gs, cur, settled) /\ Chain(gs[cur].frames, cur)
      /\ Restates(gs[cur].frames, Len(gs[cur].frames)) = Len(hist)
  BY <1>1, BufferPushed, Zenon
<1> HIDE DEF gs
<1>4. FilesOK(files') /\ Live(files', cur, settled') /\ \A s \in Segments : files'[s].frames = gs[s].frames
  <2>1. /\ FilesOK(files') /\ \A s \in Segments : files'[s].frames = gs[s].frames
        /\ \A j \in Nat : j <= Restates(gs[cur].frames, Len(gs[cur].frames)) => Live(files', cur, j)
    BY <1>1, <1>2, <1>3, SyncFacts, SMTT(30)
  <2>2. QED
    BY <1>1, <1>2, <1>3, <2>1, SMTT(30)
<1>5. /\ Chain(files'[cur'].frames, cur')
      /\ buf' \in Seq(Frame) /\ \A i \in 1..Len(buf') : IsRecord(buf'[i])
      /\ Restated(files'[cur'].frames \o buf') = hist'
      /\ nextSeq' = Len(files'[cur'].frames) + Len(buf') + 1
      /\ \A i \in 1..Len(pend') :
           /\ pend'[i].seg <= cur'
           /\ \/ pend'[i].upto <= settled'
              \/ /\ pend'[i].seg = cur'
                 /\ pend'[i].upto <= Restates(files'[cur'].frames, Len(files'[cur'].frames))
  BY <1>1, <1>2, <1>4, PushedWriter, ZenonT(30) DEF gs
<1>6. TypeOK'
  <2>1. /\ sync' \in 0..MaxSegments /\ pend' \in Seq([seg : Segments, upto : Nat])
        /\ rot' \in RotationSteps /\ crashes' \in 0..MaxCrashes /\ settled' \in Nat
        /\ nextSeq' \in Nat \ {0} /\ mode' \in {"open", "down", "refused"} /\ cur' \in Segments
        /\ hist' \in Seq(1..MaxRecords) /\ issued' \in 0..MaxRecords
    BY <1>1, <1>2, SMTT(30) DEF TypeOK
  <2>2. QED
    BY <1>2, <1>4, <1>5, <2>1, StepTypes, SMTT(30)
<1>7. sync' \in {0, cur'} /\ settled' <= Len(hist')
  BY <1>1, <1>2, SMTT(30) DEF WalInv, WriterInv
<1>8. WriterInv'
  BY <1>1, <1>4, <1>5, <1>7, SMTT(30) DEF WriterInv
<1>9. QED
  BY <1>1, <1>6, <1>7, <1>8 DEF WalInv

\* barrier_begin keeps the invariant: the request covers what was pushed.
LEMMA BarrierBeginStep ==
  ASSUME WalInv, WalBarrierBegin
  PROVE  WalInv'
<1> DEFINE q == [seg |-> sync, upto |-> Len(hist)]
<1>1. /\ Running /\ mode = "open" /\ rot = "idle" /\ files' = Pushed(files, cur, buf) /\ buf' = << >>
      /\ sync # 0 /\ pend' = Append(pend, q)
      /\ UNCHANGED <<cur, nextSeq, sync, rot, mode, hist, settled, issued, crashes>>
  BY SMTT(30) DEF WalBarrierBegin, Running
<1>2. /\ TypeOK /\ settled \in Nat /\ settled <= settled' /\ settled' \in Nat /\ cur \in Segments
      /\ Len(hist) \in Nat /\ sync = cur /\ pend \in Seq([seg : Segments, upto : Nat])
  BY <1>1, WriterFacts, SMTT(60) DEF WalInv, WriterInv, TypeOK
<1>3. FilesOK(files') /\ Live(files', cur, settled)
      /\ Restates(files[cur].frames, Len(files[cur].frames)) <= Len(hist)
  BY <1>1, BufferPushed, ZenonT(30)
<1>4. /\ Chain(files'[cur'].frames, cur')
      /\ buf' \in Seq(Frame) /\ \A i \in 1..Len(buf') : IsRecord(buf'[i])
      /\ Restated(files'[cur'].frames \o buf') = hist'
      /\ nextSeq' = Len(files'[cur'].frames) + Len(buf') + 1
      /\ Restates(files'[cur'].frames, Len(files'[cur'].frames)) = Len(hist)
  BY <1>1, <1>2, <1>3, PushedWriter, SMTT(30)
<1>5. q \in [seg : Segments, upto : Nat] /\ q.seg = cur /\ q.upto = Len(hist)
  BY <1>2, Zenon
<1>6. /\ pend' \in Seq([seg : Segments, upto : Nat]) /\ Len(pend') = Len(pend) + 1 /\ Len(pend) \in Nat
      /\ \A i \in 1..Len(pend) : pend'[i] = pend[i]
      /\ pend'[Len(pend) + 1] = q
  <2> HIDE DEF q
  <2>1. Len(pend) \in Nat
    BY <1>2, SeqFacts
  <2>2. QED
    BY <1>1, <1>2, <1>5, <2>1, AppendFacts
<1> HIDE DEF q
<1>7. \A i \in 1..Len(pend') :
           /\ pend'[i].seg <= cur'
           /\ \/ pend'[i].upto <= settled'
              \/ /\ pend'[i].seg = cur'
                 /\ pend'[i].upto <= Restates(files'[cur'].frames, Len(files'[cur'].frames))
  <2> SUFFICES ASSUME NEW i \in 1..Len(pend')
               PROVE  /\ pend'[i].seg <= cur
                      /\ \/ pend'[i].upto <= settled
                         \/ pend'[i].seg = cur /\ pend'[i].upto <= Len(hist)
    BY <1>1, <1>4
  <2>1. CASE i = Len(pend) + 1
    <3>1. pend'[i].seg = cur /\ pend'[i].upto = Len(hist) /\ cur \in Nat
      BY <1>2, <1>5, <1>6, <2>1, WalAssumption DEF Segments
    <3>2. QED
      BY <1>2, <3>1
  <2>2. CASE i # Len(pend) + 1
    <3>1. i \in 1..Len(pend) /\ pend'[i] = pend[i]
      BY <1>6, <2>2, SMTT(30)
    <3>2. /\ pend[i].seg <= cur
          /\ \/ pend[i].upto <= settled
             \/ pend[i].seg = cur /\ pend[i].upto <= Restates(files[cur].frames, Len(files[cur].frames))
      BY <1>1, <3>1 DEF WalInv, WriterInv
    <3>3. pend[i].upto \in Nat
      <4>1. \A n \in 1..Len(pend) : pend[n] \in [seg : Segments, upto : Nat]
        BY <1>2, SeqFacts, Zenon
      <4>2. QED
        BY <3>1, <4>1
    <3>4. Restates(files[cur].frames, Len(files[cur].frames)) \in Nat
      BY <1>1, CurrentRestates
    <3> DEFINE u == Restates(files[cur].frames, Len(files[cur].frames))
               p == pend[i].upto
    <3> HIDE DEF u, p
    <3>5. p <= u => p <= Len(hist)
      BY <1>2, <1>3, <3>3, <3>4, SMTT(30) DEF u, p
    <3>6. QED
      BY <3>1, <3>2, <3>5 DEF u, p
  <2>3. QED
    BY <2>1, <2>2, SMTT(30)
<1>8. TypeOK'
  <2>1. /\ sync' \in 0..MaxSegments
        /\ rot' \in RotationSteps /\ crashes' \in 0..MaxCrashes /\ settled' \in Nat
        /\ nextSeq' \in Nat \ {0} /\ mode' \in {"open", "down", "refused"} /\ cur' \in Segments
        /\ hist' \in Seq(1..MaxRecords) /\ issued' \in 0..MaxRecords
    BY <1>1, <1>2, SMTT(30) DEF TypeOK
  <2>2. QED
    BY <1>2, <1>3, <1>4, <1>6, <2>1, StepTypes, SMTT(30)
<1>9. sync' \in {0, cur'} /\ settled' <= Len(hist')
  BY <1>1 DEF WalInv, WriterInv
<1>10. WriterInv'
  BY <1>1, <1>3, <1>4, <1>7, <1>9, ZenonT(30) DEF WriterInv
<1>11. QED
  BY <1>1, <1>8, <1>9, <1>10, SMTT(30) DEF WalInv

\* A live segment that holds only its base keeps every record the base restates.
LEMMA BaseCovers ==
  ASSUME NEW fs, NEW c, NEW k \in Nat, Live(fs, c, k), c > 1, FilesOK(fs),
         NEW h \in Seq(1..MaxRecords), fs[c].frames = <<BaseFrame(h)>>,
         NEW j \in Nat, j <= Len(h)
  PROVE  Live(fs, c, j)
<1> DEFINE f == fs[c]
<1>1. /\ c \in Segments /\ Readable(f, c) /\ Abandoned(fs, c, MaxSegments + 1)
      /\ Firm(f, c, k) \/ Backed(fs, c, k)
  BY SMTT(30) DEF Live
<1>2. f.frames[1].hist = h /\ Len(f.frames) = 1 /\ Len(h) \in Nat /\ f \in File
  BY <1>1, BaseAlone, SeqFacts, ZenonT(30) DEF FilesOK
<1>3. Decoded(f) \in 0..1
  BY <1>2, DecodedFacts
<1>4. Firm(f, c, k) => Firm(f, c, j)
  <2> SUFFICES ASSUME Firm(f, c, k) PROVE Firm(f, c, j)
    OBVIOUS
  <2>1. PICK m \in 0..Decoded(f) : m > 0 /\ m <= f.synced
    BY DEF Firm
  <2>2. m = 1 /\ f.named
    BY <1>3, <2>1 DEF Firm
  <2>3. Restates(f.frames, 1) = Len(h)
    BY <1>2, SMTT(30) DEF Restates
  <2> HIDE DEF f
  <2>4. QED
    BY <2>1, <2>2, <2>3 DEF Firm
<1>5. Backed(fs, c, k) => Backed(fs, c, j)
  BY <1>2 DEF Backed
<1>6. QED
  BY <1>1, <1>4, <1>5, SMTT(30) DEF Live

\* What a rotation's invariant says of the new segment.
LEMMA RotationFacts ==
  ASSUME WalInv, mode = "open", rot # "idle", NEW n, n = Newest(files)
  PROVE  /\ n \in Segments /\ files[n] \in File /\ files[n].made /\ cur <= n /\ n \in Nat /\ cur \in Nat
         /\ \A s \in Segments : files[s].made => s <= n
         /\ buf = << >> /\ Solid(files[cur], cur) /\ files[cur].made
         /\ Restated(files[cur].frames) = hist
         /\ Restates(files[cur].frames, Len(files[cur].frames)) = Len(hist)
         /\ rot # "archived" => n > cur /\ n > 1 /\ n # cur /\ Abandoned(files, cur, n)
         /\ rot \in {"based", "synced", "named"} =>
              /\ Live(files, n, settled) /\ files[n].frames = <<BaseFrame(hist)>>
              /\ Chain(files[n].frames, n) /\ Restated(files[n].frames) = hist
<1>1. /\ FilesOK(files) /\ cur \in Segments /\ files[cur].frames \in Seq(Frame)
      /\ hist \in Seq(1..MaxRecords)
      /\ Restated(files[cur].frames \o buf) = hist /\ Chain(files[cur].frames, cur)
  BY WriterFacts
<1>2. RotationInv
  BY SMTT(30) DEF WalInv, WriterInv
<1>3. buf = << >> /\ Solid(files[cur], cur)
  BY <1>2 DEF RotationInv
<1>4. files[cur].made
  BY <1>3 DEF Solid
<1>5. n \in Segments /\ files[n].made /\ cur <= n /\ \A s \in Segments : files[s].made => s <= n
  BY <1>1, <1>4, NewestFacts
<1>6. Restated(files[cur].frames) = hist
  BY <1>1, <1>3, ConcatEmpty, SMTT(30)
<1>7. Restates(files[cur].frames, Len(files[cur].frames)) = Len(hist)
  BY <1>1, <1>6, RestatedFacts, Zenon
<1>8. n \in Nat /\ cur \in Nat /\ cur > 0
  BY <1>1, <1>5, WalAssumption DEF Segments
<1>9. rot # "archived" => n > cur /\ n > 1 /\ n # cur /\ Abandoned(files, cur, n)
  <2>1. rot # "archived" => n > cur /\ Abandoned(files, cur, n)
    BY <1>2, SMTT(30) DEF RotationInv
  <2>2. QED
    BY <1>8, <2>1, SMTT(30)
<1>10. rot \in {"based", "synced", "named"} =>
              /\ Live(files, n, settled) /\ files[n].frames = <<BaseFrame(hist)>>
              /\ Chain(files[n].frames, n) /\ Restated(files[n].frames) = hist
  <2> SUFFICES ASSUME rot \in {"based", "synced", "named"}
               PROVE  /\ Live(files, n, settled) /\ files[n].frames = <<BaseFrame(hist)>>
                      /\ Chain(files[n].frames, n) /\ Restated(files[n].frames) = hist
    BY SMTT(30)
  <2>1. Live(files, n, settled) /\ files[n].frames = <<BaseFrame(hist)>>
    BY <1>2 DEF RotationInv
  <2>2. n > 1
    BY <1>9
  <2>3. QED
    BY <1>1, <1>5, <2>1, <2>2, BaseAlone, SMTT(30)
<1>11. files[n] \in File
  BY <1>1, <1>5 DEF FilesOK
<1>12. QED
  BY <1>3, <1>4, <1>5, <1>6, <1>7, <1>8, <1>9, <1>10, <1>11, Zenon

\* The SyncThread's answer: it may sync the current segment or one a rotation left behind, before,
\* during or after a rotation.
LEMMA SyncAnswerStep ==
  ASSUME FsyncNames, WalInv, SyncAnswer
  PROVE  WalInv'
<1> DEFINE q == pend[1]
           t == q.seg
           F == files[cur].frames
           u == Restates(F, Len(F))
           n == Newest(files)
<1>1. /\ mode = "open" /\ pend # << >>
      /\ files' = Synced(files, Head(pend).seg)
      /\ settled' = MaxOf({settled, Head(pend).upto})
      /\ pend' = Tail(pend)
      /\ UNCHANGED <<cur, buf, nextSeq, sync, rot, mode, hist, issued, crashes>>
  BY DEF SyncAnswer
<1>2. /\ FilesOK(files) /\ cur \in Segments /\ settled \in Nat /\ Len(hist) \in Nat
      /\ settled <= Len(hist) /\ F \in Seq(Frame) /\ Len(F) \in Nat
      /\ buf \in Seq(Frame) /\ \A i \in 1..Len(buf) : IsRecord(buf[i])
      /\ Chain(F, cur) /\ Chain(F \o buf, cur) /\ F \o buf \in Seq(Frame) /\ Restated(F \o buf) = hist
  BY <1>1, WriterFacts
<1>3. /\ pend \in Seq([seg : Segments, upto : Nat]) /\ TypeOK
  BY DEF WalInv, TypeOK
<1>4. /\ Len(pend) \in Nat /\ Len(pend) > 0 /\ Head(pend) = q /\ q \in [seg : Segments, upto : Nat]
      /\ \A i \in 1..Len(pend) : pend[i] \in [seg : Segments, upto : Nat]
  BY <1>1, <1>3, SeqFacts, Zenon
<1>5. t \in Segments /\ q.upto \in Nat
  BY <1>4
<1>6. /\ pend' \in Seq([seg : Segments, upto : Nat]) /\ Len(pend') = Len(pend) - 1
      /\ \A i \in 1..Len(pend') : pend'[i] = pend[i + 1]
  <2> DEFINE P == [seg : Segments, upto : Nat]
  <2>1. pend \in Seq(P) /\ pend # << >> /\ pend' = Tail(pend)
    BY <1>1, <1>3
  <2> HIDE DEF P
  <2>2. pend' \in Seq(P) /\ Len(pend') = Len(pend) - 1 /\ \A i \in 1..Len(pend') : pend'[i] = pend[i + 1]
    BY <2>1, SMTT(30)
  <2>3. QED
    BY <2>2 DEF P
<1>7. \A i \in 1..Len(pend) :
        /\ pend[i].seg <= cur
        /\ pend[i].upto <= settled \/ (pend[i].seg = cur /\ pend[i].upto <= u)
  BY <1>1 DEF WalInv, WriterInv
<1>8. u \in Nat
  BY <1>1, CurrentRestates
<1>9. u <= Len(hist)
  <2>1. CASE rot = "idle"
    <3>1. Running
      BY <1>1, <2>1, Zenon DEF Running
    <3>2. QED
      BY <3>1, BufferPushed
  <2>2. CASE rot # "idle"
    BY <1>1, <1>2, <2>2, RotationFacts, SMTT(60)
  <2>3. QED
    BY <2>1, <2>2, SMTT(30)
<1>10. settled' = IF q.upto > settled THEN q.upto ELSE settled
  <2>1. CASE q.upto > settled
    <3>1. {settled, q.upto} \subseteq Int /\ q.upto \in {settled, q.upto} /\ \A x \in {settled, q.upto} : x <= q.upto
      BY <1>2, <1>5, <2>1
    <3>2. QED
      BY <1>1, <1>4, <2>1, <3>1, MaxOfIs, Zenon
  <2>2. CASE ~(q.upto > settled)
    <3>1. {settled, q.upto} \subseteq Int /\ settled \in {settled, q.upto} /\ \A x \in {settled, q.upto} : x <= settled
      BY <1>2, <1>5, <2>2
    <3>2. QED
      BY <1>1, <1>4, <2>2, <3>1, MaxOfIs, Zenon
  <2>3. QED
    BY <2>1, <2>2
<1>11. t <= cur /\ (q.upto <= settled \/ (t = cur /\ q.upto <= u))
  BY <1>4, <1>7
<1> HIDE DEF u
<1>12. /\ settled' \in Nat /\ settled <= settled' /\ settled' <= Len(hist)
       /\ settled' = settled \/ (t = cur /\ settled' <= u)
  BY <1>2, <1>5, <1>8, <1>9, <1>10, <1>11, SMTT(30)
<1>13. files' = Synced(files, t)
  BY <1>1, <1>4
<1> HIDE DEF q
<1>14. \E c, k : k \in Nat /\ Live(files, c, k) /\ Chain(files[c].frames, c)
  <2>1. CASE rot \in {"based", "synced", "named"}
    BY <1>1, <1>2, <2>1, RotationFacts, Zenon
  <2>2. CASE rot \notin {"based", "synced", "named"}
    BY <1>1, <1>2, <2>2, Zenon DEF WalInv, WriterInv
  <2>3. QED
    BY <2>1, <2>2
<1>15. /\ FilesOK(files')
       /\ \A s \in Segments : /\ files'[s].frames = files[s].frames /\ files'[s].made = files[s].made
                              /\ files'[s].header = files[s].header /\ Tame(files[s], files'[s], s)
                              /\ s # t => files'[s] = files[s]
  BY <1>2, <1>5, <1>13, <1>14, SyncFacts, SMTT(60)
<1>16. TypeOK'
  <2>1. /\ sync' \in 0..MaxSegments /\ buf' \in Seq(Frame)
        /\ rot' \in RotationSteps /\ crashes' \in 0..MaxCrashes
        /\ nextSeq' \in Nat \ {0} /\ mode' \in {"open", "down", "refused"} /\ cur' \in Segments
        /\ hist' \in Seq(1..MaxRecords) /\ issued' \in 0..MaxRecords
    BY <1>1, <1>3 DEF TypeOK
  <2>2. \A i \in 1..Len(buf') : IsRecord(buf'[i])
    BY <1>1, <1>2
  <2>3. QED
    BY <1>3, <1>6, <1>12, <1>15, <2>1, <2>2, StepTypes, Zenon
<1>17. files'[cur'].frames = F
  BY <1>1, <1>2, <1>15, Zenon
<1>18. \A i \in 1..Len(pend') :
         /\ pend'[i].seg <= cur'
         /\ \/ pend'[i].upto <= settled'
            \/ pend'[i].seg = cur' /\ pend'[i].upto <= Restates(files'[cur'].frames, Len(files'[cur'].frames))
  <2> SUFFICES ASSUME NEW i \in 1..Len(pend')
               PROVE  /\ pend'[i].seg <= cur
                      /\ pend'[i].upto <= settled' \/ (pend'[i].seg = cur /\ pend'[i].upto <= u)
    BY <1>1, <1>17, Zenon DEF u
  <2>1. i + 1 \in 1..Len(pend) /\ pend'[i] = pend[i + 1]
    BY <1>4, <1>6
  <2>2. pend[i + 1].upto \in Nat
    BY <1>4, <2>1
  <2>3. /\ pend[i + 1].seg <= cur
        /\ pend[i + 1].upto <= settled \/ (pend[i + 1].seg = cur /\ pend[i + 1].upto <= u)
    BY <1>7, <2>1
  <2>4. QED
    BY <1>2, <1>12, <2>1, <2>2, <2>3, SMTT(30)
<1>19. ASSUME rot \notin {"based", "synced", "named"} PROVE Live(files', cur, settled')
  <2>1. Live(files, cur, settled)
    BY <1>1, <1>19, Zenon DEF WalInv, WriterInv
  <2>2. /\ Live(files', cur, settled)
        /\ t = cur => \A j \in Nat : j <= Restates(F, Len(F)) => Live(files', cur, j)
    BY <1>2, <1>5, <1>13, <2>1, SyncFacts, SMTT(60)
  <2>3. QED
    BY <1>12, <2>2, SMTT(30) DEF u
<1>20. ASSUME rot # "idle" PROVE RotationInv'
  <2>1. /\ n \in Segments /\ cur \in Nat /\ n \in Nat /\ Solid(files[cur], cur)
        /\ rot # "archived" => n > cur /\ n > 1 /\ n # cur /\ Abandoned(files, cur, n)
        /\ rot \in {"based", "synced", "named"} =>
              /\ Live(files, n, settled) /\ files[n].frames = <<BaseFrame(hist)>>
              /\ Chain(files[n].frames, n)
    BY <1>1, <1>20, RotationFacts, Zenon
  <2>2. Newest(files') = n
    BY <1>15, NewestSame, ZenonT(30)
  <2>3. RotationInv
    BY <1>1, <1>20, Zenon DEF WalInv, WriterInv
  <2>4. files'[cur] = files[cur]
    BY <1>2, <1>15, <2>1, Zenon DEF Tame
  <2>5. t \in Nat
    BY <1>5, WalAssumption, SMTT(30) DEF Segments
  <2>6. rot # "archived" => files'[n] = files[n]
    BY <1>11, <1>15, <2>1, <2>5, SMTT(60)
  <2>7. rot # "archived" => Abandoned(files', cur, n)
    <3>1. ~(cur < cur /\ cur < n) /\ files \in [Segments -> File] /\ files' \in [Segments -> File]
      BY <1>2, <1>15, <2>1, SMTT(60) DEF FilesOK
    <3>2. QED
      BY <1>2, <1>15, <2>1, <3>1, TameAbandoned, Zenon
  <2>8. rot \in {"based", "synced", "named"} => Live(files', n, settled')
    <3> SUFFICES ASSUME rot \in {"based", "synced", "named"} PROVE Live(files', n, settled')
      BY SMTT(30)
    <3>1. /\ Live(files, n, settled) /\ files[n].frames = <<BaseFrame(hist)>> /\ n > 1
          /\ Chain(files[n].frames, n) /\ files'[n] = files[n]
      BY <2>1, <2>6
    <3>2. Live(files', n, settled)
      BY <1>2, <1>5, <1>13, <3>1, SyncFacts, Zenon
    <3>3. hist \in Seq(1..MaxRecords)
      BY <1>3 DEF TypeOK
    <3>4. QED
      BY <1>2, <1>12, <1>15, <3>1, <3>2, <3>3, BaseCovers, Zenon
  <2> HIDE DEF n
  <2>9. QED
    BY <1>1, <2>1, <2>2, <2>3, <2>4, <2>6, <2>7, <2>8, Zenon DEF RotationInv, n
<1>21. WriterInv'
  <2>1. Chain(files'[cur'].frames, cur') /\ Restated(files'[cur'].frames \o buf') = hist'
    BY <1>1, <1>2, <1>17, SMTT(30)
  <2>2. nextSeq' = Len(files'[cur'].frames) + Len(buf') + 1 /\ sync' \in {0, cur'}
    BY <1>1, <1>17, Zenon DEF WalInv, WriterInv
  <2>3. \A i \in 1..Len(buf') : IsRecord(buf'[i])
    BY <1>1, <1>2
  <2>4. QED
    BY <1>1, <1>18, <1>19, <1>20, <2>1, <2>2, <2>3, ZenonT(30) DEF WriterInv
<1>22. QED
  BY <1>1, <1>12, <1>16, <1>21, SMTT(30) DEF WalInv

\* Step 1 of a rotation: the archive is wholly on disk.
LEMMA ArchiveStep ==
  ASSUME FsyncNames, WalInv, RotateArchive
  PROVE  WalInv'
<1> DEFINE gs == Pushed(files, cur, buf)
<1>1. /\ Running /\ mode = "open" /\ rot = "idle" /\ files' = Synced(gs, cur) /\ buf' = << >>
      /\ NextIndex \in Segments /\ rot' = "archived"
      /\ UNCHANGED <<cur, nextSeq, sync, pend, mode, hist, settled, issued, crashes>>
  BY DEF RotateArchive, Running
<1>2. TypeOK /\ settled \in Nat /\ settled <= settled' /\ settled' \in Nat /\ cur \in Segments
  BY <1>1, WriterFacts DEF WalInv
<1>3. /\ FilesOK(gs) /\ Live(gs, cur, settled) /\ Chain(gs[cur].frames, cur)
      /\ \A s \in Segments : gs[s].made = files[s].made
  BY <1>1, BufferPushed, Zenon
<1> HIDE DEF gs
<1>4. /\ FilesOK(files') /\ Live(files', cur, settled) /\ Solid(files'[cur], cur)
      /\ \A s \in Segments : files'[s].frames = gs[s].frames /\ files'[s].made = gs[s].made
  BY <1>1, <1>2, <1>3, SyncFacts, SMTT(60)
<1>5. /\ Chain(files'[cur'].frames, cur')
      /\ buf' \in Seq(Frame) /\ \A i \in 1..Len(buf') : IsRecord(buf'[i])
      /\ Restated(files'[cur'].frames \o buf') = hist'
      /\ nextSeq' = Len(files'[cur'].frames) + Len(buf') + 1
      /\ \A i \in 1..Len(pend') :
           /\ pend'[i].seg <= cur'
           /\ \/ pend'[i].upto <= settled'
              \/ /\ pend'[i].seg = cur'
                 /\ pend'[i].upto <= Restates(files'[cur'].frames, Len(files'[cur'].frames))
  BY <1>1, <1>2, <1>4, PushedWriter, Zenon DEF gs
<1>6. TypeOK'
  <2>1. /\ sync' \in 0..MaxSegments /\ pend' \in Seq([seg : Segments, upto : Nat])
        /\ rot' \in RotationSteps /\ crashes' \in 0..MaxCrashes /\ settled' \in Nat
        /\ nextSeq' \in Nat \ {0} /\ mode' \in {"open", "down", "refused"} /\ cur' \in Segments
        /\ hist' \in Seq(1..MaxRecords) /\ issued' \in 0..MaxRecords
    BY <1>1, <1>2 DEF TypeOK, RotationSteps
  <2>2. QED
    BY <1>2, <1>4, <1>5, <2>1, StepTypes, Zenon
<1>7. sync' \in {0, cur'} /\ settled' <= Len(hist')
  BY <1>1, Zenon DEF WalInv, WriterInv
<1>8. Newest(files') = Newest(files)
  BY <1>3, <1>4, NewestSame
<1>9. RotationInv'
  BY <1>1, <1>4, <1>8, Zenon DEF RotationInv, NextIndex
<1>10. WriterInv'
  BY <1>1, <1>4, <1>5, <1>7, <1>9, Zenon DEF WriterInv
<1>11. QED
  BY <1>1, <1>6, <1>7, <1>10 DEF WalInv

\* Rotation steps 2 and 3 build the new file and leave the writer where it is.
LEMMA RotationWriter ==
  ASSUME WalInv, mode = "open", rot # "idle", FilesOK(files'), files'[cur] = files[cur],
         UNCHANGED <<cur, buf, nextSeq, sync, pend, mode, hist, settled, issued, crashes>>,
         rot' \in RotationSteps \ {"idle"},
         rot' \notin {"based", "synced", "named"} => Live(files', cur, settled),
         RotationInv'
  PROVE  WalInv'
<1>1. TypeOK /\ settled <= Len(hist) /\ WriterInv
  BY SMTT(30) DEF WalInv
<1>2. TypeOK'
  <2>1. /\ sync' \in 0..MaxSegments /\ pend' \in Seq([seg : Segments, upto : Nat]) /\ buf' \in Seq(Frame)
        /\ crashes' \in 0..MaxCrashes /\ settled' \in Nat
        /\ nextSeq' \in Nat \ {0} /\ mode' \in {"open", "down", "refused"} /\ cur' \in Segments
        /\ hist' \in Seq(1..MaxRecords) /\ issued' \in 0..MaxRecords
    BY <1>1, SMTT(30) DEF TypeOK
  <2>2. \A i \in 1..Len(buf') : IsRecord(buf'[i])
    BY <1>1, SMTT(30) DEF WriterInv
  <2>3. QED
    BY <1>1, <2>1, <2>2, StepTypes, Zenon
<1>3. files'[cur'].frames = files[cur].frames
  OBVIOUS
<1>4. WriterInv'
  BY <1>1, <1>3, Zenon DEF WriterInv
<1>5. QED
  BY <1>1, <1>2, <1>4 DEF WalInv

\* Step 2 of a rotation, create_new: the new file is not trusted yet.
LEMMA CreateStep ==
  ASSUME WalInv, RotateCreate
  PROVE  WalInv'
<1> DEFINE n == Newest(files)
           m == n + 1
           new == [NoFile EXCEPT !.made = TRUE]
<1>1. /\ mode = "open" /\ rot = "archived" /\ files' = [files EXCEPT ![m] = new] /\ rot' = "created"
      /\ UNCHANGED <<cur, buf, nextSeq, sync, pend, mode, hist, settled, issued, crashes>>
  BY DEF RotateCreate, NextIndex
<1>2. /\ FilesOK(files) /\ cur \in Segments /\ files \in [Segments -> File]
  BY <1>1, WriterFacts DEF FilesOK
<1>3. /\ n \in Segments /\ n \in Nat /\ cur \in Nat /\ cur <= n /\ buf = << >> /\ Solid(files[cur], cur)
      /\ \A s \in Segments : files[s].made => s <= n
  BY <1>1, RotationFacts
<1>4. m \in Segments /\ Live(files, cur, settled)
  BY <1>1 DEF WalInv, WriterInv, RotationInv
<1>5. m # cur /\ m > cur
  BY <1>3
<1>6. ~files[m].made
  BY <1>3, <1>4
<1>7. /\ new \in File /\ new.made /\ new.header = "none" /\ new.frames = << >> /\ new.synced = -1
  <2>1. /\ NoFile \in File /\ NoFile.header = "none" /\ NoFile.frames = << >> /\ NoFile.synced = -1
    BY NoFileFacts DEF NoFile
  <2>2. QED
    BY <2>1, Zenon DEF File
<1> HIDE DEF new, n
<1>8. files'[m] = new /\ (\A s \in Segments \ {m} : files'[s] = files[s]) /\ files' \in [Segments -> File]
  BY <1>1, <1>2, <1>4, <1>7
<1>9. FilesOK(files')
  <2> SUFFICES ASSUME NEW s \in Segments PROVE files'[s].synced \in -1..Len(files'[s].frames)
    BY <1>8 DEF FilesOK
  <2>1. CASE s = m
    BY <1>7, <1>8, <2>1
  <2>2. CASE s # m
    BY <1>2, <1>8, <2>2 DEF FilesOK
  <2>3. QED
    BY <2>1, <2>2
<1>10. files'[cur] = files[cur]
  BY <1>2, <1>5, <1>8
<1>11. \A s \in Segments : Tame(files[s], files'[s], s)
  <2> SUFFICES ASSUME NEW s \in Segments PROVE Tame(files[s], files'[s], s)
    BY SMTT(30)
  <2>1. CASE s = m
    BY <1>6, <1>7, <1>8, <2>1 DEF Tame, Solid, Dead
  <2>2. CASE s # m
    <3>1. files'[s] = files[s]
      BY <1>8, <2>2
    <3>2. QED
      BY <3>1 DEF Tame
  <2>3. QED
    BY <2>1, <2>2
<1>12. Live(files', cur, settled)
  <2>1. Readable(files[cur], cur)
    BY <1>4 DEF Live
  <2>2. QED
    BY <1>2, <1>4, <1>8, <1>10, <1>11, <2>1, TameLive, Zenon
<1>13. Newest(files') = m
  <2> DEFINE S == {s \in Segments : files'[s].made}
  <2>1. S \subseteq Int /\ m \in S
    BY <1>4, <1>7, <1>8, WalAssumption DEF Segments
  <2>2. \A s \in S : s <= m
    <3> SUFFICES ASSUME NEW s \in Segments, files'[s].made PROVE s <= m
      OBVIOUS
    <3>1. s \in Nat /\ m \in Nat
      BY <1>3, WalAssumption DEF Segments
    <3>2. s # m => s <= n
      BY <1>3, <1>8
    <3>3. QED
      BY <1>3, <3>1, <3>2
  <2> HIDE DEF S, m
  <2>3. MaxOf(S) = m
    BY <2>1, <2>2, MaxOfIs, Zenon
  <2>4. QED
    BY <2>3, SMTT(30) DEF Newest, S
<1>14. Abandoned(files', cur, m)
  <2> SUFFICES ASSUME NEW s \in Segments, s > cur, s < m, files'[s].made PROVE Dead(files'[s])
    BY DEF Abandoned
  <2>1. s # m /\ s \in Nat /\ s < MaxSegments + 1
    BY <1>3, <1>4, WalAssumption DEF Segments
  <2>2. files'[s] = files[s]
    BY <1>8, <2>1
  <2>3. Abandoned(files, cur, MaxSegments + 1)
    BY <1>4 DEF Live
  <2>4. QED
    BY <2>1, <2>2, <2>3 DEF Abandoned
<1> HIDE DEF m
<1>15. RotationInv'
  BY <1>1, <1>3, <1>5, <1>7, <1>8, <1>10, <1>13, <1>14, Zenon DEF RotationInv
<1>16. rot # "idle" /\ rot' \in RotationSteps \ {"idle"}
  BY <1>1 DEF RotationSteps
<1>17. QED
  BY <1>1, <1>9, <1>10, <1>12, <1>15, <1>16, RotationWriter, Zenon

\* Step 2 of a rotation, the header: the new file is still not trusted.
LEMMA HeaderStep ==
  ASSUME WalInv, RotateHeader
  PROVE  WalInv'
<1> DEFINE n == Newest(files)
<1>1. /\ mode = "open" /\ rot = "created" /\ files' = [files EXCEPT ![n].header = "full"] /\ rot' = "headed"
      /\ UNCHANGED <<cur, buf, nextSeq, sync, pend, mode, hist, settled, issued, crashes>>
  BY DEF RotateHeader
<1>2. /\ FilesOK(files) /\ cur \in Segments /\ files \in [Segments -> File]
  BY <1>1, WriterFacts DEF FilesOK
<1>3. /\ n \in Segments /\ files[n] \in File /\ buf = << >> /\ Solid(files[cur], cur)
      /\ n > cur /\ n > 1 /\ n # cur /\ n \in Nat /\ Abandoned(files, cur, n)
  BY <1>1, RotationFacts
<1>4. files[n].frames = << >> /\ files[n].synced = -1 /\ Live(files, cur, settled)
  BY <1>1 DEF WalInv, WriterInv, RotationInv
<1> HIDE DEF n
<1>5. /\ files'[n] = [files[n] EXCEPT !.header = "full"]
      /\ \A s \in Segments \ {n} : files'[s] = files[s]
  BY <1>1, <1>2, <1>3
<1>6. /\ files'[n] \in File /\ files'[n].header = "full" /\ files'[n].made = files[n].made
      /\ files'[n].frames = << >> /\ files'[n].synced = -1
  BY <1>3, <1>4, <1>5 DEF File, Headers
<1>7. files' \in [Segments -> File]
  BY <1>1, <1>2, <1>5, <1>6, Zenon
<1>8. FilesOK(files')
  <2> SUFFICES ASSUME NEW s \in Segments PROVE files'[s].synced \in -1..Len(files'[s].frames)
    BY <1>7 DEF FilesOK
  <2>1. CASE s = n
    BY <1>6, <2>1
  <2>2. CASE s # n
    BY <1>2, <1>5, <2>2 DEF FilesOK
  <2>3. QED
    BY <2>1, <2>2
<1>9. files'[cur] = files[cur]
  BY <1>2, <1>3, <1>5, SMTT(30)
<1>10. \A s \in Segments : Tame(files[s], files'[s], s)
  <2> SUFFICES ASSUME NEW s \in Segments PROVE Tame(files[s], files'[s], s)
    OBVIOUS
  <2>1. CASE s = n
    BY <1>3, <1>4, <1>6, <2>1, Zenon DEF Tame, Solid, Dead, Chain
  <2>2. CASE s # n
    <3>1. files'[s] = files[s]
      BY <1>5, <2>2
    <3>2. QED
      BY <3>1 DEF Tame
  <2>3. QED
    BY <2>1, <2>2
<1>11. Live(files', cur, settled)
  <2>1. Readable(files[cur], cur)
    BY <1>4 DEF Live
  <2>2. QED
    BY <1>2, <1>4, <1>7, <1>9, <1>10, <2>1, TameLive, ZenonT(30)
<1>12. Newest(files') = n
  <2>1. \A s \in Segments : files'[s].made = files[s].made
    BY <1>5, <1>6, Zenon
  <2>2. QED
    BY <2>1, NewestSame DEF n
<1>13. Abandoned(files', cur, n)
  BY <1>3, <1>5 DEF Abandoned
<1>14. RotationInv'
  BY <1>1, <1>3, <1>6, <1>9, <1>12, <1>13 DEF RotationInv
<1>15. rot # "idle" /\ rot' \in RotationSteps \ {"idle"}
  BY <1>1 DEF RotationSteps
<1>16. QED
  BY <1>1, <1>8, <1>9, <1>11, <1>14, <1>15, RotationWriter, Zenon

\* The new segment is live once its base is handed to the operating system: whatever is lost of it,
\* the old segment restates the same history.
LEMMA BaseStep ==
  ASSUME WalInv, RotateBase
  PROVE  WalInv'
<1> DEFINE n == Newest(files)
           fr == <<BaseFrame(hist)>>
<1>1. /\ mode = "open" /\ rot = "headed" /\ files' = [files EXCEPT ![n].frames = fr] /\ rot' = "based"
      /\ UNCHANGED <<cur, buf, nextSeq, sync, pend, mode, hist, settled, issued, crashes>>
  BY DEF RotateBase
<1>2. /\ FilesOK(files) /\ cur \in Segments /\ files \in [Segments -> File]
      /\ hist \in Seq(1..MaxRecords) /\ settled <= Len(hist)
  BY <1>1, WriterFacts DEF FilesOK
<1>3. /\ n \in Segments /\ files[n] \in File /\ files[n].made /\ buf = << >> /\ Solid(files[cur], cur)
      /\ n > cur /\ n > 1 /\ n # cur /\ n \in Nat /\ Abandoned(files, cur, n)
      /\ Restated(files[cur].frames) = hist
      /\ \A s \in Segments : files[s].made => s <= n
  BY <1>1, RotationFacts
<1>4. files[n].header = "full" /\ files[n].synced = -1
  BY <1>1, SMTT(30) DEF WalInv, WriterInv, RotationInv
<1>5. fr \in Seq(Frame) /\ Len(fr) = 1 /\ fr[1].hist = hist /\ Chain(fr, n)
  BY <1>2, <1>3, BaseAlone, Zenon
<1> HIDE DEF n, fr
<1>6. /\ files'[n] = [files[n] EXCEPT !.frames = fr]
      /\ \A s \in Segments \ {n} : files'[s] = files[s]
  BY <1>1, <1>2, <1>3
<1>7. /\ files'[n] \in File /\ files'[n].header = "full" /\ files'[n].made
      /\ files'[n].frames = fr /\ files'[n].synced = -1
  BY <1>3, <1>4, <1>5, <1>6 DEF File
<1>8. files' \in [Segments -> File]
  BY <1>1, <1>2, <1>6, <1>7, Zenon
<1>9. FilesOK(files')
  <2> SUFFICES ASSUME NEW s \in Segments PROVE files'[s].synced \in -1..Len(files'[s].frames)
    BY <1>8 DEF FilesOK
  <2>1. CASE s = n
    BY <1>5, <1>7, <2>1
  <2>2. CASE s # n
    BY <1>2, <1>6, <2>2 DEF FilesOK
  <2>3. QED
    BY <2>1, <2>2
<1>10. files'[cur] = files[cur]
  BY <1>2, <1>3, <1>6, SMTT(30)
<1>11. Newest(files') = n
  <2>1. \A s \in Segments : files'[s].made = files[s].made
    BY <1>3, <1>6, <1>7, ZenonT(30)
  <2>2. QED
    BY <2>1, NewestSame DEF n
<1>12. Abandoned(files', cur, n)
  BY <1>3, <1>6 DEF Abandoned
<1>13. Live(files', n, settled)
  <2>1. Readable(files'[n], n)
    BY <1>3, <1>5, <1>7, ReadableChain, SMTT(30)
  <2>2. Abandoned(files', n, MaxSegments + 1)
    <3> SUFFICES ASSUME NEW s \in Segments, s > n, files'[s].made PROVE FALSE
      BY DEF Abandoned
    <3>1. s # n /\ s \in Nat
      BY <1>3, WalAssumption DEF Segments
    <3>2. files[s].made
      BY <1>6, <3>1, SMTT(30)
    <3>3. QED
      BY <1>3, <3>1, <3>2
  <2>3. Backed(files', n, settled)
    BY <1>2, <1>3, <1>5, <1>7, <1>10, <1>12, Zenon DEF Backed
  <2>4. QED
    BY <1>3, <2>1, <2>2, <2>3, Zenon DEF Live
<1>14. RotationInv'
  BY <1>1, <1>3, <1>7, <1>10, <1>11, <1>12, <1>13, ZenonT(30) DEF RotationInv, fr
<1>15. rot # "idle" /\ rot' \in RotationSteps \ {"idle"}
  BY <1>1, SMTT(30) DEF RotationSteps
<1>16. QED
  BY <1>1, <1>9, <1>10, <1>14, <1>15, RotationWriter, SMTT(30)

\* Step 3 of a rotation, the file: the base is on disk.
LEMMA SyncFileStep ==
  ASSUME FsyncNames, WalInv, RotateSyncFile
  PROVE  WalInv'
<1> DEFINE n == Newest(files)
<1>1. /\ mode = "open" /\ rot = "based" /\ files' = Synced(files, n) /\ rot' = "synced"
      /\ UNCHANGED <<cur, buf, nextSeq, sync, pend, mode, hist, settled, issued, crashes>>
  BY DEF RotateSyncFile
<1>2. /\ FilesOK(files) /\ cur \in Segments /\ settled \in Nat /\ hist \in Seq(1..MaxRecords)
  BY <1>1, WriterFacts
<1>3. /\ n \in Segments /\ buf = << >> /\ Solid(files[cur], cur)
      /\ n > cur /\ n > 1 /\ n # cur /\ n \in Nat /\ Abandoned(files, cur, n)
      /\ Live(files, n, settled) /\ files[n].frames = <<BaseFrame(hist)>> /\ Chain(files[n].frames, n)
  BY <1>1, RotationFacts, ZenonT(30)
<1>4. Len(files[n].frames) = 1
  BY <1>2, <1>3, BaseAlone, Zenon
<1> HIDE DEF n
<1>5. /\ FilesOK(files') /\ Live(files', n, settled)
      /\ \A s \in Segments : /\ files'[s].frames = files[s].frames /\ files'[s].made = files[s].made
                             /\ s # n => files'[s] = files[s]
      /\ files'[n].named /\ files'[n].synced = 1
  <2>1. /\ FilesOK(files') /\ Live(files', n, settled)
        /\ \A s \in Segments : /\ files'[s].frames = files[s].frames /\ files'[s].made = files[s].made
                               /\ s # n => files'[s] = files[s]
        /\ files'[n].named /\ files'[n].synced = Len(files[n].frames)
    <3>1. /\ FilesOK(files) /\ settled \in Nat /\ Live(files, n, settled) /\ Chain(files[n].frames, n)
          /\ n \in Segments /\ files' = Synced(files, n)
      BY <1>1, <1>2, <1>3, Zenon
    <3>2. QED
      BY <3>1, SyncFacts, SMTT(60)
  <2>2. QED
    BY <1>4, <2>1, Zenon
<1>6. files'[cur] = files[cur] /\ files'[n].frames = <<BaseFrame(hist)>>
  BY <1>2, <1>3, <1>5, Zenon
<1>7. Newest(files') = n
  BY <1>5, NewestSame, ZenonT(30) DEF n
<1>8. Abandoned(files', cur, n)
  <2> SUFFICES ASSUME NEW s \in Segments, s > cur, s < n, files'[s].made
               PROVE  Dead(files'[s])
    BY DEF Abandoned
  <2>1. s # n
    BY <1>3, WalAssumption DEF Segments
  <2>2. files'[s] = files[s]
    BY <1>5, <2>1, Zenon
  <2> QED
    BY <1>3, <2>2, Zenon DEF Abandoned
<1>9. RotationInv'
  BY <1>1, <1>3, <1>5, <1>6, <1>7, <1>8, Zenon DEF RotationInv
<1>10. rot # "idle" /\ rot' \in RotationSteps \ {"idle"}
  BY <1>1 DEF RotationSteps
<1>11. QED
  BY <1>1, <1>5, <1>6, <1>9, <1>10, RotationWriter, Zenon

\* Step 3 of a rotation, the directory: the names are on disk.
LEMMA SyncDirStep ==
  ASSUME WalInv, RotateSyncDir
  PROVE  WalInv'
<1> DEFINE n == Newest(files)
<1>1. /\ mode = "open" /\ rot = "synced" /\ rot' = "named"
      /\ files' = [s \in Segments |-> [files[s] EXCEPT !.named = files[s].made]]
      /\ UNCHANGED <<cur, buf, nextSeq, sync, pend, mode, hist, settled, issued, crashes>>
  BY DEF RotateSyncDir
<1>2. /\ FilesOK(files) /\ cur \in Segments /\ settled \in Nat /\ files \in [Segments -> File]
  BY <1>1, WriterFacts DEF FilesOK
<1>3. /\ n \in Segments /\ buf = << >> /\ Solid(files[cur], cur) /\ files[n] \in File /\ files[n].made
      /\ n > cur /\ n > 1 /\ n # cur /\ n \in Nat /\ Abandoned(files, cur, n) /\ cur \in Nat
      /\ Live(files, n, settled) /\ files[n].frames = <<BaseFrame(hist)>> /\ Chain(files[n].frames, n)
  BY <1>1, RotationFacts
<1>4. files[n].synced = 1 /\ files[n].named
  BY <1>1 DEF WalInv, WriterInv, RotationInv
<1> HIDE DEF n
<1>5. \A s \in Segments :
        /\ files'[s] \in File /\ files'[s].frames = files[s].frames /\ files'[s].header = files[s].header
        /\ files'[s].synced = files[s].synced /\ files'[s].made = files[s].made
        /\ files'[s].named = files[s].made
  <2> SUFFICES ASSUME NEW s \in Segments
               PROVE  /\ files'[s] \in File /\ files'[s].frames = files[s].frames
                      /\ files'[s].header = files[s].header /\ files'[s].synced = files[s].synced
                      /\ files'[s].made = files[s].made /\ files'[s].named = files[s].made
    BY Zenon
  <2>1. files[s] \in File /\ files'[s] = [files[s] EXCEPT !.named = files[s].made]
    BY <1>1, <1>2
  <2>2. QED
    BY <2>1, SMTT(30) DEF File
<1>6. \A s \in Segments : files[s].made /\ files[s].named => files'[s] = files[s]
  <2> SUFFICES ASSUME NEW s \in Segments, files[s].made, files[s].named PROVE files'[s] = files[s]
    OBVIOUS
  <2>1. files[s] \in File
    BY <1>2
  <2>2. files[s].named = files[s].made
    BY <2>1, FileFacts
  <2>3. files'[s] = [files[s] EXCEPT !.named = files[s].named]
    BY <1>1, <2>2, ZenonT(30)
  <2>4. QED
    BY <2>1, <2>3, Zenon DEF File
<1>7. FilesOK(files') /\ files' \in [Segments -> File]
  <2>1. files' \in [Segments -> File]
    BY <1>1, <1>5, SMTT(30)
  <2>2. QED
    BY <1>2, <1>5, <2>1 DEF FilesOK
<1>8. files'[cur] = files[cur] /\ files'[n] = files[n]
  BY <1>2, <1>3, <1>4, <1>6, Zenon DEF Solid, Fixed
<1>9. \A s \in Segments : Tame(files[s], files'[s], s)
  <2> SUFFICES ASSUME NEW s \in Segments PROVE Tame(files[s], files'[s], s)
    OBVIOUS
  <2>1. Solid(files[s], s) => files'[s] = files[s]
    BY <1>6, Zenon DEF Solid, Fixed
  <2>2. ASSUME files'[s].made, files[s].made => Dead(files[s]) PROVE Dead(files'[s])
    BY <1>5, <2>2 DEF Dead, Fixed
  <2>3. QED
    BY <2>1, <2>2 DEF Tame
<1>10. Live(files', n, settled)
  <2>1. Readable(files[n], n)
    BY <1>3, ZenonT(30) DEF Live
  <2>2. QED
    BY <1>2, <1>3, <1>7, <1>8, <1>9, <2>1, TameLive, Zenon
<1>11. Newest(files') = n
  BY <1>5, NewestSame, SMTT(30) DEF n
<1>12. Abandoned(files', cur, n)
  <2>1. ~(cur < cur /\ cur < n)
    BY <1>3
  <2>2. QED
    BY <1>2, <1>3, <1>7, <1>9, <2>1, TameAbandoned, Zenon
<1>13. RotationInv'
  BY <1>1, <1>3, <1>4, <1>8, <1>10, <1>11, <1>12, Zenon DEF RotationInv
<1>14. rot # "idle" /\ rot' \in RotationSteps \ {"idle"}
  BY <1>1 DEF RotationSteps
<1>15. QED
  BY <1>1, <1>7, <1>8, <1>13, <1>14, RotationWriter, SMTT(30)

\* Step 4 of a rotation: the writer moves to the segment that restates its history.
LEMMA SwitchStep ==
  ASSUME WalInv, RotateSwitch
  PROVE  WalInv'
<1> DEFINE n == Newest(files)
           u == Restates(files[cur].frames, Len(files[cur].frames))
<1>1. /\ mode = "open" /\ rot = "named" /\ rot' = "idle" /\ cur' = n /\ sync' \in {0, n}
      /\ nextSeq' = 2 /\ settled' = Len(hist)
      /\ UNCHANGED <<files, buf, pend, mode, hist, issued, crashes>>
  BY DEF RotateSwitch
<1>2. /\ TypeOK /\ FilesOK(files) /\ cur \in Segments /\ settled \in Nat
      /\ hist \in Seq(1..MaxRecords) /\ Len(hist) \in Nat /\ settled <= Len(hist)
  BY <1>1, WriterFacts DEF WalInv
<1>3. /\ n \in Segments /\ buf = << >> /\ files[n] \in File
      /\ n > cur /\ n > 1 /\ n \in Nat /\ cur \in Nat /\ u = Len(hist)
      /\ Live(files, n, settled) /\ files[n].frames = <<BaseFrame(hist)>>
      /\ Chain(files[n].frames, n) /\ Restated(files[n].frames) = hist
  BY <1>1, RotationFacts, Zenon
<1>4. Live(files, n, Len(hist))
  BY <1>2, <1>3, BaseCovers, SMTT(60)
<1>5. Len(files[n].frames) = 1 /\ files[n].frames \o << >> = files[n].frames
  <2>1. Len(files[n].frames) = 1 /\ files[n].frames \in Seq(Frame)
    BY <1>2, <1>3, BaseAlone, ZenonT(30)
  <2>2. QED
    BY <2>1, ConcatEmpty
<1> HIDE DEF n
<1>6. \A i \in 1..Len(pend) : pend[i].seg <= n /\ pend[i].upto <= Len(hist)
  <2> SUFFICES ASSUME NEW i \in 1..Len(pend) PROVE pend[i].seg <= n /\ pend[i].upto <= Len(hist)
    BY SMTT(30)
  <2>1. /\ pend[i].seg <= cur
        /\ pend[i].upto <= settled \/ (pend[i].seg = cur /\ pend[i].upto <= u)
    BY <1>1 DEF WalInv, WriterInv
  <2>2. pend[i] \in [seg : Segments, upto : Nat]
    <3>1. pend \in Seq([seg : Segments, upto : Nat])
      BY <1>2 DEF TypeOK
    <3>2. QED
      BY <3>1, SeqFacts, Zenon
  <2>3. pend[i].seg \in Nat /\ pend[i].upto \in Nat
    BY <2>2, WalAssumption DEF Segments
  <2> HIDE DEF u
  <2>4. QED
    BY <1>2, <1>3, <2>1, <2>3, SMTT(30)
<1>7. TypeOK'
  <2>1. /\ sync' \in 0..MaxSegments /\ pend' \in Seq([seg : Segments, upto : Nat])
        /\ rot' \in RotationSteps /\ crashes' \in 0..MaxCrashes /\ settled' \in Nat
        /\ nextSeq' \in Nat \ {0} /\ mode' \in {"open", "down", "refused"} /\ cur' \in Segments
        /\ hist' \in Seq(1..MaxRecords) /\ issued' \in 0..MaxRecords
    BY <1>1, <1>2, <1>3, WalAssumption, SMTT(60) DEF TypeOK, RotationSteps, Segments
  <2>2. buf' \in Seq(Frame) /\ \A i \in 1..Len(buf') : IsRecord(buf'[i])
    BY <1>1, <1>3, SMTT(60)
  <2>3. FilesOK(files')
    BY <1>1, <1>2, Zenon
  <2>4. QED
    BY <1>2, <2>1, <2>2, <2>3, StepTypes, Zenon
<1>8. /\ Chain(files'[cur'].frames, cur') /\ Live(files', cur', settled')
      /\ Restated(files'[cur'].frames \o buf') = hist'
      /\ nextSeq' = Len(files'[cur'].frames) + Len(buf') + 1
      /\ \A i \in 1..Len(buf') : IsRecord(buf'[i])
  BY <1>1, <1>3, <1>4, <1>5, SMTT(60)
<1>9. \A i \in 1..Len(pend') : pend'[i].seg <= cur' /\ pend'[i].upto <= settled'
  BY <1>1, <1>6, ZenonT(30)
<1>10. WriterInv'
  BY <1>1, <1>8, <1>9, Zenon DEF WriterInv
<1>11. settled' <= Len(hist')
  BY <1>1, <1>2
<1>12. QED
  BY <1>1, <1>7, <1>10, <1>11, Zenon DEF WalInv

\* The files of an open writer without its buffer hold a prefix of the history.
LEMMA OpenLive ==
  ASSUME WalInv, mode = "open"
  PROVE  \E c : /\ Live(files, c, settled)
                /\ \E m \in 0..Len(hist) : Restated(Good(files[c])) = SubSeq(hist, 1, m)
<1>1. /\ FilesOK(files) /\ cur \in Segments /\ files[cur] \in File
      /\ hist \in Seq(1..MaxRecords) /\ Len(hist) \in Nat
      /\ files[cur].frames \in Seq(Frame) /\ Len(files[cur].frames) \in Nat
      /\ buf \in Seq(Frame) /\ Len(buf) \in Nat /\ Chain(files[cur].frames, cur)
      /\ Chain(files[cur].frames \o buf, cur) /\ files[cur].frames \o buf \in Seq(Frame)
      /\ Restated(files[cur].frames \o buf) = hist
  BY WriterFacts
<1>2. CASE rot \in {"based", "synced", "named"}
  <2> DEFINE n == Newest(files)
  <2>1. /\ Live(files, n, settled) /\ Chain(files[n].frames, n) /\ Restated(files[n].frames) = hist
        /\ files[n] \in File /\ n \in Segments
    BY <1>2, RotationFacts, Zenon
  <2>2. Readable(files[n], n)
    BY <2>1 DEF Live
  <2>3. Good(files[n]) = files[n].frames
    BY <2>1, <2>2, ReadableChain, ReadableFacts, Zenon
  <2>4. hist = SubSeq(hist, 1, Len(hist))
    BY <1>1, WholePrefix
  <2> HIDE DEF n
  <2>5. QED
    BY <1>1, <2>1, <2>3, <2>4
<1>3. CASE rot \notin {"based", "synced", "named"}
  <2>1. Live(files, cur, settled)
    BY <1>3, Zenon DEF WalInv, WriterInv
  <2>2. Readable(files[cur], cur)
    BY <2>1, SMTT(30) DEF Live
  <2>3. Good(files[cur]) = files[cur].frames
    BY <1>1, <2>2, ReadableChain, ReadableFacts, Zenon
  <2> DEFINE F == files[cur].frames
             C == F \o buf
             l == Len(F)
  <2>4. /\ Len(C) = Len(F) + Len(buf) /\ \A i \in 1..Len(F) : C[i] = F[i]
    BY <1>1, ConcatFacts, ZenonT(30)
  <2>5. /\ C \in Seq(Frame) /\ F \in Seq(Frame) /\ l \in 0..Len(C) /\ Chain(C, cur) /\ Restated(C) = hist
        /\ l = Len(F) /\ Chain(F, cur) /\ l \in Nat
    BY <1>1, <2>4, SMTT(60)
  <2> HIDE DEF F, C, l
  <2>6. SubSeq(C, 1, l) = F
    <3>1. /\ SubSeq(C, 1, l) \in Seq(Frame) /\ Len(SubSeq(C, 1, l)) = l
          /\ \A i \in 1..l : SubSeq(C, 1, l)[i] = C[i]
      BY <2>5, PrefixFacts, SMTT(30)
    <3>2. QED
      BY <2>4, <2>5, <3>1, SameSequence, SMTT(30)
  <2>7. cur > 1 => l > 0
    BY <2>5, SeqFacts DEF Chain
  <2>8. /\ Restates(C, l) \in 0..Len(hist)
        /\ Restated(F) = SubSeq(hist, 1, Restates(C, l))
    BY <1>1, <2>5, <2>6, <2>7, ChainPrefix, Zenon
  <2>9. QED
    BY <2>1, <2>3, <2>8 DEF F
<1>4. QED
  BY <1>2, <1>3

\* The first records of a shorter history are the first records of the longer one.
LEMMA PrefixOfPrefix ==
  ASSUME NEW T, NEW h \in Seq(T), NEW m \in 0..Len(h), NEW n \in 0..Len(SubSeq(h, 1, m))
  PROVE  n \in 0..Len(h) /\ SubSeq(SubSeq(h, 1, m), 1, n) = SubSeq(h, 1, n)
<1> DEFINE p == SubSeq(h, 1, m)
           q == SubSeq(p, 1, n)
           r == SubSeq(h, 1, n)
<1>1. Len(h) \in Nat
  BY SeqFacts
<1>2. p \in Seq(T) /\ Len(p) = m /\ \A i \in 1..m : p[i] = h[i]
  BY PrefixFacts
<1>3. n \in 0..Len(h) /\ n \in 0..Len(p) /\ n <= m /\ n \in Nat /\ m \in Nat
  BY <1>1, <1>2
<1> HIDE DEF p
<1>4. q \in Seq(T) /\ Len(q) = n /\ \A i \in 1..n : q[i] = p[i]
  BY <1>2, <1>3, PrefixFacts, SMTT(30)
<1>5. r \in Seq(T) /\ Len(r) = n /\ \A i \in 1..n : r[i] = h[i]
  BY <1>3, PrefixFacts
<1> HIDE DEF q, r
<1>6. \A i \in 1..n : q[i] = r[i]
  BY <1>2, <1>3, <1>4, <1>5, SMTT(30)
<1>7. q = r
  BY <1>4, <1>5, <1>6, SameSequence, SMTT(30)
<1>8. QED
  BY <1>3, <1>7 DEF p, q, r

\* A power loss leaves one of the survivors of every file.
LEMMA SurvivingFiles ==
  ASSUME NEW fs, FilesOK(fs), NEW gs,
         gs \in [Segments -> UNION {Survivors(fs[s]) : s \in Segments}],
         \A s \in Segments : gs[s] \in Survivors(fs[s])
  PROVE  FilesOK(gs) /\ \A s \in Segments : gs[s].made => Fixed(gs[s])
<1>1. \A s \in Segments : /\ gs[s] \in File /\ gs[s].synced \in -1..Len(gs[s].frames)
                          /\ gs[s].made => Fixed(gs[s])
  BY SurvivorFacts DEF FilesOK
<1>2. gs \in [Segments -> File]
  BY <1>1
<1>3. QED
  BY <1>1, <1>2 DEF FilesOK

\* What a stopped process leaves: a segment the next boot refuses, with nothing left for a power
\* loss to take, or a live segment with a prefix of the history.
Leaves(fs, h, k) ==
  \/ Corrupt(fs[Chosen(fs)]) /\ \A s \in Segments : fs[s].made => Fixed(fs[s])
  \/ \E c \in Segments : /\ Live(fs, c, k)
                         /\ \E m \in 0..Len(h) : Restated(Good(fs[c])) = SubSeq(h, 1, m)

\* After a power loss the disk is in one of those two states.
LEMMA PowerLossLeaves ==
  ASSUME NEW fs \in [Segments -> File], NEW gs \in [Segments -> File],
         \A s \in Segments : gs[s] \in Survivors(fs[s]),
         \A s \in Segments : gs[s].made => Fixed(gs[s]),
         NEW h \in Seq(1..MaxRecords), NEW k \in Nat, NEW c, Live(fs, c, k),
         NEW m \in 0..Len(h), Restated(Good(fs[c])) = SubSeq(h, 1, m)
  PROVE  Leaves(gs, h, k)
<1>2. CASE Corrupt(gs[Chosen(gs)])
  BY <1>2 DEF Leaves
<1>4. \/ Corrupt(gs[Chosen(gs)])
      \/ \E d \in Segments :
           /\ Live(gs, d, k)
           /\ \E n \in 0..Len(Restated(Good(fs[c]))) :
                Restated(Good(gs[d])) = SubSeq(Restated(Good(fs[c])), 1, n)
  BY AfterPowerLoss, SMTT(30), Z3T(30)
<1>5. CASE ~Corrupt(gs[Chosen(gs)])
  <2>1. PICK d \in Segments :
          /\ Live(gs, d, k)
          /\ \E n \in 0..Len(Restated(Good(fs[c]))) :
               Restated(Good(gs[d])) = SubSeq(Restated(Good(fs[c])), 1, n)
    BY <1>4, <1>5
  <2>2. PICK n \in 0..Len(Restated(Good(fs[c]))) :
          Restated(Good(gs[d])) = SubSeq(Restated(Good(fs[c])), 1, n)
    BY <2>1, Zenon
  <2>3. n \in 0..Len(h) /\ Restated(Good(gs[d])) = SubSeq(h, 1, n)
    BY <2>2, PrefixOfPrefix, SMTT(30)
  <2>4. QED
    BY <2>1, <2>3 DEF Leaves
<1>6. QED
  BY <1>2, <1>5

\* The history a stopped process leaves behind.
LEMMA LeavesHistory ==
  ASSUME TypeOK, settled <= Len(hist), NEW fs, FilesOK(fs), Leaves(fs, hist, settled),
         NEW h, h = Reopened(fs)
  PROVE  /\ h \in Seq(1..MaxRecords) /\ settled <= Len(h)
         /\ \E m \in 0..Len(hist) : settled <= m /\ h = SubSeq(hist, 1, m) /\ Len(h) = m
         /\ \/ Corrupt(fs[Chosen(fs)]) /\ \A s \in Segments : fs[s].made => Fixed(fs[s])
            \/ \E c \in Segments : Live(fs, c, settled) /\ h = Restated(Good(fs[c]))
<1>1. hist \in Seq(1..MaxRecords) /\ settled \in Nat /\ Len(hist) \in Nat
  <2>1. hist \in Seq(1..MaxRecords) /\ settled \in Nat
    BY SMTT(30) DEF TypeOK
  <2>2. QED
    BY <2>1, SeqFacts
<1>2. CASE Corrupt(fs[Chosen(fs)]) /\ \A s \in Segments : fs[s].made => Fixed(fs[s])
  <2>1. h = hist
    BY <1>2 DEF Reopened
  <2>2. hist = SubSeq(hist, 1, Len(hist))
    BY <1>1, WholePrefix
  <2>3. \E m \in 0..Len(hist) : settled <= m /\ h = SubSeq(hist, 1, m) /\ Len(h) = m
    <3>1. Len(hist) \in 0..Len(hist)
      BY <1>1
    <3>2. QED
      BY <2>1, <2>2, <3>1, Zenon
  <2>4. QED
    BY <1>1, <1>2, <2>1, <2>3, SMTT(30)
<1>3. ASSUME NEW c \in Segments, Live(fs, c, settled), NEW m \in 0..Len(hist),
             Restated(Good(fs[c])) = SubSeq(hist, 1, m)
      PROVE  /\ h \in Seq(1..MaxRecords) /\ settled <= Len(h) /\ settled <= m
             /\ h = SubSeq(hist, 1, m) /\ Len(h) = m /\ h = Restated(Good(fs[c]))
  <2>1. fs \in [Segments -> File]
    BY DEF FilesOK
  <2>2. /\ Restated(Good(fs[c])) \in Seq(1..MaxRecords)
        /\ settled <= Len(Restated(Good(fs[c])))
    BY <1>1, <1>3, <2>1, LiveHolds, Zenon
  <2>3. Chosen(fs) = c /\ ~Corrupt(fs[c]) /\ Recovered(fs) = Restated(Good(fs[c]))
    BY <1>3, <2>1, LiveChosen, SMTT(30)
  <2>4. h = Restated(Good(fs[c]))
    BY <2>3, SMTT(30) DEF Reopened
  <2>5. Len(SubSeq(hist, 1, m)) = m
    BY <1>1, PrefixFacts, SMTT(30)
  <2>6. QED
    BY <1>3, <2>2, <2>4, <2>5, SMTT(30)
<1>4. CASE \E c \in Segments : /\ Live(fs, c, settled)
                               /\ \E m \in 0..Len(hist) : Restated(Good(fs[c])) = SubSeq(hist, 1, m)
  BY <1>3, <1>4
<1>5. QED
  BY <1>2, <1>4 DEF Leaves

\* The history after a stop is a prefix of the one before it, and holds what was settled.
HistoryKept ==
  \E m \in 0..Len(hist) : settled <= m /\ hist' = SubSeq(hist, 1, m)

\* A stop that leaves one of those two states keeps the invariant.
LEMMA StopStep ==
  ASSUME WalInv, mode = "open", crashes < MaxCrashes, NEW fs, FilesOK(fs), Stop(fs),
         Leaves(fs, hist, settled)
  PROVE  WalInv' /\ HistoryKept
<1>1. /\ mode' = "down" /\ rot' = "idle" /\ files' = fs /\ hist' = Reopened(fs)
      /\ buf' = << >> /\ pend' = << >> /\ sync' = 0 /\ crashes' = crashes + 1
      /\ UNCHANGED <<cur, nextSeq, settled, issued>>
  BY DEF Stop
<1>2. TypeOK /\ settled <= Len(hist)
  BY SMTT(30) DEF WalInv
<1>3. /\ hist' \in Seq(1..MaxRecords) /\ settled <= Len(hist')
      /\ \E m \in 0..Len(hist) : settled <= m /\ hist' = SubSeq(hist, 1, m) /\ Len(hist') = m
      /\ \/ Corrupt(fs[Chosen(fs)]) /\ \A s \in Segments : fs[s].made => Fixed(fs[s])
         \/ \E c \in Segments : Live(fs, c, settled) /\ hist' = Restated(Good(fs[c]))
  BY <1>1, <1>2, LeavesHistory, Zenon
<1>4. StoppedInv'
  BY <1>1, <1>3, SMTT(30) DEF StoppedInv
<1>5. TypeOK'
  <2>1. /\ sync' \in 0..MaxSegments /\ pend' \in Seq([seg : Segments, upto : Nat])
        /\ rot' \in RotationSteps /\ crashes' \in 0..MaxCrashes /\ settled' \in Nat
        /\ nextSeq' \in Nat \ {0} /\ mode' \in {"open", "down", "refused"} /\ cur' \in Segments
        /\ issued' \in 0..MaxRecords
    BY <1>1, <1>2, WalAssumption DEF TypeOK, RotationSteps
  <2>2. buf' \in Seq(Frame) /\ \A i \in 1..Len(buf') : IsRecord(buf'[i])
    BY <1>1
  <2>3. FilesOK(files')
    BY <1>1
  <2>4. QED
    BY <1>2, <1>3, <2>1, <2>2, <2>3, StepTypes, Zenon
<1>6. WalInv'
  BY <1>1, <1>3, <1>4, <1>5, Zenon DEF WalInv
<1>7. QED
  BY <1>3, <1>6 DEF HistoryKept

\* The process dies between any two steps.
LEMMA KillStep ==
  ASSUME WalInv, Kill
  PROVE  WalInv' /\ HistoryKept
<1>1. mode = "open" /\ crashes < MaxCrashes /\ Stop(files)
  BY DEF Kill
<1>2. FilesOK(files)
  BY <1>1, WriterFacts
<1>3. PICK c : /\ Live(files, c, settled)
               /\ \E m \in 0..Len(hist) : Restated(Good(files[c])) = SubSeq(hist, 1, m)
  BY <1>1, OpenLive
<1>4. c \in Segments
  BY <1>3 DEF Live
<1>5. Leaves(files, hist, settled)
  BY <1>3, <1>4 DEF Leaves
<1>6. QED
  BY <1>1, <1>2, <1>5, StopStep

\* The machine stops while the log is open.
LEMMA PowerLossOpenStep ==
  ASSUME WalInv, PowerLoss, mode = "open"
  PROVE  WalInv' /\ HistoryKept
<1>1. PICK fs \in [Segments -> UNION {Survivors(files[s]) : s \in Segments}] :
        (\A s \in Segments : fs[s] \in Survivors(files[s])) /\ Stop(fs)
  BY DEF PowerLoss
<1>2. FilesOK(files) /\ settled \in Nat /\ hist \in Seq(1..MaxRecords) /\ crashes < MaxCrashes
  BY WriterFacts DEF PowerLoss
<1>3. PICK c : /\ Live(files, c, settled)
               /\ \E m \in 0..Len(hist) : Restated(Good(files[c])) = SubSeq(hist, 1, m)
  BY OpenLive
<1>4. PICK m \in 0..Len(hist) : Restated(Good(files[c])) = SubSeq(hist, 1, m)
  BY <1>3
<1>5. FilesOK(fs) /\ \A s \in Segments : fs[s].made => Fixed(fs[s])
  BY <1>1, <1>2, SurvivingFiles
<1>6. files \in [Segments -> File] /\ fs \in [Segments -> File]
  BY <1>2, <1>5 DEF FilesOK
<1>7. Leaves(fs, hist, settled)
  BY <1>1, <1>2, <1>3, <1>4, <1>5, <1>6, PowerLossLeaves, Zenon
<1>8. QED
  BY <1>1, <1>2, <1>7, <1>5, StopStep, Zenon

\* An open writer's files are in the second of those states.
LEMMA OpenLeaves ==
  ASSUME WalInv, mode = "open"
  PROVE  Leaves(files, hist, settled)
<1>1. PICK c : /\ Live(files, c, settled)
               /\ \E m \in 0..Len(hist) : Restated(Good(files[c])) = SubSeq(hist, 1, m)
  BY OpenLive
<1>2. c \in Segments
  BY <1>1 DEF Live
<1>3. QED
  BY <1>1, <1>2 DEF Leaves

\* The engine loop returns and the writer is dropped: its buffer is pushed, unless a rotation has
\* pushed it already.
LEMMA DropWriterStep ==
  ASSUME WalInv, DropWriter
  PROVE  WalInv' /\ HistoryKept
<1> DEFINE fs == Pushed(files, cur, buf)
<1>1. mode = "open" /\ crashes < MaxCrashes /\ Stop(fs)
  BY DEF DropWriter
<1>2. /\ FilesOK(files) /\ cur \in Segments /\ files[cur] \in File /\ files \in [Segments -> File]
      /\ hist \in Seq(1..MaxRecords) /\ Len(hist) \in Nat /\ Restated(files[cur].frames \o buf) = hist
  BY <1>1, WriterFacts DEF FilesOK
<1>3. CASE rot = "idle"
  <2>1. Running
    BY <1>1, <1>3 DEF Running
  <2>2. /\ FilesOK(fs) /\ Live(fs, cur, settled) /\ Chain(fs[cur].frames, cur)
        /\ fs[cur].frames = files[cur].frames \o buf
    BY <2>1, BufferPushed, Zenon
  <2> HIDE DEF fs
  <2>3. Readable(fs[cur], cur) /\ fs[cur] \in File
    BY <1>2, <2>2, Zenon DEF Live, FilesOK
  <2>4. fs[cur].made /\ fs[cur].header = "full"
    BY <2>3, SMTT(30) DEF Readable
  <2>5. Good(fs[cur]) = fs[cur].frames
    BY <1>2, <2>2, <2>3, <2>4, ReadableChain, Zenon
  <2>6. Restated(Good(fs[cur])) = SubSeq(hist, 1, Len(hist)) /\ Len(hist) \in 0..Len(hist)
    BY <1>2, <2>2, <2>5, WholePrefix, SMTT(30)
  <2>7. Leaves(fs, hist, settled)
    BY <1>2, <2>2, <2>6 DEF Leaves
  <2>8. QED
    BY <1>1, <2>2, <2>7, StopStep
<1>4. CASE rot # "idle"
  <2>1. buf = << >>
    BY <1>1, <1>4, RotationFacts, Zenon
  <2>2. files[cur].frames \o buf = files[cur].frames
    <3>1. files[cur].frames \in Seq(Frame)
      BY <1>2, FileFacts
    <3>2. QED
      BY <2>1, <3>1, ConcatEmpty, SMTT(30)
  <2>3. fs = [files EXCEPT ![cur] = [files[cur] EXCEPT !.frames = files[cur].frames]]
    BY <2>2 DEF Pushed
  <2>4. [files[cur] EXCEPT !.frames = files[cur].frames] = files[cur]
    BY <1>2 DEF File
  <2>5. fs = files
    BY <1>2, <2>3, <2>4
  <2> HIDE DEF fs
  <2>6. Leaves(fs, hist, settled)
    BY <1>1, <2>5, OpenLeaves, Zenon
  <2>7. QED
    BY <1>1, <1>2, <2>5, <2>6, StopStep
<1>5. QED
  BY <1>3, <1>4

\* A power loss takes nothing from a file that is wholly on disk, or was never made.
LEMMA NothingToLose ==
  ASSUME NEW f, ~f.made \/ Fixed(f), NEW g \in Survivors(f)
  PROVE  g = f
  BY DEF Survivors

\* The machine loses power again before the next boot.
LEMMA PowerLossDownStep ==
  ASSUME WalInv, PowerLoss, mode = "down"
  PROVE  WalInv' /\ HistoryKept
<1>1. PICK fs \in [Segments -> UNION {Survivors(files[s]) : s \in Segments}] :
        /\ \A s \in Segments : fs[s] \in Survivors(files[s])
        /\ files' = fs /\ hist' = Reopened(fs) /\ crashes' = crashes + 1
        /\ UNCHANGED <<cur, buf, nextSeq, sync, pend, rot, mode, settled, issued>>
  BY DEF PowerLoss
<1>2. crashes < MaxCrashes
  BY DEF PowerLoss
<1>3. /\ TypeOK /\ settled <= Len(hist) /\ StoppedInv
  BY DEF WalInv
<1>4. FilesOK(files) /\ hist \in Seq(1..MaxRecords) /\ settled \in Nat
  BY <1>3 DEF TypeOK, FilesOK
<1>5. Len(hist) \in Nat
  BY <1>4, SeqFacts
<1>6. FilesOK(fs) /\ \A s \in Segments : fs[s].made => Fixed(fs[s])
  BY <1>1, <1>4, SurvivingFiles
<1>7. files \in [Segments -> File] /\ fs \in [Segments -> File]
  BY <1>4, <1>6 DEF FilesOK
<1>8. hist = SubSeq(hist, 1, Len(hist)) /\ Len(hist) \in 0..Len(hist)
  BY <1>4, <1>5, WholePrefix, SMTT(30)
<1>9. Leaves(fs, hist, settled)
  <2>1. CASE Corrupt(files[Chosen(files)]) /\ \A s \in Segments : files[s].made => Fixed(files[s])
    <3>1. \A s \in Segments : fs[s] = files[s]
      BY <1>1, <2>1, NothingToLose
    <3>2. fs = files
      BY <1>7, <3>1, SMTT(30)
    <3>3. QED
      BY <2>1, <3>2 DEF Leaves
  <2>2. ASSUME NEW c \in Segments, Live(files, c, settled), hist = Restated(Good(files[c]))
        PROVE  Leaves(fs, hist, settled)
    <3>1. Restated(Good(files[c])) = SubSeq(hist, 1, Len(hist))
      BY <1>8, <2>2
    <3>2. QED
      BY <1>1, <1>4, <1>6, <1>7, <1>8, <2>2, <3>1, PowerLossLeaves, ZenonT(30)
  <2>3. QED
    BY <1>3, <2>1, <2>2 DEF StoppedInv
<1>10. /\ hist' \in Seq(1..MaxRecords) /\ settled <= Len(hist')
       /\ \E m \in 0..Len(hist) : settled <= m /\ hist' = SubSeq(hist, 1, m) /\ Len(hist') = m
       /\ \/ Corrupt(fs[Chosen(fs)]) /\ \A s \in Segments : fs[s].made => Fixed(fs[s])
          \/ \E c \in Segments : Live(fs, c, settled) /\ hist' = Restated(Good(fs[c]))
  BY <1>1, <1>3, <1>6, <1>9, LeavesHistory, Zenon
<1>11. StoppedInv'
  BY <1>1, <1>3, <1>10, Zenon DEF StoppedInv
<1>12. TypeOK'
  <2>1. /\ sync' \in 0..MaxSegments /\ pend' \in Seq([seg : Segments, upto : Nat])
        /\ rot' \in RotationSteps /\ crashes' \in 0..MaxCrashes /\ settled' \in Nat
        /\ nextSeq' \in Nat \ {0} /\ mode' \in {"open", "down", "refused"} /\ cur' \in Segments
        /\ issued' \in 0..MaxRecords
    BY <1>1, <1>2, <1>3, WalAssumption, SMTT(30) DEF TypeOK
  <2>2. buf' \in Seq(Frame) /\ \A i \in 1..Len(buf') : IsRecord(buf'[i])
    BY <1>1, <1>3, SMTT(30) DEF StoppedInv
  <2>3. FilesOK(files')
    BY <1>1, <1>6, Zenon
  <2>4. QED
    BY <1>3, <1>10, <2>1, <2>2, <2>3, StepTypes, Zenon
<1>13. WalInv'
  BY <1>1, <1>10, <1>11, <1>12, Zenon DEF WalInv
<1>14. QED
  BY <1>10, <1>13 DEF HistoryKept

\* open_current finds the live segment, cuts its torn tail, and the writer continues behind it.
LEMMA OpenCurrentStep ==
  ASSUME WalInv, OpenCurrent
  PROVE  WalInv'
<1>1. mode = "down" /\ UNCHANGED <<buf, pend, rot, hist, settled, issued, crashes>>
  BY DEF OpenCurrent
<1>2. TypeOK /\ settled <= Len(hist) /\ StoppedInv
  BY <1>1 DEF WalInv
<1>3. CASE Corrupt(files[Chosen(files)])
  <2>1. mode' = "refused" /\ UNCHANGED <<files, cur, nextSeq, sync>>
    BY <1>3, SMTT(30) DEF OpenCurrent
  <2>2. TypeOK'
    BY <1>1, <1>2, <2>1, SMTT(30) DEF TypeOK
  <2>3. QED
    BY <1>1, <1>2, <2>1, <2>2, SMTT(30) DEF WalInv
<1>4. CASE ~Corrupt(files[Chosen(files)])
  <2>1. PICK c \in Segments : Live(files, c, settled) /\ hist = Restated(Good(files[c]))
    BY <1>2, <1>4, SMTT(30) DEF StoppedInv
  <2>2. /\ FilesOK(files) /\ files \in [Segments -> File] /\ files[c] \in File /\ settled \in Nat
        /\ hist \in Seq(1..MaxRecords)
    BY <1>2 DEF TypeOK, FilesOK
  <2>3. Chosen(files) = c
    BY <2>1, <2>2, LiveChosen, SMTT(30)
  <2> DEFINE f == files[c]
             d == Decoded(f)
             fr == Good(f)
             y == MinOf({f.synced, d})
             g == [f EXCEPT !.frames = fr, !.synced = y]
  <2>4. /\ mode' = "open" /\ cur' = c /\ nextSeq' = d + 1 /\ sync' \in {0, c}
        /\ files' = [files EXCEPT ![c] = g]
    BY <1>4, <2>3, Zenon DEF OpenCurrent
  <2>5. f \in File /\ Readable(f, c) /\ f.synced \in -1..Len(f.frames)
    BY <2>1, <2>2 DEF Live, FilesOK
  <2>6. /\ f.made /\ f.header = "full" /\ d \in 0..Len(f.frames) /\ (c > 1 => d > 0)
        /\ fr \in Seq(Frame) /\ Chain(fr, c) /\ Len(fr) = d
        /\ \A i \in 1..d : fr[i] = f.frames[i]
        /\ \A n \in 0..d : Restates(fr, n) = Restates(f.frames, n)
    BY <2>5, ReadableFacts, Zenon
  <2>7. Len(f.frames) \in Nat /\ f.synced \in Int
    BY <2>5, FileFacts, Zenon
  <2> HIDE DEF fr, d
  <2>8. y \in -1..d /\ \A n \in 0..d : n <= f.synced => n <= y
    <3>1. f.synced \in Int /\ d \in Int /\ f.synced >= -1 /\ d \in Nat
      BY <2>5, <2>6, <2>7, SMTT(30)
    <3>2. CASE f.synced <= d
      <4>1. y = f.synced
        <5>1. /\ {f.synced, d} \subseteq Int /\ f.synced \in {f.synced, d}
              /\ \A n \in {f.synced, d} : f.synced <= n
          BY <3>1, <3>2
        <5>2. QED
          BY <5>1, MinOfIs
      <4>2. QED
        BY <3>1, <3>2, <4>1
    <3>3. CASE ~(f.synced <= d)
      <4>1. y = d
        <5>1. /\ {f.synced, d} \subseteq Int /\ d \in {f.synced, d}
              /\ \A n \in {f.synced, d} : d <= n
          BY <3>1, <3>3
        <5>2. QED
          BY <5>1, MinOfIs
      <4>2. QED
        BY <3>1, <3>3, <4>1, SMTT(30)
    <3>4. QED
      BY <3>2, <3>3, Zenon
  <2> HIDE DEF y
  <2>9. /\ g \in File /\ g.made /\ g.header = "full" /\ g.frames = fr /\ g.synced = y
        /\ g.named = f.named
    <3>1. y \in Int
      BY <2>6, <2>8, SMTT(30)
    <3> HIDE DEF f
    <3>2. QED
      BY <2>5, <2>6, <3>1, Zenon DEF File
  <2> HIDE DEF g
  <2>10. Readable(g, c) /\ Decoded(g) = d /\ Good(g) = fr
    BY <2>6, <2>9, ReadableChain
  <2>11. /\ files' \in [Segments -> File] /\ files'[c] = g
         /\ \A s \in Segments \ {c} : files'[s] = files[s]
    BY <2>2, <2>4, <2>9, Zenon
  <2>12. FilesOK(files')
    <3>1. \A s \in Segments : files'[s].synced \in -1..Len(files'[s].frames)
      BY <2>2, <2>6, <2>8, <2>9, <2>11, Zenon DEF FilesOK
    <3>2. QED
      BY <2>11, <3>1, Zenon DEF FilesOK
  <2>13. Live(files', c, settled)
    <3>1. \A s \in Segments \ {c} : Tame(files[s], files'[s], s)
      BY <2>11, Zenon DEF Tame
    <3>2. Firm(files[c], c, settled) => Firm(files'[c], c, settled)
      <4> SUFFICES ASSUME Firm(f, c, settled) PROVE Firm(g, c, settled)
        BY <2>11
      <4>1. PICK n \in 0..Decoded(f) :
              (c > 1 => n > 0) /\ n <= f.synced /\ settled <= Restates(f.frames, n)
        BY SMTT(30) DEF Firm
      <4>2. n \in 0..d
        BY <4>1, Zenon DEF d
      <4>3. n <= g.synced /\ settled <= Restates(g.frames, n) /\ n \in 0..Decoded(g)
        BY <2>6, <2>8, <2>9, <2>10, <4>1, <4>2, Zenon
      <4>4. g.named
        BY <2>9, SMTT(30) DEF Firm
      <4>5. QED
        BY <4>1, <4>3, <4>4 DEF Firm
    <3>3. c > 1 => files'[c].frames[1].hist = files[c].frames[1].hist
      <4>1. c > 1 => 1 \in 1..d
        BY <2>6, <2>7
      <4>2. QED
        BY <2>6, <2>9, <2>11, <4>1, Zenon
    <3>4. Readable(files'[c], c)
      BY <2>10, <2>11
    <3>5. QED
      BY <2>1, <2>2, <2>11, <3>1, <3>2, <3>3, <3>4, TameLive, Zenon
  <2>14. buf' = << >> /\ pend' = << >> /\ rot' = "idle" /\ hist' = hist /\ settled' = settled
    BY <1>1, <1>2, Zenon DEF StoppedInv
  <2>15. fr \o << >> = fr /\ hist = Restated(fr)
    BY <2>1, <2>6, ConcatEmpty, Zenon DEF fr, f
  <2>16. /\ Chain(files'[cur'].frames, cur') /\ Live(files', cur', settled')
         /\ Restated(files'[cur'].frames \o buf') = hist'
         /\ nextSeq' = Len(files'[cur'].frames) + Len(buf') + 1
    <3>1. Len(buf') = 0 /\ d \in Nat
      BY <2>6, <2>14, SMTT(30)
    <3>2. QED
      BY <2>4, <2>6, <2>9, <2>11, <2>13, <2>14, <2>15, <3>1, SMTT(60), Z3T(60)
  <2>17. WriterInv'
    BY <2>4, <2>14, <2>16 DEF WriterInv
  <2>18. TypeOK'
    <3>1. /\ sync' \in 0..MaxSegments /\ pend' \in Seq([seg : Segments, upto : Nat])
          /\ rot' \in RotationSteps /\ crashes' \in 0..MaxCrashes /\ settled' \in Nat
          /\ mode' \in {"open", "down", "refused"} /\ cur' \in Segments
          /\ hist' \in Seq(1..MaxRecords) /\ issued' \in 0..MaxRecords
      BY <1>1, <1>2, <2>4, WalAssumption, SMTT(30) DEF TypeOK, Segments
    <3>2. buf' \in Seq(Frame) /\ \A i \in 1..Len(buf') : IsRecord(buf'[i])
      BY <2>14, SMTT(30)
    <3>3. nextSeq' \in Nat \ {0}
      BY <2>4, <2>6, <2>7, SMTT(30)
    <3>4. QED
      BY <1>2, <2>12, <3>1, <3>2, <3>3, StepTypes, Zenon
  <2>19. QED
    BY <1>2, <2>4, <2>14, <2>17, <2>18, Zenon DEF WalInv
<1>5. QED
  BY <1>3, <1>4

-----------------------------------------------------------------------------
(* The theorems. *)

\* The first open leaves segment 1 empty and on disk, with nothing to restate.
LEMMA InitWalInv ==
  ASSUME Init
  PROVE  WalInv
<1> DEFINE f == [made |-> TRUE, named |-> TRUE, header |-> "full", frames |-> << >>, synced |-> 0]
<1>1. /\ files = [s \in Segments |-> IF s = 1 THEN f ELSE NoFile]
      /\ cur = 1 /\ buf = << >> /\ nextSeq = 1 /\ sync \in {0, 1} /\ pend = << >> /\ rot = "idle"
      /\ mode = "open" /\ hist = << >> /\ settled = 0 /\ issued = 0 /\ crashes = 0
  BY DEF Init
<1>2. 1 \in Segments /\ MaxSegments \in Nat
  BY WalAssumption, SMTT(30) DEF Segments
<1>3. /\ f \in File /\ f.made /\ f.named /\ f.header = "full" /\ f.frames = << >> /\ f.synced = 0
  BY SMTT(30) DEF File, Headers
<1> HIDE DEF f
<1>4. files \in [Segments -> File] /\ files[1] = f /\ \A s \in Segments : s > 1 => files[s] = NoFile
  BY <1>1, <1>2, <1>3, NoFileFacts DEF Segments
<1>5. Len(<< >>) = 0 /\ << >> \o << >> = << >> /\ << >> \in Seq(Frame)
  OBVIOUS
<1>6. Chain(f.frames, 1)
  BY <1>3, <1>5, SMTT(30) DEF Chain
<1>7. Readable(f, 1) /\ Decoded(f) = 0
  BY <1>2, <1>3, <1>5, <1>6, ReadableChain, Zenon
<1>8. Live(files, 1, 0)
  <2>1. Firm(f, 1, 0)
    <3>1. Restates(f.frames, 0) = 0
      BY DEF Restates
    <3>2. QED
      BY <1>3, <1>7, <3>1 DEF Firm
  <2>2. Abandoned(files, 1, MaxSegments + 1)
    BY <1>4, NoFileFacts DEF Abandoned
  <2>3. QED
    BY <1>2, <1>4, <1>7, <2>1, <2>2, Zenon DEF Live
<1>9. Restated(<< >>) = << >>
  BY DEF Restated
<1>10. WriterInv
  <2>1. /\ Chain(files[cur].frames, cur) /\ Live(files, cur, settled)
        /\ Restated(files[cur].frames \o buf) = hist
        /\ nextSeq = Len(files[cur].frames) + Len(buf) + 1
    BY <1>1, <1>3, <1>4, <1>5, <1>6, <1>8, <1>9, SMTT(30), Z3T(30)
  <2>2. QED
    BY <1>1, <1>5, <2>1, SMTT(30) DEF WriterInv
<1>11. TypeOK
  <2>1. \A s \in Segments : files[s].synced \in -1..Len(files[s].frames)
    <3>1. f.synced \in -1..Len(f.frames)
      BY <1>3, <1>5
    <3>2. \A s \in Segments : s = 1 \/ s > 1
      BY WalAssumption DEF Segments
    <3>3. QED
      BY <1>4, <3>1, <3>2, NoFileFacts, Zenon
  <2>2. /\ cur \in Segments /\ nextSeq \in Nat \ {0} /\ sync \in 0..MaxSegments
        /\ rot \in RotationSteps /\ mode \in {"open", "down", "refused"} /\ settled \in Nat
        /\ issued \in 0..MaxRecords /\ crashes \in 0..MaxCrashes
    BY <1>1, <1>2, WalAssumption DEF RotationSteps, Segments
  <2>3. /\ buf \in Seq(Frame) /\ \A i \in 1..Len(buf) : Sound(buf[i])
        /\ pend \in Seq([seg : Segments, upto : Nat]) /\ hist \in Seq(1..MaxRecords)
    BY <1>1
  <2>4. QED
    BY <1>4, <2>1, <2>2, <2>3, SMTT(30) DEF TypeOK
<1>12. QED
  BY <1>1, <1>5, <1>10, <1>11, SMTT(30), Z3T(30) DEF WalInv

\* Every step of the log keeps the invariant.
LEMMA NextWalInv ==
  ASSUME FsyncNames, WalInv, [Next]_vars
  PROVE  WalInv'
<1>1. CASE UNCHANGED vars
  BY <1>1, Zenon DEF vars, WalInv, TypeOK, WriterInv, StoppedInv, RotationInv
<1>2. CASE PowerLoss
  <2>1. mode = "open" \/ mode = "down"
    BY <1>2 DEF PowerLoss
  <2>2. QED
    BY <1>2, <2>1, PowerLossOpenStep, PowerLossDownStep, SMTT(30)
<1>3. CASE \/ WalAppend \/ WalFlush \/ WalBarrier \/ WalBarrierBegin \/ SyncAnswer
  BY <1>3, AppendStep, FlushStep, BarrierStep, BarrierBeginStep, SyncAnswerStep, Zenon
<1>4. CASE \/ RotateArchive \/ RotateCreate \/ RotateHeader \/ RotateBase
           \/ RotateSyncFile \/ RotateSyncDir \/ RotateSwitch
  BY <1>4, ArchiveStep, CreateStep, HeaderStep, BaseStep, SyncFileStep, SyncDirStep, SwitchStep, Zenon
<1>5. CASE DropWriter \/ Kill \/ OpenCurrent
  BY <1>5, DropWriterStep, KillStep, OpenCurrentStep
<1>6. QED
  BY <1>1, <1>2, <1>3, <1>4, <1>5, Zenon DEF Next

\* The invariant of the segment family (open_current, rotate_measured, barrier): in every state
\* the segment a boot would choose restates every settled record, for any number of records,
\* segments, crashes and pending barriers, where a sync of a file keeps its name.
THEOREM WalInvariant ==
  ASSUME FsyncNames
  PROVE  Spec => []WalInv
<1>1. Init => WalInv
  BY InitWalInv
<1>2. WalInv /\ [Next]_vars => WalInv'
  BY NextWalInv
<1>3. QED
  BY <1>1, <1>2, PTL DEF Spec

\* append and scan_frames: the sequence of the next append is the index its frame will have, and
\* the segment with the buffer behind it replays to what was appended.
THEOREM SequencesAreFrameIndexes ==
  ASSUME FsyncNames
  PROVE  Spec => []SequenceIsFrameIndex
<1>1. WalInv => SequenceIsFrameIndex
  BY Zenon DEF WalInv, WriterInv, SequenceIsFrameIndex, Running
<1>2. QED
  BY <1>1, WalInvariant, PTL

\* rotate_measured: a process that dies between any two steps of a rotation reopens with the
\* history it had.
THEOREM RotationsAreCrashEquivalent ==
  ASSUME FsyncNames
  PROVE  Spec => []RotationCrashEquivalent
<1>1. WalInv => RotationCrashEquivalent
  <2> SUFFICES ASSUME WalInv, mode = "open", rot # "idle" PROVE Recovered(files) = hist
    BY DEF RotationCrashEquivalent
  <2> DEFINE n == Newest(files)
  <2>1. /\ n \in Segments /\ files[n] \in File /\ Solid(files[cur], cur)
        /\ Restated(files[cur].frames) = hist
        /\ rot \in {"based", "synced", "named"} =>
             /\ Live(files, n, settled)
             /\ Chain(files[n].frames, n) /\ Restated(files[n].frames) = hist
    BY RotationFacts, Zenon
  <2>2. files \in [Segments -> File] /\ cur \in Segments /\ files[cur] \in File
    BY WriterFacts DEF FilesOK
  <2> HIDE DEF n
  <2>3. CASE rot \in {"based", "synced", "named"}
    <3>1. Recovered(files) = Restated(Good(files[n])) /\ Readable(files[n], n)
      BY <2>1, <2>2, <2>3, LiveChosen DEF Live
    <3>2. Good(files[n]) = files[n].frames
      BY <2>1, <2>3, <3>1, ReadableChain, ReadableFacts, Zenon
    <3>3. QED
      BY <2>1, <2>3, <3>1, <3>2, Zenon
  <2>4. CASE rot \notin {"based", "synced", "named"}
    <3>1. Live(files, cur, settled)
      BY <2>4, Zenon DEF WalInv, WriterInv
    <3>2. Recovered(files) = Restated(Good(files[cur]))
      BY <2>2, <3>1, LiveChosen
    <3>3. Good(files[cur]) = files[cur].frames
      BY <2>1, <2>2, ReadableChain DEF Solid
    <3>4. QED
      BY <2>1, <3>2, <3>3
  <2>5. QED
    BY <2>3, <2>4
<1>2. QED
  BY <1>1, WalInvariant, PTL

\* A barrier, answered on the caller or by the thread, and a finished rotation settle a prefix that
\* is no shorter than the last.
LEMMA SettleSteps ==
  ASSUME WalInv, WalBarrier \/ SyncAnswer \/ RotateSwitch
  PROVE  /\ mode = "open" /\ mode' = mode /\ hist' = hist
         /\ settled' \in settled..Len(hist) /\ settled' \in 0..Len(hist)
<1>1. /\ settled \in Nat /\ Len(hist) \in Nat /\ settled <= Len(hist)
      /\ mode = "open"
  <2>1. mode = "open"
    BY DEF WalBarrier, SyncAnswer, RotateSwitch, Running
  <2>2. QED
    BY <2>1, WriterFacts
<1>2. CASE WalBarrier \/ RotateSwitch
  BY <1>1, <1>2 DEF WalBarrier, RotateSwitch
<1>3. CASE SyncAnswer
  <2> DEFINE u == Head(pend).upto
  <2>1. /\ pend # << >> /\ settled' = MaxOf({settled, u}) /\ mode' = mode /\ hist' = hist
    BY <1>3, Zenon DEF SyncAnswer
  <2>2. u \in Nat /\ u <= Len(hist)
    <3>1. pend \in Seq([seg : Segments, upto : Nat])
      BY DEF WalInv, TypeOK
    <3>2. 1 \in 1..Len(pend) /\ Head(pend) = pend[1] /\ pend[1] \in [seg : Segments, upto : Nat]
      <4>1. /\ Len(pend) \in Nat /\ Len(pend) > 0 /\ Head(pend) = pend[1]
            /\ pend[1] \in [seg : Segments, upto : Nat]
        BY <2>1, <3>1, SeqFacts, Zenon
      <4>2. QED
        BY <4>1, SMTT(60)
    <3>3. \/ pend[1].upto <= settled
          \/ pend[1].upto <= Restates(files[cur].frames, Len(files[cur].frames))
      BY <1>1, <3>2, Zenon DEF WalInv, WriterInv
    <3>4. /\ Restates(files[cur].frames, Len(files[cur].frames)) \in Nat
          /\ Restates(files[cur].frames, Len(files[cur].frames)) <= Len(hist)
      <4>1. CASE rot = "idle"
        BY <1>1, <4>1, CurrentRestates, BufferPushed, Zenon DEF Running
      <4>2. CASE rot # "idle"
        <5>1. Restates(files[cur].frames, Len(files[cur].frames)) = Len(hist)
          BY <1>1, <4>2, RotationFacts, ZenonT(30)
        <5>2. QED
          BY <1>1, <5>1
      <4>3. QED
        BY <4>1, <4>2
    <3>5. pend[1].upto \in Nat
      BY <3>2, SMTT(30)
    <3>6. pend[1].upto <= Len(hist)
      BY <1>1, <3>3, <3>4, <3>5, SMTT(30)
    <3>7. QED
      BY <3>2, <3>5, <3>6, Zenon
  <2> HIDE DEF u
  <2>3. MaxOf({settled, u}) \in {settled, u} /\ settled <= MaxOf({settled, u})
    <3>1. CASE u <= settled
      <4>1. /\ {settled, u} \subseteq Int /\ settled \in {settled, u}
            /\ \A x \in {settled, u} : x <= settled
        BY <1>1, <2>2, <3>1
      <4>2. MaxOf({settled, u}) = settled
        BY <4>1, MaxOfIs
      <4>3. QED
        BY <1>1, <4>2
    <3>2. CASE ~(u <= settled)
      <4>1. /\ {settled, u} \subseteq Int /\ u \in {settled, u}
            /\ \A x \in {settled, u} : x <= u
        BY <1>1, <2>2, <3>2
      <4>2. MaxOf({settled, u}) = u
        BY <4>1, MaxOfIs
      <4>3. QED
        BY <1>1, <2>2, <3>2, <4>2
    <3>3. QED
      BY <3>1, <3>2
  <2>4. QED
    BY <1>1, <2>1, <2>2, <2>3
<1>4. QED
  BY <1>2, <1>3

\* The steps that are invisible in DurableLog.
LEMMA SilentSteps ==
  ASSUME \/ WalFlush \/ WalBarrierBegin \/ RotateArchive \/ RotateCreate \/ RotateHeader
         \/ RotateBase \/ RotateSyncFile \/ RotateSyncDir
  PROVE  UNCHANGED <<hist, settled, mode>>
  BY DEF WalFlush, WalBarrierBegin, RotateArchive, RotateCreate, RotateHeader, RotateBase,
         RotateSyncFile, RotateSyncDir

\* Every step of the segment family is a step of DurableLog or leaves what it sees unchanged.
LEMMA StepRefines ==
  ASSUME FsyncNames, WalInv, [Next]_vars
  PROVE  [Durable!LogNext]_(Durable!logVars)
<1> USE DEF Durable!logVars
<1>0. hist \in Seq(1..MaxRecords) /\ settled \in Nat /\ settled <= Len(hist) /\ Len(hist) \in Nat
  <2>1. hist \in Seq(1..MaxRecords) /\ settled \in Nat /\ settled <= Len(hist)
    BY DEF WalInv, TypeOK
  <2>2. QED
    BY <2>1, SeqFacts, SMTT(30)
<1>1. CASE UNCHANGED vars
  BY <1>1 DEF vars
<1>2. CASE WalAppend
  <2>1. Durable!LogAppend(issued + 1)
    BY <1>2, Zenon DEF WalAppend, Durable!LogAppend, Running
  <2>2. issued + 1 \in 1..MaxRecords
    BY <1>2, WalAssumption, SMTT(30) DEF WalAppend, WalInv, TypeOK
  <2>3. QED
    BY <2>1, <2>2 DEF Durable!LogNext
<1>3. CASE WalBarrier \/ SyncAnswer \/ RotateSwitch
  <2>1. /\ mode = "open" /\ mode' = mode /\ hist' = hist
        /\ settled' \in settled..Len(hist) /\ settled' \in 0..Len(hist)
    BY <1>3, SettleSteps
  <2>2. Durable!LogSettle(settled')
    BY <2>1 DEF Durable!LogSettle
  <2>3. QED
    BY <2>1, <2>2 DEF Durable!LogNext
<1>4. ASSUME mode = "open", mode' = "down", settled' = settled, HistoryKept
      PROVE  Durable!LogNext
  <2>1. PICK m \in 0..Len(hist) : settled <= m /\ hist' = SubSeq(hist, 1, m)
    BY <1>4 DEF HistoryKept
  <2>2. m \in settled..Len(hist)
    BY <1>0, <2>1
  <2>3. Durable!LogCrash(m)
    BY <1>4, <2>1, <2>2 DEF Durable!LogCrash
  <2>4. QED
    BY <2>1, <2>3 DEF Durable!LogNext
<1>5. CASE DropWriter \/ Kill
  <2>1. mode = "open" /\ mode' = "down" /\ settled' = settled
    BY <1>5 DEF DropWriter, Kill, Stop
  <2>2. HistoryKept
    BY <1>5, DropWriterStep, KillStep
  <2>3. QED
    BY <1>4, <2>1, <2>2, Zenon
<1>6. CASE PowerLoss /\ mode = "open"
  <2>1. mode' = "down" /\ settled' = settled
    BY <1>6 DEF PowerLoss, Stop
  <2>2. HistoryKept
    BY <1>6, PowerLossOpenStep
  <2>3. QED
    BY <1>4, <1>6, <2>1, <2>2, Zenon
<1>7. CASE PowerLoss /\ mode # "open"
  <2>1. mode = "down" /\ mode' = mode /\ settled' = settled
    BY <1>7 DEF PowerLoss
  <2>2. HistoryKept
    BY <1>7, <2>1, PowerLossDownStep
  <2>3. PICK m \in 0..Len(hist) : settled <= m /\ hist' = SubSeq(hist, 1, m)
    BY <2>2 DEF HistoryKept
  <2>4. m \in settled..Len(hist)
    BY <1>0, <2>3
  <2>5. Durable!LogDecay(m)
    BY <2>1, <2>3, <2>4 DEF Durable!LogDecay
  <2>6. QED
    BY <2>3, <2>5 DEF Durable!LogNext
<1>8. CASE OpenCurrent
  <2>1. Durable!LogOpen
    BY <1>8 DEF OpenCurrent, Durable!LogOpen
  <2>2. QED
    BY <2>1 DEF Durable!LogNext
<1>9. CASE \/ WalFlush \/ WalBarrierBegin \/ RotateArchive \/ RotateCreate \/ RotateHeader
           \/ RotateBase \/ RotateSyncFile \/ RotateSyncDir
  BY <1>9, SilentSteps
<1>10. QED
  BY <1>1, <1>2, <1>3, <1>5, <1>6, <1>7, <1>8, <1>9, Zenon DEF Next

\* barrier and open_current: the family of segment files, with its buffer, its durability thread,
\* its rotations and the crashes between their steps, implements DurableLog, so no crash loses a
\* record that a completed barrier covered.
THEOREM WalImplementsDurableLog ==
  ASSUME FsyncNames
  PROVE  Spec => ImplementsDurableLog
<1>1. Init => Durable!LogInit
  BY DEF Init, Durable!LogInit
<1>2. WalInv /\ [Next]_vars => [Durable!LogNext]_(Durable!logVars)
  BY StepRefines
<1>3. QED
  BY <1>1, <1>2, WalInvariant, PTL DEF Spec, ImplementsDurableLog, Durable!LogSpec

-----------------------------------------------------------------------------
(* What DurableLog promises, and Wal with it. *)

\* A record a barrier has settled keeps its position and its value in every
\* step: appends, crashes, decay and reopening only touch what is behind it.
SettledIsKept ==
  /\ settled' >= settled
  /\ Len(hist') >= settled
  /\ \A i \in 1..settled : hist'[i] = hist[i]

\* The abstract log stays a sequence of records and its settled prefix stays inside it.
THEOREM LogTypeCorrect == Durable!LogSpec => []Durable!LogTypeOK
<1>1. Durable!LogInit => Durable!LogTypeOK
  BY DEF Durable!LogInit, Durable!LogTypeOK
<1>2. Durable!LogTypeOK /\ [Durable!LogNext]_(Durable!logVars) => Durable!LogTypeOK'
  <2> SUFFICES ASSUME Durable!LogTypeOK, [Durable!LogNext]_(Durable!logVars) PROVE Durable!LogTypeOK'
    OBVIOUS
  <2> USE DEF Durable!LogTypeOK
  <2>1. ASSUME NEW r \in 1..MaxRecords, Durable!LogAppend(r) PROVE Durable!LogTypeOK'
    BY <2>1 DEF Durable!LogAppend
  <2>2. ASSUME NEW n \in 0..Len(hist), Durable!LogSettle(n) PROVE Durable!LogTypeOK'
    BY <2>2 DEF Durable!LogSettle
  <2>3. ASSUME NEW n \in 0..Len(hist), Durable!LogCrash(n) PROVE Durable!LogTypeOK'
    <3>1. n \in settled..Len(hist) /\ hist' = SubSeq(hist, 1, n) /\ settled' = settled
      BY <2>3 DEF Durable!LogCrash
    <3>2. hist' \in Seq(1..MaxRecords) /\ Len(hist') = n
      BY <3>1, PrefixFacts, Zenon
    <3>3. mode' \in {"open", "down", "refused"}
      BY <2>3 DEF Durable!LogCrash
    <3>4. QED
      BY <3>1, <3>2, <3>3
  <2>4. ASSUME NEW n \in 0..Len(hist), Durable!LogDecay(n) PROVE Durable!LogTypeOK'
    <3>1. n \in settled..Len(hist) /\ hist' = SubSeq(hist, 1, n) /\ settled' = settled
      BY <2>4, Zenon DEF Durable!LogDecay
    <3>2. hist' \in Seq(1..MaxRecords) /\ Len(hist') = n
      BY <3>1, PrefixFacts, Zenon
    <3>3. mode' \in {"open", "down", "refused"}
      BY <2>4 DEF Durable!LogDecay
    <3>4. QED
      BY <3>1, <3>2, <3>3
  <2>5. CASE Durable!LogOpen
    BY <2>5 DEF Durable!LogOpen
  <2>6. CASE UNCHANGED Durable!logVars
    BY <2>6 DEF Durable!logVars
  <2>7. QED
    BY <2>1, <2>2, <2>3, <2>4, <2>5, <2>6, Zenon DEF Durable!LogNext
<1>3. QED
  BY <1>1, <1>2, PTL DEF Durable!LogSpec

\* No step of the abstract log takes back what a barrier promised.
THEOREM SettledNeverLost == Durable!LogSpec => [][SettledIsKept]_<<hist, settled, mode>>
<1>1. Durable!LogTypeOK /\ [Durable!LogNext]_(Durable!logVars) => [SettledIsKept]_<<hist, settled, mode>>
  <2> SUFFICES ASSUME Durable!LogTypeOK, Durable!LogNext PROVE SettledIsKept
    BY DEF Durable!logVars
  <2> USE DEF Durable!LogTypeOK, SettledIsKept
  <2>1. ASSUME NEW r \in 1..MaxRecords, Durable!LogAppend(r) PROVE SettledIsKept
    BY <2>1 DEF Durable!LogAppend
  <2>2. ASSUME NEW n \in 0..Len(hist), Durable!LogSettle(n) PROVE SettledIsKept
    BY <2>2 DEF Durable!LogSettle
  <2>3. ASSUME NEW n \in 0..Len(hist), Durable!LogCrash(n) PROVE SettledIsKept
    BY <2>3 DEF Durable!LogCrash
  <2>4. ASSUME NEW n \in 0..Len(hist), Durable!LogDecay(n) PROVE SettledIsKept
    BY <2>4 DEF Durable!LogDecay
  <2>5. CASE Durable!LogOpen
    BY <2>5 DEF Durable!LogOpen
  <2>6. QED
    BY <2>1, <2>2, <2>3, <2>4, <2>5 DEF Durable!LogNext
<1>2. QED
  BY <1>1, LogTypeCorrect, PTL DEF Durable!LogSpec

\* barrier, across any number of crashes and rotations: a record a completed barrier covered keeps
\* its position and its value in the history the engine's state is made of.
THEOREM SettledRecordsSurvive ==
  ASSUME FsyncNames
  PROVE  Spec => [][SettledIsKept]_<<hist, settled, mode>>
<1>1. Spec => Durable!LogSpec
  BY WalImplementsDurableLog DEF ImplementsDurableLog
<1>2. QED
  BY <1>1, SettledNeverLost, PTL
=============================================================================
