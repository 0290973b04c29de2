--------------------------- MODULE OrderIdsProofs ---------------------------
(***************************************************************************)
(* No client order id is used for two orders, for any clock, any number of *)
(* restarts and any counter limit.  The invariant follows an epoch from    *)
(* the moment it is chosen to the moment the disk holds it: what the       *)
(* process can still send is covered by the records in front of it in the  *)
(* tail of the log, and what it has sent is covered by the disk.           *)
(***************************************************************************)
EXTENDS OrderIds, TLAPS

\* An id minted no later than counter n of epoch e.
NoLater(id, e, n) == id.epoch < e \/ (id.epoch = e /\ id.n <= n)

\* The disk remembers an epoch at least e.
OnDisk(e) == \E p \in Persisted(replay) : e <= p

\* The tail remembers one in front of position i.
InTail(e, i) == \E j \in DOMAIN tail : j < i /\ tail[j].kind = "epoch" /\ e <= tail[j].stamp

Logged == UNION {r.ids : r \in replay}

\* The disk covers the ids it holds records of as well as those the venue was given.
Covered == \A id \in wire \cup Logged : \E e \in PriorEpochs : id.epoch <= e

Inv ==
  /\ TypeOK
  /\ MintedIdsAreNew
  /\ Covered
  /\ mode = "down" => tail = << >> /\ staged = {}
  /\ mode = "booting" =>
       /\ tail = <<EpochRecord(epoch)>> /\ staged = {} /\ counter = 0
       /\ \A id \in wire \cup Logged \cup owned : id.epoch < epoch
  /\ mode = "up" =>
       /\ Persisted(replay) # {}
       /\ \A id \in wire \cup staged : NoLater(id, epoch, counter)
       /\ \A id \in owned : NoLater(id, epoch, counter)
       /\ OnDisk(epoch) \/ InTail(epoch, Len(tail) + 1)
       /\ \A i \in DOMAIN tail :
            \/ tail[i].kind = "epoch" /\ tail[i].ids = {}
            \/ \E id \in Ids : tail[i] = SentRecord(id) /\ (OnDisk(id.epoch) \/ InTail(id.epoch, i))

-----------------------------------------------------------------------------
(* Epoch arithmetic. *)

\* Rounding to the second goes down by less than a second and not below zero.
LEMMA FloorFacts ==
  ASSUME NEW t \in Int
  PROVE  /\ Floor(t) \in Int /\ Floor(t) <= t /\ t < Floor(t) + Second
         /\ t >= 0 => Floor(t) >= 0
<1>1. Second \in Nat /\ Second > 0
  BY OrderIdsAssumption
<1>2. t % Second \in 0..(Second - 1)
  BY <1>1
<1>3. t >= 0 => t % Second <= t
  BY <1>1, SMT
<1> QED
  BY <1>1, <1>2, <1>3 DEF Floor

\* An epoch next_epoch returns is a legal one, above the one before it.
LEMMA NextEpochFacts ==
  ASSUME NEW now \in WallClock, NEW prior \in Int, NEW e \in NextEpoch(now, prior)
  PROVE  e \in Epochs /\ prior < e
<1>1. now \in Int /\ now <= MaxEpoch /\ MaxEpoch \in Nat /\ Second \in Nat
  BY OrderIdsAssumption
<1>2. Floor(now) \in Int /\ Floor(now) <= MaxEpoch
  BY <1>1, FloorFacts
<1>3. Floor(prior) \in Int /\ prior < Floor(prior) + Second
  BY FloorFacts
<1> QED
  BY <1>1, <1>2, <1>3 DEF NextEpoch, Epochs

\* A boot's epoch is a legal one, above every epoch the disk names.
LEMMA BootEpochFacts ==
  ASSUME NEW now \in WallClock, NEW e \in BootEpoch(now), PriorEpochs \subseteq Int
  PROVE  e \in Epochs /\ \A p \in PriorEpochs : p < e
<1>1. CASE PriorEpochs = {}
  <2>1. e = Floor(now) /\ e >= 0
    BY <1>1 DEF BootEpoch, FirstEpoch
  <2>2. now \in Int /\ now <= MaxEpoch /\ MaxEpoch \in Nat
    BY OrderIdsAssumption
  <2>3. e \in Int /\ e <= now
    BY <2>1, <2>2, FloorFacts
  <2> QED
    BY <1>1, <2>1, <2>2, <2>3 DEF Epochs
<1>2. CASE PriorEpochs # {}
  <2>1. PICK p \in PriorEpochs : (\A s \in PriorEpochs : s <= p) /\ e \in NextEpoch(now, p)
    BY <1>2, Zenon DEF BootEpoch
  <2>2. p \in Int
    OBVIOUS
  <2>3. e \in Epochs /\ p < e
    BY <2>1, <2>2, NextEpochFacts
  <2> QED
    BY <2>1, <2>3 DEF Epochs
<1> QED
  BY <1>1, <1>2

\* The epochs the disk names, and those of the ids it names, are integers.
LEMMA PersistedTyped ==
  ASSUME NEW records \in SUBSET Records PROVE Persisted(records) \subseteq Int
BY DEF Persisted, Records

\* So are the epochs of the ids on the disk and at the venue ...
LEMMA IdsTyped ==
  ASSUME TypeOK PROVE \A id \in wire \cup Logged : id.epoch \in Int
<1>1. \A r \in replay : r.ids \subseteq Ids
  BY DEF TypeOK, Records
<1>2. Logged \subseteq Ids /\ wire \subseteq Ids
  BY <1>1 DEF Logged, TypeOK
<1> QED
  BY <1>2 DEF Ids, Epochs

\* ... and whatever the next boot compares them with.
LEMMA EpochsTyped ==
  ASSUME TypeOK PROVE PriorEpochs \subseteq Int /\ Persisted(replay) \subseteq Int
<1>1. \A r \in replay \cup archive : r.stamp \in Int /\ r.ids \subseteq Ids
  BY DEF TypeOK, Records
<1>2. \A id \in Ids : id.epoch \in Int
  BY DEF Ids, Epochs
<1>3. Persisted(replay) \subseteq Int
  BY <1>1 DEF Persisted
<1>4. Inferred(archive \cup replay) \subseteq Int
  BY <1>1, <1>2 DEF Inferred
<1> QED
  BY <1>3, <1>4 DEF PriorEpochs

-----------------------------------------------------------------------------
(* The initial states. *)

\* An empty log, or the log an older build left, satisfies the invariant.
LEMMA InitInv == Init => Inv
<1> SUFFICES ASSUME Init PROVE Inv
  OBVIOUS
<1>0. MaxEpoch \in Nat /\ WallClock \subseteq Int /\ \A t \in WallClock : t <= MaxEpoch
  BY OrderIdsAssumption
<1>1. CASE archive = {} /\ replay = {} /\ wire = {}
  BY <1>0, <1>1 DEF Init, Inv, TypeOK, MintedIdsAreNew, Covered, Logged, Epochs
<1>2. CASE ~(archive = {} /\ replay = {} /\ wire = {})
  <2>1. PICK w \in WallClock, rotated \in WallClock, k \in 0..MaxLegacy :
          /\ w >= 0
          /\ wire = {Id(Floor(w), n) : n \in 1..k}
          /\ \/ archive = LegacyLog(w, wire) /\ replay = archive
             \/ \E open \in SUBSET wire :
                  /\ replay = {OldBaseRecord(rotated, open)}
                  /\ archive = LegacyLog(w, wire) \cup replay
    BY <1>2 DEF Init
  <2>2. Floor(w) \in Epochs /\ Floor(w) <= w
    BY <1>0, <2>1, FloorFacts DEF Epochs
  <2>3. wire \subseteq Ids /\ \A id \in wire : id.epoch <= w
    BY <2>1, <2>2 DEF Id, Ids
  <2>4. LegacyLog(w, wire) \subseteq Records
    <3>1. BootRecord(w) \in Records
      BY <1>0 DEF BootRecord, Records
    <3>2. \A id \in wire : SentRecord(id) \in Records
      BY <2>3 DEF SentRecord, Records, Ids, Epochs
    <3> QED
      BY <3>1, <3>2 DEF LegacyLog
  <2>5. archive \subseteq Records /\ replay \subseteq Records
    <3>1. \A open \in SUBSET wire : OldBaseRecord(rotated, open) \in Records
      BY <1>0, <2>3 DEF OldBaseRecord, Records
    <3> QED
      BY <2>1, <2>4, <3>1
  <2>6. Persisted(replay) = {} /\ BootRecord(w) \in archive
    <3>0. \A r \in LegacyLog(w, wire) : r.kind \in {"boot", "sent"}
      BY DEF LegacyLog, BootRecord, SentRecord
    <3>a. \A open : OldBaseRecord(rotated, open).kind = "old base"
      BY DEF OldBaseRecord
    <3>1. \A r \in replay : r.kind \in {"boot", "sent", "old base"}
      BY <2>1, <3>0, <3>a
    <3>2. BootRecord(w) \in LegacyLog(w, wire)
      BY DEF LegacyLog
    <3>3. BootRecord(w) \in archive
      BY <2>1, <3>2, Zenon
    <3>4. Persisted(replay) = {}
      BY <3>1 DEF Persisted
    <3> QED
      BY <3>3, <3>4
  <2>7. w \in PriorEpochs
    BY <2>6 DEF PriorEpochs, Inferred, BootRecord
  <2>8. Logged \subseteq wire
    <3>1. \A r \in LegacyLog(w, wire) : r.ids \subseteq wire
      BY DEF LegacyLog, BootRecord, SentRecord
    <3>2. \A open : OldBaseRecord(rotated, open).ids = open
      BY DEF OldBaseRecord
    <3>3. \A r \in replay : r.ids \subseteq wire
      BY <2>1, <3>1, <3>2
    <3> QED
      BY <3>3 DEF Logged
  <2>9. Covered
    BY <2>3, <2>7, <2>8 DEF Covered
  <2> QED
    BY <1>0, <2>3, <2>5, <2>9 DEF Init, Inv, TypeOK, MintedIdsAreNew, Epochs
<1> QED
  BY <1>1, <1>2

-----------------------------------------------------------------------------
(* The steps. *)

\* What the disk learns it does not forget between rotations.
LEMMA DiskGrows ==
  ASSUME replay \subseteq replay'
  PROVE  /\ Persisted(replay) \subseteq Persisted(replay')
         /\ \A e : OnDisk(e) => OnDisk(e)'
BY DEF Persisted, OnDisk

\* A disk that remembers an epoch is a disk the next boot reads it from.
LEMMA PersistedIsPrior ==
  ASSUME Persisted(replay) # {} PROVE PriorEpochs = Persisted(replay)
BY DEF PriorEpochs

\* A boot's epoch is later than that of every id on the disk or at the venue.
LEMMA BootStep == ASSUME Inv, Boot PROVE Inv'
<1>1. PICK now \in WallClock :
        /\ mode = "down" /\ mode' = "booting" /\ epoch' \in BootEpoch(now)
        /\ tail' = <<EpochRecord(epoch')>>
        /\ counter' = 0 /\ owned' = UNION {r.ids : r \in replay} /\ boots' = boots + 1
        /\ UNCHANGED <<staged, replay, archive, wire>>
  BY DEF Boot
<1>2. TypeOK /\ PriorEpochs \subseteq Int
  BY EpochsTyped DEF Inv
<1>3. epoch' \in Epochs /\ \A p \in PriorEpochs : p < epoch'
  BY <1>1, <1>2, BootEpochFacts
<1>4. EpochRecord(epoch') \in Records
  BY <1>3 DEF EpochRecord, Records, Epochs
<1>5. owned' \subseteq Ids
  BY <1>1, <1>2 DEF TypeOK, Records
<1>6. TypeOK'
  BY <1>1, <1>2, <1>3, <1>4, <1>5 DEF TypeOK
<1>7. PriorEpochs' = PriorEpochs
  BY <1>1 DEF PriorEpochs, Persisted, Inferred
<1>8. Logged' = Logged /\ Covered'
  BY <1>1, <1>7 DEF Inv, Covered, Logged
<1>9. \A id \in wire \cup Logged : id.epoch < epoch'
  <2> TAKE id \in wire \cup Logged
  <2>1. PICK p \in PriorEpochs : id.epoch <= p
    BY DEF Inv, Covered
  <2>2. id.epoch \in Int
    BY <1>2, IdsTyped
  <2> QED
    BY <1>1, <1>2, <1>3, <2>1, <2>2 DEF Epochs
<1>10. staged = {}
  BY <1>1 DEF Inv
<1> QED
  BY <1>1, <1>6, <1>8, <1>9, <1>10 DEF Inv, MintedIdsAreNew, Logged

\* A barrier takes the epoch records to the disk with the orders behind them.
LEMMA BarrierStep == ASSUME Inv, Barrier PROVE Inv'
<1> DEFINE Flushed == {tail[i] : i \in DOMAIN tail}
<1>1. /\ mode # "down" /\ tail # << >> /\ replay' = replay \cup Flushed /\ tail' = << >> /\ mode' = "up"
      /\ UNCHANGED <<archive, epoch, counter, owned, staged, wire, boots>>
  BY DEF Barrier
<1>2. Flushed \subseteq Records
  BY DEF Inv, TypeOK
<1>3. TypeOK'
  BY <1>1, <1>2 DEF Inv, TypeOK
<1>4. replay \subseteq replay'
  BY <1>1
<1> HIDE DEF Flushed
<1>5. Persisted(replay') # {}
  <2>1. CASE mode = "booting"
    <3>1. EpochRecord(epoch) \in replay'
      BY <1>1, <2>1 DEF Inv, Flushed
    <3> QED
      BY <3>1 DEF Persisted, EpochRecord
  <2>2. CASE mode = "up"
    BY <1>4, <2>2, DiskGrows DEF Inv
  <2> QED
    BY <1>1, <2>1, <2>2, Zenon DEF Inv, TypeOK
<1>6. \A e, i : InTail(e, i) => OnDisk(e)'
  <2> SUFFICES ASSUME NEW e, NEW i, InTail(e, i) PROVE OnDisk(e)'
    OBVIOUS
  <2>1. PICK j \in DOMAIN tail : tail[j].kind = "epoch" /\ e <= tail[j].stamp
    BY DEF InTail
  <2>2. tail[j] \in replay'
    BY <1>1, <2>1 DEF Flushed
  <2>3. tail[j].stamp \in Persisted(replay')
    BY <2>1, <2>2 DEF Persisted
  <2> QED
    BY <2>1, <2>3 DEF OnDisk
<1>7. OnDisk(epoch)'
  <2>1. CASE mode = "booting"
    <3>1. EpochRecord(epoch) \in replay' /\ epoch \in Int
      BY <1>1, <2>1 DEF Inv, Flushed, TypeOK, Epochs
    <3>2. epoch \in Persisted(replay')
      BY <3>1 DEF Persisted, EpochRecord
    <3> QED
      BY <1>1, <3>1, <3>2 DEF OnDisk
  <2>2. CASE mode = "up"
    BY <1>1, <1>4, <1>6, <2>2, DiskGrows DEF Inv
  <2> QED
    BY <1>1, <2>1, <2>2 DEF Inv, TypeOK
<1>8. \A id \in wire \cup Logged : OnDisk(id.epoch)'
  <2> SUFFICES ASSUME NEW id \in wire \cup Logged PROVE OnDisk(id.epoch)'
    OBVIOUS
  <2>1. CASE mode = "up"
    <3>1. PriorEpochs = Persisted(replay)
      BY <2>1, PersistedIsPrior DEF Inv
    <3>2. OnDisk(id.epoch)
      BY <3>1 DEF Inv, Covered, OnDisk
    <3> QED
      BY <1>4, <3>2, DiskGrows
  <2>2. CASE mode = "booting"
    <3>1. id.epoch \in Int /\ epoch \in Int
      BY IdsTyped DEF Inv, TypeOK, Epochs
    <3>2. id.epoch < epoch
      BY <2>2 DEF Inv
    <3>3. PICK p \in Persisted(replay') : epoch <= p
      BY <1>1, <1>7 DEF OnDisk
    <3>4. p \in Int
      BY <1>3, PersistedTyped DEF TypeOK
    <3> QED
      BY <3>1, <3>2, <3>3, <3>4 DEF OnDisk
  <2> QED
    BY <1>1, <2>1, <2>2 DEF Inv, TypeOK
<1>9. \A id \in Logged' : OnDisk(id.epoch)'
  <2> SUFFICES ASSUME NEW id \in Logged', id \notin Logged PROVE OnDisk(id.epoch)'
    BY <1>8
  <2>1. PICK r \in replay' : id \in r.ids
    BY DEF Logged
  <2>2. r \in Flushed
    BY <1>1, <2>1 DEF Logged
  <2>3. PICK i \in DOMAIN tail : r = tail[i]
    BY <2>2 DEF Flushed
  <2>4. mode = "up"
    BY <1>1, <2>1, <2>3 DEF Inv, TypeOK, EpochRecord
  <2>5. PICK d \in Ids : tail[i] = SentRecord(d) /\ (OnDisk(d.epoch) \/ InTail(d.epoch, i))
    BY <2>1, <2>3, <2>4 DEF Inv
  <2>6. d = id
    BY <2>1, <2>3, <2>5 DEF SentRecord
  <2> QED
    BY <1>4, <1>6, <2>5, <2>6, DiskGrows
<1>10. Covered'
  <2>1. PriorEpochs' = Persisted(replay')
    BY <1>5 DEF PriorEpochs
  <2> QED
    BY <1>1, <1>8, <1>9, <2>1, Zenon DEF Covered, OnDisk
<1>11. \A id \in wire \cup staged : NoLater(id, epoch, counter)
  <2>1. CASE mode = "booting"
    BY <2>1 DEF Inv, NoLater
  <2>2. CASE mode = "up"
    BY <2>2 DEF Inv
  <2> QED
    BY <1>1, <2>1, <2>2 DEF Inv, TypeOK
<1>12. DOMAIN tail' = {}
  BY <1>1
<1>13. MintedIdsAreNew'
  BY <1>1 DEF Inv, MintedIdsAreNew
<1>14. \A id \in wire' \cup staged' : NoLater(id, epoch', counter')
  BY <1>1, <1>11
<1>15. \A id \in owned' : NoLater(id, epoch', counter')
  <2>1. CASE mode = "booting"
    BY <1>1, <2>1 DEF Inv, NoLater
  <2>2. CASE mode = "up"
    BY <1>1, <2>2 DEF Inv
  <2> QED
    BY <1>1, <2>1, <2>2 DEF Inv, TypeOK
<1> QED
  BY <1>1, <1>3, <1>5, <1>7, <1>10, <1>12, <1>13, <1>14, <1>15, Zenon DEF Inv

\* The steps that only count, mint, book or forget leave the disk alone.
LEMMA DiskUnchanged ==
  ASSUME Inv, UNCHANGED <<replay, archive, wire>>
  PROVE  Covered' /\ Persisted(replay') = Persisted(replay) /\ \A e : OnDisk(e) <=> OnDisk(e)'
BY DEF Inv, Covered, PriorEpochs, Persisted, Inferred, OnDisk, Logged

\* Minting takes the next counter, later than every id in use.
LEMMA MintStep == ASSUME Inv, Mint PROVE Inv'
<1>1. /\ mode = "up" /\ counter' = counter + 1
      /\ staged' = staged \cup ({Id(epoch, counter + 1)} \ owned)
      /\ UNCHANGED <<mode, epoch, owned, replay, archive, tail, wire, boots>>
  BY DEF Mint, MintPass
<1>2. epoch \in Int /\ counter \in Nat /\ wire \cup staged \subseteq Ids
  BY DEF Inv, TypeOK, Epochs
<1>3. Id(epoch, counter + 1) \in Ids /\ NoLater(Id(epoch, counter + 1), epoch, counter + 1)
  BY <1>2 DEF Inv, TypeOK, Id, Ids, NoLater
<1>4. TypeOK'
  BY <1>1, <1>2, <1>3 DEF Inv, TypeOK
<1>5. \A id \in wire \cup staged : NoLater(id, epoch, counter)
  BY <1>1 DEF Inv
<1>6. \A id \in wire \cup staged : NoLater(id, epoch, counter + 1) /\ id # Id(epoch, counter + 1)
  BY <1>2, <1>5 DEF NoLater, Id, Ids, Epochs
<1>7. MintedIdsAreNew'
  BY <1>1, <1>6 DEF Inv, MintedIdsAreNew
<1>8. Covered' /\ Persisted(replay') = Persisted(replay) /\ \A e : OnDisk(e) <=> OnDisk(e)'
  BY <1>1, DiskUnchanged
<1>9. \A id \in wire' \cup staged' : NoLater(id, epoch', counter')
  BY <1>1, <1>3, <1>6
<1>10. \A e, i : InTail(e, i) <=> InTail(e, i)'
  BY <1>1 DEF InTail
<1>11. \A id \in owned' : NoLater(id, epoch', counter')
  <2>1. owned \subseteq Ids /\ \A id \in owned : NoLater(id, epoch, counter)
    BY <1>1 DEF Inv, TypeOK
  <2>2. \A id \in owned : NoLater(id, epoch, counter + 1)
    BY <1>2, <2>1 DEF NoLater, Ids
  <2> QED
    BY <1>1, <2>2
<1> QED
  BY <1>1, <1>4, <1>7, <1>8, <1>9, <1>10, <1>11 DEF Inv

\* A longer tail remembers what the shorter one did.
LEMMA TailGrows ==
  ASSUME NEW r, tail \in Seq(Records), tail' = Append(tail, r)
  PROVE  /\ Len(tail') = Len(tail) + 1 /\ Len(tail) \in Nat
         /\ DOMAIN tail' = DOMAIN tail \cup {Len(tail')}
         /\ \A i \in DOMAIN tail : tail'[i] = tail[i]
         /\ tail'[Len(tail')] = r
         /\ \A e : \A i \in Int : InTail(e, i) => InTail(e, i)'
<1>1. /\ Len(tail') = Len(tail) + 1 /\ Len(tail) \in Nat
      /\ DOMAIN tail' = DOMAIN tail \cup {Len(tail')}
      /\ \A i \in DOMAIN tail : tail'[i] = tail[i]
      /\ tail'[Len(tail')] = r
  OBVIOUS
<1>2. \A e : \A i \in Int : InTail(e, i) => InTail(e, i)'
  BY <1>1 DEF InTail
<1> QED
  BY <1>1, <1>2

\* A record appended behind the current epoch's is covered by it.
LEMMA TailKept ==
  ASSUME Inv, mode = "up", NEW r, tail' = Append(tail, r), UNCHANGED replay
  PROVE  \A i \in DOMAIN tail :
            \/ tail'[i].kind = "epoch" /\ tail'[i].ids = {}
            \/ \E id \in Ids : tail'[i] = SentRecord(id) /\ (OnDisk(id.epoch)' \/ InTail(id.epoch, i)')
<1>1. tail \in Seq(Records)
  BY DEF Inv, TypeOK
<1>2. \A e : OnDisk(e) => OnDisk(e)'
  BY DEF OnDisk, Persisted
<1> TAKE i \in DOMAIN tail
<1>3. tail'[i] = tail[i] /\ i \in Int
  BY <1>1, TailGrows
<1>4. \A e : InTail(e, i) => InTail(e, i)'
  BY <1>1, <1>3, TailGrows
<1>5. \/ tail[i].kind = "epoch" /\ tail[i].ids = {}
      \/ \E id \in Ids : tail[i] = SentRecord(id) /\ (OnDisk(id.epoch) \/ InTail(id.epoch, i))
  BY DEF Inv
<1> QED
  BY <1>2, <1>3, <1>4, <1>5

\* A rollover's epoch is later than the one in use, and in the tail.
LEMMA MintNewEpochStep == ASSUME Inv, MintNewEpoch PROVE Inv'
<1>1. PICK now \in WallClock :
        /\ mode = "up" /\ epoch' \in NextEpoch(now, epoch)
        /\ tail' = Append(tail, EpochRecord(epoch')) /\ counter' = 0 + 1
        /\ staged' = staged \cup ({Id(epoch', 0 + 1)} \ owned)
        /\ UNCHANGED <<mode, owned, replay, archive, wire, boots>>
  BY DEF MintNewEpoch, MintPass
<1>2. epoch \in Int /\ wire \cup staged \subseteq Ids /\ tail \in Seq(Records)
  BY DEF Inv, TypeOK, Epochs
<1>3. epoch' \in Epochs /\ epoch < epoch'
  BY <1>1, <1>2, NextEpochFacts
<1>4. Id(epoch', 1) \in Ids /\ NoLater(Id(epoch', 1), epoch', 1)
  BY <1>3 DEF Id, Ids, NoLater, Epochs
<1>5. EpochRecord(epoch') \in Records
  BY <1>3 DEF EpochRecord, Records, Epochs
<1>6. TypeOK'
  BY <1>1, <1>2, <1>3, <1>4, <1>5 DEF Inv, TypeOK
<1>7. \A id \in wire \cup staged : NoLater(id, epoch', 1) /\ id # Id(epoch', 1)
  BY <1>1, <1>2, <1>3 DEF Inv, NoLater, Id, Ids, Epochs
<1>8. MintedIdsAreNew'
  BY <1>1, <1>7 DEF Inv, MintedIdsAreNew
<1>9. Covered' /\ Persisted(replay') = Persisted(replay)
  BY <1>1, DiskUnchanged
<1>10. \A id \in wire' \cup staged' : NoLater(id, epoch', counter')
  BY <1>1, <1>4, <1>7
<1>11. InTail(epoch, Len(tail) + 1)'
  BY <1>1, <1>2, <1>3, TailGrows DEF InTail, EpochRecord, Epochs
<1>12. tail'[Len(tail')].kind = "epoch" /\ tail'[Len(tail')].ids = {}
  BY <1>1, <1>2, TailGrows DEF EpochRecord
<1>13. DOMAIN tail' = DOMAIN tail \cup {Len(tail')}
  BY <1>1, <1>2, TailGrows
<1>14. \A i \in DOMAIN tail' :
            \/ tail'[i].kind = "epoch" /\ tail'[i].ids = {}
            \/ \E id \in Ids : tail'[i] = SentRecord(id) /\ (OnDisk(id.epoch)' \/ InTail(id.epoch, i)')
  BY <1>1, <1>12, <1>13, TailKept
<1>15. \A id \in owned' : NoLater(id, epoch', counter')
  BY <1>1, <1>2, <1>3 DEF Inv, TypeOK, NoLater, Ids, Epochs
<1> QED
  BY <1>1, <1>6, <1>8, <1>9, <1>10, <1>11, <1>14, <1>15 DEF Inv

\* An order's record goes behind the record of the epoch it was minted in.
LEMMA LogSentStep == ASSUME Inv, LogSent PROVE Inv'
<1>1. PICK id \in staged \ owned :
        /\ mode = "up" /\ tail' = Append(tail, SentRecord(id)) /\ owned' = owned \cup {id}
        /\ UNCHANGED <<mode, epoch, counter, staged, replay, archive, wire, boots>>
  BY DEF LogSent
<1>2. epoch \in Int /\ wire \cup staged \subseteq Ids /\ tail \in Seq(Records) /\ id \in Ids
  BY DEF Inv, TypeOK, Epochs
<1>3. SentRecord(id) \in Records
  <2>1. id.epoch \in Int /\ {id} \in SUBSET Ids
    BY <1>2 DEF Ids, Epochs
  <2> QED
    BY <2>1 DEF SentRecord, Records
<1>4. TypeOK'
  BY <1>1, <1>2, <1>3 DEF Inv, TypeOK
<1>5. MintedIdsAreNew'
  BY <1>1 DEF Inv, MintedIdsAreNew
<1>6. Covered' /\ Persisted(replay') = Persisted(replay) /\ \A e : OnDisk(e) <=> OnDisk(e)'
  BY <1>1, DiskUnchanged
<1>7. id.epoch \in Int /\ id.epoch <= epoch
  BY <1>1, <1>2 DEF Inv, NoLater, Ids, Epochs
<1>9. OnDisk(epoch) \/ InTail(epoch, Len(tail) + 1)
  BY <1>1 DEF Inv
<1>10. OnDisk(epoch)' \/ InTail(epoch, Len(tail) + 1)'
  <2>1. CASE OnDisk(epoch)
    BY <1>1, <1>6, <2>1
  <2>2. CASE InTail(epoch, Len(tail) + 1)
    <3>1. PICK j \in DOMAIN tail : tail[j].kind = "epoch" /\ epoch <= tail[j].stamp
      BY <2>2 DEF InTail
    <3>2. j \in DOMAIN tail' /\ tail'[j] = tail[j] /\ j < Len(tail') + 1
      BY <1>1, <1>2, TailGrows
    <3> QED
      BY <1>1, <3>1, <3>2 DEF InTail
  <2> QED
    BY <1>9, <2>1, <2>2
<1>11. OnDisk(id.epoch)' \/ InTail(id.epoch, Len(tail))'
  <2>1. CASE OnDisk(epoch)
    <3>1. PICK p \in Persisted(replay) : epoch <= p
      BY <2>1 DEF OnDisk
    <3>2. p \in Int
      BY EpochsTyped DEF Inv
    <3>3. OnDisk(id.epoch)
      BY <1>2, <1>7, <3>1, <3>2 DEF OnDisk
    <3> QED
      BY <1>6, <3>3
  <2>2. CASE InTail(epoch, Len(tail) + 1)
    <3>1. PICK j \in DOMAIN tail : tail[j].kind = "epoch" /\ epoch <= tail[j].stamp
      BY <2>2 DEF InTail
    <3>2. tail[j] \in Records
      BY <1>2
    <3>3. j \in DOMAIN tail' /\ tail'[j] = tail[j] /\ j < Len(tail')
      BY <1>1, <1>2, TailGrows
    <3>4. id.epoch <= tail[j].stamp
      <4>1. tail[j].stamp \in Int
        BY <3>2 DEF Records
      <4> QED
        BY <1>2, <1>7, <3>1, <4>1
    <3> QED
      BY <3>1, <3>3, <3>4 DEF InTail
  <2> QED
    BY <1>9, <2>1, <2>2
<1>12. DOMAIN tail' = DOMAIN tail \cup {Len(tail')} /\ tail'[Len(tail')] = SentRecord(id)
  BY <1>1, <1>2, TailGrows, SMTT(30)
<1>13. \A i \in DOMAIN tail' :
            \/ tail'[i].kind = "epoch" /\ tail'[i].ids = {}
            \/ \E d \in Ids : tail'[i] = SentRecord(d) /\ (OnDisk(d.epoch)' \/ InTail(d.epoch, i)')
  <2>1. \A i \in DOMAIN tail :
            \/ tail'[i].kind = "epoch" /\ tail'[i].ids = {}
            \/ \E d \in Ids : tail'[i] = SentRecord(d) /\ (OnDisk(d.epoch)' \/ InTail(d.epoch, i)')
    BY <1>1, TailKept
  <2> QED
    BY <1>2, <1>11, <1>12, <2>1, Zenon
<1>14. \A d \in wire' \cup staged' : NoLater(d, epoch', counter')
  BY <1>1 DEF Inv
<1>15. \A d \in owned' : NoLater(d, epoch', counter')
  BY <1>1 DEF Inv
<1> QED
  BY <1>1, <1>4, <1>5, <1>6, <1>10, <1>13, <1>14, <1>15 DEF Inv

\* An order leaves once its record, and so its epoch, is on the disk.
LEMMA SendStep == ASSUME Inv, Send PROVE Inv'
<1>1. PICK id \in staged :
        /\ mode = "up" /\ id \in Logged
        /\ staged' = staged \ {id} /\ wire' = wire \cup {id}
        /\ UNCHANGED <<mode, epoch, counter, owned, replay, archive, tail, boots>>
  BY SMTT(30) DEF Send, Logged
<1>2. TypeOK'
  BY <1>1 DEF Inv, TypeOK
<1>3. MintedIdsAreNew'
  BY <1>1 DEF Inv, MintedIdsAreNew
<1>4. PriorEpochs' = PriorEpochs /\ Logged' = Logged /\ Persisted(replay') = Persisted(replay)
  BY <1>1 DEF PriorEpochs, Persisted, Inferred, Logged
<1>5. Covered'
  BY <1>1, <1>4 DEF Inv, Covered
<1>6. \A e : OnDisk(e) <=> OnDisk(e)'
  BY <1>4 DEF OnDisk
<1>7. \A e, i : InTail(e, i) <=> InTail(e, i)'
  BY <1>1 DEF InTail
<1>8. \A d \in wire' \cup staged' : NoLater(d, epoch', counter')
  BY <1>1 DEF Inv
<1> QED
  BY <1>1, <1>2, <1>3, <1>4, <1>5, <1>6, <1>7, <1>8 DEF Inv

\* So is an order boot recovery sends: it is in the log, and no later than what is minted now.
LEMMA SendRestoredStep == ASSUME Inv, SendRestored PROVE Inv'
<1>1. PICK id \in owned :
        /\ mode = "up" /\ id \in Logged /\ id \notin staged /\ wire' = wire \cup {id}
        /\ UNCHANGED <<mode, epoch, counter, owned, staged, replay, archive, tail, boots>>
  BY DEF SendRestored, Logged
<1>2. TypeOK'
  BY <1>1 DEF Inv, TypeOK
<1>3. MintedIdsAreNew'
  BY <1>1 DEF Inv, MintedIdsAreNew
<1>4. PriorEpochs' = PriorEpochs /\ Logged' = Logged /\ Persisted(replay') = Persisted(replay)
  BY <1>1 DEF PriorEpochs, Persisted, Inferred, Logged
<1>5. Covered'
  BY <1>1, <1>4 DEF Inv, Covered
<1>6. \A e : OnDisk(e) <=> OnDisk(e)'
  BY <1>4 DEF OnDisk
<1>7. \A e, i : InTail(e, i) <=> InTail(e, i)'
  BY <1>1 DEF InTail
<1>8. \A d \in wire' \cup staged' : NoLater(d, epoch', counter')
  BY <1>1, Zenon DEF Inv
<1> QED
  BY <1>1, <1>2, <1>3, <1>4, <1>5, <1>6, <1>7, <1>8 DEF Inv

\* Books that forget, and a boot that fails, change nothing the ids depend on.
LEMMA ForgetStep == ASSUME Inv, Evict \/ BootFails \/ UNCHANGED vars PROVE Inv'
<1>1. /\ UNCHANGED <<mode, epoch, counter, staged, replay, archive, tail, wire>>
      /\ owned' \subseteq owned /\ boots' \in {boots, boots + 1}
  BY DEF Evict, BootFails, vars
<1>2. TypeOK'
  BY <1>1 DEF Inv, TypeOK
<1>3. Covered' /\ Persisted(replay') = Persisted(replay) /\ \A e : OnDisk(e) <=> OnDisk(e)'
  BY <1>1, DiskUnchanged
<1>4. \A e, i : InTail(e, i) <=> InTail(e, i)'
  BY <1>1 DEF InTail
<1>5. MintedIdsAreNew' /\ Logged' = Logged
  BY <1>1 DEF Inv, MintedIdsAreNew, Logged
<1> QED
  BY <1>1, <1>2, <1>3, <1>4, <1>5 DEF Inv

\* A base carries the epoch in use, no earlier than that of any id it drops.
LEMMA RotateStep == ASSUME Inv, Rotate PROVE Inv'
<1>1. /\ mode = "up" /\ tail = << >> /\ replay' = {BaseRecord(epoch, owned)}
      /\ UNCHANGED <<archive, mode, epoch, counter, owned, staged, tail, wire, boots>>
  BY DEF Rotate
<1>2. epoch \in Int /\ owned \subseteq Ids /\ wire \cup staged \subseteq Ids
  BY DEF Inv, TypeOK, Epochs
<1>3. BaseRecord(epoch, owned) \in Records
  BY <1>2 DEF BaseRecord, Records
<1>4. TypeOK'
  BY <1>1, <1>3 DEF Inv, TypeOK
<1>5. Persisted(replay') = {epoch} /\ Logged' = owned
  BY <1>1 DEF Persisted, Logged, BaseRecord
<1>6. PriorEpochs' = {epoch}
  BY <1>5 DEF PriorEpochs
<1>7. \A id \in wire \cup owned : id.epoch <= epoch
  <2>1. \A id \in wire : id.epoch <= epoch
    BY <1>1, <1>2 DEF Inv, NoLater, Ids, Epochs
  <2>2. \A id \in owned : id.epoch <= epoch
    BY <1>1, <1>2 DEF Inv, NoLater, Ids, Epochs
  <2> QED
    BY <2>1, <2>2
<1>8. Covered'
  BY <1>1, <1>5, <1>6, <1>7 DEF Covered
<1>9. OnDisk(epoch)'
  <2>1. epoch' = epoch
    BY <1>1
  <2>2. epoch <= epoch
    BY <1>2
  <2>3. epoch \in Persisted(replay')
    BY <1>5
  <2> QED
    BY <2>1, <2>2, <2>3 DEF OnDisk
<1>10. MintedIdsAreNew' /\ DOMAIN tail' = {}
  BY <1>1 DEF Inv, MintedIdsAreNew
<1> QED
  BY <1>1, <1>4, <1>5, <1>8, <1>9, <1>10, Zenon DEF Inv

\* Whatever prefix of the tail survives a crash covers the orders in it.
LEMMA CrashStep == ASSUME Inv, Crash PROVE Inv'
<1>1. PICK k \in 0..Len(tail) :
        /\ mode # "down" /\ replay' = replay \cup {tail[i] : i \in 1..k}
        /\ mode' = "down" /\ tail' = << >> /\ staged' = {} /\ owned' = {}
        /\ UNCHANGED <<archive, epoch, counter, wire, boots>>
  BY DEF Crash
<1>2. tail \in Seq(Records) /\ mode \in {"booting", "up"} /\ TypeOK
  BY <1>1 DEF Inv, TypeOK
<1> DEFINE Kept == {tail[i] : i \in 1..k}
<1>3. 1..k \subseteq DOMAIN tail /\ Kept \subseteq Records
  <2>1. Len(tail) \in Nat /\ DOMAIN tail = 1..Len(tail) /\ \A i \in DOMAIN tail : tail[i] \in Records
    BY <1>2
  <2>2. 1..k \subseteq DOMAIN tail
    BY <2>1
  <2> QED
    BY <2>1, <2>2
<1>4. TypeOK'
  BY <1>1, <1>2, <1>3 DEF TypeOK
<1>5. replay \subseteq replay'
  BY <1>1
<1>6. MintedIdsAreNew'
  BY <1>1 DEF MintedIdsAreNew
<1>7. CASE mode = "up"
  <2>1. PriorEpochs = Persisted(replay) /\ Persisted(replay) # {}
    BY <1>7, PersistedIsPrior DEF Inv
  <2>2. Persisted(replay) \subseteq Persisted(replay')
    BY <1>5, DiskGrows
  <2>3. PriorEpochs' = Persisted(replay')
    BY <2>1, <2>2 DEF PriorEpochs
  <2>4. \A id \in wire \cup Logged : \E e \in PriorEpochs' : id.epoch <= e
    BY <2>1, <2>2, <2>3 DEF Inv, Covered
  <2>5. \A id \in Logged' : \E e \in PriorEpochs' : id.epoch <= e
    <3> SUFFICES ASSUME NEW id \in Logged', id \notin Logged
                 PROVE  \E e \in PriorEpochs' : id.epoch <= e
      BY <2>4
    <3>1. PICK i \in 1..k : id \in tail[i].ids
      BY <1>1 DEF Logged
    <3>2. PICK d \in Ids : tail[i] = SentRecord(d) /\ (OnDisk(d.epoch) \/ InTail(d.epoch, i))
      BY <1>3, <1>7, <3>1 DEF Inv
    <3>3. d = id
      BY <3>1, <3>2 DEF SentRecord
    <3>4. CASE OnDisk(id.epoch)
      BY <2>2, <2>3, <3>4 DEF OnDisk
    <3>5. CASE InTail(id.epoch, i)
      <4>1. PICK j \in DOMAIN tail : j < i /\ tail[j].kind = "epoch" /\ id.epoch <= tail[j].stamp
        BY <3>5 DEF InTail
      <4>2. j \in 1..k
        BY <1>2, <3>1, <4>1
      <4>3. tail[j] \in replay'
        BY <1>1, <4>2
      <4>4. tail[j].stamp \in Persisted(replay')
        BY <4>1, <4>3 DEF Persisted
      <4> QED
        BY <2>3, <4>1, <4>4
    <3> QED
      BY <3>2, <3>3, <3>4, <3>5
  <2>6. Covered'
    BY <1>1, <2>4, <2>5 DEF Covered
  <2> QED
    BY <1>1, <1>4, <1>6, <2>6 DEF Inv
<1>8. CASE mode = "booting"
  <2>1. tail = <<EpochRecord(epoch)>> /\ \A id \in wire \cup Logged : id.epoch < epoch
    BY <1>8 DEF Inv
  <2>2. CASE k = 0
    <3>1. replay' = replay
      BY <1>1, <2>2
    <3>2. PriorEpochs' = PriorEpochs /\ Logged' = Logged
      BY <1>1, <3>1, Zenon DEF PriorEpochs, Persisted, Inferred, Logged
    <3>3. Covered'
      BY <1>1, <3>2 DEF Inv, Covered
    <3> QED
      BY <1>1, <1>4, <1>6, <3>3 DEF Inv
  <2>3. CASE k # 0
    <3>1. k = 1
      BY <1>2, <2>1, <2>3
    <3>2. replay' = replay \cup {EpochRecord(epoch)}
      BY <1>1, <2>1, <3>1
    <3>3. Logged' = Logged /\ epoch \in Persisted(replay')
      <4>1. EpochRecord(epoch) \in replay' /\ EpochRecord(epoch).kind = "epoch"
              /\ EpochRecord(epoch).stamp = epoch /\ EpochRecord(epoch).ids = {}
        BY <3>2 DEF EpochRecord
      <4>2. Logged' = Logged
        BY <3>2, <4>1 DEF Logged
      <4>3. epoch \in Persisted(replay')
        BY <4>1 DEF Persisted
      <4> QED
        BY <4>2, <4>3
    <3>4. epoch \in PriorEpochs'
      BY <3>3 DEF PriorEpochs
    <3>5. Covered'
      BY <1>1, <1>2, <2>1, <3>3, <3>4, IdsTyped DEF Covered, TypeOK, Epochs
    <3> QED
      BY <1>1, <1>4, <1>6, <3>5 DEF Inv
  <2> QED
    BY <2>2, <2>3
<1> QED
  BY <1>2, <1>7, <1>8

\* No id is minted that the venue has been given, and the disk is always ahead
\* of the venue, for every clock, counter limit and sequence of restarts.
THEOREM IdsNeverReused == Spec => [](TypeOK /\ MintedIdsAreNew /\ DiskCoversTheWire)
<1>1. Init => Inv
  BY InitInv
<1>2. Inv /\ [Next]_vars => Inv'
  BY BootStep, BarrierStep, MintStep, MintNewEpochStep, LogSentStep, SendStep, SendRestoredStep,
     ForgetStep, RotateStep, CrashStep DEF Next
<1>3. Inv => TypeOK /\ MintedIdsAreNew /\ DiskCoversTheWire
  BY DEF Inv, Covered, DiskCoversTheWire
<1> QED
  BY <1>1, <1>2, <1>3, PTL DEF Spec

\* The disk alone names an epoch at least as late as that of every id the venue holds.
THEOREM DiskStaysAhead == Spec => []DiskCoversTheWire
<1>1. QED
  BY IdsNeverReused, PTL
=============================================================================
