------------------------------ MODULE OrderIds ------------------------------
(***************************************************************************)
(* engine-core order_epoch.rs: client order ids.  An id is an epoch (a     *)
(* wall-clock second) and a counter.  A boot reserves an epoch above every *)
(* one the log remembers, writes it and waits for the disk; a counter that *)
(* runs out reserves the next epoch inside the run, this time without      *)
(* waiting.  The clock may jump backwards between any two reads, and the   *)
(* in-memory books forget finished orders, so the epoch alone keeps an id  *)
(* from being used for two orders.                                         *)
(***************************************************************************)
EXTENDS Integers, Sequences, FiniteSets

CONSTANTS Second,      \* clock ticks in a second (1000 in the code)
          WallClock,   \* what clock::wall_ms may read
          MaxCounter,  \* MAX_COUNTER
          MaxEpoch,    \* the largest epoch checked_add can produce
          MaxLegacy,   \* bound: ids an older build sent with no epoch record
          MaxStaged,   \* bound: ids minted and not sent
          MaxWire,     \* bound: ids sent in a behaviour
          MaxBoots     \* bound: starts of the engine

ASSUME OrderIdsAssumption ==
  /\ Second \in Nat \ {0} /\ WallClock \subseteq Int /\ \A t \in WallClock : t <= MaxEpoch
  /\ MaxCounter \in Nat \ {0} /\ MaxEpoch \in Nat
  /\ MaxLegacy \in Nat /\ MaxStaged \in Nat /\ MaxWire \in Nat /\ MaxBoots \in Nat

VARIABLES mode,     \* "down", "booting" (epoch written, not yet on disk), "up"
          epoch,    \* order_id_epoch_ms
          counter,  \* next_order_n
          owned,    \* ids in the order books and the registry
          staged,   \* ids minted and not handed to the venue
          replay,   \* records of the current segment, on disk
          archive,  \* records of the segments an older build rotated away
          tail,     \* records appended and not on disk
          wire,     \* ids the venue has been given
          boots

vars == <<mode, epoch, counter, owned, staged, replay, archive, tail, wire, boots>>

Id(e, n) == [epoch |-> e, n |-> n]
Floor(t) == t - (t % Second)

EpochRecord(e) == [kind |-> "epoch", stamp |-> e, ids |-> {}]
BootRecord(w) == [kind |-> "boot", stamp |-> w, ids |-> {}]
SentRecord(id) == [kind |-> "sent", stamp |-> id.epoch, ids |-> {id}]
BaseRecord(e, open) == [kind |-> "base", stamp |-> e, ids |-> open]
OldBaseRecord(w, open) == [kind |-> "old base", stamp |-> w, ids |-> open]

\* The records select_boot_epoch trusts on their own: epochs and the bases of this build.
Persisted(records) == {r.stamp : r \in {s \in records : s.kind \in {"epoch", "base"}}}

\* record_epoch: what an epoch can be inferred from when none was persisted.
Inferred(records) == {r.stamp : r \in records} \cup {id.epoch : id \in UNION {r.ids : r \in records}}

\* The epochs the next one must exceed.  A segment of this build starts from a base
\* with an epoch, so the archive is read only behind an older build's segments.
PriorEpochs == IF Persisted(replay) # {} THEN Persisted(replay) ELSE Inferred(archive \cup replay)

\* Mutant: a restart within the second reuses the epoch it finds.
NextEpochSameSecond(now, prior) ==
  {IF Floor(now) >= Floor(prior) THEN Floor(now) ELSE Floor(prior)}

\* next_epoch, as the set of its results: empty when it fails.
NextEpoch(now, prior) ==
  LET after == Floor(prior) + Second
      next == IF Floor(now) >= after THEN Floor(now) ELSE after
  IN {e \in {next} : e >= 0 /\ after <= MaxEpoch}

FirstEpoch(now) == {e \in {Floor(now)} : e >= 0}

\* select_boot_epoch
BootEpoch(now) ==
  IF PriorEpochs = {} THEN FirstEpoch(now)
  ELSE UNION {NextEpoch(now, p) : p \in {q \in PriorEpochs : \A s \in PriorEpochs : s <= q}}

\* The log an older build left: boots at known times and ids stamped with them.
LegacyLog(w, ids) == {BootRecord(w)} \cup {SentRecord(id) : id \in ids}

Init ==
  /\ mode = "down" /\ epoch = 0 /\ counter = 0 /\ boots = 0
  /\ owned = {} /\ staged = {} /\ tail = << >>
  /\ \/ archive = {} /\ replay = {} /\ wire = {}
     \/ \E w, rotated \in WallClock, k \in 0..MaxLegacy :
          /\ w >= 0
          /\ wire = {Id(Floor(w), n) : n \in 1..k}
          /\ \/ archive = LegacyLog(w, wire) /\ replay = archive
             \/ \E open \in SUBSET wire :
                  /\ replay = {OldBaseRecord(rotated, open)}
                  /\ archive = LegacyLog(w, wire) \cup replay

\* Engine::boot: the epoch is chosen and written; nothing is minted until it is on disk.
Boot ==
  /\ mode = "down" /\ boots < MaxBoots
  /\ boots' = boots + 1
  /\ \E now \in WallClock :
       /\ \E e \in BootEpoch(now) :
            /\ mode' = "booting" /\ epoch' = e
            /\ tail' = <<EpochRecord(e)>>
       /\ counter' = 0
       /\ owned' = UNION {r.ids : r \in replay}
  /\ UNCHANGED <<staged, replay, archive, wire>>

\* A clock before 1970 with nothing in the log, or epochs exhausted: the boot fails.
BootFails ==
  /\ mode = "down" /\ boots < MaxBoots
  /\ \E now \in WallClock : BootEpoch(now) = {}
  /\ boots' = boots + 1
  /\ UNCHANGED <<mode, epoch, counter, owned, staged, replay, archive, tail, wire>>

\* A barrier: everything appended is on disk; it is also how a boot ends.
Barrier ==
  /\ mode # "down" /\ tail # << >>
  /\ replay' = replay \cup {tail[i] : i \in DOMAIN tail}
  /\ tail' = << >>
  /\ mode' = "up"
  /\ UNCHANGED <<archive, epoch, counter, owned, staged, wire, boots>>

\* One pass of the minting loop in epoch e, after n ids: a name in use is skipped.
MintPass(e, n) ==
  /\ counter' = n + 1
  /\ staged' = staged \cup ({Id(e, n + 1)} \ owned)

Mint ==
  /\ mode = "up" /\ counter < MaxCounter /\ Cardinality(staged) < MaxStaged
  /\ MintPass(epoch, counter)
  /\ UNCHANGED <<mode, epoch, owned, replay, archive, tail, wire, boots>>

\* Mutant: a new epoch that the log is not told of.
MintUnlogged ==
  /\ mode = "up" /\ counter >= MaxCounter /\ Cardinality(staged) < MaxStaged
  /\ \E now \in WallClock : \E e \in NextEpoch(now, epoch) : epoch' = e /\ MintPass(e, 0)
  /\ UNCHANGED <<mode, owned, replay, archive, tail, wire, boots>>

\* The counter is spent: the next epoch is appended, without a barrier, and counting restarts.
MintNewEpoch ==
  /\ mode = "up" /\ counter >= MaxCounter /\ Cardinality(staged) < MaxStaged
  /\ \E now \in WallClock : \E e \in NextEpoch(now, epoch) :
       /\ epoch' = e
       /\ tail' = Append(tail, EpochRecord(e))
       /\ MintPass(e, 0)
  /\ UNCHANGED <<mode, owned, replay, archive, wire, boots>>

\* Order dispatch writes OrderSent and books the order ...
LogSent ==
  /\ mode = "up"
  /\ \E id \in staged \ owned :
       /\ tail' = Append(tail, SentRecord(id))
       /\ owned' = owned \cup {id}
  /\ UNCHANGED <<mode, epoch, counter, staged, replay, archive, wire, boots>>

\* ... and the order leaves only once that record is on disk.
Send ==
  /\ mode = "up" /\ Cardinality(wire) < MaxWire
  /\ \E id \in staged :
       /\ id \in UNION {r.ids : r \in replay}
       /\ staged' = staged \ {id}
       /\ wire' = wire \cup {id}
  /\ UNCHANGED <<mode, epoch, counter, owned, replay, archive, tail, boots>>

\* Boot recovery sends an order that an earlier run logged and did not send.
SendRestored ==
  /\ mode = "up" /\ Cardinality(wire) < MaxWire
  /\ \E id \in (owned \cap UNION {r.ids : r \in replay}) \ (staged \cup wire) : wire' = wire \cup {id}
  /\ UNCHANGED <<mode, epoch, counter, owned, staged, replay, archive, tail, boots>>

\* A finished order leaves the books and the registry.
Evict ==
  /\ mode = "up"
  /\ \E id \in owned \ staged : owned' = owned \ {id}
  /\ UNCHANGED <<mode, epoch, counter, staged, replay, archive, tail, wire, boots>>

\* Rotation: the new segment starts from a base with the epoch and the open orders.
Rotate ==
  /\ mode = "up" /\ tail = << >>
  /\ replay' = {BaseRecord(epoch, owned)}
  /\ UNCHANGED <<archive, mode, epoch, counter, owned, staged, tail, wire, boots>>

\* The process or the machine stops: a prefix of what was not synced survives.
Crash ==
  /\ mode # "down"
  /\ \E k \in 0..Len(tail) : replay' = replay \cup {tail[i] : i \in 1..k}
  /\ mode' = "down" /\ tail' = << >> /\ staged' = {} /\ owned' = {}
  /\ UNCHANGED <<archive, epoch, counter, wire, boots>>

Next == Boot \/ BootFails \/ Barrier \/ Mint \/ MintNewEpoch \/ LogSent \/ Send
        \/ SendRestored \/ Evict \/ Rotate \/ Crash

Spec == Init /\ [][Next]_vars

-----------------------------------------------------------------------------
(* Properties. *)

Epochs == {e \in Nat : e <= MaxEpoch}
Ids == [epoch : Epochs, n : Nat]
Records == [kind : {"epoch", "boot", "sent", "base", "old base"}, stamp : Int, ids : SUBSET Ids]

\* Every variable keeps the type the code declares for it.
TypeOK ==
  /\ mode \in {"down", "booting", "up"}
  /\ epoch \in Epochs /\ counter \in Nat /\ boots \in Nat
  /\ owned \subseteq Ids /\ staged \subseteq Ids /\ wire \subseteq Ids
  /\ replay \subseteq Records /\ archive \subseteq Records
  /\ tail \in Seq(Records)

\* An id minted for a new order is one the venue has never been given, whatever
\* the clock did, however often the engine crashed between a rollover and its
\* barrier, and whichever finished orders the books have forgotten.
MintedIdsAreNew == staged \cap wire = {}

\* At every instant the records on disk alone name an epoch at least as late as
\* that of every id the venue holds, so the next boot goes past them all: the
\* unsynced epoch of a rollover reaches the disk no later than the first order
\* that uses it.
DiskCoversTheWire == \A id \in wire : \E e \in PriorEpochs : id.epoch <= e

=============================================================================
