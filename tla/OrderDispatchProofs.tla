------------------------- MODULE OrderDispatchProofs ------------------------
(***************************************************************************)
(* The remaining steps (boot, other writes, durability, rotation, crash,   *)
(* answers, the send boundary and the venue) preserve the inductive        *)
(* invariant, and what follows from it.  Then what the engine may hand to  *)
(* the venue task, and when: the permission a queued opening stands under, *)
(* the openings of an earlier process, and leverage changes beside         *)
(* placements, each from an invariant of its own.  All of it for any set   *)
(* of orders, symbols and leverages, any batch size and any number of      *)
(* crashes and faults.                                                     *)
(***************************************************************************)
EXTENDS DispatchStepProofs

\* Boot takes one replayed order: ends it, attempts it or looks it up.
LEMMA BootRestoreInv ==
  ASSUME Inv, BootRestore PROVE Inv'
<1>1. PICK i \in boot :
        /\ boot' = boot \ {i}
        /\ \/ /\ mem[i].l = "done" \/ mem[i].d = "Queued"
              /\ logged' = LogsPairs(logged, <<i>>, EndRecord, CompletedRecord)
              /\ mem' = Ended(mem, {i})
              /\ Retire({i})
              /\ UNCHANGED <<write, lookup>>
           \/ /\ mem[i].l # "done" /\ mem[i].d = "Queued" /\ i \notin Opens
              /\ logged' = Logs(logged, <<i>>, "attempted")
              /\ write' = [kind |-> "Attempt", ids |-> {i}, mark |-> Len(logged) + 1,
                           synced |-> FALSE]
              /\ UNCHANGED <<mem, unresolved, recovered, lookup>>
           \/ /\ mem[i].l # "done" /\ mem[i].d = "Attempted"
              /\ lookup' = {[id |-> i, ans |-> "none"]}
              /\ UNCHANGED <<logged, mem, write, unresolved, recovered>>
  BY Zenon DEF BootRestore
<1>2. /\ WriteFree /\ ~Running
      /\ UNCHANGED <<admin, leverageAt, mayOpen, up, cmds, reply, venueVars, past, crashes, faults>>
  BY DEF BootRestore, Running
<1>3. i \in Ids /\ ~InCommand(i)
  BY DEF Inv, TypeOK, BootApart
<1>4. <<i>> \in Seq(Ids) /\ Lists(<<i>>, {i}) /\ Len(<<i>>) = 1
  BY <1>3, OneFacts
<1>5. SendOnce' /\ NoDuplicateRequest'
  BY <1>2 DEF Inv, SendOnce, NoDuplicateRequest, OnWire, venueVars
<1>6. CASE /\ mem[i].l = "done" \/ mem[i].d = "Queued"
           /\ logged' = LogsPairs(logged, <<i>>, EndRecord, CompletedRecord)
           /\ mem' = Ended(mem, {i})
           /\ Retire({i})
           /\ UNCHANGED <<write, lookup>>
  <2>1. mem[i].l # "none"
    BY <1>3, <1>6, MemFacts
  <2>2. Settles({i}, EndRecord) /\ mem' = SettledMem({i}, EndRecord)
    BY <1>3, <1>6, <2>1 DEF Settles, Settling, SettledMem, SettledState, EndRecord, Ended
  <2>3. /\ WriteKept /\ cmds \in SUBSET cmds /\ cmds' = cmds /\ {i} \in SUBSET Ids
        /\ UNCHANGED <<venueVars, mayOpen, up, past, crashes, faults>>
        /\ lookup' \subseteq lookup /\ boot' \subseteq boot
        /\ unresolved' \subseteq Ids /\ recovered' \subseteq Ids
        /\ admin' \subseteq [sym : Symbols, want : Leverages, orders : SUBSET Ids]
        /\ leverageAt' \in [Symbols -> Leverages \cup {NoLeverage}]
        /\ reply' \in [Ids -> {"none", "ack", "reject", "unsent", "lost"}]
    BY <1>1, <1>2, <1>3, <1>6 DEF Inv, TypeOK, WriteKept, Retire
  <2>4. logged' = LogsPairs(logged, <<i>>, EndRecord, CompletedRecord)
    BY <1>6
  <2>5. QED
    BY <1>4, <2>2, <2>3, <2>4, SettleInv, Zenon
<1>7. CASE /\ mem[i].d = "Queued"
           /\ logged' = Logs(logged, <<i>>, "attempted")
           /\ write' = [kind |-> "Attempt", ids |-> {i}, mark |-> Len(logged) + 1, synced |-> FALSE]
           /\ UNCHANGED <<mem, unresolved, recovered, lookup>>
  <2>1. /\ write = NoWrite /\ EndsIn(logged, mem) /\ Accepted(logged)
        /\ logged \in Seq(States) /\ Len(logged) >= 1 /\ Len(logged) \in Nat /\ mem \in States
    BY <1>2, FreeFacts
  <2>2. AllQueued(mem, {i}) /\ {i} \in SUBSET Ids /\ ~OnWire(i)
    BY <1>3, <1>7 DEF AllQueued, Inv, QueuedOffWire
  <2> DEFINE new == Logs(logged, <<i>>, "attempted")
  <2>3. /\ new \in Seq(States) /\ Len(new) = Len(logged) + Len(<<i>>)
        /\ \A j \in Ids : Final(new)[j] = IF j \in {i} THEN [mem[j] EXCEPT !.d = "Attempted"]
                                          ELSE mem[j]
        /\ Accepted(new)
        /\ \A k \in 1..Len(logged) : new[k] = logged[k]
        /\ \A j \in Ids \ {i}, k \in (Len(logged) + 1)..Len(new) : new[k][j] = mem[j]
    <3>1. PICK o \in Seq(Ids), S \in SUBSET Ids : o = <<i>> /\ S = {i}
      BY <1>4, <2>2, Zenon
    <3>2. Lists(o, S) /\ AllQueued(mem, S)
      BY <1>4, <2>2, <3>1
    <3> DEFINE log == Logs(logged, o, "attempted")
    <3>3. /\ log \in Seq(States) /\ Len(log) = Len(logged) + Len(o)
          /\ \A j \in Ids : Final(log)[j] = IF j \in S THEN [mem[j] EXCEPT !.d = "Attempted"]
                                            ELSE mem[j]
          /\ Accepted(log)
          /\ \A k \in 1..Len(logged) : log[k] = logged[k]
          /\ \A j \in Ids \ S, k \in (Len(logged) + 1)..Len(log) : log[k][j] = mem[j]
      BY <2>1, <3>2, AttemptLog
    <3> HIDE DEF log
    <3>4. log = new
      BY <3>1 DEF log
    <3>5. QED
      BY <3>1, <3>3, <3>4
  <2> HIDE DEF new
  <2>4. logged' = new /\ mem' = mem
    BY <1>7 DEF new
  <2>5. /\ write'.ids = {i} /\ write'.kind = "Attempt" /\ ~write'.synced
        /\ write'.mark = Len(logged) + 1
        /\ write' \in [kind : WriteKinds, ids : SUBSET Ids, mark : Nat, synced : BOOLEAN]
    BY <1>3, <1>7, <2>1 DEF WriteKinds
  <2>6. Wrote(logged, {i}, mem)
    <3>1. Len(new) = Len(logged) + 1 /\ Len(new) \in Nat
      BY <1>4, <2>1, <2>3
    <3>2. \A j \in Ids : Final(new)[j] = IF write'.kind = "Attempt" /\ j \in write'.ids
                                         THEN [mem[j] EXCEPT !.d = "Attempted"] ELSE mem[j]
      BY <2>3, <2>5
    <3>3. write'.mark \in 1..Len(new) /\ write'.mark = Len(new)
      BY <2>1, <2>5, <3>1
    <3>4. QED
      BY <2>1, <2>3, <2>4, <2>5, <3>1, <3>2, <3>3 DEF Wrote
  <2>7. Extends(logged, {i})
    BY <2>1 DEF Extends
  <2>8. /\ Wrote(logged, {i}, mem') /\ AllQueued(mem', {i}) /\ mem' \in States
        /\ \A j \in Ids \ {i} : mem'[j] = mem[j]
        /\ \A j \in {i} : ~OnWire(j) /\ ~InCommand(j)
        /\ UNCHANGED <<cmds, venueVars>>
    BY <1>2, <1>3, <2>1, <2>2, <2>4, <2>6
  <2>9. /\ MemTracksLog' /\ LogWellFormed' /\ WriteCovered' /\ WireCovered' /\ QueuedOffWire'
        /\ logged' \in Seq(States) /\ Len(logged') >= 1
        /\ write' \in [kind : WriteKinds, ids : SUBSET Ids, mark : Nat, synced : BOOLEAN]
    BY <1>2, <2>2, <2>7, <2>8, AttemptKeeps
  <2>10. TypeOK'
    BY <1>1, <1>2, <1>7, <2>8, <2>9, Zenon DEF Inv, TypeOK, venueVars
  <2>11. LookupSafe'
    BY <1>2, <1>7, Zenon DEF Inv, LookupSafe, OnWire, InCommand, venueVars
  <2>12. BootApart'
    BY <1>1, <1>2, <2>5 DEF Inv, BootApart, Running, InCommand
  <2>13. QED
    BY <1>5, <2>9, <2>10, <2>11, <2>12 DEF Inv
<1>8. CASE /\ mem[i].d = "Attempted" /\ lookup' = {[id |-> i, ans |-> "none"]}
           /\ UNCHANGED <<logged, mem, write, unresolved, recovered>>
  <2>1. TypeOK'
    BY <1>1, <1>2, <1>3, <1>8, SMTT(30) DEF Inv, TypeOK, venueVars
  <2>2. mem[i].l # "none"
    BY <1>3, <1>8, MemFacts
  <2>3. LookupSafe'
    BY <1>2, <1>3, <1>8, <2>2 DEF LookupSafe, InCommand, OnWire, venueVars
  <2>4. /\ MemTracksLog' /\ LogWellFormed' /\ WriteCovered' /\ WireCovered' /\ QueuedOffWire'
    BY <1>2, <1>8 DEF Inv, MemTracksLog, LogWellFormed, WriteCovered, WriteFree, WireCovered,
                      QueuedOffWire, Final, OnWire, InCommand, venueVars
  <2>5. BootApart'
    BY <1>1, <1>2, <1>8 DEF Inv, BootApart, Running, InCommand
  <2>6. QED
    BY <1>5, <2>1, <2>3, <2>4, <2>5 DEF Inv
<1>9. QED
  BY <1>1, <1>6, <1>7, <1>8

\* Another owner takes the durability wait, or gives it back.
LEMMA OtherInv ==
  ASSUME Inv, BeginOther \/ OnDurableOther PROVE Inv'
<1>1. UNCHANGED <<logged, mem, unresolved, recovered, lookup, admin, leverageAt, mayOpen, up,
                  boot, cmds, reply, venueVars, past, crashes, faults>>
  BY DEF BeginOther, OnDurableOther
<1>2. Len(logged) \in Nat /\ Len(logged) >= 1
  BY DEF Inv, TypeOK
<1>3. /\ write.kind # "Attempt" /\ write'.kind # "Attempt" /\ write'.ids = {}
      /\ write'.mark \in 1..Len(logged) /\ ~write'.synced
      /\ write'.kind = "none" => write' = NoWrite
      /\ write' \in [kind : WriteKinds, ids : SUBSET Ids, mark : Nat, synced : BOOLEAN]
  <2>1. CASE BeginOther
    BY <1>2, <2>1 DEF BeginOther, WriteFree, WriteKinds
  <2>2. CASE OnDurableOther
    <3>1. write' = NoWrite /\ write.kind = "Other"
      BY <2>2 DEF OnDurableOther
    <3>2. QED
      BY <1>2, <3>1 DEF WriteKinds, NoWrite
  <2>3. QED
    BY <2>1, <2>2
<1>4. TypeOK'
  BY <1>1, <1>3 DEF Inv, TypeOK, venueVars
<1>5. WriteCovered'
  BY <1>1, <1>3 DEF WriteCovered, WriteFree
<1>6. MemTracksLog'
  BY <1>1, <1>3 DEF Inv, MemTracksLog, Final
<1>7. LogWellFormed' /\ WireCovered' /\ QueuedOffWire' /\ LookupSafe' /\ SendOnce' /\ NoDuplicateRequest'
  BY <1>1 DEF Inv, LogWellFormed, WireCovered, QueuedOffWire, LookupSafe, SendOnce,
              NoDuplicateRequest, OnWire, InCommand, venueVars
<1>8. BootApart'
  BY <1>1, <1>3 DEF Inv, BootApart, Running, InCommand
<1>9. QED
  BY <1>4, <1>5, <1>6, <1>7, <1>8 DEF Inv

\* A completed barrier drops the states before its mark.
LEMMA SyncDoneInv ==
  ASSUME Inv, SyncDone PROVE Inv'
<1>1. /\ write.kind # "none" /\ logged' = SubSeq(logged, write.mark, Len(logged))
      /\ write' = [write EXCEPT !.synced = TRUE, !.mark = 1]
      /\ UNCHANGED <<mem, unresolved, recovered, lookup, admin, leverageAt, mayOpen, up, boot,
                     cmds, reply, venueVars, past, crashes, faults>>
  BY DEF SyncDone
<1>2. /\ logged \in Seq(States) /\ Len(logged) \in Nat /\ write.mark \in 1..Len(logged)
      /\ write \in [kind : WriteKinds, ids : SUBSET Ids, mark : Nat, synced : BOOLEAN]
  BY DEF Inv, TypeOK, WriteCovered
<1> DEFINE m == write.mark
<1>3. /\ logged' \in Seq(States) /\ Len(logged') = Len(logged) - m + 1
      /\ \A k \in 1..Len(logged') : logged'[k] = logged[k + m - 1]
  BY <1>1, <1>2
<1>4. /\ write'.kind = write.kind /\ write'.ids = write.ids /\ write'.mark = 1
      /\ write' \in [kind : WriteKinds, ids : SUBSET Ids, mark : Nat, synced : BOOLEAN]
  BY <1>1, <1>2, Zenon
<1> HIDE DEF m
<1>5. /\ Len(logged') \in Nat /\ Len(logged') >= 1
      /\ \A k \in 1..Len(logged') : k + m - 1 \in m..Len(logged) /\ k + m - 1 \in 1..Len(logged)
  BY <1>2, <1>3 DEF m
<1>6. Final(logged') = Final(logged)
  BY <1>2, <1>3, <1>5 DEF Final, m
<1>7. TypeOK'
  BY <1>1, <1>3, <1>4, <1>5 DEF Inv, TypeOK, venueVars
<1>8. MemTracksLog'
  BY <1>1, <1>4, <1>6 DEF Inv, MemTracksLog, Final
<1>9. LogWellFormed'
  BY <1>3, <1>5 DEF Inv, LogWellFormed
<1>10. WriteCovered'
  <2>1. ASSUME write.kind = "Attempt", NEW i \in write.ids
        PROVE  /\ mem[i].d \in {"Queued", "none"}
               /\ \A k \in 1..Len(logged') : Covered(logged'[k][i])
    BY <1>3, <1>5, <2>1, Zenon DEF Inv, WriteCovered, m
  <2>2. 1 \in 1..Len(logged')
    BY <1>5
  <2>3. QED
    BY <1>1, <1>4, <2>1, <2>2, Zenon DEF WriteCovered, WriteFree
<1>11. WireCovered'
  <2> SUFFICES ASSUME NEW i \in Ids, OnWire(i)' \/ InCommand(i)', NEW k \in 1..Len(logged')
               PROVE  Covered(logged'[k][i])
    BY DEF WireCovered
  <2>1. OnWire(i) \/ InCommand(i)
    BY <1>1 DEF OnWire, InCommand, venueVars
  <2>2. QED
    BY <2>1, <1>3, <1>5 DEF Inv, WireCovered
<1>12. QueuedOffWire' /\ LookupSafe' /\ SendOnce' /\ NoDuplicateRequest'
  BY <1>1 DEF Inv, QueuedOffWire, LookupSafe, SendOnce, NoDuplicateRequest, OnWire, InCommand, venueVars
<1>13. BootApart'
  BY <1>1, <1>4 DEF Inv, BootApart, Running, InCommand
<1>14. QED
  BY <1>7, <1>8, <1>9, <1>10, <1>11, <1>12, <1>13 DEF Inv

\* Rotation restates memory, which is the end of the log.
LEMMA RotateInv ==
  ASSUME Inv, Rotate PROVE Inv'
<1>1. /\ WriteFree /\ logged' = <<mem>>
      /\ UNCHANGED <<mem, write, unresolved, recovered, lookup, admin, leverageAt, mayOpen, up, boot,
                     cmds, reply, venueVars, past, crashes, faults>>
  BY DEF Rotate
<1>2. write = NoWrite /\ EndsIn(logged, mem) /\ mem \in States
  BY <1>1, FreeFacts
<1>3. /\ logged' \in Seq(States) /\ Len(logged') = 1 /\ logged'[1] = mem
      /\ \A k \in 1..Len(logged') : k = 1
  BY <1>1, <1>2
<1>4. TypeOK'
  BY <1>1, <1>3 DEF Inv, TypeOK, venueVars
<1>5. MemTracksLog'
  BY <1>1, <1>2, <1>3 DEF MemTracksLog, Final, NoWrite
<1>6. LogWellFormed'
  <2>1. \A i \in Ids : WellFormed(mem[i])
    BY <1>2, MemFacts DEF EndsIn
  <2>2. QED
    BY <1>3, <2>1 DEF LogWellFormed, WellFormed
<1>7. WriteCovered'
  BY <1>1, <1>2, <1>3 DEF WriteCovered, WriteFree, NoWrite
<1>8. WireCovered'
  <2> SUFFICES ASSUME NEW i \in Ids, OnWire(i)' \/ InCommand(i)', NEW k \in 1..Len(logged')
               PROVE  Covered(logged'[k][i])
    BY DEF WireCovered
  <2>1. OnWire(i) \/ InCommand(i)
    BY <1>1 DEF OnWire, InCommand, venueVars
  <2>2. QED
    BY <2>1, <1>2, <1>3, CoveredAtEnd DEF EndsIn
<1>9. QueuedOffWire' /\ LookupSafe' /\ SendOnce' /\ NoDuplicateRequest'
  BY <1>1 DEF Inv, QueuedOffWire, LookupSafe, SendOnce, NoDuplicateRequest, OnWire, InCommand, venueVars
<1>10. BootApart'
  BY <1>1 DEF Inv, BootApart, Running, InCommand
<1>11. QED
  BY <1>4, <1>5, <1>6, <1>7, <1>8, <1>9, <1>10 DEF Inv

\* A crash keeps a prefix of the log and nothing of memory.
LEMMA CrashInv ==
  ASSUME Inv, Crash PROVE Inv'
<1>1. PICK k \in 1..Len(logged) :
        /\ logged' = SubSeq(logged, 1, k) /\ mem' = logged[k]
        /\ LET open == {i \in Ids : logged[k][i].d # "none"}
           IN recovered' = Foreign(open) /\ boot' = open /\ past' = past \cup open
  BY Zenon DEF Crash
<1>2. /\ write' = NoWrite /\ unresolved' = {} /\ lookup' = {} /\ admin' = {}
      /\ leverageAt' = [s \in Symbols |-> NoLeverage] /\ mayOpen' \in BOOLEAN /\ up' = "boot"
      /\ cmds' = {} /\ reply' = [i \in Ids |-> "none"]
      /\ crashes < MaxCrashes /\ crashes' = crashes + 1 /\ UNCHANGED <<venueVars, faults>>
  BY DEF Crash
<1>3. logged \in Seq(States) /\ Len(logged) \in Nat
  BY DEF Inv, TypeOK
<1>4. /\ logged' \in Seq(States) /\ Len(logged') = k /\ k \in Nat /\ k >= 1
      /\ \A j \in 1..k : logged'[j] = logged[j]
      /\ mem' \in States /\ Final(logged') = mem'
  BY <1>1, <1>3 DEF Final
<1>5. \A j \in 1..Len(logged') : j \in 1..Len(logged) /\ logged'[j] = logged[j]
  BY <1>3, <1>4
<1>6. TypeOK'
  <2>1. crashes' \in 0..MaxCrashes
    BY <1>2, DispatchAssumption, SMTT(30) DEF Inv, TypeOK, DispatchAssumption
  <2>2. recovered' \subseteq Ids /\ boot' \subseteq Ids /\ past' \subseteq Ids
    BY <1>1, Zenon DEF Foreign, Inv, TypeOK
  <2>3. write' \in [kind : WriteKinds, ids : SUBSET Ids, mark : Nat, synced : BOOLEAN]
    BY <1>2 DEF NoWrite, WriteKinds
  <2>4. QED
    BY <1>2, <1>4, <2>1, <2>2, <2>3 DEF Inv, TypeOK, venueVars
<1>7. MemTracksLog'
  BY <1>2, <1>4 DEF MemTracksLog, Final, NoWrite
<1>8. LogWellFormed'
  BY <1>5 DEF Inv, LogWellFormed
<1>9. WriteCovered'
  BY <1>2, <1>4 DEF WriteCovered, WriteFree, NoWrite
<1>10. \A i \in Ids : ~InCommand(i)' /\ (OnWire(i)' <=> OnWire(i))
  BY <1>2 DEF InCommand, OnWire, venueVars
<1>11. WireCovered'
  BY <1>5, <1>10 DEF Inv, WireCovered
<1>12. QueuedOffWire'
  <2> SUFFICES ASSUME NEW i \in Ids, logged[k][i].d = "Queued" PROVE ~OnWire(i)
    BY <1>1, <1>10 DEF QueuedOffWire
  <2>1. ~Covered(logged[k][i])
    BY DEF Covered
  <2>2. QED
    BY <2>1 DEF Inv, WireCovered
<1>13. LookupSafe' /\ SendOnce' /\ NoDuplicateRequest'
  BY <1>2, Zenon DEF Inv, LookupSafe, SendOnce, NoDuplicateRequest, venueVars
<1>14. BootApart'
  BY <1>2, <1>6, <1>10 DEF BootApart, Running, NoWrite, TypeOK
<1>15. QED
  BY <1>6, <1>7, <1>8, <1>9, <1>11, <1>12, <1>13, <1>14 DEF Inv

\* A status answer settles its order, takes back its attempt, or only notes it.
LEMMA OnLookupInv ==
  ASSUME Inv, OnLookup PROVE Inv'
<1>1. PICK q \in lookup :
        \/ UNCHANGED <<logged, mem, unresolved, recovered, cmds>>
        \/ /\ mem[q.id].d # "none" /\ q.ans \in {"working", "terminal"}
           /\ logged' = LogsPairs(logged, <<q.id>>,
                          [j \in Ids |-> IF q.ans = "working" THEN "ack" ELSE "end"], CompletedRecord)
           /\ mem' = [mem EXCEPT ![q.id] = [d |-> "none", l |-> IF q.ans = "working" /\ mem[q.id].l # "done"
                                                                THEN "acked" ELSE "done"]]
           /\ Retire({q.id})
           /\ UNCHANGED cmds
        \/ /\ q.ans = "never"
           /\ IF mem[q.id].d = "Attempted"
              THEN /\ logged' = Logs(logged, <<q.id>>, "requeued")
                   /\ mem' = [mem EXCEPT ![q.id].d = "Queued"]
              ELSE UNCHANGED <<logged, mem>>
           /\ unresolved' = unresolved \ {q.id}
           /\ UNCHANGED <<recovered, cmds>>
        \/ /\ cmds' = Superseded(cmds) \/ cmds' = cmds
           /\ unresolved' = unresolved \cup {q.id}
           /\ UNCHANGED <<logged, mem, recovered>>
  BY Zenon DEF OnLookup, TakesBack
<1>2. /\ lookup' = {}
      /\ UNCHANGED <<write, admin, leverageAt, mayOpen, up, boot, reply, venueVars,
                     past, crashes, faults>>
  BY DEF OnLookup, FreeLane
<1>3. PICK i \in Ids : i = q.id
  BY DEF Inv, TypeOK
<1>4. /\ mem[i].d # "Queued" /\ mem[i].l # "none" /\ ~InCommand(i)
      /\ q.ans = "never" => ~OnWire(i)
  BY <1>3 DEF Inv, LookupSafe
<1>5. CASE /\ UNCHANGED <<logged, mem, recovered>>
           /\ cmds' = cmds \/ cmds' = Superseded(cmds)
           /\ unresolved' \in {unresolved, unresolved \ {i}, unresolved \cup {i}}
  <2>1. /\ cmds' \subseteq Commands /\ SendOnce' /\ NoNewCommand
    BY <1>2, <1>5, CommandsShrink
  <2>2. UNCHANGED <<logged, mem, write, venueVars>> /\ lookup' \subseteq lookup
    BY <1>2, <1>5
  <2>3. /\ MemTracksLog' /\ LogWellFormed' /\ WriteCovered' /\ WireCovered'
        /\ QueuedOffWire' /\ LookupSafe' /\ NoDuplicateRequest'
    BY <2>1, <2>2, QuietKeeps
  <2>4. TypeOK'
    BY <1>2, <1>5, <2>1, Zenon DEF Inv, TypeOK, Commands, venueVars
  <2>5. BootApart'
    BY <1>2, <2>1 DEF Inv, BootApart, Running, TypeOK, NoNewCommand
  <2>6. QED
    BY <2>1, <2>3, <2>4, <2>5 DEF Inv
<1>6. CASE /\ logged' = LogsPairs(logged, <<i>>,
                          [j \in Ids |-> IF q.ans = "working" THEN "ack" ELSE "end"], CompletedRecord)
           /\ mem' = [mem EXCEPT ![i] = [d |-> "none", l |-> IF q.ans = "working" /\ mem[i].l # "done"
                                                             THEN "acked" ELSE "done"]]
           /\ Retire({i}) /\ UNCHANGED cmds
  <2> DEFINE a == [j \in Ids |-> IF q.ans = "working" THEN "ack" ELSE "end"]
  <2>1. Settles({i}, a)
    BY <1>4 DEF Settles, Settling
  <2>2. mem' = SettledMem({i}, a)
    <3>1. mem \in [Ids -> OrderState]
      BY DEF Inv, TypeOK, States
    <3>2. SettledState(i, a) = [d |-> "none", l |-> IF q.ans = "working" /\ mem[i].l # "done"
                                                    THEN "acked" ELSE "done"]
      BY DEF SettledState
    <3>3. QED
      BY <1>6, <3>1, <3>2, Zenon DEF SettledMem
  <2>3. logged' = LogsPairs(logged, <<i>>, a, CompletedRecord)
    BY <1>6
  <2> HIDE DEF a
  <2>4. <<i>> \in Seq(Ids) /\ Lists(<<i>>, {i}) /\ {i} \in SUBSET Ids
    BY OneFacts
  <2>5. /\ WriteKept /\ cmds \in SUBSET cmds /\ cmds' = cmds
        /\ UNCHANGED <<venueVars, mayOpen, up, past, crashes, faults>>
        /\ lookup' \subseteq lookup /\ boot' \subseteq boot
        /\ unresolved' \subseteq Ids /\ recovered' \subseteq Ids
        /\ admin' \subseteq [sym : Symbols, want : Leverages, orders : SUBSET Ids]
        /\ leverageAt' \in [Symbols -> Leverages \cup {NoLeverage}]
        /\ reply' \in [Ids -> {"none", "ack", "reject", "unsent", "lost"}]
    BY <1>2, <1>6 DEF Inv, TypeOK, WriteKept, Retire
  <2>6. QED
    BY <2>1, <2>2, <2>3, <2>4, <2>5, SettleInv, Zenon
<1>7. CASE /\ q.ans = "never" /\ mem[i].d = "Attempted"
           /\ logged' = Logs(logged, <<i>>, "requeued")
           /\ mem' = [mem EXCEPT ![i].d = "Queued"]
           /\ unresolved' = unresolved \ {i} /\ UNCHANGED <<recovered, cmds>>
  <2>1. ~OnWire(i) /\ ~InCommand(i) /\ ~(write.kind = "Attempt" /\ i \in write.ids)
    BY <1>4, <1>7 DEF Inv, WriteCovered
  <2>2. /\ logged \in Seq(States) /\ Len(logged) >= 1 /\ Len(logged) \in Nat /\ mem \in [Ids -> OrderState]
        /\ <<i>> \in Seq(Ids) /\ Lists(<<i>>, {i}) /\ Len(<<i>>) = 1
    <3>1. mem \in States /\ logged \in Seq(States) /\ Len(logged) >= 1 /\ Len(logged) \in Nat
      BY DEF Inv, TypeOK
    <3>2. mem \in [Ids -> OrderState]
      BY <3>1 DEF States
    <3>3. QED
      BY <3>1, <3>2, OneFacts
  <2>3. Final(logged)[i] = mem[i] /\ mem[i] \in OrderState
    BY <1>7, <2>2, Zenon DEF Inv, MemTracksLog
  <2>4. /\ Replay(Final(logged)[i], "requeued") = [mem[i] EXCEPT !.d = "Queued"]
        /\ WellFormed([mem[i] EXCEPT !.d = "Queued"])
    BY <1>4, <1>7, <2>3 DEF Replay, ReplayPhase, ReplayRow, OrderState, WellFormed
  <2> DEFINE new == Logs(logged, <<i>>, "requeued")
  <2>5. /\ new \in Seq(States) /\ Len(new) = Len(logged) + 1
        /\ \A k \in 1..Len(logged) : new[k] = logged[k]
        /\ \A k \in (Len(logged) + 1)..Len(new), j \in Ids :
             \/ new[k][j] = Final(logged)[j]
             \/ j = i /\ new[k][j] = [mem[i] EXCEPT !.d = "Queued"]
        /\ \A j \in Ids : Final(new)[j] = IF j = i THEN [mem[i] EXCEPT !.d = "Queued"]
                                          ELSE Final(logged)[j]
    <3>1. PICK o \in Seq(Ids) : o = <<i>>
      BY <2>2, Zenon
    <3> DEFINE log == Logs(logged, o, "requeued")
    <3>2. /\ log \in Seq(States) /\ Len(log) = Len(logged) + Len(o)
          /\ \A k \in 1..Len(logged) : log[k] = logged[k]
          /\ \A k \in (Len(logged) + 1)..Len(log), j \in Ids :
               \/ log[k][j] = Final(logged)[j]
               \/ In(o, j) /\ log[k][j] = Replay(Final(logged)[j], "requeued")
          /\ \A j \in Ids : Final(log)[j] = IF In(o, j) THEN Replay(Final(logged)[j], "requeued")
                                            ELSE Final(logged)[j]
      <4>1. Recorded(logged, o, "requeued", log)
        BY <2>2, LogsFacts, Zenon
      <4> HIDE DEF log
      <4>2. QED
        BY <4>1, Zenon DEF Recorded
    <3> HIDE DEF log
    <3>3. log = new
      BY <3>1 DEF log
    <3>4. \A j \in Ids : In(o, j) <=> j = i
      BY <2>2, <3>1 DEF Lists
    <3>5. Len(o) = 1
      BY <2>2, <3>1
    <3> HIDE DEF new
    <3>6. QED
      BY <2>4, <3>2, <3>3, <3>4, <3>5
  <2> HIDE DEF new
  <2>6. logged' = new
    BY <1>7 DEF new
  <2>7. /\ \A j \in Ids : mem'[j] = IF j = i THEN [mem[i] EXCEPT !.d = "Queued"] ELSE mem[j]
        /\ mem' \in States /\ mem'[i].d = "Queued"
    BY <1>7, <2>2, <2>3, Zenon DEF States, OrderState, Phases
  <2>8. TypeOK'
    BY <1>2, <1>7, <2>2, <2>5, <2>6, <2>7 DEF Inv, TypeOK, venueVars
  <2>9. MemTracksLog'
    <3> SUFFICES ASSUME NEW j \in Ids
                 PROVE  Final(new)[j] =
                          IF write.kind = "Attempt" /\ j \in write.ids /\ mem'[j].d = "Queued"
                          THEN [mem'[j] EXCEPT !.d = "Attempted"] ELSE mem'[j]
      BY <1>2, <2>6, Zenon DEF MemTracksLog, Final
    <3>1. CASE j = i
      BY <3>1, <2>1, <2>5, <2>7
    <3>2. CASE j # i
      BY <3>2, <2>5, <2>7 DEF Inv, MemTracksLog
    <3>3. QED
      BY <3>1, <3>2
  <2>10. ASSUME NEW k \in 1..Len(new), NEW j \in Ids
         PROVE  /\ WellFormed(new[k][j])
                /\ j # i => new[k][j] = logged[IF k <= Len(logged) THEN k ELSE Len(logged)][j]
    <3>1. CASE k <= Len(logged)
      BY <3>1, <2>2, <2>5 DEF Inv, LogWellFormed, WellFormed
    <3>2. CASE k > Len(logged)
      <4>1. k \in (Len(logged) + 1)..Len(new)
        BY <3>2, <2>2, <2>5
      <4>2. WellFormed(Final(logged)[j])
        BY MemFacts
      <4>3. QED
        BY <3>2, <4>1, <4>2, <2>4, <2>5 DEF Final
    <3>3. QED
      BY <3>1, <3>2, <2>2, <2>5
  <2>11. LogWellFormed'
    BY <2>6, <2>10 DEF LogWellFormed, WellFormed
  <2>12. ASSUME NEW j \in Ids, j # i, NEW m \in 1..Len(logged),
                \A k \in m..Len(logged) : Covered(logged[k][j]), NEW k \in m..Len(new)
         PROVE  Covered(new[k][j])
    <3>1. /\ k \in 1..Len(new)
          /\ (IF k <= Len(logged) THEN k ELSE Len(logged)) \in m..Len(logged)
      BY <2>2, <2>5
    <3>2. QED
      BY <2>10, <2>12, <3>1
  <2>13. WriteCovered'
    <3>1. write.mark \in 1..Len(logged) /\ write.mark \in 1..Len(new) /\ write.ids \subseteq Ids
      BY <2>2, <2>5 DEF Inv, WriteCovered, TypeOK
    <3>2. ASSUME write.kind = "Attempt", NEW j \in write.ids
          PROVE  /\ mem'[j].d \in {"Queued", "none"}
                 /\ \A k \in write.mark..Len(new) : Covered(new[k][j])
      <4>1. j \in Ids /\ j # i
        BY <2>1, <3>1, <3>2
      <4>2. QED
        BY <3>1, <3>2, <4>1, <2>7, <2>12, Zenon DEF Inv, WriteCovered
    <3>3. QED
      BY <1>2, <2>6, <3>1, <3>2 DEF Inv, WriteCovered, WriteFree
  <2>14. \A j \in Ids : (OnWire(j)' <=> OnWire(j)) /\ (InCommand(j)' <=> InCommand(j))
    BY <1>2, <1>7 DEF OnWire, InCommand, venueVars
  <2>15. WireCovered'
    <3> SUFFICES ASSUME NEW j \in Ids, OnWire(j)' \/ InCommand(j)'
                 PROVE  \A k \in 1..Len(new) : Covered(new[k][j])
      BY <2>6 DEF WireCovered
    <3>1. j # i /\ \A k \in 1..Len(logged) : Covered(logged[k][j])
      BY <2>1, <2>14 DEF Inv, WireCovered
    <3>2. 1 \in 1..Len(logged)
      BY <2>2
    <3>3. QED
      BY <3>1, <3>2, <2>12
  <2>16. QueuedOffWire'
    BY <2>1, <2>7, <2>14 DEF Inv, QueuedOffWire
  <2>17. LookupSafe' /\ SendOnce' /\ NoDuplicateRequest' /\ BootApart'
    BY <1>2, <1>7 DEF Inv, LookupSafe, SendOnce, NoDuplicateRequest, BootApart, Running, OnWire, InCommand,
                      venueVars
  <2>18. QED
    BY <2>8, <2>9, <2>11, <2>13, <2>15, <2>16, <2>17 DEF Inv
<1>8. QED
  BY <1>1, <1>3, <1>5, <1>6, <1>7

\* The attempt is durable: what changed is refused, the rest is handed over.
LEMMA OnDurableAttemptInv ==
  ASSUME Inv, OnDurableAttempt PROVE Inv'
<1>1. /\ write.kind = "Attempt" /\ write.synced /\ write' = NoWrite
      /\ UNCHANGED <<lookup, admin, leverageAt, mayOpen, up, boot, reply, venueVars,
                     past, crashes, faults>>
  BY DEF OnDurableAttempt, BarrierDone
<1>2. PICK gone \in SUBSET Held :
        /\ \E o \in Orderings(gone) : logged' = LogsPairs(logged, o, EndRecord, CompletedRecord)
        /\ Retire(gone)
        /\ mem' = [i \in Ids |-> IF i \in Held \ gone THEN [mem[i] EXCEPT !.d = "Attempted"]
                                 ELSE Ended(mem, gone)[i]]
        /\ cmds' = IF Held \ gone = {} THEN cmds
                   ELSE cmds \cup {[ids |-> Held \ gone, stage |-> "queued",
                                    auth |-> IF Held \ gone \subseteq NetReduces THEN "none"
                                             ELSE "current"]}
  <2>1. PICK refused \in SUBSET Held :
          \/ /\ \E o \in Orderings(refused) : logged' = LogsPairs(logged, o, EndRecord, CompletedRecord)
             /\ mem' = [i \in Ids |-> IF i \in Held \ refused THEN [mem[i] EXCEPT !.d = "Attempted"]
                                      ELSE Ended(mem, refused)[i]]
             /\ cmds' = IF Held \ refused = {} THEN cmds
                        ELSE cmds \cup {[ids |-> Held \ refused, stage |-> "queued",
                                         auth |-> IF Held \ refused \subseteq NetReduces THEN "none"
                                                  ELSE "current"]}
             /\ Retire(refused)
          \/ /\ \E o \in Orderings(Held) : logged' = LogsPairs(logged, o, EndRecord, CompletedRecord)
             /\ mem' = Ended(mem, Held) /\ Retire(Held) /\ cmds' = cmds
    BY DEF OnDurableAttempt
  <2>2. CASE /\ \E o \in Orderings(Held) : logged' = LogsPairs(logged, o, EndRecord, CompletedRecord)
             /\ mem' = Ended(mem, Held) /\ Retire(Held) /\ cmds' = cmds
    <3>1. Held \ Held = {} /\ Held \in SUBSET Held
      OBVIOUS
    <3>2. mem' = [i \in Ids |-> IF i \in Held \ Held THEN [mem[i] EXCEPT !.d = "Attempted"]
                                ELSE Ended(mem, Held)[i]]
      BY <2>2, Zenon DEF Ended
    <3>3. QED
      BY <2>2, <3>1, <3>2
  <2>3. QED
    BY <2>1, <2>2
<1> DEFINE sent == Held \ gone
<1>3. /\ write.mark = 1 /\ write.ids \subseteq Ids
      /\ \A i \in write.ids : /\ mem[i].d \in {"Queued", "none"}
                              /\ \A k \in 1..Len(logged) : Covered(logged[k][i])
  BY <1>1, Zenon DEF Inv, WriteCovered, TypeOK
<1>4. /\ \A i \in Held : i \in Ids /\ i \in write.ids /\ mem[i].d = "Queued" /\ ~OnWire(i) /\ ~InCommand(i)
      /\ \A i \in write.ids : i \in Held \/ mem[i].d = "none"
  BY <1>3 DEF Held, Inv, QueuedOffWire
<1>5. gone \in SUBSET {i \in Ids : mem[i].d # "none"} /\ gone \in SUBSET Ids /\ sent \in SUBSET Ids
  BY <1>4
<1>6. Settles(gone, EndRecord)
  BY <1>5, EndSettles
<1>7. PICK o \in Orderings(gone) : logged' = LogsPairs(logged, o, EndRecord, CompletedRecord)
  BY <1>2
<1>8. o \in Seq(Ids) /\ Lists(o, gone)
  BY <1>5, OrderingFacts
<1> DEFINE new == LogsPairs(logged, o, EndRecord, CompletedRecord)
<1>9. /\ new \in Seq(States) /\ Len(new) >= Len(logged) /\ Len(new) \in Nat
      /\ \A i \in Ids : Final(new)[i] = IF i \in gone THEN SettledState(i, EndRecord)
                                        ELSE Final(logged)[i]
      /\ \A k \in 1..Len(new), i \in Ids : WellFormed(new[k][i])
      /\ \A i \in Ids, m \in 1..Len(logged) :
           (\A k \in m..Len(logged) : Covered(logged[k][i]))
             => \A k \in m..Len(new) : Covered(new[k][i])
  BY <1>5, <1>6, <1>8, SettleLog, Zenon
<1>10. logged' = new
  BY <1>7
<1> HIDE DEF new, sent
<1>11. Len(logged) \in Nat /\ Len(logged) >= 1 /\ 1 \in 1..Len(logged) /\ mem \in [Ids -> OrderState]
  <2>1. Len(logged) \in Nat /\ Len(logged) >= 1 /\ mem \in States
    BY DEF Inv, TypeOK
  <2>2. QED
    BY <2>1 DEF States
<1>12. \A i \in Ids : mem'[i] = IF i \in sent THEN [mem[i] EXCEPT !.d = "Attempted"]
                                ELSE IF i \in gone THEN [d |-> "none", l |-> "done"] ELSE mem[i]
  BY <1>2, <1>5 DEF Ended, sent
<1>13. \A i \in Ids : /\ i \in sent => mem'[i] \in OrderState /\ mem'[i].d = "Attempted" /\ mem'[i].l = mem[i].l
                      /\ i \in gone => mem'[i] \in OrderState /\ mem'[i].d = "none" /\ mem'[i].l = "done"
  <2> SUFFICES ASSUME NEW i \in Ids
               PROVE  /\ i \in sent => mem'[i] \in OrderState /\ mem'[i].d = "Attempted" /\ mem'[i].l = mem[i].l
                      /\ i \in gone => mem'[i] \in OrderState /\ mem'[i].d = "none" /\ mem'[i].l = "done"
    OBVIOUS
  <2>1. mem[i] \in OrderState
    BY <1>11
  <2>2. CASE i \in sent
    <3>1. i \notin gone /\ mem'[i] = [mem[i] EXCEPT !.d = "Attempted"]
      BY <2>2, <1>12 DEF sent
    <3>2. QED
      BY <2>1, <3>1 DEF OrderState, Phases
  <2>3. CASE i \notin sent
    <3>1. [d |-> "none", l |-> "done"] \in OrderState
      BY DEF OrderState, Phases, Rows
    <3>2. i \in gone => mem'[i] = [d |-> "none", l |-> "done"]
      BY <2>3, <1>12, Zenon
    <3>3. QED
      BY <2>3, <3>1, <3>2
  <2>4. QED
    BY <2>2, <2>3
<1>14. mem' \in States
  <2>1. \A i \in Ids : mem'[i] \in OrderState
    BY <1>11, <1>12, <1>13, Zenon
  <2>2. mem' = [i \in Ids |-> mem'[i]]
    BY <1>2
  <2>3. QED
    BY <2>1, <2>2 DEF States
<1>15. \A c \in cmds' : c \in cmds \/ (c.ids = sent /\ c \in Commands)
  <2> SUFFICES ASSUME NEW c \in cmds', c \notin cmds PROVE c.ids = sent /\ c \in Commands
    OBVIOUS
  <2>1. PICK auth \in {"none", "current"} : c = [ids |-> sent, stage |-> "queued", auth |-> auth]
    BY <1>2 DEF sent
  <2>2. sent \in SUBSET Ids
    BY <1>5 DEF sent
  <2>3. QED
    BY <2>1, <2>2 DEF Commands
<1>16. \A i \in Ids : (OnWire(i)' <=> OnWire(i)) /\ (InCommand(i)' => InCommand(i) \/ i \in sent)
  BY <1>1, <1>15 DEF OnWire, InCommand, venueVars
<1>17. MemTracksLog'
  <2> SUFFICES ASSUME NEW i \in Ids PROVE Final(new)[i] = mem'[i]
    BY <1>1, <1>10 DEF MemTracksLog, NoWrite, Final
  <2>1. CASE i \in gone
    <3>1. SettledState(i, EndRecord) = [d |-> "none", l |-> "done"]
      BY DEF SettledState, EndRecord
    <3>2. i \notin sent
      BY <2>1 DEF sent
    <3>3. QED
      BY <2>1, <3>1, <3>2, <1>9, <1>12, Zenon
  <2>2. CASE i \notin gone
    <3>1. i \in sent <=> i \in write.ids /\ mem[i].d = "Queued"
      BY <2>2, <1>4 DEF sent
    <3>2. QED
      BY <2>2, <3>1, <1>1, <1>9, <1>12, Zenon DEF Inv, MemTracksLog
  <2>3. QED
    BY <2>1, <2>2
<1>18. LogWellFormed'
  BY <1>9, <1>10, Zenon DEF LogWellFormed, WellFormed
<1>19. WriteCovered'
  BY <1>1, <1>9, <1>10, <1>11, SMTT(30) DEF WriteCovered, WriteFree, NoWrite
<1>20. WireCovered'
  <2> SUFFICES ASSUME NEW i \in Ids, OnWire(i)' \/ InCommand(i)'
               PROVE  \A k \in 1..Len(new) : Covered(new[k][i])
    BY <1>10, Zenon DEF WireCovered
  <2>1. \A k \in 1..Len(logged) : Covered(logged[k][i])
    BY <1>3, <1>4, <1>16, Zenon DEF Inv, WireCovered, sent
  <2>2. QED
    BY <2>1, <1>9, <1>11
<1>21. QueuedOffWire'
  <2> SUFFICES ASSUME NEW i \in Ids, mem'[i].d = "Queued" PROVE ~OnWire(i)' /\ ~InCommand(i)'
    BY DEF QueuedOffWire
  <2>1. i \notin sent /\ mem[i].d = "Queued"
    BY <1>12, <1>13, Zenon
  <2>2. QED
    BY <2>1, <1>16, Zenon DEF Inv, QueuedOffWire
<1>22. LookupSafe'
  <2> SUFFICES ASSUME NEW q \in lookup
               PROVE  /\ mem'[q.id].d # "Queued" /\ mem'[q.id].l # "none"
                      /\ ~InCommand(q.id)'
                      /\ q.ans = "never" => ~OnWire(q.id)'
    BY <1>1 DEF LookupSafe
  <2>1. PICK i \in Ids : i = q.id
    BY DEF Inv, TypeOK
  <2>2. /\ mem[i].d # "Queued" /\ mem[i].l # "none" /\ ~InCommand(i)
        /\ q.ans = "never" => ~OnWire(i)
    BY <2>1 DEF Inv, LookupSafe
  <2>3. i \notin sent /\ i \notin gone
    BY <2>2, <1>4 DEF sent
  <2>4. /\ mem'[i].d # "Queued" /\ mem'[i].l # "none" /\ ~InCommand(i)'
        /\ q.ans = "never" => ~OnWire(i)'
    BY <2>2, <2>3, <1>12, <1>16, Zenon
  <2>5. QED
    BY <2>1, <2>4 DEF InCommand, OnWire
<1>23. SendOnce'
  <2>1. \A c \in cmds : c.ids \cap sent = {}
    BY <1>4 DEF sent, InCommand
  <2>2. \A b, c \in cmds' : b # c => b.ids \cap c.ids = {}
    <3>1. ASSUME NEW b \in cmds', NEW c \in cmds', b # c, b \notin cmds, c \notin cmds
          PROVE  FALSE
      BY <1>2, <3>1, Zenon
    <3>2. QED
      BY <1>15, <2>1, <3>1 DEF Inv, SendOnce
  <2>3. \A c \in cmds' : c.stage = "queued" => \A i \in c.ids : ~OnWire(i)
    BY <1>4, <1>15 DEF Inv, SendOnce, sent
  <2>4. QED
    BY <1>1, <2>2, <2>3 DEF SendOnce, OnWire, venueVars
<1>24. TypeOK'
  <2>1. cmds' \subseteq Commands
    BY <1>15, Zenon DEF Inv, TypeOK, Commands
  <2>2. write' \in [kind : WriteKinds, ids : SUBSET Ids, mark : Nat, synced : BOOLEAN]
    BY <1>1 DEF NoWrite, WriteKinds
  <2>3. unresolved' \subseteq Ids /\ recovered' \subseteq Ids
    BY <1>2, Zenon DEF Inv, TypeOK, Retire
  <2>4. logged' \in Seq(States) /\ Len(logged') >= 1
    BY <1>9, <1>10, <1>11, SMTT(30)
  <2>5. QED
    BY <1>1, <1>14, <2>1, <2>2, <2>3, <2>4, Zenon DEF Inv, TypeOK, Commands, venueVars
<1>25. BootApart'
  <2>1. \A i \in boot : i \in Ids /\ i \notin sent
    BY <1>4, Zenon DEF Inv, BootApart, TypeOK, sent
  <2>2. QED
    BY <2>1, <1>1, <1>16, Zenon DEF Inv, BootApart, Running, NoWrite
<1>26. NoDuplicateRequest'
  BY <1>1 DEF Inv, NoDuplicateRequest, venueVars
<1>27. QED
  BY <1>17, <1>18, <1>19, <1>20, <1>21, <1>22, <1>23, <1>24, <1>25, <1>26 DEF Inv

\* The venue task sends a command nothing of which the venue has.
LEMMA VenueSendInv ==
  ASSUME Inv, VenueSend PROVE Inv'
<1>1. PICK c \in cmds : \E out \in SUBSET c.ids :
        /\ c.stage = "queued"
        /\ cmds' = (cmds \ {c}) \cup {[c EXCEPT !.stage = "sent"]}
        /\ travelling' = [i \in Ids |-> travelling[i] + IF i \in out THEN 1 ELSE 0]
        /\ reply' = [i \in Ids |-> IF i \in c.ids \ out THEN "unsent" ELSE reply[i]]
  BY DEF VenueSend
<1>2. PICK out \in SUBSET c.ids :
        /\ travelling' = [i \in Ids |-> travelling[i] + IF i \in out THEN 1 ELSE 0]
        /\ reply' = [i \in Ids |-> IF i \in c.ids \ out THEN "unsent" ELSE reply[i]]
  BY <1>1
<1>3. UNCHANGED <<logged, mem, write, unresolved, recovered, lookup, admin, leverageAt, mayOpen,
                  up, boot, venue, past, crashes, faults>>
  BY DEF VenueSend
<1>4. c \in Commands /\ cmds \subseteq Commands /\ travelling \in [Ids -> Nat]
  BY DEF Inv, TypeOK, Commands
<1>5. PICK sent : sent = [c EXCEPT !.stage = "sent"]
  BY Zenon
<1>6. sent \in Commands /\ sent.ids = c.ids /\ sent.stage = "sent" /\ cmds' = (cmds \ {c}) \cup {sent}
  BY <1>1, <1>4, <1>5 DEF Commands
<1>7. \A i \in out : i \in Ids /\ InCommand(i) /\ ~OnWire(i)
  BY <1>1, <1>4 DEF Inv, SendOnce, InCommand, Commands
<1>8. \A i \in Ids : InCommand(i)' <=> InCommand(i)
  BY <1>6 DEF InCommand
<1>9. \A i \in Ids : travelling'[i] \in Nat /\ travelling'[i] = travelling[i] + IF i \in out THEN 1 ELSE 0
  BY <1>2, <1>4
<1>10. \A i \in Ids : OnWire(i)' => OnWire(i) \/ i \in out
  BY <1>3, <1>4, <1>9 DEF OnWire
<1>11. TypeOK'
  <2>1. travelling' \in [Ids -> Nat]
    BY <1>2, <1>9
  <2>2. cmds' \subseteq Commands
    BY <1>4, <1>6, Zenon
  <2>3. reply' \in [Ids -> {"none", "ack", "reject", "unsent", "lost"}]
    BY <1>2 DEF Inv, TypeOK
  <2>4. QED
    BY <1>3, <2>1, <2>2, <2>3, Zenon DEF Inv, TypeOK, Commands
<1>12. MemTracksLog' /\ LogWellFormed' /\ WriteCovered'
  BY <1>3, Zenon DEF Inv, MemTracksLog, LogWellFormed, WriteCovered, WriteFree, Final
<1>13. WireCovered'
  BY <1>3, <1>7, <1>8, <1>10, Zenon DEF Inv, WireCovered
<1>14. QueuedOffWire'
  BY <1>3, <1>7, <1>8, <1>10, Zenon DEF Inv, QueuedOffWire
<1>15. LookupSafe'
  <2> SUFFICES ASSUME NEW q \in lookup
               PROVE  /\ mem[q.id].d # "Queued" /\ mem[q.id].l # "none"
                      /\ ~InCommand(q.id)'
                      /\ q.ans = "never" => ~OnWire(q.id)'
    BY <1>3 DEF LookupSafe
  <2>1. PICK i \in Ids : i = q.id
    BY DEF Inv, TypeOK
  <2>2. /\ mem[i].d # "Queued" /\ mem[i].l # "none" /\ ~InCommand(i)'
        /\ q.ans = "never" => ~OnWire(i)'
    BY <2>1, <1>7, <1>8, <1>10, Zenon DEF Inv, LookupSafe
  <2>3. QED
    BY <2>1, <2>2, Zenon DEF InCommand, OnWire
<1>16. SendOnce'
  <2>1. \A b \in cmds \ {c} : b.ids \cap c.ids = {}
    BY Zenon DEF Inv, SendOnce
  <2>2. \A b, e \in cmds' : b # e => b.ids \cap e.ids = {}
    BY <2>1, <1>6 DEF Inv, SendOnce
  <2>3. ASSUME NEW b \in cmds', b.stage = "queued", NEW i \in b.ids PROVE ~OnWire(i)'
    <3>1. b \in cmds \ {c}
      BY <2>3, <1>6
    <3>2. i \in Ids /\ ~OnWire(i) /\ i \notin out
      BY <2>1, <2>3, <3>1, <1>4, Zenon DEF Inv, SendOnce, Commands
    <3>3. QED
      BY <3>2, <1>10
  <2>4. QED
    BY <2>2, <2>3 DEF SendOnce
<1>17. BootApart'
  BY <1>3, <1>8, Zenon DEF Inv, BootApart, Running, TypeOK
<1>18. NoDuplicateRequest'
  <2> SUFFICES ASSUME NEW i \in Ids
               PROVE  travelling'[i] + (IF venue[i] = "absent" THEN 0 ELSE 1) <= 1
    BY <1>3 DEF NoDuplicateRequest
  <2>1. travelling[i] \in Nat /\ travelling[i] + (IF venue[i] = "absent" THEN 0 ELSE 1) <= 1
    BY <1>4 DEF Inv, NoDuplicateRequest
  <2>2. i \in out => travelling[i] = 0 /\ venue[i] = "absent"
    BY <2>1, <1>7 DEF OnWire
  <2>3. QED
    BY <2>1, <2>2, <1>9
<1>19. QED
  BY <1>11, <1>12, <1>13, <1>14, <1>15, <1>16, <1>17, <1>18 DEF Inv

\* The network and the venue only move what is on the wire already.
LEMMA WireInv ==
  ASSUME Inv, Arrive \/ Lose \/ VenueEnds PROVE Inv'
<1>1. UNCHANGED <<logged, mem, write, unresolved, recovered, lookup, admin, leverageAt, mayOpen,
                  up, boot, cmds, reply, past, crashes>>
  BY DEF Arrive, Lose, VenueEnds
<1>2. /\ travelling \in [Ids -> Nat] /\ venue \in [Ids -> {"absent", "live", "ended", "refused"}]
      /\ faults \in 0..MaxFaults /\ MaxFaults \in Nat
  BY DispatchAssumption, Zenon DEF Inv, TypeOK, DispatchAssumption
<1>3. /\ travelling' \in [Ids -> Nat] /\ venue' \in [Ids -> {"absent", "live", "ended", "refused"}]
      /\ faults' \in 0..MaxFaults
      /\ \A i \in Ids : OnWire(i)' => OnWire(i)
      /\ NoDuplicateRequest'
  <2> USE DEF OnWire, Inv, NoDuplicateRequest
  <2>1. CASE Arrive
    <3>1. PICK i \in Ids, verdict \in {"live", "refused"} :
            /\ travelling[i] > 0
            /\ travelling' = [travelling EXCEPT ![i] = @ - 1]
            /\ venue' = [venue EXCEPT ![i] = IF @ = "absent" THEN verdict ELSE @]
            /\ faults' = faults
      BY <2>1, Zenon DEF Arrive
    <3>2. QED
      BY <3>1, <1>2
  <2>2. CASE Lose
    <3>1. PICK i \in Ids : /\ travelling[i] > 0 /\ travelling' = [travelling EXCEPT ![i] = @ - 1]
                           /\ venue' = venue /\ faults < MaxFaults /\ faults' = faults + 1
      BY <2>2, Zenon DEF Lose
    <3>2. QED
      BY <3>1, <1>2
  <2>3. CASE VenueEnds
    <3>1. PICK i \in Ids : /\ venue[i] = "live" /\ venue' = [venue EXCEPT ![i] = "ended"]
                           /\ travelling' = travelling /\ faults' = faults
      BY <2>3, Zenon DEF VenueEnds
    <3>2. QED
      BY <3>1, <1>2
  <2>4. QED
    BY <2>1, <2>2, <2>3, Zenon
<1>4. TypeOK'
  BY <1>1, <1>3, Zenon DEF Inv, TypeOK
<1>5. MemTracksLog' /\ LogWellFormed' /\ WriteCovered' /\ BootApart'
  BY <1>1, Zenon DEF Inv, MemTracksLog, LogWellFormed, WriteCovered, WriteFree, Final, BootApart, Running, InCommand
<1>6. \A i \in Ids : InCommand(i)' <=> InCommand(i)
  BY <1>1 DEF InCommand
<1>7. WireCovered' /\ QueuedOffWire'
  BY <1>1, <1>3, <1>6, Zenon DEF Inv, WireCovered, QueuedOffWire
<1>8. LookupSafe'
  <2> SUFFICES ASSUME NEW q \in lookup
               PROVE  /\ mem[q.id].d # "Queued" /\ mem[q.id].l # "none"
                      /\ ~InCommand(q.id)'
                      /\ q.ans = "never" => ~OnWire(q.id)'
    BY <1>1 DEF LookupSafe
  <2>1. PICK i \in Ids : i = q.id
    BY DEF Inv, TypeOK
  <2>2. /\ mem[i].d # "Queued" /\ mem[i].l # "none" /\ ~InCommand(i)'
        /\ q.ans = "never" => ~OnWire(i)'
    BY <2>1, <1>3, <1>6, Zenon DEF Inv, LookupSafe
  <2>3. QED
    BY <2>1, <2>2, Zenon DEF InCommand, OnWire
<1>9. SendOnce'
  <2>1. \A c \in cmds : c.ids \subseteq Ids
    BY DEF Inv, TypeOK
  <2>2. QED
    BY <2>1, <1>1, <1>3, Zenon DEF Inv, SendOnce
<1>10. QED
  BY <1>3, <1>4, <1>5, <1>7, <1>8, <1>9, Zenon DEF Inv

\* An answer of the venue is true when it is given.
LEMMA LookupAnswerInv ==
  ASSUME Inv, LookupAnswer PROVE Inv'
<1>1. PICK q \in lookup, a \in {"working", "terminal", "never", "unknown"} :
        /\ a = "never" => venue[q.id] = "absent" /\ travelling[q.id] = 0
        /\ lookup' = {[q EXCEPT !.ans = a]}
  BY DEF LookupAnswer
<1>2. UNCHANGED <<logged, mem, write, unresolved, recovered, admin, leverageAt, mayOpen,
                  up, boot, cmds, reply, venueVars, past, crashes, faults>>
  BY DEF LookupAnswer
<1>3. q \in [id : Ids, ans : {"none", "working", "terminal", "never", "unknown"}]
  BY DEF Inv, TypeOK
<1>4. PICK new : new = [q EXCEPT !.ans = a]
  BY Zenon
<1>5. /\ new \in [id : Ids, ans : {"none", "working", "terminal", "never", "unknown"}]
      /\ new.id = q.id /\ new.ans = a /\ lookup' = {new}
  BY <1>1, <1>3, <1>4, Zenon
<1>6. TypeOK'
  BY <1>2, <1>5, Zenon DEF Inv, TypeOK, venueVars
<1>7. LookupSafe'
  <2>1. /\ mem[q.id].d # "Queued" /\ mem[q.id].l # "none" /\ ~InCommand(q.id)
        /\ a = "never" => ~OnWire(q.id)
    BY <1>1, <1>3 DEF Inv, LookupSafe, OnWire
  <2>2. QED
    BY <2>1, <1>2, <1>5 DEF LookupSafe, InCommand, OnWire, venueVars
<1>8. /\ MemTracksLog' /\ LogWellFormed' /\ WriteCovered' /\ WireCovered' /\ QueuedOffWire'
      /\ SendOnce' /\ BootApart' /\ NoDuplicateRequest'
  BY <1>2 DEF Inv, MemTracksLog, LogWellFormed, WriteCovered, WriteFree, WireCovered, QueuedOffWire,
              SendOnce, BootApart, Running, NoDuplicateRequest, Final, OnWire, InCommand, venueVars
<1>9. QED
  BY <1>6, <1>7, <1>8 DEF Inv

-----------------------------------------------------------------------------
(* The theorems. *)

\* Every step of the engine, the venue task, the network and the venue, and a
\* crash, preserves the invariant.
LEMMA NextInv ==
  ASSUME Inv, [Next]_vars PROVE Inv'
<1>1. CASE UNCHANGED vars
  BY <1>1 DEF Inv, vars, TypeOK, MemTracksLog, LogWellFormed, WriteCovered, WriteFree, WireCovered,
              QueuedOffWire, LookupSafe, SendOnce, BootApart, Running, NoDuplicateRequest, Final,
              OnWire, InCommand
<1>2. CASE Next
  BY <1>2, AdmitInv, ServiceInv, OtherInv, SyncDoneInv, OnDurableAttemptInv, OnDurableLeverageInv,
     CompleteLeverageInv, CompleteOrdersInv, PrivateUpdateInv, CancelQueuedInv, OnLookupInv,
     QuietInv, RotateInv, CrashInv, BootRestoreInv, VenueSendInv, WireInv, LookupAnswerInv
     DEF Next
<1>3. QED
  BY <1>1, <1>2

\* Inv is an inductive invariant of the dispatch machine of order_dispatch.rs.
THEOREM InvHolds == Spec => []Inv
<1>1. Init => Inv
  BY InitInv
<1>2. Inv /\ [Next]_vars => Inv'
  BY NextInv
<1>3. QED
  BY <1>1, <1>2, PTL DEF Spec

\* Type correctness of the dispatch state.
THEOREM TypeCorrect == Spec => []TypeOK
<1>1. Inv => TypeOK
  BY DEF Inv
<1>2. QED
  BY <1>1, InvHolds, PTL

\* The write barrier of begin_order_attempt and on_order_dispatch_durable: for
\* any orders, crashes and interleavings, what has left the socket is replayed
\* as attempted or settled wherever a crash cuts the log.
THEOREM BarrierPrecedesWire == Spec => []DurableBeforeWire
<1>1. Inv => DurableBeforeWire
  BY DEF Inv, WireCovered, DurableBeforeWire
<1>2. QED
  BY <1>1, InvHolds, PTL

\* Retries after NeverAccepted, lost replies and restarts never give the venue
\* two copies of a request.
THEOREM AtMostOneRequest == Spec => []NoDuplicateRequest
<1>1. Inv => NoDuplicateRequest
  BY DEF Inv
<1>2. QED
  BY <1>1, InvHolds, PTL

\* No interleaving of the handlers writes a log OrderDispatches::replay refuses.
THEOREM LogReplays == Spec => []ReplayAccepts
<1>1. Inv => ReplayAccepts
  BY DEF Inv, LogWellFormed, ReplayAccepts
<1>2. QED
  BY <1>1, InvHolds, PTL

\* Whenever on_tick's guard lets the log rotate, the base it writes from memory
\* is the replay of the log it replaces.
THEOREM RotationIsFaithful == Spec => []RotationRestates
<1>1. Inv => RotationRestates
  <2> SUFFICES ASSUME Inv, WriteFree PROVE Final(logged) = mem
    BY DEF RotationRestates, WriteFree
  <2>1. EndsIn(logged, mem) /\ logged \in Seq(States) /\ Len(logged) >= 1 /\ mem \in States
    BY FreeFacts
  <2>2. Final(logged) \in States
    BY <2>1 DEF Final
  <2>3. QED
    BY <2>1, <2>2 DEF EndsIn, States
<1>2. QED
  BY <1>1, InvHolds, PTL

-----------------------------------------------------------------------------
(* Authority. *)

\* A command that adds exposure and would pass the send boundary.
Live(c) == /\ c.stage = "queued" /\ c.auth = "current"
           /\ \E i \in c.ids : i \in Opens /\ i \notin NetReduces

\* A step that hands over nothing new, latches nothing and notes nothing as
\* unresolved keeps every permission it found standing.
LEMMA PermissionKept ==
  ASSUME AuthorityMeansClear, mayOpen' = mayOpen, unresolved' \subseteq unresolved,
         \A c \in cmds' : Live(c) => \E b \in cmds : Live(b)
  PROVE  AuthorityMeansClear'
BY DEF AuthorityMeansClear, ClearToOpen, Live

\* After an advance of the epoch no command is live.
LEMMA NoneSuperseded ==
  ASSUME NEW cs, NEW c \in Superseded(cs), cs \subseteq [ids : SUBSET Ids,
           auth : {"none", "current", "superseded"}, stage : {"queued", "sent"}]
  PROVE  ~Live(c)
BY DEF Superseded, Live

\* Every step keeps the permission of what it leaves in the queue: a handler
\* that closes the engine, or finds an order without outcome, advances the
\* epoch in the same step, and a command is minted only while all is clear.
LEMMA AuthorityStep ==
  ASSUME Inv, AuthorityMeansClear, [Next]_vars PROVE AuthorityMeansClear'
<1>1. cmds \subseteq [ids : SUBSET Ids, auth : {"none", "current", "superseded"},
                       stage : {"queued", "sent"}]
  BY DEF Inv, TypeOK
<1>2. CASE UNCHANGED vars
  BY <1>2, PermissionKept DEF vars
<1>3. CASE Admit \/ Service \/ BeginOther \/ SyncDone \/ OnDurableOther \/ EvictLeverage \/ Rotate
           \/ BootDone \/ Arrive \/ Lose \/ VenueEnds \/ VenueReplies \/ LookupAnswer
  <2>1. UNCHANGED <<cmds, mayOpen, unresolved>>
    BY <1>3 DEF Admit, Service, BeginOther, SyncDone, OnDurableOther, EvictLeverage, Rotate,
                BootDone, Arrive, Lose, VenueEnds, VenueReplies, LookupAnswer
  <2>2. QED
    BY <2>1, PermissionKept, Zenon
<1>4. CASE OnDurableLeverage \/ CompleteLeverage \/ PrivateUpdate \/ CancelQueued \/ BootRestore
  <2>1. UNCHANGED <<cmds, mayOpen>> /\ unresolved' \subseteq unresolved
    BY <1>4, Zenon DEF OnDurableLeverage, CompleteLeverage, PrivateUpdate, CancelQueued, BootRestore,
                Retire
  <2>2. QED
    BY <2>1, PermissionKept
<1>5. CASE OnDurableAttempt
  <2>1. PICK refused \in SUBSET Held :
          /\ Stale(Held) \subseteq refused
          /\ unresolved' \subseteq unresolved
          /\ \/ cmds' = cmds
             \/ cmds' = cmds \cup {[ids |-> Held \ refused, stage |-> "queued",
                                    auth |-> IF Held \ refused \subseteq NetReduces THEN "none"
                                             ELSE "current"]}
    BY <1>5 DEF OnDurableAttempt, Retire
  <2>2. mayOpen' = mayOpen
    BY <1>5 DEF OnDurableAttempt
  <2>3. CASE \E i \in Held \ refused : i \in Opens
    <3>1. ClearToOpen
      BY <2>1, <2>3 DEF Stale
    <3>2. ClearToOpen'
      BY <3>1, <2>1, <2>2 DEF ClearToOpen
    <3>3. QED
      BY <3>2 DEF AuthorityMeansClear
  <2>4. CASE ~\E i \in Held \ refused : i \in Opens
    <3>1. \A c \in cmds' : Live(c) => c \in cmds
      BY <2>1, <2>4 DEF Live
    <3>2. QED
      BY <3>1, <2>1, <2>2, PermissionKept, Zenon
  <2>5. QED
    BY <2>3, <2>4
<1>6. CASE CompleteOrders
  <2>1. PICK c \in cmds, lost \in SUBSET Ids :
          /\ unresolved' \subseteq unresolved \cup lost
          /\ \/ cmds' = Superseded(cmds \ {c})
             \/ (lost = {} \/ unresolved # {}) /\ cmds' = cmds \ {c}
    <3>1. PICK c \in cmds :
            LET acked == {i \in c.ids : reply[i] = "ack"}
                ended == {i \in c.ids : reply[i] \in {"reject", "unsent"}}
                lost == {i \in c.ids : reply[i] = "lost"}
            IN /\ unresolved' = (unresolved \ (acked \cup ended)) \cup lost
               /\ \/ lost # {} /\ unresolved \subseteq acked \cup ended
                     /\ cmds' = Superseded(cmds \ {c})
                  \/ (lost = {} \/ unresolved # {}) /\ cmds' = cmds \ {c}
      BY <1>6, Zenon DEF CompleteOrders
    <3>2. {i \in c.ids : reply[i] = "lost"} \in SUBSET Ids
      BY <1>1, SMTT(30)
    <3>3. QED
      BY <3>1, <3>2
  <2>2. mayOpen' = mayOpen
    BY <1>6, Zenon DEF CompleteOrders
  <2>3. CASE cmds' = Superseded(cmds \ {c})
    BY <2>3, <1>1, NoneSuperseded DEF AuthorityMeansClear, Live
  <2>4. CASE lost = {} /\ cmds' = cmds \ {c}
    BY <2>4, <2>1, <2>2, PermissionKept
  <2>5. CASE unresolved # {} /\ cmds' = cmds \ {c}
    BY <2>5 DEF AuthorityMeansClear, ClearToOpen
  <2>6. QED
    BY <2>1, <2>3, <2>4, <2>5, Zenon
<1>7. CASE OnLookup
  <2>1. mayOpen' = mayOpen
    BY <1>7 DEF OnLookup
  <2>2. \/ cmds' = cmds /\ unresolved' \subseteq unresolved
        \/ cmds' = IF unresolved = {} THEN Superseded(cmds) ELSE cmds
    BY <1>7 DEF OnLookup, Retire
  <2>3. CASE cmds' = cmds /\ unresolved' \subseteq unresolved
    BY <2>3, <2>1, PermissionKept
  <2>4. CASE unresolved = {} /\ cmds' = Superseded(cmds)
    BY <2>4, <1>1, NoneSuperseded DEF AuthorityMeansClear, Live
  <2>5. CASE unresolved # {} /\ cmds' = cmds
    BY <2>5, Zenon DEF AuthorityMeansClear, ClearToOpen
  <2>6. QED
    BY <2>2, <2>3, <2>4, <2>5
<1>8. CASE Latch
  BY <1>8, <1>1, NoneSuperseded, Zenon DEF Latch, AuthorityMeansClear, Live
<1>9. CASE Unlatch
  BY <1>9, Zenon DEF Unlatch, AuthorityMeansClear, ClearToOpen
<1>10. CASE Crash
  BY <1>10 DEF Crash, AuthorityMeansClear
<1>11. CASE VenueSend
  <2>1. PICK c \in cmds : cmds' = (cmds \ {c}) \cup {[c EXCEPT !.stage = "sent"]}
    BY <1>11 DEF VenueSend
  <2>2. UNCHANGED <<mayOpen, unresolved>>
    BY <1>11 DEF VenueSend
  <2>3. ~Live([c EXCEPT !.stage = "sent"])
    BY <1>1 DEF Live
  <2>4. QED
    BY <2>1, <2>2, <2>3, PermissionKept
<1>12. QED
  BY <1>2, <1>3, <1>4, <1>5, <1>6, <1>7, <1>8, <1>9, <1>10, <1>11, Zenon DEF Next

\* note_unresolved, latch_closed and mint_authority: whenever a queued opening
\* would still pass the send boundary, nothing is unresolved and nothing is
\* latched, in every reachable state.
THEOREM AuthorityIsCurrent == Spec => []AuthorityMeansClear
<1>1. Init => AuthorityMeansClear
  BY DEF Init, Started, AuthorityMeansClear
<1>2. Inv /\ AuthorityMeansClear /\ [Next]_vars => AuthorityMeansClear'
  BY AuthorityStep
<1>3. QED
  BY <1>1, <1>2, InvHolds, PTL DEF Spec

-----------------------------------------------------------------------------
(* Openings of an earlier process. *)

\* A dispatch that was replayed stays marked as replayed while it is open.
PastRecovered == \A i \in past : mem[i].d # "none" => i \in recovered

PastInv == PastRecovered /\ PastOpeningUnsent

\* A step that keeps `past`, opens no dispatch of it, forgets a replayed one
\* only with its dispatch, and hands over nothing new.
LEMMA PastKept ==
  ASSUME PastInv, past' = past,
         \A i \in past : mem'[i].d # "none" =>
           mem[i].d # "none" /\ (i \in recovered => i \in recovered'),
         \A c \in cmds' : \E b \in cmds : c.ids = b.ids
  PROVE  PastInv'
BY DEF PastInv, PastRecovered, PastOpeningUnsent

\* Ending a set of orders forgets exactly the dispatches it closes.
LEMMA EndedPast ==
  ASSUME NEW S \in SUBSET Ids, past \subseteq Ids, mem' = Ended(mem, S), Retire(S)
  PROVE  \A i \in past : mem'[i].d # "none" =>
           mem[i].d # "none" /\ (i \in recovered => i \in recovered')
BY DEF Ended, Retire

\* Every step preserves it.  The crash itself marks what it replays, an id is
\* not given twice, and an opening so marked is stale when its write is durable.
LEMMA PastStep ==
  ASSUME Inv, PastInv, [Next]_vars PROVE PastInv'
<1>1. /\ past \subseteq Ids /\ mem \in States /\ boot \subseteq Ids
      /\ write.ids \subseteq Ids
      /\ cmds \subseteq [ids : SUBSET Ids, auth : {"none", "current", "superseded"},
                         stage : {"queued", "sent"}]
      /\ lookup \subseteq [id : Ids, ans : {"none", "working", "terminal", "never", "unknown"}]
  BY SMTT(30) DEF Inv, TypeOK
<1>2. CASE UNCHANGED vars
  BY <1>2, PastKept, Zenon DEF vars
<1>3. CASE Service \/ BeginOther \/ SyncDone \/ OnDurableOther \/ EvictLeverage \/ Rotate
           \/ BootDone \/ Unlatch \/ Arrive \/ Lose \/ VenueEnds \/ VenueReplies \/ LookupAnswer
  <2>1. UNCHANGED <<cmds, mem, recovered, past>>
    BY <1>3 DEF Service, BeginOther, SyncDone, OnDurableOther, EvictLeverage, Rotate,
                BootDone, Unlatch, Arrive, Lose, VenueEnds, VenueReplies, LookupAnswer
  <2>2. QED
    BY <2>1, PastKept
<1>4. CASE Admit
  <2>1. PICK S \in SUBSET (Ids \ past) :
          mem' = [i \in Ids |-> IF i \in S THEN [d |-> "Queued", l |-> "sent"] ELSE mem[i]]
    BY <1>4, ZenonT(30) DEF Admit
  <2>2. UNCHANGED <<cmds, recovered, past>>
    BY <1>4, Zenon DEF Admit
  <2>3. \A i \in past : mem'[i] = mem[i]
    BY <2>1, <1>1
  <2>4. QED
    BY <2>2, <2>3, PastKept, Zenon
<1>5. CASE OnDurableLeverage
  <2>1. PICK S \in SUBSET Held : mem' = Ended(mem, S) /\ Retire(S)
    BY <1>5, Zenon DEF OnDurableLeverage
  <2>2. S \in SUBSET Ids
    BY <1>1 DEF Held
  <2>3. QED
    BY <1>5, <2>1, <2>2, <1>1, EndedPast, PastKept, Zenon DEF OnDurableLeverage
<1>6. CASE CompleteLeverage
  <2>1. PICK a \in admin :
          \E S \in SUBSET {i \in a.orders : mem[i].d = "Queued"} : mem' = Ended(mem, S) /\ Retire(S)
    BY <1>6, ZenonT(30) DEF CompleteLeverage
  <2>2. PICK S \in SUBSET Ids : mem' = Ended(mem, S) /\ Retire(S)
    BY <2>1 DEF Inv, TypeOK
  <2>3. QED
    BY <1>6, <2>2, <1>1, EndedPast, PastKept, ZenonT(30) DEF CompleteLeverage
<1>7. CASE CancelQueued
  <2>1. PICK i \in Ids : mem' = Ended(mem, {i}) /\ Retire({i})
    BY <1>7, Zenon DEF CancelQueued
  <2>2. QED
    BY <1>7, <2>1, <1>1, EndedPast, PastKept, Zenon DEF CancelQueued
<1>8. CASE BootRestore
  <2>1. PICK i \in boot : \/ mem' = Ended(mem, {i}) /\ Retire({i})
                          \/ UNCHANGED <<mem, recovered>>
    BY <1>8, Zenon DEF BootRestore
  <2>2. UNCHANGED <<cmds, past>>
    BY <1>8, Zenon DEF BootRestore
  <2>3. CASE mem' = Ended(mem, {i}) /\ Retire({i})
    BY <2>2, <2>3, <1>1, EndedPast, PastKept, Zenon
  <2>4. CASE UNCHANGED <<mem, recovered>>
    BY <2>2, <2>4, PastKept, Zenon
  <2>5. QED
    BY <2>1, <2>3, <2>4
<1>9. CASE PrivateUpdate
  <2>1. PICK i \in Ids, end \in BOOLEAN :
          /\ mem' = [mem EXCEPT ![i] = [d |-> "none", l |-> IF end THEN "done" ELSE "acked"]]
          /\ Retire({i})
    BY <1>9, Zenon DEF PrivateUpdate
  <2>2. UNCHANGED <<cmds, past>>
    BY <1>9, ZenonT(30) DEF PrivateUpdate
  <2>3. QED
    BY <2>1, <2>2, <1>1, PastKept DEF Retire, States
<1>10. CASE OnLookup
  <2>1. PICK q \in lookup :
          \/ UNCHANGED <<mem, recovered>>
          \/ mem' = [mem EXCEPT ![q.id] =
                       [d |-> "none", l |-> IF q.ans = "working" /\ mem[q.id].l # "done"
                                            THEN "acked" ELSE "done"]] /\ Retire({q.id})
          \/ /\ mem[q.id].d = "Attempted" /\ mem' = [mem EXCEPT ![q.id].d = "Queued"]
             /\ UNCHANGED recovered
    BY <1>10, Zenon DEF OnLookup
  <2>2. past' = past /\ q.id \in Ids
    BY <1>1, <1>10 DEF OnLookup
  <2>3. \A c \in cmds' : \E b \in cmds : c.ids = b.ids
    <3>1. cmds' = cmds \/ cmds' = Superseded(cmds)
      BY <1>10 DEF OnLookup
    <3>2. QED
      BY <3>1, <1>1 DEF Superseded
  <2>4. \A i \in past : mem'[i].d # "none" =>
           mem[i].d # "none" /\ (i \in recovered => i \in recovered')
    BY <2>1, <2>2, <1>1 DEF Retire, States, OrderState
  <2>5. QED
    BY <2>2, <2>3, <2>4, PastKept
<1>11. CASE CompleteOrders
  <2>1. PICK c \in cmds, S \in SUBSET Ids :
          /\ \A i \in Ids : mem'[i].d = IF i \in S THEN "none" ELSE mem[i].d
          /\ recovered' = recovered \ S
          /\ cmds' = Superseded(cmds \ {c}) \/ cmds' = cmds \ {c}
    <3>1. PICK c \in cmds :
            LET acked == {i \in c.ids : reply[i] = "ack"}
                ended == {i \in c.ids : reply[i] \in {"reject", "unsent"}}
            IN /\ mem' = [i \in Ids |->
                       IF i \in ended THEN [d |-> "none", l |-> "done"]
                       ELSE IF i \in acked
                       THEN [d |-> "none", l |-> IF mem[i].l = "done" THEN "done" ELSE "acked"]
                       ELSE mem[i]]
               /\ recovered' = recovered \ (acked \cup ended)
               /\ cmds' = Superseded(cmds \ {c}) \/ cmds' = cmds \ {c}
      BY <1>11, Zenon DEF CompleteOrders
    <3>2. {i \in c.ids : reply[i] = "ack"} \cup {i \in c.ids : reply[i] \in {"reject", "unsent"}}
            \in SUBSET Ids
      BY <1>1, Zenon
    <3>3. QED
      BY <3>1, <3>2, Zenon
  <2>2. past' = past
    BY <1>11, Zenon DEF CompleteOrders
  <2>3. \A b \in cmds' : \E a \in cmds : b.ids = a.ids
    BY <2>1, <1>1 DEF Superseded
  <2>4. QED
    BY <2>1, <2>2, <2>3, <1>1, PastKept
<1>12. CASE OnDurableAttempt
  <2>1. PICK refused \in SUBSET Held :
          /\ Stale(Held) \subseteq refused
          /\ \/ /\ mem' = [i \in Ids |-> IF i \in Held \ refused
                                         THEN [mem[i] EXCEPT !.d = "Attempted"]
                                         ELSE Ended(mem, refused)[i]]
                /\ Retire(refused)
                /\ \/ cmds' = cmds
                   \/ cmds' = cmds \cup {[ids |-> Held \ refused, stage |-> "queued",
                                    auth |-> IF Held \ refused \subseteq NetReduces THEN "none"
                                             ELSE "current"]}
             \/ mem' = Ended(mem, Held) /\ Retire(Held) /\ cmds' = cmds
    BY <1>12 DEF OnDurableAttempt
  <2>2. past' = past /\ Held \in SUBSET Ids /\ \A i \in Held : mem[i].d # "none"
    BY <1>1, <1>12 DEF OnDurableAttempt, Held
  <2>3. \A i \in past : mem'[i].d # "none" =>
           mem[i].d # "none" /\ (i \in recovered => i \in recovered')
    <3>1. CASE mem' = Ended(mem, Held) /\ Retire(Held)
      BY <3>1, <2>2, <1>1, EndedPast
    <3>2. CASE /\ mem' = [i \in Ids |-> IF i \in Held \ refused
                                        THEN [mem[i] EXCEPT !.d = "Attempted"]
                                        ELSE Ended(mem, refused)[i]]
               /\ Retire(refused)
      BY <3>2, <2>2, <1>1, Zenon DEF Ended, Retire
    <3>3. QED
      BY <2>1, <3>1, <3>2, Zenon
  <2>4. PastRecovered'
    BY <2>2, <2>3 DEF PastInv, PastRecovered
  <2>5. \A i \in Held \ refused : i \in Opens => i \notin past
    BY <2>1, <2>2 DEF Stale, PastInv, PastRecovered
  <2>6. PastOpeningUnsent'
    BY <2>1, <2>2, <2>5, SMTT(30) DEF PastInv, PastOpeningUnsent
  <2>7. QED
    BY <2>4, <2>6 DEF PastInv
<1>13. CASE Latch
  <2>1. \A c \in cmds' : \E b \in cmds : c.ids = b.ids
    BY <1>1, <1>13, Zenon DEF Latch, Superseded
  <2>2. QED
    BY <1>13, <2>1, PastKept DEF Latch
<1>14. CASE Crash
  <2>1. PICK k \in 1..Len(logged) :
          LET open == {i \in Ids : logged[k][i].d # "none"}
          IN mem' = logged[k] /\ recovered' = open /\ past' = past \cup open
    BY <1>14, Zenon DEF Crash, Foreign
  <2>2. cmds' = {}
    BY <1>14, Zenon DEF Crash
  <2>3. QED
    BY <2>1, <2>2, <1>1 DEF PastInv, PastRecovered, PastOpeningUnsent
<1>15. CASE VenueSend
  <2>1. PICK c \in cmds : cmds' = (cmds \ {c}) \cup {[c EXCEPT !.stage = "sent"]}
    BY <1>15 DEF VenueSend
  <2>2. \A b \in cmds' : \E a \in cmds : b.ids = a.ids
    BY <2>1, <1>1
  <2>3. QED
    BY <1>15, <2>2, PastKept DEF VenueSend
<1>16. QED
  BY <1>2, <1>3, <1>4, <1>5, <1>6, <1>7, <1>8, <1>9, <1>10, <1>11, <1>12, <1>13, <1>14, <1>15, Zenon
     DEF Next

\* restore_order_dispatches and refuse_changed_dispatch: no placement command
\* ever carries an opening that an earlier process had sized.
THEOREM PastOpeningsStayUnsent == Spec => []PastOpeningUnsent
<1>1. Init => PastInv
  BY DEF Init, Started, PastInv, PastRecovered, PastOpeningUnsent
<1>2. Inv /\ PastInv /\ [Next]_vars => PastInv'
  BY PastStep
<1>3. PastInv => PastOpeningUnsent
  BY Zenon DEF PastInv
<1>4. QED
  BY <1>1, <1>2, <1>3, InvHolds, PTL DEF Spec

-----------------------------------------------------------------------------
(* Leverage changes. *)

\* Why LeverageExclusive holds: the two kinds of write keep to symbols that the
\* other kind's command does not use, and a booting engine administers nothing.
LeverageInv ==
  /\ LeverageExclusive
  /\ ~Running => admin = {} /\ write.kind # "Leverage"
  /\ write.kind = "Leverage" =>
       \A c \in cmds : \A i \in c.ids : \A j \in write.ids : SymbolOf[i] # SymbolOf[j]
  /\ write.kind = "Attempt" => \A a \in admin : \A j \in write.ids : SymbolOf[j] # a.sym

\* A step that waits for no new attempt and no new leverage, and one that hands
\* over no new command and does not stop the engine.
NoNewWait == \/ write' = write
             \/ write'.kind = "none"
             \/ write'.kind = write.kind /\ write'.ids = write.ids
             \/ write'.kind = "Other" /\ Running
NothingHanded == /\ \A c \in cmds' : \E b \in cmds : c.ids = b.ids
                 /\ up' = up \/ up' = "run"

\* A step that starts no write, no command and no administration keeps it.
LEMMA LeverageKept ==
  ASSUME LeverageInv, admin' \subseteq admin, NoNewWait, NothingHanded
  PROVE  LeverageInv'
BY DEF LeverageInv, LeverageExclusive, Running, NoNewWait, NothingHanded

\* What begin_order_preparation leaves to wait for: an attempt, or a leverage
\* only while none is administered, in symbols nothing else holds.
LEMMA PrepareApart ==
  ASSUME NEW log, NEW S \in SUBSET Ids, Prepare(log, S)
  PROVE  \/ write' = write
         \/ /\ write'.kind = "Attempt"
            /\ \A j \in write'.ids : SymbolOf[j] \notin BusySymbols
         \/ /\ write'.kind = "Leverage" /\ admin = {}
            /\ \A j \in write'.ids : SymbolOf[j] \notin BusySymbols
<1> DEFINE batch == Preparable(S)
           ready == {i \in batch : ~Missing(i)}
<1>1. CASE batch = {}
  BY <1>1, Zenon DEF Prepare
<1>2. CASE batch # {} /\ ready = {}
  <2>1. write' = [kind |-> "Leverage", ids |-> batch, mark |-> Len(log), synced |-> FALSE]
    BY <1>2, Zenon DEF Prepare
  <2>2. QED
    BY <2>1, <1>2, Zenon DEF Preparable
<1>3. CASE batch # {} /\ ready # {}
  <2>1. PICK o \in Orderings(ready) :
          write' = [kind |-> "Attempt", ids |-> ready, mark |-> Len(log) + Len(o), synced |-> FALSE]
    BY <1>3, Zenon DEF Prepare
  <2>2. QED
    BY <2>1 DEF Preparable
<1>4. QED
  BY <1>1, <1>2, <1>3, Zenon

\* So a step that only prepares keeps the invariant.
LEMMA PreparedApart ==
  ASSUME LeverageInv, Running, UNCHANGED <<admin, cmds, up>>,
         NEW log, NEW S \in SUBSET Ids, Prepare(log, S)
  PROVE  LeverageInv'
<1>1. CASE write' = write
  BY <1>1, LeverageKept, Zenon DEF NoNewWait, NothingHanded
<1>2. CASE /\ write'.kind = "Attempt"
           /\ \A j \in write'.ids : SymbolOf[j] \notin BusySymbols
  BY <1>2, Zenon DEF LeverageInv, LeverageExclusive, Running, BusySymbols
<1>3. CASE /\ write'.kind = "Leverage" /\ admin = {}
           /\ \A j \in write'.ids : SymbolOf[j] \notin BusySymbols
  BY <1>3 DEF LeverageInv, LeverageExclusive, Running, BusySymbols
<1>4. QED
  BY <1>1, <1>2, <1>3, PrepareApart, Zenon

\* Every step preserves it.
LEMMA LeverageStep ==
  ASSUME Inv, LeverageInv, [Next]_vars PROVE LeverageInv'
<1>1. /\ write \in [kind : WriteKinds, ids : SUBSET Ids, mark : Nat, synced : BOOLEAN]
      /\ cmds \subseteq [ids : SUBSET Ids, auth : {"none", "current", "superseded"},
                         stage : {"queued", "sent"}]
  BY Zenon DEF Inv, TypeOK
<1>2. CASE UNCHANGED vars
  BY <1>2, LeverageKept DEF vars, NoNewWait, NothingHanded
<1>3. CASE PrivateUpdate \/ CancelQueued \/ Unlatch \/ EvictLeverage \/ Rotate \/ BootDone
           \/ Arrive \/ Lose \/ VenueEnds \/ VenueReplies \/ LookupAnswer
  <2>1. UNCHANGED <<cmds, admin, write>> /\ (up' = up \/ up' = "run")
    BY <1>3 DEF PrivateUpdate, CancelQueued, Unlatch, EvictLeverage, Rotate, BootDone,
                Arrive, Lose, VenueEnds, VenueReplies, LookupAnswer
  <2>2. QED
    BY <2>1, LeverageKept DEF NoNewWait, NothingHanded
<1>4. CASE Admit
  <2>1. PICK S \in SUBSET Ids, o \in Seq(Ids) : Prepare(Logs(logged, o, "sent"), S)
    <3>1. PICK S \in SUBSET Ids : \E o \in Orderings(S) : Prepare(Logs(logged, o, "sent"), S)
      BY <1>4, Zenon DEF Admit
    <3>2. PICK o \in Orderings(S) : Prepare(Logs(logged, o, "sent"), S)
      BY <3>1
    <3>3. o \in Seq(Ids)
      BY OrderingFacts, Zenon
    <3>4. QED
      BY <3>2, <3>3, Zenon
  <2>2. Running /\ UNCHANGED <<admin, cmds, up>>
    BY <1>4, Zenon DEF Admit
  <2>3. QED
    BY <2>1, <2>2, PreparedApart
<1>5. CASE Service
  <2>1. Running /\ UNCHANGED <<admin, cmds, up>>
    BY <1>5, ZenonT(30) DEF Service
  <2>2. UNCHANGED write \/ \E S \in SUBSET Ids : Prepare(logged, S)
    BY <1>5, Zenon DEF Service, Preparable
  <2>3. CASE UNCHANGED write
    BY <2>1, <2>3, LeverageKept DEF NoNewWait, NothingHanded
  <2>4. CASE \E S \in SUBSET Ids : Prepare(logged, S)
    BY <2>1, <2>4, PreparedApart
  <2>5. QED
    BY <2>2, <2>3, <2>4, Zenon
<1>6. CASE BeginOther \/ SyncDone \/ OnDurableOther
  <2>1. UNCHANGED <<cmds, admin, up>>
    BY <1>6 DEF BeginOther, SyncDone, OnDurableOther
  <2>2. NoNewWait
    <3>1. CASE BeginOther
      BY <3>1 DEF BeginOther, NoNewWait
    <3>2. CASE SyncDone
      BY <3>2, <1>1, Zenon DEF SyncDone, NoNewWait
    <3>3. CASE OnDurableOther
      BY <3>3, Zenon DEF OnDurableOther, NoWrite, NoNewWait
    <3>4. QED
      BY <1>6, <3>1, <3>2, <3>3, Zenon
  <2>3. QED
    BY <2>1, <2>2, LeverageKept DEF NoNewWait, NothingHanded
<1>7. CASE OnDurableAttempt
  <2>1. /\ write.kind = "Attempt" /\ write'.kind = "none"
        /\ UNCHANGED <<admin, up>>
    BY <1>7 DEF OnDurableAttempt, NoWrite
  <2>2. PICK sent \in SUBSET Held :
          \A c \in cmds' : c \in cmds \/ c.ids = sent
    BY <1>7 DEF OnDurableAttempt
  <2>3. \A a \in admin : \A i \in sent : SymbolOf[i] # a.sym
    BY <2>1, Zenon DEF Held, LeverageInv
  <2>4. LeverageExclusive'
    BY <2>1, <2>2, <2>3, Zenon DEF LeverageInv, LeverageExclusive
  <2>5. QED
    BY <2>1, <2>4 DEF LeverageInv, Running
<1>8. CASE OnDurableLeverage
  <2>1. /\ write.kind = "Leverage" /\ write'.kind = "none" /\ UNCHANGED <<cmds, up>>
    BY <1>8, Zenon DEF OnDurableLeverage, NoWrite
  <2>2. admin = {} /\ Running
    BY <2>1, Zenon DEF LeverageInv, LeverageExclusive
  <2>3. admin' = admin \/ \E i \in write.ids, T \in SUBSET Ids :
          admin' = {[sym |-> SymbolOf[i], want |-> Want[i], orders |-> T]}
    <3>1. PICK refused \in SUBSET Held :
            LET missing == {i \in Held \ refused : Missing(i)}
            IN \/ UNCHANGED admin
               \/ \E i \in missing : admin' = admin \cup
                       {[sym |-> SymbolOf[i], want |-> Want[i],
                         orders |-> {j \in missing : SymbolOf[j] = SymbolOf[i] /\ Want[j] = Want[i]}]}
      BY <1>8, Zenon DEF OnDurableLeverage
    <3> DEFINE missing == {i \in Held \ refused : Missing(i)}
    <3>2. missing \in SUBSET write.ids /\ missing \in SUBSET Ids
      BY <1>1, Zenon DEF Held
    <3>3. ASSUME NEW i \in missing, admin' = admin \cup
                       {[sym |-> SymbolOf[i], want |-> Want[i],
                         orders |-> {j \in missing : SymbolOf[j] = SymbolOf[i] /\ Want[j] = Want[i]}]}
          PROVE  \E h \in write.ids, T \in SUBSET Ids :
                   admin' = {[sym |-> SymbolOf[h], want |-> Want[h], orders |-> T]}
      <4> DEFINE T == {j \in missing : SymbolOf[j] = SymbolOf[i] /\ Want[j] = Want[i]}
      <4>1. T \in SUBSET Ids /\ i \in write.ids
        BY <3>2, Zenon
      <4>2. admin' = {[sym |-> SymbolOf[i], want |-> Want[i], orders |-> T]}
        BY <3>3, <2>2, Zenon
      <4> HIDE DEF T, missing
      <4>3. QED
        BY <4>1, <4>2
    <3>4. QED
      BY <3>1, <3>3, Zenon
  <2>4. \A a \in admin' : \A c \in cmds : \A i \in c.ids : SymbolOf[i] # a.sym
    BY <2>1, <2>2, <2>3 DEF LeverageInv
  <2>5. \A a, b \in admin' : a = b
    BY <2>2, <2>3
  <2>6. LeverageExclusive'
    BY <2>1, <2>4, <2>5 DEF LeverageExclusive
  <2>7. QED
    BY <2>1, <2>2, <2>6 DEF LeverageInv, Running
<1>9. CASE CompleteLeverage
  <2>1. admin' \subseteq admin /\ UNCHANGED <<write, cmds, up>>
    BY <1>9, ZenonT(30) DEF CompleteLeverage
  <2>2. QED
    BY <2>1, LeverageKept, Zenon DEF NoNewWait, NothingHanded
<1>10. CASE CompleteOrders \/ OnLookup \/ Latch
  <2>1. \/ cmds' \subseteq cmds
        \/ \E cs \in SUBSET cmds : cmds' = Superseded(cs)
    <3>1. CASE CompleteOrders
      BY <3>1, ZenonT(30) DEF CompleteOrders
    <3>2. CASE OnLookup
      BY <3>2 DEF OnLookup
    <3>3. CASE Latch
      BY <3>3 DEF Latch
    <3>4. QED
      BY <1>10, <3>1, <3>2, <3>3, Zenon
  <2>2. \A c \in cmds' : \E b \in cmds : c.ids = b.ids
    BY <2>1, <1>1 DEF Superseded
  <2>3. UNCHANGED <<admin, write, up>>
    BY <1>10, Zenon DEF CompleteOrders, OnLookup, Latch
  <2>4. QED
    BY <2>2, <2>3, LeverageKept DEF NoNewWait, NothingHanded
<1>11. CASE Crash
  BY <1>11, Zenon DEF Crash, NoWrite, LeverageInv, LeverageExclusive
<1>12. CASE BootRestore
  <2>1. ~Running /\ UNCHANGED <<admin, cmds, up>>
    BY <1>12, Zenon DEF BootRestore, Running
  <2>2. admin = {}
    BY <2>1, Zenon DEF LeverageInv
  <2>3. write' = write \/ write'.kind = "Attempt"
    <3>1. write' = write \/ \E i, m : write' = [kind |-> "Attempt", ids |-> {i}, mark |-> m, synced |-> FALSE]
      BY <1>12, ZenonT(30) DEF BootRestore
    <3>2. QED
      BY <3>1
  <2>4. QED
    BY <2>1, <2>2, <2>3, SMTT(30) DEF LeverageInv, LeverageExclusive, Running
<1>13. CASE VenueSend
  <2>1. PICK c \in cmds : cmds' = (cmds \ {c}) \cup {[c EXCEPT !.stage = "sent"]}
    BY <1>13 DEF VenueSend
  <2>2. \A b \in cmds' : \E a \in cmds : b.ids = a.ids
    BY <2>1, <1>1
  <2>3. UNCHANGED <<admin, write, up>>
    BY <1>13, SMTT(30) DEF VenueSend
  <2>4. QED
    BY <2>2, <2>3, LeverageKept DEF NoNewWait, NothingHanded
<1>14. QED
  BY <1>2, <1>3, <1>4, <1>5, <1>6, <1>7, <1>8, <1>9, <1>10, <1>11, <1>12, <1>13, Zenon DEF Next

\* service_order_dispatches and dispatch_durable_leverage: there is at most one
\* leverage change, and none ever overlaps a placement in its symbol.
THEOREM LeverageNeverOverlaps == Spec => []LeverageExclusive
<1>1. Init => LeverageInv
  BY ZenonT(30) DEF Init, Started, LeverageInv, LeverageExclusive, NoWrite, Running
<1>2. Inv /\ LeverageInv /\ [Next]_vars => LeverageInv'
  BY LeverageStep
<1>3. LeverageInv => LeverageExclusive
  BY Zenon DEF LeverageInv
<1>4. QED
  BY <1>1, <1>2, <1>3, InvHolds, PTL DEF Spec
=============================================================================
