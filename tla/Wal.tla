-------------------------------- MODULE Wal --------------------------------
(***************************************************************************)
(* engine-wal: the append-only log the engine replays at boot.  A family   *)
(* of numbered segment files, one writer with a buffer, a durability       *)
(* thread bound to one file, rotation in separately crashable steps, and   *)
(* the open that picks the newest segment it can trust.                    *)
(*                                                                         *)
(* A frame is a record with a distinct number, a segment base that         *)
(* restates a history, or damage.  A file has the frames handed to the     *)
(* operating system, how many of them the disk holds, and whether its      *)
(* directory entry is on disk.                                             *)
(***************************************************************************)
EXTENDS Integers, Sequences, FiniteSets

CONSTANTS MaxRecords,   \* bound: records appended in a behaviour
          MaxSegments,  \* bound: segment ordinals
          MaxCrashes,   \* bound: kills and power losses
          MaxPending,   \* bound: barriers begun and not yet answered
          HighWater,    \* BUFFER_HIGH_WATER, in frames
          TailKinds,    \* what a power loss may leave after the last whole frame
          FsyncNames    \* TRUE: sync_data of a file also keeps its directory entry

ASSUME WalAssumption ==
  /\ MaxRecords \in Nat /\ MaxSegments \in Nat \ {0} /\ MaxCrashes \in Nat
  /\ MaxPending \in Nat /\ HighWater \in Nat \ {0}
  /\ TailKinds \subseteq {"short", "garbled"}
  /\ FsyncNames \in BOOLEAN

VARIABLES files,    \* the segment files of the family
          cur,      \* segment_index of the writer
          buf,      \* frames appended and not yet handed to the OS
          nextSeq,  \* next_seq
          sync,     \* the segment the SyncThread holds, 0 when there is none
          pend,     \* barrier requests the thread has not answered
          rot,      \* how far rotate_measured has got
          mode,     \* "open", "down", "refused"
          hist,     \* the records the engine's state is made of
          settled,  \* how many of them a barrier has confirmed
          issued,   \* records ever appended
          crashes

vars == <<files, cur, buf, nextSeq, sync, pend, rot, mode, hist, settled, issued, crashes>>

Segments == 1..MaxSegments

RecordFrame(n) == [kind |-> "record", hist |-> <<n>>]
BaseFrame(h) == [kind |-> "base", hist |-> h]
Damage(k) == [kind |-> k, hist |-> << >>]

NoFile == [made |-> FALSE, named |-> FALSE, header |-> "none", frames |-> << >>, synced |-> -1]
Sound(frame) == frame.kind \in {"record", "base"}
MaxOf(S) == CHOOSE m \in S : \A n \in S : n <= m
MinOf(S) == CHOOSE m \in S : \A n \in S : m <= n

-----------------------------------------------------------------------------
(* Reading a file back. *)

\* scan_frames: how many frames decode before the scan stops.
Decoded(f) ==
  IF f.header # "full" THEN 0
  ELSE LET bad == {i \in 1..Len(f.frames) : ~Sound(f.frames[i])}
       IN IF bad = {} THEN Len(f.frames) ELSE MinOf(bad) - 1

Good(f) == SubSeq(f.frames, 1, Decoded(f))

\* A frame the scan stops on is a torn tail when it runs past the end of the
\* file or has no length, and corruption when its checksum does not match.  A
\* write cut part-way is a torn tail until more bytes follow it.
Corrupt(f) ==
  /\ Decoded(f) < Len(f.frames)
  /\ LET stop == f.frames[Decoded(f) + 1]
     IN \/ stop.kind = "garbled"
        \/ stop.kind = "cut" /\ Decoded(f) + 1 < Len(f.frames)

StartsWithBase(f) == Decoded(f) > 0 /\ f.frames[1].kind = "base"

\* open_current_kept skips a numbered segment whose header never finished or
\* whose first record is not a complete SegmentBase; segment 1 is never skipped.
Skipped(fs, s) ==
  /\ s > 1
  /\ fs[s].header # "full" \/ (~Corrupt(fs[s]) /\ ~StartsWithBase(fs[s]))

Newest(fs) == MaxOf({s \in Segments : fs[s].made})
Chosen(fs) == MaxOf({s \in Segments : fs[s].made /\ ~Skipped(fs, s)})

\* What replaying frames rebuilds: a base sets the history, a record adds to it.
Restated(frames) ==
  IF frames = << >> THEN << >>
  ELSE Head(frames).hist \o [i \in 1..(Len(frames) - 1) |-> frames[i + 1].hist[1]]

Recovered(fs) == Restated(Good(fs[Chosen(fs)]))

\* The history the next process would start from.  A corrupt segment starts
\* none: the open refuses it and leaves the files as they are.
Reopened(fs) == IF Corrupt(fs[Chosen(fs)]) THEN hist ELSE Recovered(fs)

-----------------------------------------------------------------------------
Headers == {"none", "part", "full"}
FrameKinds == {"record", "base", "short", "garbled", "cut"}
RotationSteps == {"idle", "archived", "created", "headed", "based", "synced", "named"}
Frame == [kind : FrameKinds, hist : Seq(1..MaxRecords)]
File == [made : BOOLEAN, named : BOOLEAN, header : Headers, frames : Seq(Frame), synced : Int]

TypeOK ==
  /\ files \in [Segments -> File]
  /\ \A s \in Segments : files[s].synced \in -1..Len(files[s].frames)
  /\ cur \in Segments
  /\ buf \in Seq(Frame) /\ \A i \in 1..Len(buf) : Sound(buf[i])
  /\ nextSeq \in Nat \ {0}
  /\ sync \in 0..MaxSegments
  /\ pend \in Seq([seg : Segments, upto : Nat])
  /\ rot \in RotationSteps
  /\ mode \in {"open", "down", "refused"}
  /\ hist \in Seq(1..MaxRecords)
  /\ settled \in Nat
  /\ issued \in 0..MaxRecords /\ crashes \in 0..MaxCrashes

\* The first open of a new family has written the header and synced the
\* file and its directory.
Init ==
  /\ files = [s \in Segments |->
                IF s = 1 THEN [made |-> TRUE, named |-> TRUE, header |-> "full",
                               frames |-> << >>, synced |-> 0]
                ELSE NoFile]
  /\ cur = 1 /\ buf = << >> /\ nextSeq = 1
  /\ sync \in {0, 1} /\ pend = << >>
  /\ rot = "idle" /\ mode = "open"
  /\ hist = << >> /\ settled = 0 /\ issued = 0 /\ crashes = 0

-----------------------------------------------------------------------------
(* The writer. *)

Running == mode = "open" /\ rot = "idle"

\* push_to_os: the whole buffer goes to file s, the current one, then it is cleared.
Pushed(fs, s, frames) == [fs EXCEPT ![s].frames = @ \o frames]

\* sync_data on segment s.
Synced(fs, s) == [fs EXCEPT ![s].synced = Len(fs[s].frames),
                            ![s].named = @ \/ FsyncNames]

\* append: the record is framed into the buffer and gets the next sequence; a
\* buffer past the high-water mark is pushed.
WalAppend ==
  /\ Running /\ issued < MaxRecords
  /\ issued' = issued + 1
  /\ hist' = Append(hist, issued + 1)
  /\ nextSeq' = nextSeq + 1
  /\ LET full == Append(buf, RecordFrame(issued + 1))
     IN IF Len(full) >= HighWater
        THEN files' = Pushed(files, cur, full) /\ buf' = << >>
        ELSE buf' = full /\ UNCHANGED files
  /\ UNCHANGED <<cur, sync, pend, rot, mode, settled, crashes>>

\* append whose push fails part-way: the frame and its sequence are taken, the
\* bytes already written stay in the file, and the buffer is not cleared.  The
\* leverage check appends its note with the error ignored, so the writer lives.
AppendWriteFails ==
  /\ Running /\ issued < MaxRecords
  /\ Len(buf) + 1 >= HighWater
  /\ issued' = issued + 1
  /\ hist' = Append(hist, issued + 1)
  /\ nextSeq' = nextSeq + 1
  /\ LET full == Append(buf, RecordFrame(issued + 1))
     IN /\ buf' = full
        /\ \E n \in 0..(Len(full) - 1), part \in {<< >>, <<Damage("short")>>, <<Damage("cut")>>} :
             files' = Pushed(files, cur, SubSeq(full, 1, n) \o part)
  /\ UNCHANGED <<cur, sync, pend, rot, mode, settled, crashes>>

\* flush, and the push the three log readers start with.
WalFlush ==
  /\ Running /\ buf # << >>
  /\ files' = Pushed(files, cur, buf) /\ buf' = << >>
  /\ UNCHANGED <<cur, nextSeq, sync, pend, rot, mode, hist, settled, issued, crashes>>

\* barrier, and barrier_begin when there is no thread to ask: push and sync on
\* the caller.
WalBarrier ==
  /\ Running
  /\ files' = Synced(Pushed(files, cur, buf), cur)
  /\ buf' = << >>
  /\ settled' = Len(hist)
  /\ UNCHANGED <<cur, nextSeq, sync, pend, rot, mode, hist, issued, crashes>>

\* barrier_begin: push on the caller, then ask the thread.
WalBarrierBegin ==
  /\ Running /\ sync # 0 /\ Len(pend) < MaxPending
  /\ files' = Pushed(files, cur, buf) /\ buf' = << >>
  /\ pend' = Append(pend, [seg |-> sync, upto |-> Len(hist)])
  /\ UNCHANGED <<cur, nextSeq, sync, rot, mode, hist, settled, issued, crashes>>

\* The SyncThread answers its oldest request with sync_data of its own file.
\* A thread a rotation replaced still answers what it had been asked.
SyncAnswer ==
  /\ mode = "open" /\ pend # << >>
  /\ files' = Synced(files, Head(pend).seg)
  /\ settled' = MaxOf({settled, Head(pend).upto})
  /\ pend' = Tail(pend)
  /\ UNCHANGED <<cur, buf, nextSeq, sync, rot, mode, hist, issued, crashes>>

-----------------------------------------------------------------------------
(* rotate_measured, one action per step a crash can fall between. *)

NextIndex == Newest(files) + 1

\* Mutant: the archive is synced without its buffered tail.
RotateArchiveUnpushed ==
  /\ Running /\ NextIndex \in Segments
  /\ files' = Synced(files, cur)
  /\ rot' = "archived"
  /\ UNCHANGED <<cur, buf, nextSeq, sync, pend, mode, hist, settled, issued, crashes>>

\* 1. The old segment's tail is pushed and synced.
RotateArchive ==
  /\ Running /\ NextIndex \in Segments
  /\ files' = Synced(Pushed(files, cur, buf), cur)
  /\ buf' = << >>
  /\ rot' = "archived"
  /\ UNCHANGED <<cur, nextSeq, sync, pend, mode, hist, settled, issued, crashes>>

\* 2. create_new one past the highest number, then the header, then the base.
RotateCreate ==
  /\ mode = "open" /\ rot = "archived"
  /\ files' = [files EXCEPT ![NextIndex] = [NoFile EXCEPT !.made = TRUE]]
  /\ rot' = "created"
  /\ UNCHANGED <<cur, buf, nextSeq, sync, pend, mode, hist, settled, issued, crashes>>

RotateHeader ==
  /\ mode = "open" /\ rot = "created"
  /\ files' = [files EXCEPT ![Newest(files)].header = "full"]
  /\ rot' = "headed"
  /\ UNCHANGED <<cur, buf, nextSeq, sync, pend, mode, hist, settled, issued, crashes>>

RotateBase ==
  /\ mode = "open" /\ rot = "headed"
  /\ files' = [files EXCEPT ![Newest(files)].frames = <<BaseFrame(hist)>>]
  /\ rot' = "based"
  /\ UNCHANGED <<cur, buf, nextSeq, sync, pend, mode, hist, settled, issued, crashes>>

\* 3. The restatement durable, then its name durable.
RotateSyncFile ==
  /\ mode = "open" /\ rot = "based"
  /\ files' = Synced(files, Newest(files))
  /\ rot' = "synced"
  /\ UNCHANGED <<cur, buf, nextSeq, sync, pend, mode, hist, settled, issued, crashes>>

RotateSyncDir ==
  /\ mode = "open" /\ rot = "synced"
  /\ files' = [s \in Segments |-> [files[s] EXCEPT !.named = files[s].made]]
  /\ rot' = "named"
  /\ UNCHANGED <<cur, buf, nextSeq, sync, pend, mode, hist, settled, issued, crashes>>

\* Mutant: the durability thread keeps the archive's file.
RotateSwitchOldThread ==
  /\ mode = "open" /\ rot = "named"
  /\ cur' = Newest(files)
  /\ nextSeq' = 2
  /\ settled' = Len(hist)
  /\ rot' = "idle"
  /\ UNCHANGED <<files, buf, sync, pend, mode, hist, issued, crashes>>

\* Mutant: the sequence restarts as if the base were not a frame.
RotateSwitchSequence ==
  /\ mode = "open" /\ rot = "named"
  /\ cur' = Newest(files)
  /\ sync' \in {0, Newest(files)}
  /\ nextSeq' = 1
  /\ settled' = Len(hist)
  /\ rot' = "idle"
  /\ UNCHANGED <<files, buf, pend, mode, hist, issued, crashes>>

\* 4. Switch: a new thread on the new file (or none, if it cannot start), the
\*    sequence restarts behind the base.
RotateSwitch ==
  /\ mode = "open" /\ rot = "named"
  /\ cur' = Newest(files)
  /\ sync' \in {0, Newest(files)}
  /\ nextSeq' = 2
  /\ settled' = Len(hist)
  /\ rot' = "idle"
  /\ UNCHANGED <<files, buf, pend, mode, hist, issued, crashes>>

-----------------------------------------------------------------------------
(* Stopping and starting. *)

Stop(fs) ==
  /\ mode' = "down" /\ rot' = "idle"
  /\ files' = fs /\ hist' = Reopened(fs)
  /\ buf' = << >> /\ pend' = << >> /\ sync' = 0
  /\ crashes' = crashes + 1
  /\ UNCHANGED <<cur, nextSeq, settled, issued>>

\* Drop, on a return from the engine loop with or without an error: the buffer
\* is pushed and the result ignored.
DropWriter ==
  /\ mode = "open" /\ crashes < MaxCrashes
  /\ Stop(Pushed(files, cur, buf))

\* The process dies; the operating system keeps what it was handed.
Kill ==
  /\ mode = "open" /\ crashes < MaxCrashes
  /\ Stop(files)

\* Everything about the file is on disk.
Fixed(f) == f.named /\ f.synced = Len(f.frames)

\* What the disk may hold of file f after the machine loses power: a file whose
\* name was not synced may be gone, the synced frames are there, and the rest
\* is a prefix that may end in damage.
Survivors(f) ==
  LET Whole(h, fr) == [made |-> TRUE, named |-> TRUE, header |-> h,
                       frames |-> fr, synced |-> Len(fr)]
      kept == {Whole("full", SubSeq(f.frames, 1, n)) :
                 n \in MaxOf({f.synced, 0})..Len(f.frames)}
      torn == {Whole("full", Append(SubSeq(f.frames, 1, n), Damage(k))) :
                 n \in MaxOf({f.synced, 0})..(Len(f.frames) - 1), k \in TailKinds}
      unheaded == IF f.synced >= 0 THEN {} ELSE {Whole("none", << >>), Whole("part", << >>)}
      gone == IF f.named THEN {} ELSE {NoFile}
  IN IF ~f.made \/ Fixed(f) THEN {f}
     ELSE (IF f.header = "full" THEN kept \cup torn ELSE {}) \cup unheaded \cup gone

PowerLoss ==
  /\ crashes < MaxCrashes
  /\ \E fs \in [Segments -> UNION {Survivors(files[s]) : s \in Segments}] :
       /\ \A s \in Segments : fs[s] \in Survivors(files[s])
       /\ \/ mode = "open" /\ Stop(fs)
          \/ /\ mode = "down"
             /\ files' = fs /\ hist' = Reopened(fs) /\ crashes' = crashes + 1
             /\ UNCHANGED <<cur, buf, nextSeq, sync, pend, rot, mode, settled, issued>>

\* Mutant: the next sequence is the number of frames read, not one past it.
OpenCurrentSequence ==
  /\ mode = "down"
  /\ LET s == Chosen(files)
     IN /\ ~Corrupt(files[s])
        /\ mode' = "open"
        /\ cur' = s
        /\ nextSeq' = Decoded(files[s])
        /\ sync' \in {0, s}
  /\ UNCHANGED <<files, buf, pend, rot, hist, settled, issued, crashes>>

\* open_current: the newest trusted segment, its tail cut at the last good
\* frame; corruption in a segment that is not skipped refuses the open.
OpenCurrent ==
  /\ mode = "down"
  /\ LET s == Chosen(files)
     IN IF Corrupt(files[s])
        THEN mode' = "refused" /\ UNCHANGED <<files, cur, nextSeq, sync>>
        ELSE /\ mode' = "open"
             /\ files' = [files EXCEPT ![s].frames = Good(files[s]),
                                       ![s].synced = MinOf({@, Decoded(files[s])})]
             /\ cur' = s
             /\ nextSeq' = Decoded(files[s]) + 1
             /\ sync' \in {0, s}
  /\ UNCHANGED <<buf, pend, rot, hist, settled, issued, crashes>>

Next ==
  \/ WalAppend \/ WalFlush \/ WalBarrier \/ WalBarrierBegin \/ SyncAnswer
  \/ RotateArchive \/ RotateCreate \/ RotateHeader \/ RotateBase
  \/ RotateSyncFile \/ RotateSyncDir \/ RotateSwitch
  \/ DropWriter \/ Kill \/ PowerLoss \/ OpenCurrent

Spec == Init /\ [][Next]_vars

\* The same system with writes that may fail part-way.
FaultyNext == Next \/ AppendWriteFails
FaultySpec == Init /\ [][FaultyNext]_vars

-----------------------------------------------------------------------------
(* Properties. *)

\* Barriers and crashes (lib.rs, barrier and open_current): the log behaves as
\* DurableLog says.  Whatever step of an append, a barrier or a rotation a crash
\* falls on, the segment open_current picks holds every record a completed
\* barrier covered, and what it loses is a suffix.
Durable == INSTANCE DurableLog WITH log <- hist, Record <- 1..MaxRecords
ImplementsDurableLog == Durable!LogSpec

\* Sequences are not stored (lib.rs, append and scan_frames): the sequence the
\* next append returns is the index its frame will have in the file, and the
\* current segment with the buffer behind it replays to exactly what was
\* appended.
SequenceIsFrameIndex ==
  Running =>
    /\ nextSeq = Len(files[cur].frames) + Len(buf) + 1
    /\ Restated(files[cur].frames \o buf) = hist

\* The crash-ordering argument of rotate_measured: a process that dies between
\* any two steps of a rotation reopens with the history it had, from the old
\* segment or from the new one.
RotationCrashEquivalent ==
  (mode = "open" /\ rot # "idle") => Recovered(files) = hist

-----------------------------------------------------------------------------
(* The inductive invariant behind the theorems of WalProofs, where a sync of a file keeps
   its name. *)

IsRecord(frame) == frame.kind = "record" /\ Len(frame.hist) = 1

\* The frames of segment s as the writer leaves them: a base first in a numbered segment, records
\* behind it.
Chain(frames, s) ==
  /\ s > 1 => frames # << >>
  /\ \A i \in 1..Len(frames) : IF i = 1 /\ s > 1 THEN frames[i].kind = "base" ELSE IsRecord(frames[i])

\* How many records the first n frames restate.
Restates(frames, n) == IF n = 0 THEN 0 ELSE Len(frames[1].hist) + n - 1

\* A rotation that never finished: no crash can make open_current trust this file.
Dead(f) ==
  \/ f.header # "full" \/ f.frames = << >>
  \/ Len(f.frames) = 1 /\ f.frames[1].kind = "short" /\ Fixed(f)

Abandoned(fs, from, to) == \A s \in Segments : s > from /\ s < to /\ fs[s].made => Dead(fs[s])

\* A segment that is on disk with all its frames.
Solid(f, s) == f.made /\ f.header = "full" /\ Chain(f.frames, s) /\ Fixed(f)

\* The frames a boot would read of the live segment; a torn tail is one frame and is on disk.
Readable(f, s) ==
  /\ f.made /\ f.header = "full" /\ Chain(Good(f), s)
  /\ \/ Decoded(f) = Len(f.frames)
     \/ Decoded(f) = Len(f.frames) - 1 /\ f.frames[Len(f.frames)].kind = "short" /\ Fixed(f)

\* The first k records are on disk in segment c, or in the segment its base restates.
Firm(f, c, k) ==
  /\ f.named
  /\ \E n \in 0..Decoded(f) : (c > 1 => n > 0) /\ n <= f.synced /\ k <= Restates(f.frames, n)
Backed(fs, c, k) ==
  \E b \in Segments :
    /\ b < c /\ Solid(fs[b], b) /\ Abandoned(fs, b, c)
    /\ fs[c].frames[1].hist = Restated(fs[b].frames)
    /\ k <= Len(fs[c].frames[1].hist)

\* Segment c is the one a boot would choose, and loses none of the first k records.
Live(fs, c, k) ==
  /\ c \in Segments /\ Readable(fs[c], c)
  /\ Abandoned(fs, c, MaxSegments + 1)
  /\ Firm(fs[c], c, k) \/ Backed(fs, c, k)

\* A rotation in progress: the old segment is on disk, the new one is built above it, and is live
\* once it holds its base.
RotationInv ==
  LET n == Newest(files)
  IN /\ buf = << >> /\ Solid(files[cur], cur)
     /\ rot = "archived" => n + 1 \in Segments
     /\ rot # "archived" => n > cur /\ Abandoned(files, cur, n)
     /\ rot \in {"created", "headed"} => files[n].frames = << >> /\ files[n].synced = -1
     /\ rot = "headed" => files[n].header = "full"
     /\ rot \in {"based", "synced", "named"} =>
          Live(files, n, settled) /\ files[n].frames = <<BaseFrame(hist)>>
     /\ rot \in {"synced", "named"} => files[n].synced = 1 /\ files[n].named

WriterInv ==
  /\ Chain(files[cur].frames, cur)
  /\ rot \notin {"based", "synced", "named"} => Live(files, cur, settled)
  /\ \A i \in 1..Len(buf) : IsRecord(buf[i])
  /\ Restated(files[cur].frames \o buf) = hist
  /\ nextSeq = Len(files[cur].frames) + Len(buf) + 1
  /\ sync \in {0, cur}
  /\ \A i \in 1..Len(pend) :
       /\ pend[i].seg <= cur
       /\ \/ pend[i].upto <= settled
          \/ pend[i].seg = cur /\ pend[i].upto <= Restates(files[cur].frames, Len(files[cur].frames))
  /\ rot # "idle" => RotationInv

StoppedInv ==
  /\ buf = << >> /\ pend = << >> /\ rot = "idle"
  /\ \/ Corrupt(files[Chosen(files)]) /\ \A s \in Segments : files[s].made => Fixed(files[s])
     \/ \E c \in Segments : Live(files, c, settled) /\ hist = Restated(Good(files[c]))

\* Whatever happens, the segment a boot would choose restates what was settled, an unfinished
\* rotation is never chosen, and a segment not yet durable is backed by the one it restates.
WalInv ==
  /\ TypeOK /\ settled <= Len(hist)
  /\ mode = "open" => WriterInv
  /\ mode = "down" => StoppedInv

\* barrier: every record a completed barrier covered is in the history the
\* next boot replays.
SettledSurvives == settled <= Len(hist)

\* The crash-ordering comment of rotate_measured, step 2: a crash while the
\* base record is being written leaves a first frame that fails its checksum,
\* and open_current falls back to the segment before it.
TornRestatementFallsBack ==
  (mode = "down" /\ \A s \in Segments : s < Newest(files) => ~Corrupt(files[s]))
    => \/ Newest(files) = 1
       \/ Decoded(files[Newest(files)]) > 0
       \/ Chosen(files) < Newest(files)
=============================================================================
