----------------------------- MODULE LogWriter ------------------------------
(***************************************************************************)
(* The log writer (seedstone-core/src/log/writer.rs): the one task that    *)
(* writes what every executor submits to the open segment, syncs it in     *)
(* rounds, rotates, and removes what the executors' images cover.          *)
(*                                                                         *)
(* `pc` is where the task is in `run`: at the select, draining the inbox,  *)
(* rotating, about to write the drain or to issue a sync, in the last      *)
(* round, or gone.  Only its awaits let another task run, and it reads     *)
(* nothing shared between two of them, so each step below is one atomic    *)
(* stretch of its code.                                                    *)
(***************************************************************************)
EXTENDS LogState, FiniteSetsExt

VARIABLES
    pc,
    lanes,       \* lanes[e]: what the writer knows of executor e (`Lane`)
    segment,     \* the open segment (`Segment`)
    staged,      \* <<executor, batch>> taken and not yet written, in order
    inflight,    \* the sync in flight, its result decided by the disk
    syncWanted,  \* an executor asked for a sync (`sync_wanted`)
    closed       \* the closed rotations still on disk, oldest first (`Closed`)

writerVars == <<pc, lanes, segment, staged, inflight, syncWanted, closed>>

Frozen == [Executors -> Nat]

Lane == [received : Nat, written : Nat, durable : Nat, pending : Nat,
         bytes : Nat, reported : Nat, covered : Nat,
         imaged : BOOLEAN, nudged : BOOLEAN, stopped : BOOLEAN]

Segment == [rotation : Nat, attempted : Nat, bytes : Nat,
            dirty : BOOLEAN, failed : BOOLEAN]

InFlight == [frozen : Frozen, covers : SUBSET Triple,
             result : {"none", "running", "ok", "err"}]

Closed == [rotation : Nat, last : Frozen, bytes : Nat]

WriterTypeOK ==
    /\ pc \in {"select", "drain", "rotate", "write", "issue", "last", "ended"}
    /\ lanes \in [Executors -> Lane]
    /\ segment \in Segment
    /\ staged \in Seq(Executors \X Nat)
    /\ inflight \in InFlight
    /\ syncWanted \in BOOLEAN
    /\ closed \in Seq(Closed)

NoSync == [frozen |-> [e \in Executors |-> 0], covers |-> {}, result |-> "none"]

NewLane == [received |-> 0, written |-> 0, durable |-> 0, pending |-> 0,
            bytes |-> 0, reported |-> 0, covered |-> 0,
            imaged |-> FALSE, nudged |-> FALSE, stopped |-> FALSE]

WriterInit ==
    /\ pc = "select"
    /\ lanes = [e \in Executors |-> NewLane]
    /\ segment = [rotation |-> 0, attempted |-> 0, bytes |-> 0,
                  dirty |-> FALSE, failed |-> FALSE]
    /\ staged = <<>>
    /\ inflight = NoSync
    /\ syncWanted = FALSE
    /\ closed = <<>>

-----------------------------------------------------------------------------
(* The disk under a sync. *)

\* A sync that succeeds makes durable what it covers, except the pages an
\* earlier failed one dropped.
SyncSucceeds(S) ==
    /\ synced' = synced \cup ((S \cap written) \ dropped)
    /\ UNCHANGED <<dropped, faults>>

\* One that fails may have dropped every page it had not written.
SyncFails(S) ==
    /\ DiskFails
    /\ dropped' = dropped \cup ((S \cap written) \ synced)
    /\ UNCHANGED synced

\* The sync in flight ends on the disk's own thread, before the writer hears.
DiskSyncs ==
    /\ inflight.result = "running"
    /\ \/ SyncSucceeds(inflight.covers) /\ inflight' = [inflight EXCEPT !.result = "ok"]
       \/ SyncFails(inflight.covers) /\ inflight' = [inflight EXCEPT !.result = "err"]
    /\ UNCHANGED <<pc, lanes, segment, staged, syncWanted, closed,
                   inbox, progress, written, images>>

-----------------------------------------------------------------------------
(* What the handlers share. *)

LaneWritten == [e \in Executors |-> lanes[e].written]

\* The lane after a failure: dropped bytes count as consumed.
LaneFailed(l) ==
    [l EXCEPT !.bytes = l.bytes + l.pending, !.pending = 0, !.received = l.written]

\* Tells a failure to the executors in `told`.
FailTelling(seg, told) ==
    /\ segment' = [seg EXCEPT !.failed = TRUE, !.dirty = FALSE]
    /\ staged' = <<>>
    /\ inflight' = NoSync
    /\ lanes' = [e \in Executors |-> LaneFailed(lanes[e])]
    /\ progress' = [e \in Executors |->
                      IF e \in told THEN Append(progress[e], Fault) ELSE progress[e]]

\* Planted: only the executors with bytes in the failed write are told.
FailTellsOnlyPending(seg) ==
    FailTelling(seg, {e \in Executors : lanes[e].pending > 0})

\* The log failed: the segment is never written again, what was staged is
\* dropped, the round in flight is let go, and a fresh failure reaches every
\* executor, a repeated one those with bytes in it.
Fail(seg) ==
    FailTelling(seg, {e \in Executors : ~seg.failed \/ lanes[e].pending > 0})

\* `Durable` to each executor whose covered batch advanced.
ReportDurable(frozen) ==
    LET advanced == {e \in Executors : frozen[e] > lanes[e].durable} IN
    /\ lanes' = [e \in Executors |->
                   IF e \in advanced
                   THEN [lanes[e] EXCEPT !.durable = frozen[e],
                                         !.reported = lanes[e].bytes]
                   ELSE lanes[e]]
    /\ progress' = [e \in Executors |->
                      IF e \in advanced
                      THEN Append(progress[e], Durable(frozen[e], lanes[e].bytes))
                      ELSE progress[e]]

\* Planted (`durable_from_written_now`): what was written during the flight is
\* claimed too.
RoundClaimsWritten == LaneWritten

RoundCovers == inflight.frozen

\* The round in flight settled.
Settle ==
    \/ /\ inflight.result = "ok"
       /\ ReportDurable(RoundCovers)
       /\ inflight' = NoSync
       /\ UNCHANGED <<segment, staged>>
    \/ inflight.result = "err" /\ Fail(segment)

-----------------------------------------------------------------------------
(* The select's first arm. *)

SyncDone ==
    /\ pc = "select"
    /\ Settle
    /\ pc' = "issue"
    /\ UNCHANGED <<syncWanted, closed, inbox, written, synced, dropped, images, faults>>

-----------------------------------------------------------------------------
(* The second arm: take the whole inbox, write it, sync if due. *)

\* A completion that is ready wins over the inbox.
CanTake ==
    /\ inbox # <<>>
    /\ pc = "drain" \/ (pc = "select" /\ inflight.result \in {"none", "running"})

TakeSubmit(m) ==
    /\ m.type = "Submit"
    /\ lanes' = [lanes EXCEPT ![m.executor] =
                   [@ EXCEPT !.received = m.batch,
                             !.pending = lanes[m.executor].pending + 1]]
    /\ staged' = Append(staged, <<m.executor, m.batch>>)
    /\ UNCHANGED <<syncWanted, closed, written, synced, dropped, images, faults>>

\* Planted (`removes_uncovered`): one executor's image is taken for all.
CoveredByAny(c, covered) == \E e \in Executors : c.last[e] # 0 /\ c.last[e] <= covered[e]

\* Every batch of the closed rotation c is in an image.
CoveredByAll(c, covered) == \A e \in Executors : c.last[e] <= covered[e]

\* Removes executor e's images older than `cycle` and the longest covered
\* prefix of the closed rotations.  A removal that fails keeps that image, or
\* that rotation and every later one.
Compact(e, cycle, covered) ==
    LET older == {im \in images[e] : im.cycle < cycle} IN
    \E kept \in SUBSET older, n \in 0 .. Len(closed) :
        LET gone == {closed[i].rotation : i \in 1 .. n}
            short == n < Len(closed) /\ CoveredByAll(closed[n + 1], covered)
        IN
        /\ \A i \in 1 .. n : CoveredByAll(closed[i], covered)
        /\ IF short \/ kept # {} THEN DiskFails ELSE UNCHANGED faults
        /\ images' = [images EXCEPT ![e] = (@ \ older) \cup kept]
        /\ closed' = SubSeq(closed, n + 1, Len(closed))
        /\ written' = {t \in written : t[1] \notin gone}
        /\ synced' = {t \in synced : t[1] \notin gone}
        /\ dropped' = {t \in dropped : t[1] \notin gone}

TakeCovered(m) ==
    /\ m.type = "Covered"
    /\ LET covered == Larger(lanes[m.executor].covered, m.through) IN
       /\ lanes' = [lanes EXCEPT ![m.executor] =
                      [@ EXCEPT !.covered = covered, !.imaged = TRUE, !.nudged = FALSE]]
       /\ Compact(m.executor, m.cycle,
                  [e \in Executors |-> IF e = m.executor THEN covered ELSE lanes[e].covered])
    /\ UNCHANGED <<staged, syncWanted>>

TakeSyncNow(m) ==
    /\ m.type = "SyncNow"
    /\ syncWanted' = TRUE
    /\ UNCHANGED <<lanes, staged, closed, written, synced, dropped, images, faults>>

TakeStop(m) ==
    /\ m.type = "Stop"
    /\ lanes' = [lanes EXCEPT ![m.executor].stopped = TRUE]
    /\ UNCHANGED <<staged, syncWanted, closed, written, synced, dropped, images, faults>>

Take ==
    /\ CanTake
    /\ LET m == Head(inbox) IN
       TakeSubmit(m) \/ TakeCovered(m) \/ TakeSyncNow(m) \/ TakeStop(m)
    /\ inbox' = Tail(inbox)
    /\ pc' = "drain"
    /\ UNCHANGED <<segment, inflight, progress>>

\* Planted: only a full segment is rotated away from.
RotatesOnlyFull == segment.bytes >= SegmentBatches

NeedsRotation == segment.failed \/ segment.bytes >= SegmentBatches

\* Nothing more to take: a segment that failed, or is full, is rotated first.
DrainEnds ==
    /\ pc = "drain"
    /\ inbox = <<>>
    /\ pc' = IF staged = <<>> THEN "issue" ELSE IF NeedsRotation THEN "rotate" ELSE "write"
    /\ UNCHANGED <<lanes, segment, staged, inflight, syncWanted, closed, sharedVars>>

\* Grain reached: the budget hears of what was written.
Reports(l) == l.bytes + l.pending - l.reported >= Grain

\* The lane once the drain is in the segment.
LaneWrote(l) ==
    [l EXCEPT !.written = l.received, !.bytes = l.bytes + l.pending, !.pending = 0,
              !.reported = IF Reports(l) THEN l.bytes + l.pending ELSE l.reported]

WriteStaged ==
    /\ pc = "write"
    /\ written' = written \cup
         {<<segment.rotation, staged[i][1], staged[i][2]>> : i \in DOMAIN staged}
    /\ staged' = <<>>
    /\ segment' = [segment EXCEPT !.bytes = segment.bytes + Len(staged), !.dirty = TRUE]
    /\ lanes' = [e \in Executors |-> LaneWrote(lanes[e])]
    /\ progress' = [e \in Executors |->
                      IF Reports(lanes[e])
                      THEN Append(progress[e], Written(lanes[e].bytes + lanes[e].pending))
                      ELSE progress[e]]
    /\ pc' = "issue"
    /\ UNCHANGED <<inflight, syncWanted, closed, inbox, synced, dropped, images, faults>>

\* Part of a failed write may be on disk; nothing is ever claimed of it.
WriteFails ==
    /\ pc = "write"
    /\ DiskFails
    /\ Fail(segment)
    /\ pc' = "issue"
    /\ UNCHANGED <<syncWanted, closed, inbox, written, synced, dropped, images>>

-----------------------------------------------------------------------------
(* `rotate`. *)

UnsyncedBytes == segment.dirty /\ ~segment.failed

\* The old file's unsynced bytes are synced, and nobody is told.
RotateSyncs ==
    /\ pc = "rotate"
    /\ UnsyncedBytes
    /\ \/ /\ SyncSucceeds(InRotation(written, segment.rotation))
          /\ segment' = [segment EXCEPT !.dirty = FALSE]
          /\ UNCHANGED <<pc, lanes, staged, inflight, progress>>
       \/ /\ SyncFails(InRotation(written, segment.rotation))
          /\ Fail(segment)
          /\ pc' = "issue"
    /\ UNCHANGED <<syncWanted, closed, inbox, written, images>>

Retained(cs) == MapThenSumSet(LAMBDA i : cs[i].bytes, DOMAIN cs)

\* `nudge_if_due`: executors holding back the oldest of the closed rotations cs.
NudgeDue(cs) ==
    {e \in Executors : /\ ~lanes[e].nudged
                       /\ cs[1].last[e] > lanes[e].covered
                       /\ Retained(cs) > Threshold(lanes[e].imaged)}

RotateSwaps ==
    /\ pc = "rotate"
    /\ ~UnsyncedBytes
    /\ segment' = [rotation |-> segment.attempted + 1,
                   attempted |-> segment.attempted + 1,
                   bytes |-> 0, dirty |-> FALSE, failed |-> FALSE]
    /\ closed' = Append(closed, [rotation |-> segment.rotation,
                                 last |-> LaneWritten,
                                 bytes |-> segment.bytes])
    /\ lanes' = [e \in Executors |->
                   [lanes[e] EXCEPT !.nudged = @ \/ e \in NudgeDue(closed')]]
    /\ progress' = [e \in Executors |->
                      IF e \in NudgeDue(closed')
                      THEN Append(progress[e], Nudge) ELSE progress[e]]
    /\ pc' = "write"
    /\ UNCHANGED <<staged, inflight, syncWanted, inbox, written, synced, dropped, images, faults>>

\* The next segment, or its directory entry, could not be made.
RotateFails ==
    /\ pc = "rotate"
    /\ ~UnsyncedBytes
    /\ DiskFails
    /\ Fail([segment EXCEPT !.attempted = segment.attempted + 1])
    /\ pc' = "issue"
    /\ UNCHANGED <<syncWanted, closed, inbox, written, synced, dropped, images>>

-----------------------------------------------------------------------------
(* `maybe_issue`: after every drain, every completion and every tick. *)

Cadence == Policy # "never" /\ segment.dirty

MayIssue ==
    /\ ~segment.failed
    /\ inflight.result = "none"
    /\ Cadence \/ syncWanted

\* Planted (`durable_on_issue`): answered before anything is on disk.
IssueAnswersAtOnce ==
    /\ MayIssue
    /\ syncWanted' = FALSE
    /\ segment' = [segment EXCEPT !.dirty = FALSE]
    /\ inflight' = [frozen |-> LaneWritten,
                    covers |-> InRotation(written, segment.rotation),
                    result |-> "running"]
    /\ ReportDurable(LaneWritten)
    /\ UNCHANGED <<staged, faults>>

Issue ==
    /\ MayIssue
    /\ syncWanted' = FALSE
    /\ segment' = [segment EXCEPT !.dirty = FALSE]
    /\ inflight' = [frozen |-> LaneWritten,
                    covers |-> InRotation(written, segment.rotation),
                    result |-> "running"]
    /\ UNCHANGED <<lanes, staged, progress, faults>>

\* The sync mark could not be written.
MarkFails ==
    /\ MayIssue
    /\ DiskFails
    /\ syncWanted' = FALSE
    /\ Fail(segment)

\* Nothing to issue; or the interval has not passed, and a later tick looks
\* again.
SkipIssue ==
    /\ MayIssue => Policy = "interval" /\ Cadence
    /\ UNCHANGED <<lanes, segment, staged, inflight, syncWanted, progress, faults>>

\* Planted: the last round waits for what it is there to sync.
AllStoppedAndDurable ==
    \A e \in Executors : lanes[e].stopped /\ lanes[e].written = lanes[e].durable

AllStopped == \A e \in Executors : lanes[e].stopped

MaybeIssue ==
    /\ pc = "issue"
    /\ Issue \/ MarkFails \/ SkipIssue
    /\ pc' = IF AllStopped THEN "last" ELSE "select"
    /\ UNCHANGED <<closed, inbox, written, synced, dropped, images>>

\* The third arm: the interval has passed.  A tick that issues nothing changes
\* nothing.
WriterTick ==
    /\ pc = "select"
    /\ inbox = <<>>
    /\ Issue \/ MarkFails
    /\ UNCHANGED <<pc, closed, inbox, written, synced, dropped, images>>

-----------------------------------------------------------------------------
(* `last_round`: every executor sent its Stop. *)

LastSettles ==
    /\ pc = "last"
    /\ Settle
    /\ UNCHANGED <<pc, syncWanted, closed, inbox, written, synced, dropped, images, faults>>

LastSyncs ==
    /\ pc = "last"
    /\ inflight.result = "none"
    /\ UnsyncedBytes
    /\ \/ /\ SyncSucceeds(InRotation(written, segment.rotation))
          /\ segment' = [segment EXCEPT !.dirty = FALSE]
          /\ ReportDurable(LaneWritten)
          /\ UNCHANGED <<staged, inflight>>
       \/ SyncFails(InRotation(written, segment.rotation)) /\ Fail(segment)
    /\ UNCHANGED <<pc, syncWanted, closed, inbox, written, images>>

\* Planted: the last round answers without its sync.
WriterEndsUnsynced ==
    /\ pc = "last"
    /\ inflight.result = "none"
    /\ progress' = [e \in Executors |-> Append(progress[e], Stopped)]
    /\ pc' = "ended"
    /\ UNCHANGED <<lanes, segment, staged, inflight, syncWanted, closed,
                   inbox, written, synced, dropped, images, faults>>

WriterEnds ==
    /\ pc = "last"
    /\ inflight.result = "none"
    /\ ~UnsyncedBytes
    /\ progress' = [e \in Executors |-> Append(progress[e], Stopped)]
    /\ pc' = "ended"
    /\ UNCHANGED <<lanes, segment, staged, inflight, syncWanted, closed,
                   inbox, written, synced, dropped, images, faults>>

-----------------------------------------------------------------------------

WriterStep ==
    \/ SyncDone \/ Take \/ DrainEnds \/ WriteStaged \/ WriteFails
    \/ RotateSyncs \/ RotateSwaps \/ RotateFails
    \/ MaybeIssue \/ WriterTick
    \/ LastSettles \/ LastSyncs \/ WriterEnds

WriterNext == WriterStep \/ DiskSyncs

=============================================================================
