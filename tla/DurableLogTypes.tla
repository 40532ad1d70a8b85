-------------------------- MODULE DurableLogTypes ---------------------------
(***************************************************************************)
(* Type correctness of DurableLog, for every set of executors, every       *)
(* policy and every bound: the base every other proof stands on.           *)
(***************************************************************************)
EXTENDS DurableLog, TLAPS

-----------------------------------------------------------------------------
(* Messages and record updates. *)

\* Every message the two sides send is one its channel carries.
LEMMA MessageTypes ==
    /\ \A e \in Executors, b \in Nat : Submit(e, b) \in ToWriter
    /\ \A e \in Executors, c, t \in Nat : Covered(e, c, t) \in ToWriter
    /\ SyncNow \in ToWriter
    /\ \A e \in Executors : Stop(e) \in ToWriter
    /\ \A n \in Nat : Written(n) \in Progress
    /\ \A b, n \in Nat : Durable(b, n) \in Progress
    /\ Fault \in Progress /\ Nudge \in Progress /\ Stopped \in Progress
BY DEF Submit, Covered, SyncNow, Stop, Written, Durable, Fault, Nudge, Stopped,
       ToWriter, Progress

\* Sending the same message to some executors, or to each its own, keeps the
\* progress channels well typed.
LEMMA SendTypes ==
    ASSUME progress \in [Executors -> Seq(Progress)],
           NEW told, NEW msg \in [Executors -> Progress]
    PROVE  [e \in Executors |->
              IF e \in told THEN Append(progress[e], msg[e]) ELSE progress[e]]
               \in [Executors -> Seq(Progress)]
OBVIOUS

\* The updates the writer makes to a lane keep its type.
LEMMA LaneUpdates ==
    ASSUME NEW l \in Lane, NEW a \in Nat, NEW b \in Nat, NEW c \in Nat, NEW d \in Nat,
           NEW p \in BOOLEAN, NEW q \in BOOLEAN
    PROVE  /\ [l EXCEPT !.bytes = a, !.pending = b, !.received = c] \in Lane
           /\ [l EXCEPT !.durable = a, !.reported = b] \in Lane
           /\ [l EXCEPT !.received = a, !.pending = b] \in Lane
           /\ [l EXCEPT !.covered = a, !.imaged = p, !.nudged = q] \in Lane
           /\ [l EXCEPT !.stopped = p] \in Lane
           /\ [l EXCEPT !.nudged = p] \in Lane
           /\ [l EXCEPT !.written = a, !.bytes = b, !.pending = c, !.reported = d] \in Lane
BY ZenonT(40) DEF Lane

\* So do a failure and a write, byte counts included.
LEMMA LaneOperators ==
    ASSUME NEW l \in Lane
    PROVE  LaneFailed(l) \in Lane /\ LaneWrote(l) \in Lane
<1>1. /\ l.bytes + l.pending \in Nat
      /\ l.written \in Nat /\ l.received \in Nat /\ l.reported \in Nat
  BY DEF Lane
<1>2. LaneFailed(l) \in Lane
  BY ZenonT(40), <1>1, LaneUpdates DEF LaneFailed
<1>3. (IF Reports(l) THEN l.bytes + l.pending ELSE l.reported) \in Nat
  BY SMTT(30), <1>1
<1>4. LaneWrote(l) \in Lane
  BY ZenonT(40), <1>1, <1>3, LaneUpdates DEF LaneWrote
<1> QED
  BY <1>2, <1>4

\* The updates it makes to the open segment.
LEMMA SegmentUpdates ==
    ASSUME NEW s \in Segment, NEW n \in Nat, NEW p \in BOOLEAN, NEW q \in BOOLEAN
    PROVE  /\ [s EXCEPT !.failed = p, !.dirty = q] \in Segment
           /\ [s EXCEPT !.bytes = n, !.dirty = p] \in Segment
           /\ [s EXCEPT !.attempted = n] \in Segment
           /\ [s EXCEPT !.dirty = p] \in Segment
BY Zenon DEF Segment

\* The larger of two numbers is one of them and at least each.
LEMMA LargerType ==
    ASSUME NEW a \in Nat, NEW b \in Nat
    PROVE  /\ Larger(a, b) \in Nat
           /\ Larger(a, b) >= a
           /\ Larger(a, b) >= b
           /\ Larger(a, b) \in {a, b}
BY DEF Larger

-----------------------------------------------------------------------------
(* The initial state. *)

\* A fresh log, its writer and its executors are well typed.
LEMMA InitTypes == Init => TypeOK
<1> SUFFICES ASSUME Init PROVE TypeOK
  OBVIOUS
<1>1. SharedTypeOK
  BY DEF Init, SharedInit, SharedTypeOK
<1>2. WriterTypeOK
  <2>1. NewLane \in Lane
    BY DEF NewLane, Lane
  <2>2. NoSync \in InFlight
    BY DEF NoSync, InFlight, Frozen
  <2>3. segment \in Segment
    BY DEF Init, WriterInit, Segment
  <2>4. /\ lanes = [e \in Executors |-> NewLane]
        /\ inflight = NoSync
        /\ staged = <<>> /\ closed = <<>>
        /\ pc = "select" /\ syncWanted = FALSE
    BY DEF Init, WriterInit
  <2>5. lanes \in [Executors -> Lane]
    BY <2>1, <2>4
  <2>6. staged \in Seq(Executors \X Nat) /\ closed \in Seq(Closed)
    BY <2>4
  <2> QED
    BY Zenon, <2>2, <2>3, <2>4, <2>5, <2>6 DEF WriterTypeOK
<1>3. ExecTypeOK
  BY Zenon DEF Init, ExecInit, ExecTypeOK, SyncState, Checkpoint, Cycle, Saves, NoCycle, Fresh
<1> QED
  BY Zenon, <1>1, <1>2, <1>3 DEF Init, TypeOK

-----------------------------------------------------------------------------
(* The writer. *)

\* What a failure of the log changes keeps its type.
LEMMA FailTypes ==
    ASSUME TypeOK, NEW seg \in Segment, Fail(seg)
    PROVE  /\ lanes' \in [Executors -> Lane]
           /\ segment' \in Segment
           /\ staged' \in Seq(Executors \X Nat)
           /\ inflight' \in InFlight
           /\ progress' \in [Executors -> Seq(Progress)]
<1> DEFINE told == {e \in Executors : ~seg.failed \/ lanes[e].pending > 0}
           msg == [e \in Executors |-> Fault]
<1> USE DEF Fail, FailTelling
<1>1. lanes' \in [Executors -> Lane]
  BY LaneOperators DEF TypeOK, WriterTypeOK
<1>2. segment' \in Segment
  BY Zenon, SegmentUpdates
<1>3. staged' \in Seq(Executors \X Nat)
  <2>1. staged' = <<>>
    OBVIOUS
  <2> HIDE DEF Fail, FailTelling
  <2> QED
    BY <2>1
<1>4. inflight' \in InFlight
  BY DEF NoSync, InFlight, Frozen
<1>5. progress' \in [Executors -> Seq(Progress)]
  <2>1. msg \in [Executors -> Progress]
    BY MessageTypes
  <2>2. progress' = [e \in Executors |->
                       IF e \in told THEN Append(progress[e], msg[e]) ELSE progress[e]]
    OBVIOUS
  <2> HIDE DEF told, msg, Fail, FailTelling
  <2> QED
    BY <2>1, <2>2, SendTypes DEF TypeOK, SharedTypeOK
<1> QED
  BY <1>1, <1>2, <1>3, <1>4, <1>5

\* Nor does a report of durable batches.
LEMMA ReportTypes ==
    ASSUME TypeOK, NEW frozen \in Frozen, ReportDurable(frozen)
    PROVE  /\ lanes' \in [Executors -> Lane]
           /\ progress' \in [Executors -> Seq(Progress)]
<1> DEFINE told == {e \in Executors : frozen[e] > lanes[e].durable}
           msg == [e \in Executors |-> Durable(frozen[e], lanes[e].bytes)]
<1>1. \A e \in Executors : frozen[e] \in Nat /\ lanes[e] \in Lane /\ lanes[e].bytes \in Nat
  BY SMTT(30) DEF TypeOK, WriterTypeOK, Lane, Frozen
<1>2. lanes' \in [Executors -> Lane]
  BY Zenon, <1>1, LaneUpdates DEF ReportDurable
<1>3. progress' \in [Executors -> Seq(Progress)]
  <2>1. msg \in [Executors -> Progress]
    BY SMTT(30), <1>1, MessageTypes
  <2>2. progress' = [e \in Executors |->
                       IF e \in told THEN Append(progress[e], msg[e]) ELSE progress[e]]
    BY Zenon DEF ReportDurable
  <2> HIDE DEF told, msg
  <2> QED
    BY <2>1, <2>2, SendTypes DEF TypeOK, SharedTypeOK
<1> QED
  BY <1>2, <1>3

\* The batches a round freezes, one per executor.
LEMMA FrozenTypes ==
    ASSUME TypeOK
    PROVE  LaneWritten \in Frozen /\ RoundCovers \in Frozen
BY DEF TypeOK, WriterTypeOK, LaneWritten, RoundCovers, Frozen, Lane, InFlight

\* The round in flight settled, either way.
LEMMA SettleTypes ==
    ASSUME TypeOK, Settle
    PROVE  /\ lanes' \in [Executors -> Lane]
           /\ segment' \in Segment
           /\ staged' \in Seq(Executors \X Nat)
           /\ inflight' \in InFlight
           /\ progress' \in [Executors -> Seq(Progress)]
<1> USE DEF TypeOK, WriterTypeOK
<1>1. CASE inflight.result = "err" /\ Fail(segment)
  BY <1>1, FailTypes
<1>2. CASE /\ inflight.result = "ok"
           /\ ReportDurable(RoundCovers)
           /\ inflight' = NoSync
           /\ UNCHANGED <<segment, staged>>
  BY <1>2, ReportTypes, FrozenTypes DEF NoSync, InFlight, Frozen
<1> QED
  BY <1>1, <1>2 DEF Settle

\* A sync of some of the log, either way: only written batches become
\* synced or dropped.
LEMMA DiskTypes ==
    ASSUME TypeOK, NEW S \in SUBSET Triple, SyncSucceeds(S) \/ SyncFails(S)
    PROVE  /\ synced' \subseteq written
           /\ dropped' \subseteq written
           /\ faults' \in Nat
BY SMTT(30) DEF TypeOK, SharedTypeOK, SyncSucceeds, SyncFails, DiskFails

\* A sync issued.
LEMMA IssueTypes ==
    ASSUME TypeOK, Issue
    PROVE  inflight' \in InFlight /\ segment' \in Segment /\ syncWanted' \in BOOLEAN
<1>1. InRotation(written, segment.rotation) \in SUBSET Triple
  BY DEF TypeOK, SharedTypeOK, InRotation
<1>2. inflight' \in InFlight
  BY <1>1, FrozenTypes DEF Issue, InFlight
<1> QED
  BY Zenon, <1>2, SegmentUpdates DEF Issue, TypeOK, WriterTypeOK

\* A sync issued, its mark failed, or none due.
LEMMA MaybeIssueTypes ==
    ASSUME TypeOK, Issue \/ MarkFails \/ SkipIssue
    PROVE  /\ lanes' \in [Executors -> Lane]
           /\ segment' \in Segment
           /\ staged' \in Seq(Executors \X Nat)
           /\ inflight' \in InFlight
           /\ syncWanted' \in BOOLEAN
           /\ progress' \in [Executors -> Seq(Progress)]
           /\ faults' \in Nat
<1>1. CASE Issue
  BY Zenon, <1>1, IssueTypes DEF Issue, TypeOK, WriterTypeOK, SharedTypeOK
<1>2. CASE MarkFails
  <2>1. Fail(segment) /\ segment \in Segment /\ syncWanted' = FALSE /\ faults' \in Nat
    BY <1>2 DEF MarkFails, DiskFails, TypeOK, WriterTypeOK, SharedTypeOK
  <2> QED
    BY Zenon, <2>1, FailTypes
<1>3. CASE SkipIssue
  BY <1>3 DEF SkipIssue, TypeOK, WriterTypeOK, SharedTypeOK
<1> QED
  BY <1>1, <1>2, <1>3

\* A message taken from the inbox, of any kind, compaction included.
LEMMA TakeTypes == ASSUME TypeOK, Take PROVE SharedTypeOK' /\ WriterTypeOK'
<1> DEFINE m == Head(inbox)
<1> USE DEF TypeOK, WriterTypeOK, SharedTypeOK
<1>1. m \in ToWriter /\ inbox' \in Seq(ToWriter)
  BY DEF Take, CanTake
<1>2. /\ pc' = "drain"
      /\ UNCHANGED <<segment, inflight, progress>>
  BY DEF Take
<1>3. CASE TakeSubmit(m)
  <2>1. m.executor \in Executors /\ m.batch \in Nat
    BY <1>1, <1>3 DEF TakeSubmit, ToWriter, SyncNow
  <2>2. lanes[m.executor] \in Lane /\ lanes[m.executor].pending + 1 \in Nat
    BY SMTT(30), <2>1 DEF Lane
  <2>3. lanes' \in [Executors -> Lane]
    BY Zenon, <1>3, <2>1, <2>2, LaneUpdates DEF TakeSubmit
  <2>4. staged' \in Seq(Executors \X Nat)
    BY <1>3, <2>1 DEF TakeSubmit
  <2> QED
    BY <1>1, <1>2, <1>3, <2>3, <2>4 DEF TakeSubmit
<1>4. CASE TakeCovered(m)
  <2> DEFINE e == m.executor
             covered == Larger(lanes[e].covered, m.through)
  <2>1. e \in Executors /\ m.through \in Nat /\ m.cycle \in Nat
    BY <1>1, <1>4 DEF TakeCovered, ToWriter, SyncNow
  <2>2. lanes[e] \in Lane /\ covered \in Nat
    BY SMTT(30), <2>1, LargerType DEF Lane
  <2>3. lanes' \in [Executors -> Lane]
    BY ZenonT(40), <1>4, <2>1, <2>2, LaneUpdates DEF TakeCovered
  <2>4. PICK kept \in SUBSET {im \in images[e] : im.cycle < m.cycle}, n \in 0 .. Len(closed) :
          /\ images' = [images EXCEPT ![e] = (@ \ {im \in images[e] : im.cycle < m.cycle}) \cup kept]
          /\ closed' = SubSeq(closed, n + 1, Len(closed))
          /\ written' = {t \in written : t[1] \notin {closed[i].rotation : i \in 1 .. n}}
          /\ synced' = {t \in synced : t[1] \notin {closed[i].rotation : i \in 1 .. n}}
          /\ dropped' = {t \in dropped : t[1] \notin {closed[i].rotation : i \in 1 .. n}}
          /\ DiskFails \/ UNCHANGED faults
    BY Zenon, <1>4 DEF TakeCovered, Compact
  <2>5. images' \in [Executors -> SUBSET Image]
    BY <2>1, <2>4
  <2>6. closed' \in Seq(Closed)
    BY <2>4
  <2>7. faults' \in Nat
    BY <2>4 DEF DiskFails
  <2> QED
    BY SMTT(30), <1>1, <1>2, <1>4, <2>3, <2>4, <2>5, <2>6, <2>7 DEF TakeCovered
<1>5. CASE TakeSyncNow(m)
  BY <1>1, <1>2, <1>5 DEF TakeSyncNow
<1>6. CASE TakeStop(m)
  <2>1. m.executor \in Executors
    BY SMTT(30), <1>1, <1>6 DEF TakeStop, ToWriter, SyncNow
  <2>2. lanes' \in [Executors -> Lane]
    BY ZenonT(40), <1>6, <2>1, LaneUpdates DEF TakeStop
  <2> QED
    BY <1>1, <1>2, <1>6, <2>2 DEF TakeStop
<1> QED
  BY <1>3, <1>4, <1>5, <1>6 DEF Take

\* The drain written to the open segment.
LEMMA WriteTypes == ASSUME TypeOK, WriteStaged PROVE SharedTypeOK' /\ WriterTypeOK'
<1> USE DEF TypeOK, WriterTypeOK, SharedTypeOK
<1> DEFINE told == {e \in Executors : Reports(lanes[e])}
           msg == [e \in Executors |-> Written(lanes[e].bytes + lanes[e].pending)]
           new == {<<segment.rotation, staged[i][1], staged[i][2]>> : i \in DOMAIN staged}
<1>1. lanes' \in [Executors -> Lane]
  BY SMTT(30), LaneOperators DEF WriteStaged
<1>2. segment' \in Segment
  <2>1. segment.bytes + Len(staged) \in Nat
    BY DEF Segment
  <2> QED
    BY Zenon, <2>1, SegmentUpdates DEF WriteStaged
<1>3. new \subseteq Triple
  BY DEF Triple, Segment
<1>4. written' \subseteq Triple /\ synced' \subseteq written' /\ dropped' \subseteq written'
  <2>1. written' = written \cup new /\ synced' = synced /\ dropped' = dropped
    BY DEF WriteStaged
  <2> HIDE DEF new
  <2> QED
    BY <1>3, <2>1
<1>5. progress' \in [Executors -> Seq(Progress)]
  <2>1. \A e \in Executors : lanes[e].bytes + lanes[e].pending \in Nat
    BY DEF Lane
  <2>2. msg \in [Executors -> Progress]
    BY <2>1, MessageTypes
  <2>3. progress' = [e \in Executors |->
                       IF e \in told THEN Append(progress[e], msg[e]) ELSE progress[e]]
    BY DEF WriteStaged
  <2> HIDE DEF told, msg
  <2> QED
    BY <2>2, <2>3, SendTypes
<1>6. staged' \in Seq(Executors \X Nat)
  <2>1. staged' = <<>>
    BY DEF WriteStaged
  <2> QED
    BY <2>1
<1>7. /\ pc' = "issue"
      /\ UNCHANGED <<inflight, syncWanted, closed, inbox, images, faults>>
  BY DEF WriteStaged
<1> QED
  BY <1>1, <1>2, <1>4, <1>5, <1>6, <1>7

\* A rotation: the segment it leaves is closed and the nudges go out.
LEMMA RotateTypes == ASSUME TypeOK, RotateSwaps PROVE SharedTypeOK' /\ WriterTypeOK'
<1> USE DEF TypeOK, WriterTypeOK, SharedTypeOK
<1> DEFINE told == NudgeDue(closed')
           msg == [e \in Executors |-> Nudge]
<1>1. segment' \in Segment
  <2>1. segment.attempted + 1 \in Nat
    BY DEF Segment
  <2> QED
    BY <2>1 DEF RotateSwaps, Segment
<1>2. closed' \in Seq(Closed)
  <2>1. [rotation |-> segment.rotation, last |-> LaneWritten, bytes |-> segment.bytes] \in Closed
    BY SMTT(30), FrozenTypes DEF Closed, Segment
  <2> QED
    BY <2>1 DEF RotateSwaps
<1>3. lanes' \in [Executors -> Lane]
  <2>1. \A e \in Executors : lanes[e] \in Lane /\ (lanes[e].nudged \/ e \in told) \in BOOLEAN
    OBVIOUS
  <2>2. lanes' = [e \in Executors |-> [lanes[e] EXCEPT !.nudged = lanes[e].nudged \/ e \in told]]
    BY DEF RotateSwaps
  <2> HIDE DEF told
  <2> QED
    BY ZenonT(40), <2>1, <2>2, LaneUpdates
<1>4. progress' \in [Executors -> Seq(Progress)]
  <2>1. msg \in [Executors -> Progress]
    BY MessageTypes
  <2>2. progress' = [e \in Executors |->
                       IF e \in told THEN Append(progress[e], msg[e]) ELSE progress[e]]
    BY DEF RotateSwaps
  <2> HIDE DEF told, msg
  <2> QED
    BY <2>1, <2>2, SendTypes
<1>5. /\ pc' = "write"
      /\ UNCHANGED <<staged, inflight, syncWanted, inbox, written, synced, dropped, images, faults>>
  BY SMTT(30) DEF RotateSwaps
<1> QED
  BY <1>1, <1>2, <1>3, <1>4, <1>5

\* Every step of the writer and of the disk under it.
LEMMA WriterTypes == ASSUME TypeOK, WriterNext PROVE SharedTypeOK' /\ WriterTypeOK'
<1> USE DEF TypeOK, WriterTypeOK, SharedTypeOK
<1>0. InRotation(written, segment.rotation) \in SUBSET Triple
  BY DEF InRotation
<1>1. CASE SyncDone
  BY <1>1, SettleTypes DEF SyncDone
<1>2. CASE Take
  BY <1>2, TakeTypes
<1>3. CASE DrainEnds
  BY <1>3 DEF DrainEnds, sharedVars
<1>4. CASE WriteStaged
  BY <1>4, WriteTypes
<1>5. CASE WriteFails
  BY <1>5, FailTypes DEF WriteFails, DiskFails
<1>6. CASE RotateSyncs
  <2>1. synced' \subseteq written /\ dropped' \subseteq written /\ faults' \in Nat
    BY <1>0, <1>6, DiskTypes DEF RotateSyncs
  <2>2. UNCHANGED <<syncWanted, closed, inbox, written, images>>
    BY SMTT(30), <1>6 DEF RotateSyncs
  <2>3. CASE /\ segment' = [segment EXCEPT !.dirty = FALSE]
             /\ UNCHANGED <<pc, lanes, staged, inflight, progress>>
    BY Zenon, <2>1, <2>2, <2>3, SegmentUpdates
  <2>4. CASE Fail(segment) /\ pc' = "issue"
    BY <2>1, <2>2, <2>4, FailTypes
  <2> QED
    BY <1>6, <2>3, <2>4 DEF RotateSyncs
<1>7. CASE RotateSwaps
  BY <1>7, RotateTypes
<1>8. CASE RotateFails
  <2>1. segment.attempted + 1 \in Nat
    BY DEF Segment
  <2>2. [segment EXCEPT !.attempted = segment.attempted + 1] \in Segment
    BY Zenon, <2>1, SegmentUpdates
  <2> QED
    BY SMTT(30), <1>8, <2>2, FailTypes DEF RotateFails, DiskFails
<1>9. CASE MaybeIssue
  BY <1>9, MaybeIssueTypes DEF MaybeIssue
<1>10. CASE WriterTick
  BY <1>10, MaybeIssueTypes DEF WriterTick
<1>11. CASE LastSettles
  BY <1>11, SettleTypes DEF LastSettles
<1>12. CASE LastSyncs
  <2>1. synced' \subseteq written /\ dropped' \subseteq written /\ faults' \in Nat
    BY <1>0, <1>12, DiskTypes DEF LastSyncs
  <2>2. UNCHANGED <<pc, syncWanted, closed, inbox, written, images>>
    BY SMTT(30), <1>12 DEF LastSyncs
  <2>3. CASE /\ segment' = [segment EXCEPT !.dirty = FALSE]
             /\ ReportDurable(LaneWritten)
             /\ UNCHANGED <<staged, inflight>>
    BY Zenon, <2>1, <2>2, <2>3, SegmentUpdates, ReportTypes, FrozenTypes
  <2>4. CASE Fail(segment)
    BY <2>1, <2>2, <2>4, FailTypes
  <2> QED
    BY <1>12, <2>3, <2>4 DEF LastSyncs
<1>13. CASE WriterEnds
  <2>1. progress' \in [Executors -> Seq(Progress)]
    BY <1>13, MessageTypes DEF WriterEnds
  <2> QED
    BY <1>13, <2>1 DEF WriterEnds
<1>14. CASE DiskSyncs
  <2>1. synced' \subseteq written /\ dropped' \subseteq written /\ faults' \in Nat
    BY <1>14, DiskTypes DEF DiskSyncs, InFlight
  <2>2. inflight' \in InFlight
    BY Zenon, <1>14 DEF DiskSyncs, InFlight
  <2> QED
    BY <1>14, <2>1, <2>2 DEF DiskSyncs
<1> QED
  BY ZenonT(40), <1>1, <1>2, <1>3, <1>4, <1>5, <1>6, <1>7, <1>8, <1>9, <1>10, <1>11, <1>12,
     <1>13, <1>14 DEF WriterNext, WriterStep

-----------------------------------------------------------------------------
(* The executors. *)

\* The updates an executor makes to its sync state keep its type.
LEMMA SyncUpdates ==
    ASSUME NEW s \in SyncState, NEW a \in Nat, NEW b \in Nat,
           NEW S \in SUBSET Nat, NEW T \in SUBSET Nat, NEW p \in BOOLEAN
    PROVE  /\ [s EXCEPT !.batch = a, !.sent = S] \in SyncState
           /\ [s EXCEPT !.held = S] \in SyncState
           /\ [s EXCEPT !.acked = a] \in SyncState
           /\ [s EXCEPT !.refusing = p] \in SyncState
           /\ [s EXCEPT !.acked = a, !.durableBatch = b, !.sent = S, !.held = T] \in SyncState
           /\ [s EXCEPT !.held = S, !.sent = T, !.acked = a, !.refusing = p] \in SyncState
BY Zenon DEF SyncState

\* To its checkpoint.
LEMMA CheckpointUpdates ==
    ASSUME NEW k \in Checkpoint, NEW a \in Nat, NEW b \in Nat,
           NEW p \in BOOLEAN, NEW q \in BOOLEAN
    PROVE  /\ [k EXCEPT !.nudged = p] \in Checkpoint
           /\ [k EXCEPT !.forced = p] \in Checkpoint
           /\ [k EXCEPT !.next = a, !.openedAt = b, !.forced = p, !.nudged = q] \in Checkpoint
           /\ [k EXCEPT !.next = a, !.imaged = p, !.nudged = q] \in Checkpoint
BY Zenon DEF Checkpoint

\* To its open cycle.
LEMMA CycleUpdates ==
    ASSUME NEW c \in Cycle, NEW a \in Nat, NEW p \in BOOLEAN
    PROVE  /\ [c EXCEPT !.file = p, !.ticks = a] \in Cycle
           /\ [c EXCEPT !.file = p] \in Cycle
           /\ [c EXCEPT !.ended = p, !.waiting = a] \in Cycle
           /\ [c EXCEPT !.asked = p] \in Cycle
           /\ [c EXCEPT !.dirPending = p] \in Cycle
BY Zenon DEF Cycle

\* To its queue of SAVEs.
LEMMA SavesUpdates ==
    ASSUME NEW v \in Saves, NEW a \in Nat,
           NEW S \in SUBSET Nat, NEW T \in SUBSET Nat, NEW p \in BOOLEAN
    PROVE  /\ [v EXCEPT !.taken = a] \in Saves
           /\ [v EXCEPT !.now = S, !.asked = p] \in Saves
           /\ [v EXCEPT !.after = S] \in Saves
           /\ [v EXCEPT !.asked = p] \in Saves
           /\ [v EXCEPT !.now = S, !.after = T] \in Saves
           /\ [v EXCEPT !.now = S, !.after = T, !.asked = p] \in Saves
BY Zenon DEF Saves

\* A fresh cycle and no cycle.
LEMMA CycleTypes ==
    NoCycle \in Cycle /\ \A a, b \in Nat : Fresh(a, b) \in Cycle
BY Zenon DEF NoCycle, Fresh, Cycle

\* The sync state after a submission.
LEMMA SubmittedType ==
    ASSUME NEW s \in SyncState
    PROVE  Submitted(s) \in SyncState /\ Submitted(s).batch = s.batch + 1
<1>1. /\ s.batch + 1 \in Nat
      /\ s.sent \in SUBSET Nat
      /\ s.sent \cup {s.batch + 1} \in SUBSET Nat
  BY SMTT(30) DEF SyncState
<1>2. Submitted(s) \in SyncState
  BY Zenon, <1>1, SyncUpdates DEF Submitted
<1>3. Submitted(s).batch = s.batch + 1
  BY DEF Submitted, SyncState
<1> QED
  BY <1>2, <1>3

\* An outcome of a tick is well typed.
OutcomeType == [cycle : Cycle, ask : BOOLEAN, image : SUBSET Image,
                done : BOOLEAN, fails : BOOLEAN]

\* Every outcome of a tick of a well typed cycle is well typed.
LEMMA StepTypes ==
    ASSUME NEW c \in Cycle, NEW next \in Nat, NEW s \in SyncState,
           NEW o \in Step(c, next, s)
    PROVE  o \in OutcomeType
<1> DEFINE restarted == Fresh(next, c.through)
           scanned == [c EXCEPT !.file = TRUE, !.ticks = c.ticks + 1]
           ended == ScanEnded([c EXCEPT !.file = TRUE], s)
           footed(sure) == {[cycle |-> c.number, through |-> c.through,
                             upto |-> ended.waiting, sure |-> sure]}
<1>1. c.ticks + 1 \in Nat /\ c.through \in Nat /\ c.number \in Nat /\ s.batch \in Nat
  BY DEF Cycle, SyncState
<1>2. restarted \in Cycle /\ scanned \in Cycle
  BY Zenon, <1>1, CycleUpdates, CycleTypes
<1>3. ended \in Cycle
  <2>1. [c EXCEPT !.file = TRUE] \in Cycle
    BY ZenonT(40), CycleUpdates
  <2> QED
    BY ZenonT(40), <1>1, <2>1, CycleUpdates DEF ScanEnded
<1>4. /\ [ended EXCEPT !.asked = TRUE] \in Cycle
      /\ [ended EXCEPT !.dirPending = TRUE] \in Cycle
      /\ ended.waiting \in Nat
  <2> HIDE DEF ended
  <2>1. ended.waiting \in Nat
    BY <1>3 DEF Cycle
  <2> QED
    BY Zenon, <1>3, <2>1, CycleUpdates
<1>5. \A p \in BOOLEAN : footed(p) \in SUBSET Image
  <2> HIDE DEF ended
  <2> QED
    BY <1>1, <1>4 DEF Image
<1>6. c.asked \in BOOLEAN
  BY DEF Cycle
<1>7. \/ o = Outcome(c, FALSE, footed(TRUE), TRUE, FALSE)
      \/ o = Outcome(c, FALSE, footed(FALSE), FALSE, TRUE)
      \/ o = Outcome(scanned, FALSE, {}, FALSE, FALSE)
      \/ o = Outcome(restarted, FALSE, {}, FALSE, TRUE)
      \/ o = Outcome([ended EXCEPT !.asked = TRUE], ~c.asked, {}, FALSE, FALSE)
      \/ o = Outcome(ended, FALSE, footed(TRUE), TRUE, FALSE)
      \/ o = Outcome([ended EXCEPT !.dirPending = TRUE], FALSE, footed(FALSE), FALSE, TRUE)
      \/ o = Outcome(restarted, FALSE, footed(FALSE), FALSE, TRUE)
  BY Zenon DEF Step
<1>8. \A x \in Cycle, p, d, f \in BOOLEAN, I \in SUBSET Image :
         Outcome(x, p, I, d, f) \in OutcomeType
  BY DEF Outcome, OutcomeType
<1> HIDE DEF restarted, scanned, ended, footed
<1> QED
  BY ZenonT(40), <1>2, <1>3, <1>4, <1>5, <1>6, <1>7, <1>8

\* What every step of executor e is to the others: it touches nothing of theirs,
\* and whatever it sends is its own.
Apart(e) ==
    \A f \in Executors \ {e} :
        /\ images'[f] = images[f] /\ checkpoint'[f] = checkpoint[f]
        /\ cycle'[f] = cycle[f] /\ sync'[f] = sync[f]
        /\ saves'[f] = saves[f] /\ saved'[f] = saved[f]
        /\ phase'[f] = phase[f] /\ progress'[f] = progress[f]
        /\ proven'[f] = proven[f] /\ granted'[f] = granted[f]

SendsOwn(e, new) ==
    /\ inbox' = inbox \o new
    /\ \A i \in DOMAIN new : new[i].type # "SyncNow" => new[i].executor = e

\* Nothing kept is lost.
Keeps(e) == \A i \in Nat : (Imaged(e, i) => Imaged(e, i)') /\ (Kept(e, i) => Kept(e, i)')

\* What a tick of executor e sends: nothing, a request for a sync, or a cover.
SentByTick(e, sent) ==
    \/ sent = <<>>
    \/ sent = <<SyncNow>>
    \/ \E n, t \in Nat : sent = <<Covered(e, n, t)>>

\* What a tick sends, for any well typed outcome.
LEMMA SendsTypes ==
    ASSUME NEW e \in Executors, NEW o \in OutcomeType
    PROVE  SentByTick(e, TickSends(e, o)) /\ TickSends(e, o) \in Seq(ToWriter)
<1>1. o.cycle.number \in Nat /\ o.cycle.through \in Nat
  BY DEF OutcomeType, Cycle
<1>2. <<>> \in Seq(ToWriter)
  OBVIOUS
<1>3. SentByTick(e, TickSends(e, o))
  BY <1>1 DEF TickSends, SentByTick
<1> QED
  BY <1>1, <1>2, <1>3, MessageTypes DEF TickSends

\* A tick, with the sync state and the batch its sweep left.
LEMMA TickTypes ==
    ASSUME TypeOK, NEW e \in Executors, NEW s \in SyncState,
           NEW sweep \in Seq(ToWriter),
           TickCycle(e, s, sweep) \/ TickIdle(e, s, sweep)
    PROVE  /\ ExecTypeOK'
           /\ inbox' \in Seq(ToWriter)
           /\ \E sent \in Seq(ToWriter) :
                 SentByTick(e, sent) /\ inbox' = inbox \o sweep \o sent
           /\ images' \in [Executors -> SUBSET Image]
           /\ faults' \in Nat
           /\ progress' = progress
<1> USE DEF TypeOK, ExecTypeOK, SharedTypeOK
<1>1. CASE TickCycle(e, s, sweep)
  <2> DEFINE opens == Opens(e, s)
             k == IF opens
                  THEN [checkpoint[e] EXCEPT !.next = checkpoint[e].next + 1, !.openedAt = s.batch,
                                             !.forced = FALSE, !.nudged = FALSE]
                  ELSE checkpoint[e]
             c == IF opens THEN Fresh(checkpoint[e].next, s.batch) ELSE cycle[e]
  <2>1. s.batch \in Nat /\ checkpoint[e].next \in Nat /\ checkpoint[e].next + 1 \in Nat
    BY SMTT(30) DEF SyncState, Checkpoint
  <2>2. k \in Checkpoint /\ c \in Cycle
    BY ZenonT(40), <2>1, CheckpointUpdates, CycleTypes
  <2>3. PICK o \in Step(c, k.next, s) :
          /\ DiskFails \/ UNCHANGED faults
          /\ inbox' = inbox \o sweep \o TickSends(e, o)
          /\ images' = [images EXCEPT ![e] =
                          {im \in images[e] : im.cycle # c.number} \cup o.image]
          /\ cycle' = [cycle EXCEPT ![e] = IF o.done THEN NoCycle ELSE o.cycle]
          /\ checkpoint' = [checkpoint EXCEPT ![e] =
               [k EXCEPT !.next = IF o.cycle.number # c.number THEN k.next + 1 ELSE k.next,
                         !.imaged = k.imaged \/ o.done,
                         !.nudged = k.nudged \/ (o.done /\ saves[e].after # {})]]
          /\ sync' = [sync EXCEPT ![e] = [s EXCEPT !.refusing = s.refusing /\ ~o.done]]
          /\ proven' = [proven EXCEPT ![e] =
                          IF o.done THEN proven[e] \cup 1 .. c.through ELSE proven[e]]
          /\ saves' = [saves EXCEPT ![e] = SavesAfterTick(e, o)]
          /\ saved' = [saved EXCEPT ![e] =
                         IF o.done THEN saved[e] \cup saves[e].now ELSE saved[e]]
    BY Zenon, <1>1 DEF TickCycle
  <2> HIDE DEF k, c, opens
  <2>4. k.next \in Nat /\ k.next + 1 \in Nat /\ c.through \in Nat
    BY SMTT(30), <2>2 DEF Checkpoint, Cycle
  <2>5. o \in OutcomeType
    BY <2>2, <2>4, StepTypes
  <2>6. /\ inbox' \in Seq(ToWriter)
        /\ \E sent \in Seq(ToWriter) :
              SentByTick(e, sent) /\ inbox' = inbox \o sweep \o sent
    <3>1. SentByTick(e, TickSends(e, o)) /\ TickSends(e, o) \in Seq(ToWriter)
      BY <2>5, SendsTypes
    <3>2. inbox \o sweep \o TickSends(e, o) \in Seq(ToWriter)
      BY <3>1
    <3> QED
      BY Zenon, <2>3, <3>1, <3>2
  <2>7. images' \in [Executors -> SUBSET Image]
    BY <2>3, <2>5 DEF OutcomeType
  <2>8. cycle' \in [Executors -> Cycle]
    BY <2>3, <2>5, CycleTypes DEF OutcomeType
  <2>9. checkpoint' \in [Executors -> Checkpoint]
    <3>1. (IF o.cycle.number # c.number THEN k.next + 1 ELSE k.next) \in Nat
      BY SMTT(30), <2>4
    <3>2. [k EXCEPT !.next = IF o.cycle.number # c.number THEN k.next + 1 ELSE k.next,
                    !.imaged = k.imaged \/ o.done,
                    !.nudged = k.nudged \/ (o.done /\ saves[e].after # {})] \in Checkpoint
      BY ZenonT(40), <2>2, <3>1, CheckpointUpdates
    <3> QED
      BY <2>3, <3>2
  <2>10. sync' \in [Executors -> SyncState]
    <3>1. [s EXCEPT !.refusing = s.refusing /\ ~o.done] \in SyncState
      BY Zenon, SyncUpdates
    <3> QED
      BY <2>3, <3>1
  <2>11. proven' \in [Executors -> SUBSET Nat] /\ saved' \in [Executors -> SUBSET Nat]
    BY <2>3, <2>4 DEF Saves
  <2>12. saves' \in [Executors -> Saves]
    <3>1. saves[e] \in Saves /\ saves[e].after \in SUBSET Nat /\ {} \in SUBSET Nat
      BY SMTT(30) DEF Saves
    <3>2. SavesAfterTick(e, o) \in Saves
      BY ZenonT(40), <3>1, SavesUpdates DEF SavesAfterTick
    <3> QED
      BY <2>3, <3>2
  <2>13. faults' \in Nat
    BY <2>3 DEF DiskFails
  <2>14. UNCHANGED <<phase, granted, refused, progress>>
    BY Zenon, <1>1 DEF TickCycle
  <2> QED
    BY Zenon, <2>6, <2>7, <2>8, <2>9, <2>10, <2>11, <2>12, <2>13, <2>14
<1>2. CASE TickIdle(e, s, sweep)
  <2>1. saves' \in [Executors -> Saves]
    BY Zenon, <1>2, SavesUpdates DEF TickIdle
  <2>2. inbox' = inbox \o sweep /\ inbox \o sweep = inbox \o sweep \o <<>>
    BY <1>2 DEF TickIdle
  <2>3. <<>> \in Seq(ToWriter) /\ SentByTick(e, <<>>)
    BY DEF SentByTick
  <2>4. inbox' \in Seq(ToWriter)
    BY <2>2
  <2>5. \E sent \in Seq(ToWriter) : SentByTick(e, sent) /\ inbox' = inbox \o sweep \o sent
    BY Zenon, <2>2, <2>3
  <2>6. sync' \in [Executors -> SyncState]
    BY <1>2 DEF TickIdle
  <2>7. UNCHANGED <<phase, checkpoint, cycle, proven, granted, refused, saved,
                    progress, images, faults>>
    BY <1>2 DEF TickIdle
  <2> QED
    BY Zenon, <2>1, <2>4, <2>5, <2>6, <2>7
<1> QED
  BY Zenon, <1>1, <1>2

\* What an executor does to itself in one arm of its select.
LEMMA ExecTypes ==
    ASSUME TypeOK, NEW e \in Executors, ExecMoves(e)
    PROVE  SharedTypeOK' /\ ExecTypeOK'
<1> USE DEF TypeOK, ExecTypeOK, SharedTypeOK
<1>1. UNCHANGED <<written, synced, dropped>>
  BY DEF ExecMoves, ServeMoves, HearMoves, TickMoves, SweepMoves, StopMoves, ExecFrame
<1>2. sync[e] \in SyncState /\ Submitted(sync[e]) \in SyncState
  BY SubmittedType
<1>3. sync[e].batch + 1 \in Nat /\ Submitted(sync[e]).batch = sync[e].batch + 1
  BY ZenonT(40), SubmittedType DEF SyncState
<1>4. CASE ServeMoves(e)
  <2> USE DEF ServeMoves, Serve
  <2>1. CASE ServeWrite(e)
    <3>1. (IF Holds(Policy) THEN sync[e].held \cup {sync[e].batch + 1}
                    ELSE sync[e].held) \in SUBSET Nat
      BY <1>2, <1>3 DEF SyncState
    <3>2. sync' \in [Executors -> SyncState]
      <4> DEFINE after == [Submitted(sync[e]) EXCEPT
                             !.held = IF Holds(Policy)
                                      THEN sync[e].held \cup {sync[e].batch + 1}
                                      ELSE sync[e].held]
      <4>1. after \in SyncState
        BY Zenon, <1>2, <3>1, SyncUpdates
      <4>2. sync' = [sync EXCEPT ![e] = after]
        BY <2>1 DEF ServeWrite
      <4> HIDE DEF after
      <4> QED
        BY SMTT(30), <4>1, <4>2
    <3>3. inbox' \in Seq(ToWriter)
      BY <1>3, <2>1, MessageTypes DEF ServeWrite
    <3> QED
      BY <1>1, <1>4, <2>1, <3>2, <3>3 DEF ServeWrite
  <2>2. CASE ServeExpired(e)
    <3>1. sync' \in [Executors -> SyncState] /\ sync'[e].batch \in Nat
      BY <1>2, <1>3, <2>2 DEF ServeExpired
    <3>2. inbox' \in Seq(ToWriter)
      BY <2>2, <3>1, MessageTypes DEF ServeExpired
    <3> QED
      BY <1>1, <1>4, <2>2, <3>1, <3>2 DEF ServeExpired
  <2>3. ASSUME NEW v \in Saves, Asked(e, v), AskForSnapshot(e) \/ UNCHANGED checkpoint
        PROVE  SharedTypeOK' /\ ExecTypeOK'
    <3>1. saves[e].taken + 1 \in Nat
      BY SMTT(30) DEF Saves
    <3>2. saves' \in [Executors -> Saves]
      BY Zenon, <2>3, <3>1, SavesUpdates DEF Asked
    <3>3. checkpoint' \in [Executors -> Checkpoint]
      <4>1. [checkpoint[e] EXCEPT !.nudged = checkpoint[e].nudged \/ ~saves[e].asked] \in Checkpoint
        BY Zenon, CheckpointUpdates
      <4> QED
        BY ZenonT(40), <2>3, <4>1 DEF AskForSnapshot
    <3> QED
      BY <1>1, <1>4, <2>3, <3>2, <3>3 DEF Asked
  <2>4. /\ WaitsNow(e) \in Saves /\ WaitsAfter(e) \in Saves
        /\ [saves[e] EXCEPT !.asked = TRUE] \in Saves
    <3>1. /\ saves[e] \in Saves
          /\ saves[e].now \cup {sync[e].batch} \in SUBSET Nat
          /\ saves[e].after \cup {sync[e].batch} \in SUBSET Nat
      BY <1>2 DEF Saves, SyncState
    <3> QED
      BY Zenon, <3>1, SavesUpdates DEF WaitsNow, WaitsAfter
  <2>5. CASE Save(e)
    BY <2>3, <2>4, <2>5 DEF Save
  <2>6. CASE BgSave(e)
    BY <2>3, <2>4, <2>6 DEF BgSave
  <2> QED
    BY <1>4, <2>1, <2>2, <2>5, <2>6
<1>5. CASE HearMoves(e)
  <2> USE DEF HearMoves, HearWriter
  <2> DEFINE m == Head(progress[e])
  <2>1. CASE Hear(e)
    <3>1. m \in Progress /\ progress' \in [Executors -> Seq(Progress)]
      BY <2>1 DEF Hear
    <3>2. UNCHANGED <<phase, saved, inbox, images, faults>>
      BY <1>5, <2>1 DEF Hear
    <3>3. CASE HearWritten(e, m)
      <4>1. m.bytes \in Nat
        BY <3>1, <3>3 DEF HearWritten, Progress, Fault, Nudge, Stopped
      <4>2. Larger(sync[e].acked, m.bytes) \in Nat
        BY Zenon, <1>2, <4>1, LargerType DEF SyncState
      <4>3. sync' \in [Executors -> SyncState]
        BY ZenonT(40), <1>2, <3>3, <4>2, SyncUpdates DEF HearWritten
      <4> QED
        BY <1>1, <3>1, <3>2, <3>3, <4>3 DEF HearWritten
    <3>4. CASE HearDurable(e, m)
      <4>1. m.bytes \in Nat /\ m.through \in Nat
        BY <3>1, <3>4 DEF HearDurable, Progress, Fault, Nudge, Stopped
      <4>2. /\ Larger(sync[e].acked, m.bytes) \in Nat
            /\ Larger(sync[e].durableBatch, m.through) \in Nat
        BY Zenon, <1>2, <4>1, LargerType DEF SyncState
      <4>3. /\ sync[e].sent \in SUBSET Nat
            /\ sync[e].held \in SUBSET Nat
            /\ StillSent(sync[e], m.through) \in SUBSET Nat
            /\ StillHeld(sync[e], m.through) \in SUBSET Nat
        BY <1>2 DEF SyncState, StillSent, StillHeld
      <4>4. sync' \in [Executors -> SyncState]
        BY ZenonT(40), <1>2, <3>4, <4>2, <4>3, SyncUpdates DEF HearDurable
      <4>5. proven' \in [Executors -> SUBSET Nat] /\ granted' \in [Executors -> SUBSET Nat]
        BY <3>4, <4>3 DEF HearDurable
      <4> QED
        BY <1>1, <3>1, <3>2, <3>4, <4>4, <4>5 DEF HearDurable
    <3>5. CASE Refuse(e, m)
      <4>1. /\ sync[e].batch \in Nat /\ sync[e].held \in SUBSET Nat
            /\ saves[e].now \cup saves[e].after \in SUBSET Nat /\ {} \in SUBSET Nat
        BY SMTT(30), <1>2 DEF SyncState, Saves
      <4>2. sync' \in [Executors -> SyncState]
        BY ZenonT(40), <1>2, <3>5, <4>1, SyncUpdates DEF Refuse, LetGo
      <4>3. saves' \in [Executors -> Saves]
        BY ZenonT(40), <3>5, <4>1, SavesUpdates DEF Refuse, LetGo
      <4>4. refused' \in [Executors -> SUBSET Nat]
        BY <3>5, <4>1 DEF Refuse, LetGo
      <4>5. checkpoint' \in [Executors -> Checkpoint] /\ cycle' \in [Executors -> Cycle]
        BY Zenon, <3>5, CheckpointUpdates, CycleTypes DEF Refuse
      <4> QED
        BY <1>1, <3>1, <3>2, <3>5, <4>2, <4>3, <4>4, <4>5 DEF Refuse, LetGo
    <3>6. CASE HearNudge(e, m)
      <4>1. checkpoint' \in [Executors -> Checkpoint]
        BY Zenon, <3>6, CheckpointUpdates DEF HearNudge
      <4> QED
        BY SMTT(30), <1>1, <3>1, <3>2, <3>6, <4>1 DEF HearNudge
    <3> QED
      BY <2>1, <3>3, <3>4, <3>5, <3>6 DEF Hear
  <2>2. CASE HearStopped(e)
    <3>1. sync[e].held \in SUBSET Nat /\ {} \in SUBSET Nat
      BY SMTT(30), <1>2 DEF SyncState
    <3>2. sync' \in [Executors -> SyncState]
      BY Zenon, <2>2, <3>1, SyncUpdates DEF HearStopped
    <3>3. progress' \in [Executors -> Seq(Progress)]
      BY <2>2 DEF HearStopped
    <3> QED
      BY <1>1, <1>5, <2>2, <3>1, <3>2, <3>3 DEF HearStopped
  <2> QED
    BY SMTT(30), <1>5, <2>1, <2>2
<1>6. CASE TickMoves(e)
  <2>1. <<>> \in Seq(ToWriter)
    OBVIOUS
  <2> QED
    BY Zenon, <1>1, <1>2, <1>6, <2>1, TickTypes DEF TickMoves, Tick
<1>7. CASE SweepMoves(e)
  <2>1. <<Submit(e, Submitted(sync[e]).batch)>> \in Seq(ToWriter)
    BY <1>3, MessageTypes
  <2> QED
    BY Zenon, <1>1, <1>2, <1>7, <2>1, TickTypes DEF SweepMoves, SweepTick
<1>8. CASE StopMoves(e)
  <2>1. CASE StopSeen(e)
    BY <1>1, <1>8, <2>1 DEF StopMoves, StopSeen
  <2>2. CASE SendStop(e)
    <3>1. inbox' \in Seq(ToWriter)
      BY <2>2, MessageTypes DEF SendStop
    <3> QED
      BY <1>1, <1>8, <2>2, <3>1 DEF StopMoves, SendStop
  <2> QED
    BY <1>8, <2>1, <2>2 DEF StopMoves
<1> QED
  BY <1>4, <1>5, <1>6, <1>7, <1>8 DEF ExecMoves

-----------------------------------------------------------------------------

\* Every step of the node keeps every variable in its type.
LEMMA NextTypes == TypeOK /\ [Next]_vars => TypeOK'
<1> SUFFICES ASSUME TypeOK, [Next]_vars PROVE TypeOK'
  OBVIOUS
<1>1. CASE WriterMoves
  <2>1. SharedTypeOK' /\ WriterTypeOK'
    BY <1>1, WriterTypes DEF WriterMoves, WriterNext
  <2> QED
    BY <1>1, <2>1 DEF WriterMoves, execVars, TypeOK, ExecTypeOK
<1>2. CASE DiskMoves
  <2>1. SharedTypeOK' /\ WriterTypeOK'
    BY <1>2, WriterTypes DEF DiskMoves, WriterNext
  <2> QED
    BY <1>2, <2>1 DEF DiskMoves, execVars, TypeOK, ExecTypeOK
<1>3. ASSUME NEW e \in Executors, ExecMoves(e) PROVE TypeOK'
  <2>1. UNCHANGED <<writerVars, stopping>>
    BY <1>3 DEF ExecMoves, ServeMoves, HearMoves, TickMoves, SweepMoves, StopMoves, ExecFrame
  <2>2. SharedTypeOK' /\ ExecTypeOK'
    BY <1>3, ExecTypes
  <2> QED
    BY <2>1, <2>2 DEF writerVars, TypeOK, WriterTypeOK
<1>4. CASE RequestStop
  BY <1>4 DEF RequestStop, sharedVars, writerVars, execVars,
              TypeOK, SharedTypeOK, WriterTypeOK, ExecTypeOK
<1>5. CASE UNCHANGED vars
  BY <1>5 DEF vars, sharedVars, writerVars, execVars,
              TypeOK, SharedTypeOK, WriterTypeOK, ExecTypeOK
<1> QED
  BY <1>1, <1>2, <1>3, <1>4, <1>5 DEF Next

\* Type correctness: whatever the executors, the policy and the bounds, every
\* variable of the writer, of the executors and of the directory keeps its type.
THEOREM TypeCorrect == Spec => []TypeOK
<1> QED
  BY InitTypes, NextTypes, PTL DEF Spec

=============================================================================
