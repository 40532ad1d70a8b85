----------------------------- MODULE DurableLog -----------------------------
(***************************************************************************)
(* The writer and its executors together: what a crash at any moment would *)
(* leave for the next start, and what the node has told its clients.       *)
(*                                                                         *)
(* A start reads, for each executor, one image and the batches after it    *)
(* that are on disk without a gap.  A crash keeps what was synced and any  *)
(* part of the rest, so a property of the next start is an invariant here: *)
(* it must hold whichever of the images a crash may leave is the one read. *)
(***************************************************************************)
EXTENDS LogWriter, ShardExecutor

VARIABLE stopping   \* the pool was told to stop

vars == <<sharedVars, writerVars, execVars, stopping>>

Init == SharedInit /\ WriterInit /\ ExecInit /\ stopping = FALSE

\* `ShardPool::shutdown` flips the one watch every executor reads.
RequestStop ==
    /\ ~stopping /\ MaxStops = 1
    /\ stopping' = TRUE
    /\ UNCHANGED <<sharedVars, writerVars, execVars>>

WriterMoves == WriterStep /\ UNCHANGED <<execVars, stopping>>

DiskMoves == DiskSyncs /\ UNCHANGED <<execVars, stopping>>

\* What an executor's step leaves alone.
ExecFrame == UNCHANGED <<writerVars, written, synced, dropped, stopping>>

ServeMoves(e) == Serve(e) /\ UNCHANGED faults /\ ExecFrame

HearMoves(e) == HearWriter(e) /\ UNCHANGED faults /\ ExecFrame

TickMoves(e) == Tick(e) /\ ExecFrame

SweepMoves(e) == SweepTick(e) /\ ExecFrame

StopMoves(e) ==
    /\ (stopping /\ StopSeen(e)) \/ SendStop(e)
    /\ UNCHANGED faults
    /\ ExecFrame

ExecMoves(e) ==
    \/ ServeMoves(e) \/ HearMoves(e)
    \/ TickMoves(e) \/ SweepMoves(e) \/ StopMoves(e)

Next ==
    \/ WriterMoves
    \/ DiskMoves
    \/ \E e \in Executors : ExecMoves(e)
    \/ RequestStop

Spec == Init /\ [][Next]_vars

\* The runtime polls every ready task, a sync the disk was given ends, and an
\* executor's tick comes round; clients, expiries and the stop owe nothing.
Fairness ==
    /\ WF_vars(WriterMoves)
    /\ WF_vars(DiskMoves)
    /\ \A e \in Executors :
          WF_vars(HearMoves(e)) /\ WF_vars(TickMoves(e)) /\ WF_vars(StopMoves(e))

FairSpec == Spec /\ Fairness

TypeOK == SharedTypeOK /\ WriterTypeOK /\ ExecTypeOK /\ stopping \in BOOLEAN

-----------------------------------------------------------------------------
(* What the next start finds. *)

NoImage == [cycle |-> 0, through |-> 0, upto |-> 0, sure |-> FALSE]

SureImages(e) == {im \in images[e] : im.sure}

\* The images the next start may choose: the newest one it can read is at
\* least the newest sure one.
Candidates(e) ==
    {im \in images[e] : \A s \in SureImages(e) : s.cycle <= im.cycle}
    \cup (IF SureImages(e) = {} THEN {NoImage} ELSE {})

OnDisk(e, b) == \E t \in synced : t[2] = e /\ t[3] = b

\* Every batch up to b is in the image im or replayed after it.
Recovers(e, im, b) == \A i \in 1 .. b : i <= im.through \/ OnDisk(e, i)

-----------------------------------------------------------------------------
(* Safety. *)

\* A batch the node has counted durable - named by a `Durable` while it was
\* tracked, or covered by a finished image - survives a crash at any moment,
\* whichever image the next start reads.
ProvenSurvives ==
    \A e \in Executors : \A b \in proven[e] : \A im \in Candidates(e) :
        Recovers(e, im, b)

\* Under `always`, a write whose held reply went out as its own reply survives
\* a crash at any moment.
AcknowledgedSurvives ==
    \A e \in Executors : \A b \in granted[e] : \A im \in Candidates(e) :
        Recovers(e, im, b)

\* An image is never ahead of the log: whatever a scan may have picked up past
\* the image's bases is on disk to be replayed over it.
ImageNotAheadOfLog ==
    \A e \in Executors : \A im \in Candidates(e) : Recovers(e, im, im.upto)

FaultQueued(e) == \E i \in DOMAIN progress[e] : progress[e][i] = Fault

\* Batch b of e can still reach the disk: it is queued, staged, under the sync
\* in flight, or written to the open segment, which has not failed.
OnItsWay(e, b) ==
    \/ \E i \in DOMAIN inbox : inbox[i] = Submit(e, b)
    \/ \E i \in DOMAIN staged : staged[i] = <<e, b>>
    \/ \E t \in inflight.covers \ dropped : t[2] = e /\ t[3] = b
    \/ ~segment.failed /\ <<segment.rotation, e, b>> \in written \ dropped

\* No batch is lost in silence.  While an executor serves writes and no `Fault`
\* is on its way to it, every batch it ever sent is in a durable image, on disk,
\* or still on its way there - or the sync that lost it has just failed.
NothingLostInSilence ==
    \A e \in Executors :
        (~sync[e].refusing /\ ~FaultQueued(e) /\ inflight.result # "err") =>
            \A b \in 1 .. sync[e].batch :
                \/ \E im \in SureImages(e) : b <= im.through
                \/ OnDisk(e, b)
                \/ OnItsWay(e, b)

\* A closed rotation is removed only when every batch in it is in a durable
\* image: the log on disk and the images together cover what was ever synced.
\* Here: whatever the writer believes covered, a sure image covers.
CoverIsDurable ==
    \A e \in Executors :
        lanes[e].covered > 0 =>
            \E im \in SureImages(e) : im.through >= lanes[e].covered

\* SAVE answers OK only when a durable image holds everything applied before it.
SavedIsDurable ==
    \A e \in Executors : \A b \in saved[e] :
        b > 0 => \E im \in SureImages(e) : im.through >= b

\* A batch's held replies are answered once: never both granted and refused, and
\* never answered while still held.
AnsweredOnce ==
    \A e \in Executors :
        /\ granted[e] \cap refused[e] = {}
        /\ sync[e].held \cap (granted[e] \cup refused[e]) = {}

\* An executor that stops without refusing leaves everything it ever sent to
\* the next start, under every policy.
CleanStopKeepsAll ==
    \A e \in Executors :
        (phase[e] = "ended" /\ ~sync[e].refusing) =>
            \A im \in Candidates(e) : Recovers(e, im, sync[e].batch)

\* A segment that failed is never written again: what a failed write or sync
\* left in it is unknown, and only a rotation takes new batches.
FailedSegmentStaysClosed ==
    [][segment.failed => \A t \in written' \ written : t[1] # segment.rotation]_vars

-----------------------------------------------------------------------------
(* Where every batch is, at every moment: what survives follows from it. *)

\* A durable image of e holds batch i.
Imaged(e, i) == \E im \in SureImages(e) : i <= im.through

\* A crash cannot take batch i of e.  No batch has number 0.
Kept(e, i) == i = 0 \/ Imaged(e, i) \/ OnDisk(e, i)

KeptTo(e, b) == \A i \in 1 .. b : Kept(e, i)

UnderSync(e, i) == \E t \in inflight.covers : t[2] = e /\ t[3] = i

InSegment(e, i) == ~segment.failed /\ <<segment.rotation, e, i>> \in written

\* Executor e knows of a failure it has not yet recovered from, or will hear.
Told(e) == sync[e].refusing \/ FaultQueued(e)

\* It will, before it hears the k-th of the messages on their way to it.
ToldBefore(e, k) == sync[e].refusing \/ \E j \in 1 .. k - 1 : progress[e][j] = Fault

SubmitOf(m, e) == m.type = "Submit" /\ m.executor = e
StopOf(m, e) == m.type = "Stop" /\ m.executor = e

\* The writer is behind the executor, and what it staged is what it received.
LaneBehind(e) ==
    /\ lanes[e].written <= lanes[e].received
    /\ lanes[e].received <= sync[e].batch
    /\ lanes[e].pending = 0 => lanes[e].received = lanes[e].written
    /\ inflight.frozen[e] <= sync[e].batch
    /\ \A k \in DOMAIN staged : staged[k][1] = e => staged[k][2] <= lanes[e].received

\* The batches on their way to the writer are in order and past what it received.
QueueOrdered(e) ==
    /\ \A k \in DOMAIN inbox : SubmitOf(inbox[k], e) =>
          lanes[e].received < inbox[k].batch /\ inbox[k].batch <= sync[e].batch
    /\ \A j, k \in DOMAIN inbox :
          (j < k /\ SubmitOf(inbox[j], e) /\ SubmitOf(inbox[k], e)) =>
              inbox[j].batch < inbox[k].batch

\* Nothing the executor hears or waits for is past what it sent.
HeardBehind(e) ==
    /\ \A k \in DOMAIN progress[e] :
          progress[e][k].type = "Durable" => progress[e][k].through <= sync[e].batch
    /\ sync[e].durableBatch <= sync[e].batch
    /\ cycle[e].waiting <= sync[e].batch

\* Nothing follows an executor's Stop.
StopLast(e) ==
    /\ lanes[e].stopped => /\ phase[e] \in {"stopping", "ended"}
                           /\ \A k \in DOMAIN inbox : ~SubmitOf(inbox[k], e)
    /\ \A k \in DOMAIN inbox : StopOf(inbox[k], e) =>
          /\ phase[e] \in {"stopping", "ended"}
          /\ \A j \in DOMAIN inbox : k < j => ~SubmitOf(inbox[j], e)
    /\ \A k \in DOMAIN progress[e] :
          progress[e][k] = Stopped => phase[e] \in {"stopping", "ended"}

\* An executor that refuses tracks nothing, and the cycle that will end the
\* refusal holds everything it ever sent.
RefusalClean(e) ==
    sync[e].refusing => /\ sync[e].held = {} /\ sync[e].sent = {}
                        /\ cycle[e].open => cycle[e].through = sync[e].batch

\* No image a start could read is newer than a durable one and holds less.
ImagesNumbered(e) ==
    /\ \A im \in images[e] : /\ im.cycle < checkpoint[e].next
                             /\ cycle[e].open => im.cycle <= cycle[e].number
    /\ \A im \in images[e], jm \in SureImages(e) :
          jm.cycle <= im.cycle => jm.through <= im.through

\* A closed rotation holds nothing past its `last`, and the open segment is the
\* newest.
FilesOrdered ==
    /\ segment.rotation <= segment.attempted
    /\ \A t \in written : t[1] <= segment.rotation /\ t[3] <= lanes[t[2]].written
    /\ \A n \in DOMAIN closed :
          /\ closed[n].rotation < segment.rotation
          /\ \A t \in written : t[1] = closed[n].rotation => t[3] <= closed[n].last[t[2]]

\* What the task is between: nothing is staged outside a drain, and the last
\* round is for executors that all stopped.
BetweenDrains ==
    /\ pc \in {"select", "issue", "last", "ended"} => staged = <<>>
    /\ pc \in {"last", "ended"} => \A e \in Executors : lanes[e].stopped

\* The round in flight: a failure whose `Fault` went out leaves none, one that
\* dropped no page covers no dropped page, and what it does not cover of a clean
\* segment is kept.
RoundSound ==
    /\ segment.failed \/ inflight.result = "none" => inflight = NoSync
    /\ inflight.result # "err" => \A t \in dropped :
          t \notin inflight.covers /\ (t[1] = segment.rotation => segment.failed)
    /\ \A t \in inflight.covers : t \in written \/ Kept(t[2], t[3])
    /\ inflight.result = "ok" => \A t \in inflight.covers : Kept(t[2], t[3])
    /\ (~segment.failed /\ ~segment.dirty /\ inflight.result # "err") =>
          \A t \in written :
              t[1] = segment.rotation => t \in inflight.covers \/ Kept(t[2], t[3])

\* Where every batch e ever sent is: those the writer wrote, those the round in
\* flight will claim, those it staged, and those it has not taken yet.
WrittenPlaced(e) ==
    inflight.result # "err" =>
        \A i \in 1 .. lanes[e].written : Kept(e, i) \/ UnderSync(e, i) \/ InSegment(e, i)

RoundPlaced(e) ==
    inflight.result # "err" =>
        \A i \in 1 .. inflight.frozen[e] : Kept(e, i) \/ UnderSync(e, i)

StagedPlaced(e) ==
    \A i \in lanes[e].written + 1 .. lanes[e].received :
        Imaged(e, i) \/ \E k \in DOMAIN staged : staged[k] = <<e, i>>

QueuedPlaced(e) ==
    \A i \in lanes[e].received + 1 .. sync[e].batch :
        Imaged(e, i) \/ \E k \in DOMAIN inbox : inbox[k] = Submit(e, i)

Placed(e) ==
    Told(e) \/ (WrittenPlaced(e) /\ RoundPlaced(e) /\ StagedPlaced(e) /\ QueuedPlaced(e))

\* What the node has said, and is about to say, is kept.
Promised(e) ==
    /\ \A b \in proven[e] \cup granted[e] : KeptTo(e, b)
    /\ \A k \in DOMAIN progress[e] : progress[e][k].type = "Durable" =>
          ToldBefore(e, k) \/ KeptTo(e, progress[e][k].through)
    /\ \A k \in DOMAIN progress[e] : progress[e][k] = Stopped =>
          ToldBefore(e, k) \/ KeptTo(e, sync[e].batch)
    /\ sync[e].refusing \/ KeptTo(e, sync[e].durableBatch)
    /\ phase[e] = "ended" => sync[e].refusing \/ KeptTo(e, sync[e].batch)

\* An image holds nothing that is neither in its bases nor kept.
ImagesBehind(e) ==
    /\ \A im \in images[e] : \A i \in 1 .. im.upto : i <= im.through \/ Kept(e, i)
    /\ cycle[e].dirPending =>
          /\ cycle[e].ended
          /\ \A i \in 1 .. cycle[e].waiting : i <= cycle[e].through \/ Kept(e, i)

\* What each executor, and the writer, contribute.
ExecPlaces(e) ==
    /\ LaneBehind(e) /\ QueueOrdered(e) /\ HeardBehind(e) /\ StopLast(e)
    /\ RefusalClean(e) /\ ImagesNumbered(e)
    /\ Placed(e) /\ Promised(e) /\ ImagesBehind(e)

PlacesInv ==
    /\ FilesOrdered /\ BetweenDrains /\ RoundSound
    /\ \A e \in Executors : ExecPlaces(e)

\* The writer is about to write only to a segment that has not failed.
WritesClean == pc = "write" => ~segment.failed

-----------------------------------------------------------------------------
(* Liveness, under Fairness and finitely many disk failures. *)

\* Every client that waits is answered: a held reply goes out, granted or
\* refused; and so does a SAVE's, unless the node is stopped first.  A cycle that
\* opened therefore finishes or is abandoned: its footer's wait for the log is
\* always answered, under `never` by the sync it asks for.
ClientsAnswered ==
    \A e \in Executors :
        /\ \A b \in 1 .. MaxBatch : b \in sync[e].held ~> b \notin sync[e].held
        /\ saves[e].now \cup saves[e].after # {}
               ~> (saves[e].now \cup saves[e].after = {} \/ stopping)

\* An executor that takes no writes takes them again: a refusal ends, unless the
\* node is stopped, because the image it forces needs no sync of the log that
\* failed; and one over its budget is let back to its inbox.
WritesResume ==
    \A e \in Executors :
        /\ sync[e].refusing ~> (~sync[e].refusing \/ stopping)
        /\ OverBudget(sync[e]) ~> ~OverBudget(sync[e])

\* A stop that was asked for completes: every executor ends.
StopCompletes == stopping ~> \A e \in Executors : phase[e] = "ended"

=============================================================================
