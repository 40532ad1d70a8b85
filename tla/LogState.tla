------------------------------ MODULE LogState ------------------------------
(***************************************************************************)
(* What the log writer and the executors share: the channels between them  *)
(* and the directory both write to.  Every executor sends to the one       *)
(* writer inbox and hears back on a progress channel of its own; both are  *)
(* unbounded FIFO queues inside one process, so nothing on them is lost,   *)
(* duplicated or reordered.                                                *)
(*                                                                         *)
(* Batches are numbered from 1, so 0 stands for the code's `None`; a batch *)
(* counts for one unit of bytes.  One generation of the log is modelled.   *)
(***************************************************************************)
EXTENDS Integers, Sequences, FiniteSets

CONSTANTS
    Executors,       \* the executors that share the writer
    Policy,          \* SyncPolicy: "always", "interval" or "never"
    Budget,          \* WRITER_BUDGET, in batches
    Grain,           \* WRITTEN_GRAIN, in batches
    SegmentBatches,  \* segment_bytes, in batches
    Floor,           \* the checkpoint threshold before the first image
    ImageFloor,      \* the threshold once an image of known size exists
    ScanTicks,       \* the most ticks a scan goes on before the one that ends it
    MaxBatch,        \* bound: batches an executor submits
    MaxFaults,       \* bound: disk operations that fail
    MaxSaves,        \* bound: SAVE and BGSAVE commands an executor is sent
    MaxStops         \* bound: times the pool is told to stop, 0 or 1

ASSUME PolicyAssumption == Policy \in {"always", "interval", "never"}

\* An executor at its budget has a whole grain unreported, so the writer speaks.
ASSUME SizesAssumption ==
    /\ {Budget, Grain, SegmentBatches, Floor, ImageFloor} \subseteq Nat \ {0}
    /\ Grain <= Budget + 1
    /\ Floor <= ImageFloor

ASSUME BoundsAssumption ==
    {ScanTicks, MaxBatch, MaxFaults, MaxSaves} \subseteq Nat /\ MaxStops \in {0, 1}

VARIABLES
    inbox,      \* messages to the writer, oldest first
    progress,   \* progress[e]: messages to executor e, oldest first
    written,    \* <<rotation, executor, batch>> written to a segment that exists
    synced,     \* the ones of `written` a sync that succeeded covers
    dropped,    \* the ones whose pages a failed sync let go of
    images,     \* images[e]: the snapshot files of e a start could read
    faults      \* disk operations that failed so far

sharedVars == <<inbox, progress, written, synced, dropped, images, faults>>

-----------------------------------------------------------------------------
(* Messages to the writer (`ToWriter`) and from it (`Progress`). *)

Submit(e, b) == [type |-> "Submit", executor |-> e, batch |-> b]
Covered(e, c, t) == [type |-> "Covered", executor |-> e, cycle |-> c, through |-> t]
SyncNow == [type |-> "SyncNow"]
Stop(e) == [type |-> "Stop", executor |-> e]

ToWriter ==
    [type : {"Submit"}, executor : Executors, batch : Nat]
    \cup [type : {"Covered"}, executor : Executors, cycle : Nat, through : Nat]
    \cup {SyncNow}
    \cup [type : {"Stop"}, executor : Executors]

Written(n) == [type |-> "Written", bytes |-> n]
Durable(b, n) == [type |-> "Durable", through |-> b, bytes |-> n]
Fault == [type |-> "Fault"]
Nudge == [type |-> "Nudge"]
Stopped == [type |-> "Stopped"]

Progress ==
    [type : {"Written"}, bytes : Nat]
    \cup [type : {"Durable"}, through : Nat, bytes : Nat]
    \cup {Fault, Nudge, Stopped}

-----------------------------------------------------------------------------
(* The directory. *)

\* A snapshot file with a footer: it holds every batch up to `through`, and may
\* hold the effect of any up to `upto`.  It is `sure` once its footer and its
\* directory entry are synced; until then a crash may or may not leave it.
Image == [cycle : Nat, through : Nat, upto : Nat, sure : BOOLEAN]

Larger(a, b) == IF a >= b THEN a ELSE b

Triple == Nat \X Executors \X Nat

InRotation(S, r) == {t \in S : t[1] = r}

\* The threshold of `SegmentCheckpoint::threshold` and of the writer's nudge,
\* max(floor, ratio * last snapshot), every image having one size.
Threshold(imaged) == IF imaged THEN ImageFloor ELSE Floor

SharedTypeOK ==
    /\ inbox \in Seq(ToWriter)
    /\ progress \in [Executors -> Seq(Progress)]
    /\ written \subseteq Triple
    /\ synced \subseteq written
    /\ dropped \subseteq written
    /\ images \in [Executors -> SUBSET Image]
    /\ faults \in Nat

SharedInit ==
    /\ inbox = <<>>
    /\ progress = [e \in Executors |-> <<>>]
    /\ written = {}
    /\ synced = {}
    /\ dropped = {}
    /\ images = [e \in Executors |-> {}]
    /\ faults = 0

\* A disk operation fails.
DiskFails == faults < MaxFaults /\ faults' = faults + 1

=============================================================================
