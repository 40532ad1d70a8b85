------------------------------ MODULE Counters ------------------------------
(***************************************************************************)
(* What a node with a data directory tells of its persistence             *)
(* (seedstone-core/src/shard/persistence.rs): the counters its executors   *)
(* keep as they serve, sweep, refuse and take images, and the section of   *)
(* INFO that reads them, executor by executor, while they go on moving.    *)
(*                                                                         *)
(* A cycle is what the counters see of it: when it opened and how each of  *)
(* its ticks ended (ShardExecutor has the cycle itself and its causes).    *)
(* Milliseconds are scaled: Second of them make a second.                  *)
(***************************************************************************)
EXTENDS Integers, Sequences, FiniteSets, FiniteSetsExt, Functions

CONSTANTS Executors,      \* an initial segment of the naturals from 1
          Shards, Owner,  \* the executor of each shard
          Second,
          Start,          \* the clock when the node starts
          MayBeLossy,     \* the shards the start may report lossy
          Evicted,        \* keys a command may evict: a set of numbers
          MaxClock,       \* bound on the clock
          MaxRecords,     \* bound: records of one shard
          MaxCycles,      \* bound: images one executor completes
          MaxTicks,       \* bound: ticks one cycle stays open
          MaxFaults       \* bound: times a writer fails one executor

None == -1

VARIABLES clock,
          written,         \* of each shard: when each record of its log was appended
          image,           \* of each shard: the newest durable image, and when it opened
          lossy,           \* the shards the start reported lossy and no image has covered
          cycle,           \* of each executor: its open cycle
          changes_at_open,
          mode,            \* "Serving" or "Refusing"
          writer_lost,
          forced,          \* SegmentCheckpoint.forced
          cell,            \* ExecutorCell
          refusing, lossy_shards,  \* PersistenceStats
          heard,           \* the cells a running INFO has read
          report,          \* the last section INFO sent
          served, faults   \* history: commands that appended, faults heard

vars == <<clock, written, image, lossy, cycle, changes_at_open, mode, writer_lost, forced, cell,
          refusing, lossy_shards, heard, report, served, faults>>
node == <<cell, refusing, lossy_shards>>
reader == <<heard, report>>

Of(e) == {s \in Shards : Owner[s] = e}

NoCycle == [number |-> 0]

IsOpen(c) == c # NoCycle

(* newest_images_secs: the oldest of the shards' newest images. *)
newest_images_secs(images, e) ==
    IF \E s \in Of(e) : images[s].unix = None THEN 0
    ELSE Max({Min({images[s].unix : s \in Of(e)}) \div Second, 1})

ExecutorCell(secs) ==
    [cycle_open |-> FALSE, saves |-> 0, last_save_unix |-> secs, last_save_ticks |-> 0,
     last_save_failed |-> FALSE, changes |-> 0]

NoImage == [unix |-> None, base |-> 0]

(* The node has just recovered: a shard has an image or none, a tail of *)
(* records after it, and may be reported lossy.                         *)
Init ==
    /\ clock = Start
    /\ written \in [Shards -> {<<>>, <<Start - 1>>}]
    /\ image \in [Shards -> {NoImage, [unix |-> Start - 1, base |-> 0]}]
    /\ lossy \in SUBSET MayBeLossy
    /\ cycle = [e \in Executors |-> NoCycle]
    /\ changes_at_open = [e \in Executors |-> None]
    /\ mode = [e \in Executors |-> "Serving"]
    /\ writer_lost = {} /\ forced = {}
    /\ cell = [e \in Executors |-> ExecutorCell(newest_images_secs(image, e))]
    /\ refusing = 0 /\ lossy_shards = Cardinality(lossy)
    /\ heard = <<>> /\ report = [last_save |-> None, changes |-> 0]
    /\ served = [e \in Executors |-> [total |-> 0, covered |-> 0]]
    /\ faults = [e \in Executors |-> 0]

Elapse ==
    /\ clock < MaxClock
    /\ clock' = clock + 1
    /\ UNCHANGED <<written, image, lossy, cycle, changes_at_open, mode, writer_lost, forced, node,
                   reader, served, faults>>

-----------------------------------------------------------------------------
Appended(s, n) == [written EXCEPT ![s] = @ \o [i \in 1..n |-> clock]]

(* serve, for a command that appends: its own record and those of the keys *)
(* evicted after it.  It counts as one change.                             *)
Serve(s, n) ==
    LET e == Owner[s] IN
    /\ mode[e] = "Serving" /\ Len(written[s]) + n <= MaxRecords
    /\ written' = Appended(s, n)
    /\ cell' = [cell EXCEPT ![e].changes = @ + 1]
    /\ served' = [served EXCEPT ![e].total = @ + 1]
    /\ UNCHANGED <<clock, image, lossy, cycle, changes_at_open, mode, writer_lost, forced,
                   refusing, lossy_shards, reader, faults>>

CountRefusal(e) == refusing' = refusing + (IF mode[e] = "Refusing" THEN 0 ELSE 1)

(* refuse: the open cycle is given up and the next tick opens another. *)
Refuse(e, lostNow) ==
    /\ faults[e] < MaxFaults /\ e \notin writer_lost
    /\ faults' = [faults EXCEPT ![e] = @ + 1]
    /\ CountRefusal(e)
    /\ mode' = [mode EXCEPT ![e] = "Refusing"]
    /\ cycle' = [cycle EXCEPT ![e] = NoCycle]
    /\ forced' = forced \cup {e}
    /\ writer_lost' = IF lostNow THEN writer_lost \cup {e} ELSE writer_lost
    /\ UNCHANGED <<clock, written, image, lossy, changes_at_open, cell, lossy_shards, reader,
                   served>>

-----------------------------------------------------------------------------
(* The records the sweep of a tick appends to one shard; none if refusing. *)
Sweeps(e) ==
    {written} \cup {Appended(s, 1) : s \in {s \in Of(e) : mode[e] = "Serving"
                                                          /\ Len(written[s]) < MaxRecords}}

(* SegmentCheckpoint::tick opens a cycle (or keeps the one that is open). *)
Opened(e, log) ==
    IF IsOpen(cycle[e]) THEN cycle[e]
    ELSE [number |-> cell[e].saves + 1, unix |-> clock, ticks |-> 0, bases |-> [s \in Of(e) |-> Len(log[s])],
          served |-> served[e].total]

Covered(e, atOpen) == IF atOpen = None THEN cell[e].changes ELSE atOpen


AtOpen(e) == IF IsOpen(cycle[e]) THEN changes_at_open[e] ELSE None

(* Housekeeping, when the checkpoint has nothing to do. *)
TickIdle(e) ==
    /\ ~IsOpen(cycle[e]) /\ e \notin forced
    /\ written' \in Sweeps(e)
    /\ changes_at_open' = [changes_at_open EXCEPT ![e] = AtOpen(e)]
    /\ cell' = [cell EXCEPT ![e].cycle_open = FALSE]
    /\ UNCHANGED <<clock, image, lossy, cycle, mode, writer_lost, forced, refusing, lossy_shards,
                   reader, served, faults>>

(* A tick that leaves the cycle open: there is more to scan or to wait for, *)
(* or a file operation failed and the image starts over, bases and all.     *)
TickOpen(e, faulted) ==
    \E log \in Sweeps(e) :
        /\ cell[e].saves < MaxCycles /\ Opened(e, log).ticks < MaxTicks
        /\ written' = log
        /\ cycle' = [cycle EXCEPT ![e] = [Opened(e, log) EXCEPT !.ticks = @ + 1]]
        /\ forced' = forced \ {e}
        /\ changes_at_open' =
              [changes_at_open EXCEPT ![e] = Covered(e, AtOpen(e))]
        /\ cell' = [cell EXCEPT ![e].cycle_open = TRUE,
                                ![e].last_save_failed = @ \/ faulted]
        /\ UNCHANGED <<clock, image, lossy, mode, writer_lost, refusing, lossy_shards, reader,
                       served, faults>>

ServesAgain(e) == e \notin writer_lost

(* finish, and what housekeeping does of a completed image. *)
TickDone(e) ==
    \E log \in Sweeps(e) :
        LET done == Opened(e, log)
            cleared == lossy \cap Of(e)
            covered == Covered(e, AtOpen(e))
        IN
        /\ cell[e].saves < MaxCycles
        /\ written' = log
        /\ cycle' = [cycle EXCEPT ![e] = NoCycle]
        /\ forced' = forced \ {e}
        /\ changes_at_open' = [changes_at_open EXCEPT ![e] = None]
        /\ image' = [s \in Shards |-> IF s \in Of(e)
                        THEN [unix |-> done.unix, base |-> done.bases[s]] ELSE image[s]]
        /\ lossy' = lossy \ cleared
        /\ lossy_shards' = lossy_shards - Cardinality(cleared)
        /\ cell' = [cell EXCEPT ![e] =
              [cycle_open |-> FALSE, saves |-> @.saves + 1,
               last_save_unix |-> newest_images_secs(image', e),
               last_save_ticks |-> done.ticks + 1, last_save_failed |-> FALSE,
               changes |-> @.changes - covered]]
        /\ served' = [served EXCEPT ![e].covered = done.served]
        /\ IF mode[e] = "Refusing" /\ ServesAgain(e)
           THEN mode' = [mode EXCEPT ![e] = "Serving"] /\ refusing' = refusing - 1
           ELSE UNCHANGED <<mode, refusing>>
        /\ UNCHANGED <<clock, writer_lost, reader, faults>>

-----------------------------------------------------------------------------
(* PersistenceStats::last_save_unix, over the cells one after another. *)
last_save_unix(cells) ==
    IF \E i \in DOMAIN cells : cells[i].last_save_unix = 0 THEN None
    ELSE Min({cells[i].last_save_unix : i \in DOMAIN cells})

Sum(cells) == MapThenSumSet(LAMBDA i : cells[i].changes, DOMAIN cells)

(* persistence_section: the executors move between two reads. *)
ReadCell ==
    LET cells == Append(heard, cell[Len(heard) + 1]) IN
    /\ IF Len(cells) < Cardinality(Executors)
       THEN heard' = cells /\ UNCHANGED report
       ELSE /\ heard' = <<>>
            /\ report' = [last_save |-> last_save_unix(cells), changes |-> Sum(cells)]
    /\ UNCHANGED <<clock, written, image, lossy, cycle, changes_at_open, mode, writer_lost, forced,
                   node, served, faults>>

Next ==
    \/ Elapse \/ ReadCell
    \/ \E s \in Shards, evicted \in Evicted : Serve(s, 1 + evicted)
    \/ \E e \in Executors :
          \/ \E lostNow \in BOOLEAN : Refuse(e, lostNow)
          \/ TickIdle(e) \/ TickDone(e)
          \/ \E faulted \in BOOLEAN : TickOpen(e, faulted)

Spec == Init /\ [][Next]_vars

-----------------------------------------------------------------------------
(***************************************************************************)
(* LASTSAVE and rdb_last_save_time: every record appended before the time  *)
(* they give is in a durable image, of every shard, however the executors  *)
(* moved while their cells were read and whatever images were given up.    *)
(***************************************************************************)
LastSaveTrue ==
    report.last_save # None =>
        \A s \in Shards : \A i \in DOMAIN written[s] :
            written[s][i] < report.last_save * Second => i <= image[s].base

(***************************************************************************)
(* rdb_changes_since_last_save never drops or counts twice a command:      *)
(* what is subtracted when an image completes (executor.rs housekeeping)   *)
(* is what was counted when that image opened, through cycles given up,    *)
(* failed and begun again; so the count is never below zero.               *)
(***************************************************************************)
ChangesExact ==
    \A e \in Executors : cell[e].changes = served[e].total - served[e].covered

(***************************************************************************)
(* refusing_executors and lossy_shards are how many refuse and how many    *)
(* are still lossy, though a writer may fail an executor again while it    *)
(* refuses, and an image may cover shards that were never lossy.           *)
(***************************************************************************)
GaugesTrue ==
    /\ refusing = Cardinality({e \in Executors : mode[e] = "Refusing"})
    /\ lossy_shards = Cardinality(lossy)

(***************************************************************************)
(* An executor whose writer is gone never takes a write again: the image   *)
(* it completes afterwards does not put it back to serving.                *)
(***************************************************************************)
LostRefuses == \A e \in writer_lost : mode[e] = "Refusing"
=============================================================================
