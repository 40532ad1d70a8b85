--------------------------- MODULE ShardExecutor ----------------------------
(***************************************************************************)
(* An executor's side of durability: run_executor and its handlers         *)
(* (seedstone-core/src/shard/executor.rs), its SyncState                   *)
(* (shard/durability.rs) and its checkpoint cycle (log/checkpoint.rs).     *)
(*                                                                         *)
(* Commands are abstracted to the batches they submit: an envelope whose   *)
(* commands appended is one batch.  While the executor refuses, every      *)
(* path that would append is closed - a write is answered with the         *)
(* refusal, a read removes an expired key without logging it, the sweep    *)
(* does not run - so refusing means submitting nothing.                    *)
(***************************************************************************)
EXTENDS LogState

VARIABLES
    phase,       \* phase[e]: serving, draining (its inbox closed), stopping, ended
    sync,        \* sync[e]: `SyncState`
    checkpoint,  \* checkpoint[e]: `SegmentCheckpoint` without its open cycle
    cycle,       \* cycle[e]: the open cycle, NoCycle when there is none
    saves,       \* saves[e]: the SAVEs waiting, by the batch each found sent last
    proven,      \* proven[e]: the batches e's shards have under their durable points
    granted,     \* granted[e]: held batches answered with their own replies
    refused,     \* refused[e]: held batches answered with the refusal
    saved        \* saved[e]: the SAVEs answered OK, by the batch each found sent last

execVars == <<phase, sync, checkpoint, cycle, saves, proven, granted, refused, saved>>

SyncState == [batch : Nat, acked : Nat, durableBatch : Nat,
              sent : SUBSET Nat, held : SUBSET Nat, refusing : BOOLEAN]

Checkpoint == [next : Nat, openedAt : Nat, imaged : BOOLEAN,
               forced : BOOLEAN, nudged : BOOLEAN]

Cycle == [open : BOOLEAN, number : Nat, through : Nat, file : BOOLEAN, ticks : Nat,
          ended : BOOLEAN, waiting : Nat, asked : BOOLEAN, dirPending : BOOLEAN]

Saves == [now : SUBSET Nat, after : SUBSET Nat, asked : BOOLEAN, taken : Nat]

ExecTypeOK ==
    /\ phase \in [Executors -> {"serving", "draining", "stopping", "ended"}]
    /\ sync \in [Executors -> SyncState]
    /\ checkpoint \in [Executors -> Checkpoint]
    /\ cycle \in [Executors -> Cycle]
    /\ saves \in [Executors -> Saves]
    /\ proven \in [Executors -> SUBSET Nat]
    /\ granted \in [Executors -> SUBSET Nat]
    /\ refused \in [Executors -> SUBSET Nat]
    /\ saved \in [Executors -> SUBSET Nat]

\* A cycle of file `n` whose bases cover everything up to batch `through`.
Fresh(n, through) ==
    [open |-> TRUE, number |-> n, through |-> through, file |-> FALSE, ticks |-> 0,
     ended |-> FALSE, waiting |-> 0, asked |-> FALSE, dirPending |-> FALSE]

NoCycle == [Fresh(0, 0) EXCEPT !.open = FALSE]

ExecInit ==
    /\ phase = [e \in Executors |-> "serving"]
    /\ sync = [e \in Executors |->
                 [batch |-> 0, acked |-> 0, durableBatch |-> 0,
                  sent |-> {}, held |-> {}, refusing |-> FALSE]]
    /\ checkpoint = [e \in Executors |->
                       [next |-> 0, openedAt |-> 0, imaged |-> FALSE,
                        forced |-> FALSE, nudged |-> FALSE]]
    /\ cycle = [e \in Executors |-> NoCycle]
    /\ saves = [e \in Executors |-> [now |-> {}, after |-> {}, asked |-> FALSE, taken |-> 0]]
    /\ proven = [e \in Executors |-> {}]
    /\ granted = [e \in Executors |-> {}]
    /\ refused = [e \in Executors |-> {}]
    /\ saved = [e \in Executors |-> {}]

-----------------------------------------------------------------------------
(* SyncState. *)

Holds(policy) == policy = "always"

OverBudget(s) == s.batch - s.acked > Budget

\* The next batch is handed to the writer, and tracked until a `Durable` names
\* it - unless the policy never syncs.
Submitted(s) ==
    [s EXCEPT !.batch = s.batch + 1,
              !.sent = IF Policy = "never" THEN s.sent ELSE s.sent \cup {s.batch + 1}]

\* A loop reads its inbox below the budget; a stop serves what was queued.
Accepts(e) ==
    \/ phase[e] = "serving" /\ ~OverBudget(sync[e])
    \/ phase[e] = "draining"

-----------------------------------------------------------------------------
(* `serve`. *)

MayAppend(e) == ~sync[e].refusing /\ sync[e].batch < MaxBatch

\* An envelope with a write that appended: held for its sync, or answered.
ServeWrite(e) ==
    LET b == sync[e].batch + 1 IN
    /\ Accepts(e)
    /\ MayAppend(e)
    /\ sync' = [sync EXCEPT ![e] = [Submitted(sync[e]) EXCEPT
                    !.held = IF Holds(Policy) THEN sync[e].held \cup {b} ELSE sync[e].held]]
    /\ inbox' = Append(inbox, Submit(e, b))
    /\ UNCHANGED <<phase, checkpoint, cycle, saves, proven, granted, refused, saved,
                   progress, images>>

\* Reads that appended only the deletions of expired keys: never held.
ServeExpired(e) ==
    /\ Accepts(e)
    /\ MayAppend(e)
    /\ sync' = [sync EXCEPT ![e] = Submitted(@)]
    /\ inbox' = Append(inbox, Submit(e, sync'[e].batch))
    /\ UNCHANGED <<phase, checkpoint, cycle, saves, proven, granted, refused, saved,
                   progress, images>>

-----------------------------------------------------------------------------
(* `snapshot`: SAVE waits for an image that opens after it, BGSAVE does not. *)

\* A command of the two, counted, with v the queues it leaves.
Asked(e, v) ==
    /\ Accepts(e)
    /\ saves[e].taken < MaxSaves
    /\ saves' = [saves EXCEPT ![e] = [v EXCEPT !.taken = saves[e].taken + 1]]
    /\ UNCHANGED <<phase, sync, cycle, proven, granted, refused, saved,
                   inbox, progress, images>>

\* It waits for the cycle that opens next, or for the one after the open one.
WaitsNow(e) == [saves[e] EXCEPT !.now = saves[e].now \cup {sync[e].batch}, !.asked = TRUE]
WaitsAfter(e) == [saves[e] EXCEPT !.after = saves[e].after \cup {sync[e].batch}]

\* `ask_for_snapshot`: one nudge for all that ask before the next tick.
AskForSnapshot(e) ==
    checkpoint' = [checkpoint EXCEPT ![e].nudged =
                     checkpoint[e].nudged \/ ~saves[e].asked]

\* Planted: a SAVE that finds a cycle open waits for that one.
SaveJoinsOpen(e) == Asked(e, WaitsNow(e)) /\ AskForSnapshot(e)

Save(e) ==
    \/ cycle[e].open /\ Asked(e, WaitsAfter(e)) /\ UNCHANGED checkpoint
    \/ ~cycle[e].open /\ Asked(e, WaitsNow(e)) /\ AskForSnapshot(e)

BgSave(e) ==
    /\ ~cycle[e].open
    /\ ~saves[e].asked
    /\ Asked(e, [saves[e] EXCEPT !.asked = TRUE])
    /\ AskForSnapshot(e)

-----------------------------------------------------------------------------
(* `progress`. *)

HearWritten(e, m) ==
    /\ m.type = "Written"
    /\ sync' = [sync EXCEPT ![e].acked = Larger(sync[e].acked, m.bytes)]
    /\ UNCHANGED <<checkpoint, cycle, saves, proven, granted, refused>>

\* Planted: the released batches stay in the queue.
HeldForever(s, through) == s.held

\* `release_through`: what stays held.
StillHeld(s, through) == {b \in s.held : b > through}

StillSent(s, through) == {b \in s.sent : b > through}

HearDurable(e, m) ==
    LET s == sync[e] IN
    /\ m.type = "Durable"
    /\ sync' = [sync EXCEPT ![e] =
                  [s EXCEPT !.acked = Larger(s.acked, m.bytes),
                            !.durableBatch = Larger(s.durableBatch, m.through),
                            !.sent = StillSent(s, m.through),
                            !.held = StillHeld(s, m.through)]]
    /\ proven' = [proven EXCEPT ![e] = @ \cup {b \in s.sent : b <= m.through}]
    /\ granted' = [granted EXCEPT ![e] = @ \cup {b \in s.held : b <= m.through}]
    /\ UNCHANGED <<checkpoint, cycle, saves, refused>>

\* `refuse`: every held batch is answered with the refusal, what was sent is
\* let go of, and a SAVE that waited for the cycle after the open one gets the
\* next that opens, since the open one is abandoned.
LetGo(e) ==
    /\ sync' = [sync EXCEPT ![e] = [@ EXCEPT !.held = {}, !.sent = {},
                                             !.acked = sync[e].batch,
                                             !.refusing = TRUE]]
    /\ refused' = [refused EXCEPT ![e] = @ \cup sync[e].held]
    /\ saves' = [saves EXCEPT ![e] =
                   [@ EXCEPT !.now = saves[e].now \cup saves[e].after, !.after = {}]]
    /\ UNCHANGED <<proven, granted>>

\* Planted: no cycle is forced.
RefuseForcesNothing(e, m) ==
    /\ m.type = "Fault"
    /\ LetGo(e)
    /\ cycle' = [cycle EXCEPT ![e] = NoCycle]
    /\ UNCHANGED checkpoint

Refuse(e, m) ==
    /\ m.type = "Fault"
    /\ LetGo(e)
    /\ checkpoint' = [checkpoint EXCEPT ![e].forced = TRUE]
    /\ cycle' = [cycle EXCEPT ![e] = NoCycle]

HearNudge(e, m) ==
    /\ m.type = "Nudge"
    /\ checkpoint' = [checkpoint EXCEPT ![e].nudged = TRUE]
    /\ UNCHANGED <<sync, cycle, saves, proven, granted, refused>>

Hear(e) ==
    /\ phase[e] \in {"serving", "stopping"}
    /\ progress[e] # <<>>
    /\ LET m == Head(progress[e]) IN
       HearWritten(e, m) \/ HearDurable(e, m) \/ Refuse(e, m) \/ HearNudge(e, m)
    /\ progress' = [progress EXCEPT ![e] = Tail(@)]
    /\ UNCHANGED <<phase, saved, inbox, images>>

-----------------------------------------------------------------------------
(* One tick of an open cycle: `step`, `restart`, `sync_footer`. *)

\* What a tick of cycle c may come to: the cycle it leaves, whether the writer
\* is asked for a sync, the footed file it leaves behind, whether the image is
\* durable, and whether the disk failed it.
Outcome(c, ask, image, done, fails) ==
    [cycle |-> c, ask |-> ask, image |-> image, done |-> done, fails |-> fails]

\* The tick's scan ended: the image may hold any batch sent by now.
ScanEnded(c, s) ==
    IF c.ended THEN c ELSE [c EXCEPT !.ended = TRUE, !.waiting = s.batch]

\* Planted: the footer waits for what the bases cover already, not for what
\* the scan may have picked up.
ShortOfBases(c, s) == s.durableBatch < c.through

\* `log_short_of_image`: the log is not durable through what the image holds.
ShortOfImage(c, s) == c.waiting # c.through /\ s.durableBatch < c.waiting

Step(c, next, s) ==
    LET restarted == Fresh(next, c.through)
        scanned == [c EXCEPT !.file = TRUE, !.ticks = c.ticks + 1]
        ended == ScanEnded([c EXCEPT !.file = TRUE], s)
        footed(sure) == {[cycle |-> c.number, through |-> c.through,
                          upto |-> ended.waiting, sure |-> sure]}
    IN
    IF c.dirPending
    THEN {Outcome(c, FALSE, footed(TRUE), TRUE, FALSE),
          Outcome(c, FALSE, footed(FALSE), FALSE, TRUE)}
    ELSE {o \in {Outcome(scanned, FALSE, {}, FALSE, FALSE)} :
              ~c.ended /\ c.ticks < ScanTicks}
         \cup {o \in {Outcome(restarted, FALSE, {}, FALSE, TRUE)} : ~c.ended}
         \cup IF ShortOfImage(ended, s)
              THEN {Outcome([ended EXCEPT !.asked = TRUE], ~c.asked, {}, FALSE, FALSE)}
              ELSE {Outcome(ended, FALSE, footed(TRUE), TRUE, FALSE),
                    Outcome([ended EXCEPT !.dirPending = TRUE], FALSE, footed(FALSE), FALSE, TRUE),
                    Outcome(restarted, FALSE, footed(FALSE), FALSE, TRUE)}

-----------------------------------------------------------------------------
(* `housekeeping`. *)

\* `tick`: a cycle opens when one is forced or nudged, or the live log is due.
Opens(e, s) ==
    /\ ~cycle[e].open
    /\ \/ checkpoint[e].forced
       \/ checkpoint[e].nudged
       \/ s.batch - checkpoint[e].openedAt >= Threshold(checkpoint[e].imaged)

\* `answer_saves`, after the tick that came to o.
SavesAfterTick(e, o) ==
    LET v == saves[e] IN
    CASE o.done -> [v EXCEPT !.now = v.after, !.after = {}, !.asked = v.after # {}]
      [] o.fails -> [v EXCEPT !.now = {}, !.after = {}, !.asked = FALSE]
      [] OTHER -> [v EXCEPT !.asked = FALSE]

\* What the tick sends: the sync the footer waits for, or the image's cover.
TickSends(e, o) ==
    IF o.ask THEN <<SyncNow>>
    ELSE IF o.done THEN <<Covered(e, o.cycle.number, o.cycle.through)>>
    ELSE <<>>

\* A tick with a cycle open, or opened by it.  The sweep ran first, and the
\* batch it appended is sent before the bases are read.
TickCycle(e, s, sweep) ==
    LET opens == Opens(e, s)
        k == IF opens
             THEN [checkpoint[e] EXCEPT !.next = @ + 1, !.openedAt = s.batch,
                                        !.forced = FALSE, !.nudged = FALSE]
             ELSE checkpoint[e]
        c == IF opens THEN Fresh(checkpoint[e].next, s.batch) ELSE cycle[e]
    IN
    /\ c.open
    /\ \E o \in Step(c, k.next, s) :
        /\ IF o.fails THEN DiskFails ELSE UNCHANGED faults
        /\ inbox' = inbox \o sweep \o TickSends(e, o)
        /\ images' = [images EXCEPT ![e] =
                        {im \in @ : im.cycle # c.number} \cup o.image]
        /\ cycle' = [cycle EXCEPT ![e] = IF o.done THEN NoCycle ELSE o.cycle]
        /\ checkpoint' = [checkpoint EXCEPT ![e] =
             [k EXCEPT !.next = IF o.cycle.number # c.number THEN @ + 1 ELSE @,
                       !.imaged = @ \/ o.done,
                       !.nudged = @ \/ (o.done /\ saves[e].after # {})]]
        /\ sync' = [sync EXCEPT ![e] = [s EXCEPT !.refusing = @ /\ ~o.done]]
        /\ proven' = [proven EXCEPT ![e] = IF o.done THEN @ \cup 1 .. c.through ELSE @]
        /\ saves' = [saves EXCEPT ![e] = SavesAfterTick(e, o)]
        /\ saved' = [saved EXCEPT ![e] = IF o.done THEN @ \cup saves[e].now ELSE @]
    /\ UNCHANGED <<phase, granted, refused, progress>>

\* A tick with no cycle: only the sweep's batch goes out.
TickIdle(e, s, sweep) ==
    /\ ~cycle[e].open
    /\ ~Opens(e, s)
    /\ inbox' = inbox \o sweep
    /\ sync' = [sync EXCEPT ![e] = s]
    /\ saves' = [saves EXCEPT ![e].asked = FALSE]
    /\ UNCHANGED <<phase, checkpoint, cycle, proven, granted, refused, saved,
                   progress, images, faults>>

Tick(e) ==
    /\ phase[e] = "serving"
    /\ TickCycle(e, sync[e], <<>>) \/ TickIdle(e, sync[e], <<>>)

\* A tick whose sweep found keys to delete.
SweepTick(e) ==
    LET s == Submitted(sync[e])
        sweep == <<Submit(e, s.batch)>>
    IN
    /\ phase[e] = "serving"
    /\ MayAppend(e)
    /\ TickCycle(e, s, sweep) \/ TickIdle(e, s, sweep)

-----------------------------------------------------------------------------
(* `stop`. *)

\* The stop was seen; what the inbox still holds is served, budget or not.
StopSeen(e) ==
    /\ phase[e] = "serving"
    /\ phase' = [phase EXCEPT ![e] = "draining"]
    /\ UNCHANGED <<sync, checkpoint, cycle, saves, proven, granted, refused, saved,
                   inbox, progress, images>>

SendStop(e) ==
    /\ phase[e] = "draining"
    /\ phase' = [phase EXCEPT ![e] = "stopping"]
    /\ inbox' = Append(inbox, Stop(e))
    /\ UNCHANGED <<sync, checkpoint, cycle, saves, proven, granted, refused, saved,
                   progress, images>>

\* `Stopped`: what no sync answered goes out as the refusal.
HearStopped(e) ==
    /\ phase[e] = "stopping"
    /\ progress[e] # <<>>
    /\ Head(progress[e]) = Stopped
    /\ progress' = [progress EXCEPT ![e] = Tail(@)]
    /\ phase' = [phase EXCEPT ![e] = "ended"]
    /\ sync' = [sync EXCEPT ![e].held = {}]
    /\ refused' = [refused EXCEPT ![e] = @ \cup sync[e].held]
    /\ UNCHANGED <<checkpoint, cycle, saves, proven, granted, saved, inbox, images>>

-----------------------------------------------------------------------------

\* The envelopes of the inbox, the writer's word, the tick and the stop: the
\* arms of run_executor's select, and the loop `stop` ends with.
Serve(e) == ServeWrite(e) \/ ServeExpired(e) \/ Save(e) \/ BgSave(e)

HearWriter(e) == Hear(e) \/ HearStopped(e)
=============================================================================
