---------------------------- MODULE MCDurableLog ----------------------------
(* DurableLog on small instances. The cfg has the constants of one of a      *)
(* run's parts, the others have theirs here; a run picks one of them first.  *)
(* In a part where one executor is active the other one is idle.             *)
EXTENDS DurableLog, TLC

CONSTANTS e1, e2

VARIABLES part, active

ExecutorSymmetry == Permutations(Executors)

all == <<vars, part, active>>

frame == UNCHANGED <<part, active>>

Alone == {{e} : e \in Executors}

\* Three batches over two segments and their images.
OnInterval == INSTANCE DurableLog WITH
    Policy <- "interval", SegmentBatches <- 2, Floor <- 2, ImageFloor <- 3, ScanTicks <- 1,
    MaxBatch <- 3, MaxFaults <- 1, MaxSaves <- 0, MaxStops <- 0

\* Four batches, and syncs only for the images.
OnNever == INSTANCE DurableLog WITH
    Policy <- "never", SegmentBatches <- 1, Floor <- 2, ImageFloor <- 2, ScanTicks <- 1,
    MaxBatch <- 4, MaxFaults <- 1, MaxSaves <- 0, MaxStops <- 0

\* Two SAVEs against cycles open, failing and forced.
OnSaves == INSTANCE DurableLog WITH
    Policy <- "never", SegmentBatches <- 1, Floor <- 2, ImageFloor <- 2, ScanTicks <- 1,
    MaxBatch <- 2, MaxFaults <- 1, MaxSaves <- 2, MaxStops <- 0

\* Two executors in one sync round.
InRound == INSTANCE DurableLog WITH
    Policy <- "always", SegmentBatches <- 1, Floor <- 1, ImageFloor <- 1, ScanTicks <- 0,
    MaxBatch <- 1, MaxFaults <- 1, MaxSaves <- 0, MaxStops <- 0

\* Two executors that stop with batches queued beyond the budget, and two that
\* stop while the disk fails.
OnStop == INSTANCE DurableLog WITH
    Policy <- "never", SegmentBatches <- 1, Floor <- 3, ImageFloor <- 3, ScanTicks <- 0,
    MaxBatch <- 2, MaxFaults <- 0, MaxSaves <- 0, MaxStops <- 1

OnFailingStop == INSTANCE DurableLog WITH
    Policy <- "interval", SegmentBatches <- 1, Floor <- 2, ImageFloor <- 2, ScanTicks <- 0,
    MaxBatch <- 1, MaxFaults <- 1, MaxSaves <- 0, MaxStops <- 1

\* The same with fewer batches and SAVEs, and no images before the stop.
FewNever == INSTANCE DurableLog WITH
    Policy <- "never", SegmentBatches <- 1, Floor <- 2, ImageFloor <- 2, ScanTicks <- 1,
    MaxBatch <- 3, MaxFaults <- 1, MaxSaves <- 0, MaxStops <- 0

FewSaves == INSTANCE DurableLog WITH
    Policy <- "never", SegmentBatches <- 1, Floor <- 2, ImageFloor <- 2, ScanTicks <- 0,
    MaxBatch <- 1, MaxFaults <- 1, MaxSaves <- 2, MaxStops <- 0

PlainStop == INSTANCE DurableLog WITH
    Policy <- "never", SegmentBatches <- 1, Floor <- 3, ImageFloor <- 3, ScanTicks <- 0,
    MaxBatch <- 1, MaxFaults <- 1, MaxSaves <- 0, MaxStops <- 1

-----------------------------------------------------------------------------
(* One part, with the constants of the cfg. *)

OneInit == Init /\ part = "one" /\ active = Executors

OneSpec == OneInit /\ [][Next /\ frame]_all

-----------------------------------------------------------------------------
(* Two executors under `never` with the constants of the cfg, and the rest. *)

PartsInit ==
    /\ Init
    /\ \/ part \in {"shared", "round", "stop", "failing"} /\ active = Executors
       \/ part \in {"interval", "never", "saves"} /\ active \in Alone

PartsNext ==
    /\ frame
    /\ \/ part = "shared" /\ Next
       \/ part = "round" /\ InRound!Next
       \/ part = "stop" /\ OnStop!Next
       \/ part = "failing" /\ OnFailingStop!Next
       \/ /\ part = "interval"
          /\ \/ OnInterval!WriterMoves \/ OnInterval!DiskMoves
             \/ \E e \in active : OnInterval!ExecMoves(e)
       \/ /\ part = "never"
          /\ OnNever!WriterMoves \/ OnNever!DiskMoves \/ \E e \in active : OnNever!ExecMoves(e)
       \/ /\ part = "saves"
          /\ OnSaves!WriterMoves \/ OnSaves!DiskMoves \/ \E e \in active : OnSaves!ExecMoves(e)

PartsSpec == PartsInit /\ [][PartsNext]_all

-----------------------------------------------------------------------------
(* One executor under `always` with the constants of the cfg, and the rest;  *)
(* fair to the writer, the disk and the executors that are active.           *)

LiveInit ==
    /\ Init
    /\ \/ part \in {"always", "never", "saves"} /\ active = {e1}
       \/ part = "failing" /\ active = Executors

LiveWriter ==
    /\ frame
    /\ \/ part = "always" /\ WriterMoves
       \/ part = "never" /\ FewNever!WriterMoves
       \/ part = "saves" /\ FewSaves!WriterMoves
       \/ part = "failing" /\ PlainStop!WriterMoves

LiveDisk ==
    /\ frame
    /\ \/ part = "always" /\ DiskMoves
       \/ part = "never" /\ FewNever!DiskMoves
       \/ part = "saves" /\ FewSaves!DiskMoves
       \/ part = "failing" /\ PlainStop!DiskMoves

LiveHear(e) ==
    /\ e \in active /\ frame
    /\ \/ part = "always" /\ HearMoves(e)
       \/ part = "never" /\ FewNever!HearMoves(e)
       \/ part = "saves" /\ FewSaves!HearMoves(e)
       \/ part = "failing" /\ PlainStop!HearMoves(e)

LiveTick(e) ==
    /\ e \in active /\ frame
    /\ \/ part = "always" /\ TickMoves(e)
       \/ part = "never" /\ FewNever!TickMoves(e)
       \/ part = "saves" /\ FewSaves!TickMoves(e)
       \/ part = "failing" /\ PlainStop!TickMoves(e)

LiveStop(e) == part = "failing" /\ PlainStop!StopMoves(e) /\ frame

LiveClients(e) ==
    /\ e \in active /\ frame
    /\ \/ part = "always" /\ (ServeMoves(e) \/ SweepMoves(e))
       \/ part = "never" /\ (FewNever!ServeMoves(e) \/ FewNever!SweepMoves(e))
       \/ part = "saves" /\ (FewSaves!ServeMoves(e) \/ FewSaves!SweepMoves(e))
       \/ part = "failing" /\ (PlainStop!ServeMoves(e) \/ PlainStop!SweepMoves(e))

LiveNext ==
    \/ LiveWriter \/ LiveDisk
    \/ \E e \in Executors : LiveHear(e) \/ LiveTick(e) \/ LiveStop(e) \/ LiveClients(e)
    \/ part = "failing" /\ PlainStop!RequestStop /\ frame

LiveSpec ==
    /\ LiveInit /\ [][LiveNext]_all
    /\ WF_all(LiveWriter) /\ WF_all(LiveDisk)
    /\ \A e \in Executors : WF_all(LiveHear(e)) /\ WF_all(LiveTick(e)) /\ WF_all(LiveStop(e))
=============================================================================
