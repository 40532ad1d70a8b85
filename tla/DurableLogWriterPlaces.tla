----------------------- MODULE DurableLogWriterPlaces -----------------------
(***************************************************************************)
(* The rest of the writer's half of PlacesInv, DurableLog's invariant:     *)
(* writing, rotating, the disk's completion, the last round and covers.    *)
(***************************************************************************)
EXTENDS DurableLogPlaces

-----------------------------------------------------------------------------
(* The writer's steps, continued. *)

\* What was staged is in the open segment, which has not failed.
LEMMA WriteKeeps ==
    ASSUME TypeOK, TypeOK', PlacesInv, UNCHANGED execVars, \A e \in Executors : Keeps(e),
           WritesClean, WriteStaged
    PROVE  StepPlaces'
<1>0. /\ FilesOrdered /\ RoundSound /\ lanes \in [Executors -> Lane] /\ written \subseteq Triple
      /\ staged \in Seq(Executors \X Nat) /\ inflight \in InFlight
      /\ inflight.covers \subseteq Triple /\ segment \in Segment
  BY Zenon DEF PlacesInv, TypeOK, WriterTypeOK, SharedTypeOK, InFlight
<1>1. /\ ~segment.failed
      /\ written' = written \cup
           {<<segment.rotation, staged[i][1], staged[i][2]>> : i \in DOMAIN staged}
      /\ staged' = <<>> /\ UNCHANGED <<inflight, closed, inbox, dropped, images>>
  BY Zenon DEF WriteStaged, WritesClean
<1>2. /\ segment'.rotation = segment.rotation /\ segment'.attempted = segment.attempted
      /\ segment'.failed = segment.failed /\ segment'.dirty
  BY Zenon, <1>0 DEF WriteStaged, Segment
<1>3. \A e \in Executors :
        /\ lanes[e] \in Lane /\ lanes[e].written \in Nat /\ lanes[e].received \in Nat
        /\ lanes[e].bytes + lanes[e].pending \in Nat
        /\ lanes'[e].written = lanes[e].received /\ lanes'[e].received = lanes[e].received
        /\ lanes'[e].pending = 0 /\ lanes'[e].stopped = lanes[e].stopped
  <2>1. \A e \in Executors : lanes'[e] = LaneWrote(lanes[e]) /\ lanes[e] \in Lane
    BY Zenon, <1>0 DEF WriteStaged
  <2>2. \A e \in Executors :
          /\ lanes[e].written \in Nat /\ lanes[e].received \in Nat
          /\ lanes[e].bytes + lanes[e].pending \in Nat
    BY <2>1 DEF Lane
  <2> QED
    BY <2>1, <2>2, LaneOrder
<1>4. \A k \in DOMAIN staged :
        /\ staged[k][1] \in Executors /\ staged[k][2] \in Nat
        /\ staged[k][2] <= lanes[staged[k][1]].received
  BY <1>0 DEF PlacesInv, ExecPlaces, LaneBehind
<1>5. \A t \in written' \ written :
        t[1] = segment.rotation /\ t[2] \in Executors /\ t[3] <= lanes[t[2]].received
  BY <1>1, <1>4
<1>6. \A e \in Executors : lanes[e].written <= lanes[e].received
  BY Zenon DEF PlacesInv, ExecPlaces, LaneBehind
<1>7. FilesOrdered'
  <2>1. \A t \in written : t[1] \in Nat /\ t[2] \in Executors /\ t[3] \in Nat
    BY Zenon, <1>0 DEF Triple
  <2>2. ASSUME NEW t \in written'
        PROVE  t[1] <= segment.rotation /\ t[3] <= lanes'[t[2]].written
    <3>1. CASE t \in written
      <4>1. t[1] <= segment.rotation /\ t[3] <= lanes[t[2]].written
        BY Zenon, <1>0, <3>1 DEF FilesOrdered
      <4> QED
        BY <1>3, <1>6, <2>1, <3>1, <4>1
    <3>2. CASE t \notin written
      <4>1. t[1] = segment.rotation /\ t[2] \in Executors /\ t[3] <= lanes[t[2]].received
        BY Zenon, <1>5, <3>2
      <4>2. segment.rotation \in Nat
        BY Zenon, <1>0 DEF Segment
      <4> QED
        BY <1>3, <4>1, <4>2
    <3> QED
      BY Zenon, <3>1, <3>2
  <2>3. \A n \in DOMAIN closed : \A t \in written' :
          t[1] = closed[n].rotation => t \in written
    BY <1>0, <1>5 DEF FilesOrdered, Segment
  <2> QED
    BY ZenonT(40), <1>0, <1>1, <1>2, <2>2, <2>3 DEF FilesOrdered
<1>8. RoundSound'
  <2>1. \A t \in Triple : Kept(t[2], t[3]) => Kept(t[2], t[3])'
    BY Zenon, TriplesKept
  <2> QED
    BY Zenon, <1>0, <1>1, <1>2, <2>1 DEF RoundSound
<1>9. ASSUME NEW e \in Executors PROVE ExecPlaces(e)'
  <2>1. /\ ExecPlaces(e) /\ LaneBehind(e) /\ Placed(e) /\ Keeps(e)
        /\ sync' = sync /\ sync[e].batch \in Nat
    BY Zenon DEF PlacesInv, ExecPlaces, execVars, TypeOK, ExecTypeOK, SyncState
  <2>2. Takes /\ images'[e] \subseteq images[e] /\ lanes'[e].received <= lanes[e].received
    BY <1>1, <1>3 DEF Takes
  <2>3. Says(e)
    <3>1. \/ progress'[e] = progress[e]
          \/ progress'[e] = Append(progress[e], Written(lanes[e].bytes + lanes[e].pending))
      BY Zenon DEF WriteStaged
    <3>2. PICK m \in Progress : m = Written(lanes[e].bytes + lanes[e].pending)
      BY Zenon, <1>3, MessageTypes
    <3>3. m.type # "Durable" /\ m # Stopped
      BY Zenon, <3>2 DEF Written, Stopped
    <3> QED
      BY ZenonT(40), <3>1, <3>2, <3>3 DEF Says
  <2>4. LaneBehind(e)'
    BY <1>1, <1>3, <2>1 DEF LaneBehind
  <2>5. ASSUME ~Told(e)
        PROVE  (WrittenPlaced(e) /\ RoundPlaced(e) /\ StagedPlaced(e) /\ QueuedPlaced(e))'
    <3>1. WrittenPlaced(e) /\ RoundPlaced(e) /\ StagedPlaced(e) /\ QueuedPlaced(e)
      BY Zenon, <2>1, <2>5 DEF Placed
    <3>2. ASSUME inflight.result # "err", NEW i \in 1 .. lanes[e].received
          PROVE  (Kept(e, i) \/ UnderSync(e, i) \/ InSegment(e, i))'
      <4>0. i \in Nat
        BY <1>3
      <4>1. CASE i <= lanes[e].written
        <5>1. Kept(e, i) \/ UnderSync(e, i) \/ InSegment(e, i)
          BY <1>3, <3>1, <3>2, <4>0, <4>1 DEF WrittenPlaced
        <5> QED
          BY ZenonT(40), <1>1, <1>2, <2>1, <4>0, <5>1 DEF Keeps, UnderSync, InSegment
      <4>2. CASE i > lanes[e].written
        <5>1. Imaged(e, i) \/ \E k \in DOMAIN staged : staged[k] = <<e, i>>
          BY <1>3, <3>1, <4>0, <4>2 DEF StagedPlaced
        <5>2. ASSUME NEW k \in DOMAIN staged, staged[k] = <<e, i>> PROVE InSegment(e, i)'
          <6>1. <<segment.rotation, e, i>> \in written'
            BY <1>1, <5>2
          <6> QED
            BY Zenon, <1>1, <1>2, <6>1 DEF InSegment
        <5>3. CASE Imaged(e, i)
          BY Zenon, <2>1, <4>0, <5>3 DEF Keeps, Kept
        <5> QED
          BY ZenonT(40), <5>1, <5>2, <5>3
      <4> QED
        BY <1>3, <4>0, <4>1, <4>2
    <3>3. WrittenPlaced(e)'
      BY ZenonT(40), <1>1, <1>3, <3>2 DEF WrittenPlaced
    <3>4. RoundPlaced(e)'
      <4>1. inflight.frozen[e] \in Nat
        BY Zenon, <1>0 DEF InFlight, Frozen
      <4> QED
        BY <1>1, <2>1, <3>1, <4>1 DEF RoundPlaced, Keeps, UnderSync
    <3>5. StagedPlaced(e)'
      BY <1>3 DEF StagedPlaced
    <3>6. QueuedPlaced(e)'
      BY ZenonT(40), <1>1, <1>3, <2>1, <2>2, <3>1, QueuedStays
    <3> QED
      BY Zenon, <3>3, <3>4, <3>5, <3>6
  <2> QED
    BY ZenonT(40), <1>3, <2>1, <2>2, <2>3, <2>4, <2>5, WriterPlaces
<1> QED
  BY ZenonT(40), <1>7, <1>8, <1>9 DEF StepPlaces

\* A new segment: what the old one holds is kept, or under the round in flight.
LEMMA SwapKeeps ==
    ASSUME TypeOK, TypeOK', PlacesInv, UNCHANGED execVars, \A e \in Executors : Keeps(e),
           RotateSwaps
    PROVE  StepPlaces'
<1>0. /\ FilesOrdered /\ RoundSound /\ lanes \in [Executors -> Lane] /\ written \subseteq Triple
      /\ closed \in Seq(Closed) /\ inflight \in InFlight /\ dropped \subseteq written
      /\ inflight.covers \subseteq Triple /\ segment \in Segment
      /\ segment.rotation \in Nat /\ segment.attempted \in Nat
  BY Zenon DEF PlacesInv, TypeOK, WriterTypeOK, SharedTypeOK, InFlight, Segment
<1>1. /\ segment.failed \/ ~segment.dirty
      /\ segment'.rotation = segment.attempted + 1 /\ segment'.attempted = segment.attempted + 1
      /\ ~segment'.dirty /\ ~segment'.failed
      /\ UNCHANGED <<staged, inflight, inbox, written, dropped, images>>
  BY Zenon DEF RotateSwaps, UnsyncedBytes
<1>2. \A e \in Executors :
        /\ lanes[e].written \in Nat /\ lanes[e].received \in Nat
        /\ SameLane(e) /\ lanes'[e].stopped = lanes[e].stopped
  <2>1. \A e \in Executors :
          lanes[e] \in Lane /\ lanes[e].written \in Nat /\ lanes[e].received \in Nat
    BY Zenon, <1>0 DEF Lane
  <2>2. \A e \in Executors : \E a : lanes'[e] = [lanes[e] EXCEPT !.nudged = a]
    BY Zenon DEF RotateSwaps
  <2>3. ASSUME NEW e \in Executors
        PROVE  SameLane(e) /\ lanes'[e].stopped = lanes[e].stopped
    <3>1. PICK a : lanes'[e] = [lanes[e] EXCEPT !.nudged = a]
      BY Zenon, <2>2
    <3>2. LET k == [lanes[e] EXCEPT !.nudged = a]
          IN  /\ k.written = lanes[e].written /\ k.received = lanes[e].received
              /\ k.pending = lanes[e].pending /\ k.stopped = lanes[e].stopped
      BY <2>1, LaneOrder
    <3> QED
      BY Zenon, <3>1, <3>2 DEF SameLane
  <2> QED
    BY Zenon, <2>1, <2>3
<1>3. segment.rotation < segment'.rotation /\ \A t \in written : t[1] < segment'.rotation
  BY <1>0, <1>1 DEF FilesOrdered, Triple
<1>4. FilesOrdered'
  <2>1. PICK c \in Closed :
          /\ closed' = Append(closed, c) /\ c.rotation = segment.rotation /\ c.last = LaneWritten
    <3>1. LaneWritten \in Frozen
      BY Zenon, <1>2 DEF LaneWritten, Frozen
    <3>2. [rotation |-> segment.rotation, last |-> LaneWritten, bytes |-> segment.bytes] \in Closed
      BY Zenon, <1>0, <3>1 DEF Closed, Segment
    <3> QED
      BY Zenon, <3>2 DEF RotateSwaps
  <2>2. \A n \in DOMAIN closed' : (n \in DOMAIN closed /\ closed'[n] = closed[n]) \/ closed'[n] = c
    BY <1>0, <2>1
  <2>3. \A t \in written : t[2] \in Executors /\ t[3] \in Nat /\ t[3] <= lanes'[t[2]].written
                           /\ t[3] <= LaneWritten[t[2]]
    BY Zenon, <1>0, <1>2 DEF FilesOrdered, Triple, SameLane, LaneWritten
  <2>4. \A n \in DOMAIN closed : closed[n].rotation \in Nat
    <3>1. \A n \in DOMAIN closed : closed[n] \in Closed
      BY <1>0
    <3> QED
      BY Zenon, <3>1 DEF Closed
  <2>5. ASSUME NEW n \in DOMAIN closed'
        PROVE  /\ closed'[n].rotation < segment'.rotation
               /\ \A t \in written : t[1] = closed'[n].rotation => t[3] <= closed'[n].last[t[2]]
    <3>1. CASE n \in DOMAIN closed /\ closed'[n] = closed[n]
      <4>1. /\ closed[n].rotation < segment.rotation
            /\ \A t \in written : t[1] = closed[n].rotation => t[3] <= closed[n].last[t[2]]
        BY Zenon, <1>0, <3>1 DEF FilesOrdered
      <4>2. segment'.rotation \in Nat
        BY <1>0, <1>1
      <4> QED
        BY <1>0, <1>3, <2>4, <3>1, <4>1, <4>2
    <3>2. CASE closed'[n] = c
      BY Zenon, <1>3, <2>1, <2>3, <3>2
    <3> QED
      BY Zenon, <2>2, <3>1, <3>2
  <2> QED
    BY <1>0, <1>1, <1>3, <2>3, <2>5 DEF FilesOrdered, Triple
<1>5. \A t \in Triple : Kept(t[2], t[3]) => Kept(t[2], t[3])'
  BY Zenon, TriplesKept
<1>6. RoundSound'
  <2>1. \A t \in written : t[1] # segment'.rotation
    BY <1>0, <1>3 DEF Triple
  <2> QED
    BY Zenon, <1>0, <1>1, <1>5, <2>1 DEF RoundSound
<1>7. ASSUME NEW e \in Executors PROVE ExecPlaces(e)'
  <2>1. /\ ExecPlaces(e) /\ LaneBehind(e) /\ Placed(e) /\ Keeps(e)
        /\ sync' = sync /\ sync[e].batch \in Nat
    BY Zenon DEF PlacesInv, ExecPlaces, execVars, TypeOK, ExecTypeOK, SyncState
  <2>2. Takes /\ images'[e] \subseteq images[e] /\ lanes'[e].received <= lanes[e].received
    BY <1>1, <1>2 DEF Takes, SameLane
  <2>3. Says(e)
    <3>1. progress'[e] = progress[e] \/ progress'[e] = Append(progress[e], Nudge)
      BY Zenon DEF RotateSwaps
    <3>2. Nudge \in Progress /\ Nudge.type # "Durable" /\ Nudge # Stopped
      BY Zenon DEF Nudge, Progress, Stopped
    <3> QED
      BY Zenon, <3>1, <3>2 DEF Says
  <2>4. LaneBehind(e)'
    BY ZenonT(40), <1>1, <1>2, <2>1 DEF LaneBehind, SameLane
  <2>5. ASSUME ~Told(e)
        PROVE  (WrittenPlaced(e) /\ RoundPlaced(e) /\ StagedPlaced(e) /\ QueuedPlaced(e))'
    <3>1. WrittenPlaced(e) /\ RoundPlaced(e) /\ StagedPlaced(e) /\ QueuedPlaced(e)
      BY Zenon, <2>1, <2>5 DEF Placed
    <3>2. ASSUME inflight.result # "err", NEW i \in 1 .. lanes[e].written
          PROVE  (Kept(e, i) \/ UnderSync(e, i))'
      <4>1. Kept(e, i) \/ UnderSync(e, i) \/ InSegment(e, i)
        BY Zenon, <3>1, <3>2 DEF WrittenPlaced
      <4>2. CASE InSegment(e, i)
        <5>1. <<segment.rotation, e, i>> \in written /\ ~segment.failed
          BY Zenon, <4>2 DEF InSegment
        <5>2. <<segment.rotation, e, i>> \in inflight.covers \/ Kept(e, i)
          BY ZenonT(40), <1>0, <1>1, <3>2, <5>1 DEF RoundSound
        <5> QED
          BY <1>1, <1>2, <2>1, <5>2 DEF Keeps, UnderSync
      <4> QED
        BY <1>1, <1>2, <2>1, <4>1, <4>2 DEF Keeps, UnderSync
    <3>3. WrittenPlaced(e)'
      BY ZenonT(40), <1>1, <1>2, <3>2 DEF WrittenPlaced, SameLane
    <3>4. RoundPlaced(e)'
      <4>1. inflight.frozen[e] \in Nat
        BY Zenon, <1>0 DEF InFlight, Frozen
      <4> QED
        BY <1>1, <2>1, <3>1, <4>1 DEF RoundPlaced, Keeps, UnderSync
    <3>5. StagedPlaced(e)'
      BY <1>1, <1>2, <2>1, <3>1 DEF StagedPlaced, Keeps, SameLane
    <3>6. QueuedPlaced(e)'
      BY ZenonT(40), <1>1, <1>2, <2>1, <2>2, <3>1, QueuedStays DEF SameLane
    <3> QED
      BY ZenonT(40), <3>3, <3>4, <3>5, <3>6
  <2> QED
    BY ZenonT(40), <1>2, <2>1, <2>2, <2>3, <2>4, <2>5, WriterPlaces
<1> QED
  BY Zenon, <1>4, <1>6, <1>7 DEF StepPlaces

\* The disk ends the round in flight: what it synced is kept.
LEMMA DiskKeeps ==
    ASSUME TypeOK, TypeOK', PlacesInv, UNCHANGED execVars, \A e \in Executors : Keeps(e),
           DiskSyncs
    PROVE  StepPlaces'
<1>0. /\ FilesOrdered /\ RoundSound /\ inflight \in InFlight /\ written \subseteq Triple
      /\ inflight.covers \subseteq Triple
  BY Zenon DEF PlacesInv, TypeOK, WriterTypeOK, SharedTypeOK, InFlight
<1>1. /\ inflight.result = "running" /\ ~segment.failed
      /\ inflight'.frozen = inflight.frozen /\ inflight'.covers = inflight.covers
      /\ inflight'.result \in {"ok", "err"}
      /\ UNCHANGED <<lanes, segment, staged, closed, inbox, progress, written, images>>
  <2>1. ~segment.failed
    BY <1>0 DEF DiskSyncs, RoundSound, NoSync
  <2> QED
    BY Zenon, <1>0, <2>1 DEF DiskSyncs, InFlight
<1>2. \A t \in Triple : Kept(t[2], t[3]) => Kept(t[2], t[3])'
  BY Zenon, TriplesKept
<1>3. FilesOrdered'
  BY Zenon, <1>0, <1>1 DEF FilesOrdered
<1>4. RoundSound'
  <2>1. \A t \in inflight'.covers : t \in written' \/ Kept(t[2], t[3])'
    BY Zenon, <1>0, <1>1, <1>2 DEF RoundSound
  <2>2. CASE inflight'.result = "ok"
    <3>1. SyncSucceeds(inflight.covers)
      BY Zenon, <1>0, <2>2 DEF DiskSyncs, InFlight
    <3>2. \A t \in inflight.covers : Kept(t[2], t[3])'
      <4> SUFFICES ASSUME NEW t \in inflight.covers PROVE Kept(t[2], t[3])'
        BY Zenon
      <4>1. CASE t \in written
        <5>1. t \in synced'
          BY Zenon, <1>0, <1>1, <3>1, <4>1 DEF SyncSucceeds, RoundSound
        <5> QED
          BY Zenon, <5>1 DEF Kept, OnDisk
      <4>2. CASE t \notin written
        BY Zenon, <1>0, <1>2, <4>2 DEF RoundSound
      <4> QED
        BY Zenon, <4>1, <4>2
    <3>3. dropped' = dropped
      BY Zenon, <3>1 DEF SyncSucceeds
    <3> QED
      BY ZenonT(40), <1>0, <1>1, <1>2, <2>1, <2>2, <3>2, <3>3 DEF RoundSound
  <2>3. CASE inflight'.result = "err"
    BY Zenon, <1>1, <2>1, <2>3 DEF RoundSound
  <2> QED
    BY Zenon, <1>1, <2>2, <2>3
<1>5. ASSUME NEW e \in Executors PROVE ExecPlaces(e)'
  <2>1. Takes /\ Says(e) /\ SameLane(e)
    BY Zenon, <1>1 DEF Takes, Says, SameLane
  <2> QED
    BY Zenon, <1>1, <2>1, QuietPlaces
<1> QED
  BY Zenon, <1>3, <1>4, <1>5 DEF StepPlaces

\* A sync of the open segment, with no failure to be heard, keeps all it holds.
LEMMA SyncKeeps ==
    ASSUME TypeOK, TypeOK', PlacesInv, \A e \in Executors : Keeps(e), UnsyncedBytes,
           SyncSucceeds(InRotation(written, segment.rotation)),
           segment' = [segment EXCEPT !.dirty = FALSE], UNCHANGED <<inflight, written, closed>>,
           \A e \in Executors : SameLane(e)
    PROVE  /\ FilesOrdered' /\ RoundSound'
           /\ segment'.failed = segment.failed /\ segment'.rotation = segment.rotation
           /\ inflight.result # "err" =>
                 \A e \in Executors : \A i \in Nat : InSegment(e, i) => Kept(e, i)'
<1>0. /\ FilesOrdered /\ RoundSound /\ written \subseteq Triple /\ segment \in Segment
      /\ inflight.covers \subseteq Triple
  BY Zenon DEF PlacesInv, TypeOK, WriterTypeOK, SharedTypeOK, InFlight
<1>1. /\ segment'.rotation = segment.rotation /\ segment'.attempted = segment.attempted
      /\ segment'.failed = segment.failed /\ ~segment.failed
  BY Zenon, <1>0 DEF Segment, UnsyncedBytes
<1>2. \A t \in Triple : Kept(t[2], t[3]) => Kept(t[2], t[3])'
  BY Zenon, TriplesKept
<1>3. ASSUME inflight.result # "err", NEW t \in written, t[1] = segment.rotation
      PROVE  Kept(t[2], t[3])'
  <2>1. t \in synced'
    BY ZenonT(40), <1>0, <1>1, <1>3 DEF SyncSucceeds, InRotation, RoundSound
  <2> QED
    BY Zenon, <2>1 DEF Kept, OnDisk
<1>4. FilesOrdered'
  BY Zenon, <1>0, <1>1 DEF FilesOrdered, SameLane, Triple
<1>5. RoundSound'
  BY ZenonT(40), <1>0, <1>1, <1>2, <1>3 DEF RoundSound, SyncSucceeds
<1>6. ASSUME inflight.result # "err", NEW e \in Executors, NEW i \in Nat, InSegment(e, i)
      PROVE  Kept(e, i)'
  <2>1. <<segment.rotation, e, i>> \in written
    BY Zenon, <1>6 DEF InSegment
  <2> QED
    BY ZenonT(40), <1>3, <1>6, <2>1
<1> QED
  BY Zenon, <1>1, <1>4, <1>5, <1>6

\* The old segment is synced before a rotation.
LEMMA RotateSyncKeeps ==
    ASSUME TypeOK, TypeOK', PlacesInv, UNCHANGED execVars, \A e \in Executors : Keeps(e),
           UnsyncedBytes, SyncSucceeds(InRotation(written, segment.rotation)),
           segment' = [segment EXCEPT !.dirty = FALSE],
           UNCHANGED <<lanes, staged, inflight, progress, closed, inbox, written, images>>
    PROVE  StepPlaces'
<1>1. \A e \in Executors : SameLane(e) /\ Says(e) /\ Takes
  BY Zenon DEF SameLane, Says, Takes
<1>2. /\ FilesOrdered' /\ RoundSound'
      /\ segment'.failed = segment.failed /\ segment'.rotation = segment.rotation
  BY Zenon, <1>1, SyncKeeps
<1>3. ASSUME NEW e \in Executors PROVE ExecPlaces(e)'
  BY ZenonT(40), <1>1, <1>2, QuietPlaces
<1> QED
  BY Zenon, <1>2, <1>3 DEF StepPlaces

\* The last sync: nothing is in flight, so all that was written is kept.
LEMMA LastSyncKeeps ==
    ASSUME TypeOK, TypeOK', PlacesInv, UNCHANGED execVars, \A e \in Executors : Keeps(e),
           inflight.result = "none",
           UnsyncedBytes, SyncSucceeds(InRotation(written, segment.rotation)),
           segment' = [segment EXCEPT !.dirty = FALSE], ReportDurable(LaneWritten),
           UNCHANGED <<staged, inflight, closed, inbox, written, images>>
    PROVE  StepPlaces'
<1>1. PICK frozen \in Frozen : frozen = LaneWritten
  <2>1. \A e \in Executors : lanes[e].written \in Nat
    BY Zenon DEF TypeOK, WriterTypeOK, Lane
  <2> QED
    BY Zenon, <2>1 DEF LaneWritten, Frozen
<1>2. ReportDurable(frozen) /\ inflight = NoSync
  BY Zenon, <1>1 DEF PlacesInv, RoundSound
<1>3. \A e \in Executors : SameLane(e) /\ lanes'[e].stopped = lanes[e].stopped
  <2> SUFFICES ASSUME NEW e \in Executors
               PROVE  SameLane(e) /\ lanes'[e].stopped = lanes[e].stopped
    BY Zenon
  <2>1. lanes[e] \in Lane
    BY Zenon DEF TypeOK, WriterTypeOK
  <2>2. \/ lanes'[e] = lanes[e]
        \/ lanes'[e] = [lanes[e] EXCEPT !.durable = frozen[e], !.reported = lanes[e].bytes]
    BY Zenon, <1>2 DEF ReportDurable
  <2>3. LET k == [lanes[e] EXCEPT !.durable = frozen[e], !.reported = lanes[e].bytes] IN
        /\ k.written = lanes[e].written /\ k.received = lanes[e].received
        /\ k.pending = lanes[e].pending /\ k.stopped = lanes[e].stopped
    BY <2>1, LaneOrder
  <2> QED
    BY Zenon, <2>2, <2>3 DEF SameLane
<1>4. /\ FilesOrdered' /\ RoundSound'
      /\ segment'.failed = segment.failed /\ segment'.rotation = segment.rotation
      /\ \A e \in Executors : \A i \in Nat : InSegment(e, i) => Kept(e, i)'
  BY Zenon, <1>3, SyncKeeps
<1>5. ASSUME NEW e \in Executors PROVE ExecPlaces(e)'
  <2>1. LaneBehind(e) /\ Placed(e) /\ Keeps(e) /\ frozen[e] = lanes[e].written
        /\ lanes[e].written \in Nat /\ lanes[e].received \in Nat /\ sync[e].batch \in Nat
    BY ZenonT(40), <1>1 DEF PlacesInv, ExecPlaces, LaneWritten, TypeOK, WriterTypeOK, Lane, ExecTypeOK, SyncState
  <2>2. frozen[e] <= sync[e].batch
    BY <2>1 DEF LaneBehind
  <2>3. Told(e) \/ KeptTo(e, frozen[e])'
    <3> SUFFICES ASSUME ~Told(e), NEW i \in 1 .. frozen[e] PROVE Kept(e, i)'
      BY Zenon DEF KeptTo
    <3>1. Kept(e, i) \/ InSegment(e, i)
      BY Zenon, <1>2, <2>1 DEF Placed, WrittenPlaced, UnderSync, NoSync
    <3> QED
      BY <1>4, <2>1, <3>1 DEF Keeps
  <2>4. Says(e) /\ Takes
    BY Zenon, <1>2, <2>2, <2>3, ReportSays DEF Takes
  <2> QED
    BY ZenonT(40), <1>3, <1>4, <2>1, <2>4, QuietPlaces
<1> QED
  BY Zenon, <1>4, <1>5 DEF StepPlaces

\* The writer ends: nothing is left to take, to write or to sync.
LEMMA EndKeeps ==
    ASSUME TypeOK, TypeOK', PlacesInv, UNCHANGED execVars, \A e \in Executors : Keeps(e),
           WriterEnds
    PROVE  StepPlaces'
<1>0. /\ FilesOrdered /\ RoundSound /\ written \subseteq Triple /\ inflight \in InFlight
      /\ inflight.covers \subseteq Triple /\ staged = <<>>
      /\ \A e \in Executors : lanes[e].stopped
  BY Zenon DEF PlacesInv, BetweenDrains, WriterEnds, TypeOK, WriterTypeOK, SharedTypeOK, InFlight
<1>1. /\ inflight = NoSync /\ (segment.failed \/ ~segment.dirty)
      /\ UNCHANGED <<lanes, segment, staged, inflight, closed, inbox, written, dropped, images>>
      /\ \A e \in Executors : progress'[e] = Append(progress[e], Stopped)
  BY Zenon, <1>0 DEF WriterEnds, UnsyncedBytes, RoundSound
<1>2. \A t \in Triple : Kept(t[2], t[3]) => Kept(t[2], t[3])'
  BY Zenon, TriplesKept
<1>3. FilesOrdered' /\ RoundSound'
  BY Zenon, <1>0, <1>1, <1>2 DEF FilesOrdered, RoundSound
<1>4. ASSUME NEW e \in Executors PROVE ExecPlaces(e)'
  <2>1. /\ LaneBehind(e) /\ Placed(e) /\ Keeps(e) /\ StopLast(e)
        /\ sync[e].batch \in Nat /\ lanes[e].written \in Nat /\ lanes[e].received \in Nat
    BY Zenon DEF PlacesInv, ExecPlaces, TypeOK, ExecTypeOK, SyncState, WriterTypeOK, Lane
  <2>2. Told(e) \/ KeptTo(e, sync[e].batch)'
    <3> SUFFICES ASSUME ~Told(e), NEW i \in 1 .. sync[e].batch PROVE Kept(e, i)
      BY <2>1 DEF KeptTo, Keeps, execVars
    <3>1. WrittenPlaced(e) /\ StagedPlaced(e) /\ QueuedPlaced(e)
      BY Zenon, <2>1 DEF Placed
    <3>2. CASE i <= lanes[e].written
      <4>1. Kept(e, i) \/ InSegment(e, i)
        BY <1>1, <2>1, <3>1, <3>2 DEF WrittenPlaced, UnderSync, NoSync
      <4>2. CASE InSegment(e, i)
        <5>1. <<segment.rotation, e, i>> \in written /\ ~segment.failed
          BY ZenonT(40), <4>2 DEF InSegment
        <5> QED
          BY ZenonT(40), <1>0, <1>1, <5>1 DEF RoundSound, NoSync
      <4> QED
        BY ZenonT(40), <4>1, <4>2
    <3>3. CASE lanes[e].written < i /\ i <= lanes[e].received
      BY SMTT(30), <1>0, <2>1, <3>1, <3>3 DEF StagedPlaced, Kept
    <3>4. CASE lanes[e].received < i
      <4>1. \A k \in DOMAIN inbox : inbox[k] # Submit(e, i)
        BY <1>0, <2>1 DEF StopLast, SubmitOf, Submit
      <4> QED
        BY SMTT(30), <2>1, <3>1, <3>4, <4>1 DEF QueuedPlaced, Kept
    <3> QED
      BY <2>1, <3>2, <3>3, <3>4
  <2>3. Stopped \in Progress /\ Stopped.type # "Durable" /\ phase[e] \in {"stopping", "ended"}
    BY Zenon, <1>0, <2>1 DEF StopLast, Stopped, Progress
  <2>4. Says(e) /\ Takes /\ SameLane(e)
    BY ZenonT(40), <1>1, <2>2, <2>3 DEF Says, Takes, SameLane
  <2> QED
    BY ZenonT(40), <1>1, <2>1, <2>4, QuietPlaces
<1> QED
  BY Zenon, <1>3, <1>4 DEF StepPlaces

\* A step that touches none of the log.
LEMMA IdleKeeps ==
    ASSUME TypeOK, TypeOK', PlacesInv, UNCHANGED execVars, \A e \in Executors : Keeps(e),
           UNCHANGED <<segment, staged, inflight, closed, progress, written, dropped, images>>,
           Takes, inbox' = inbox \/ Head(inbox).type # "Submit",
           \A e \in Executors :
              /\ SameLane(e)
              /\ lanes'[e].stopped =>
                    \/ lanes[e].stopped
                    \/ inbox # <<>> /\ inbox' = Tail(inbox) /\ StopOf(Head(inbox), e)
    PROVE  StepPlaces'
<1>0. FilesOrdered /\ RoundSound /\ written \subseteq Triple /\ inflight.covers \subseteq Triple
  BY Zenon DEF PlacesInv, TypeOK, WriterTypeOK, SharedTypeOK, InFlight
<1>1. \A t \in Triple : Kept(t[2], t[3]) => Kept(t[2], t[3])'
  BY Zenon, TriplesKept
<1>2. FilesOrdered' /\ RoundSound'
  BY ZenonT(40), <1>0, <1>1 DEF FilesOrdered, RoundSound, SameLane, Triple
<1>3. ASSUME NEW e \in Executors PROVE ExecPlaces(e)'
  <2>1. Says(e) /\ (inbox' = inbox \/ ~SubmitOf(Head(inbox), e))
    BY Zenon DEF Says, SubmitOf
  <2> QED
    BY Zenon, <2>1, QuietPlaces
<1> QED
  BY ZenonT(40), <1>2, <1>3 DEF StepPlaces

\* What compaction leaves of the closed rotations was there.
LEMMA SuffixFacts ==
    ASSUME closed \in Seq(Closed), NEW n \in 0 .. Len(closed),
           closed' = SubSeq(closed, n + 1, Len(closed))
    PROVE  \A k \in DOMAIN closed' : \E j \in DOMAIN closed : closed'[k] = closed[j]
<1>1. /\ Len(closed) \in Nat /\ DOMAIN closed = 1 .. Len(closed)
      /\ DOMAIN closed' = 1 .. Len(closed) - n
      /\ \A k \in 1 .. Len(closed) - n : closed'[k] = closed[n + k]
  OBVIOUS
<1>2. \A k \in 1 .. Len(closed) - n : n + k \in 1 .. Len(closed)
  BY <1>1
<1> QED
  BY Zenon, <1>1, <1>2

\* Covered: only closed rotations go, and durable images hold what was in them.
LEMMA CoveredKeeps ==
    ASSUME TypeOK, TypeOK', PlacesInv, ImagesInv, ImagesInv', UNCHANGED execVars,
           \A e \in Executors : Keeps(e),
           inbox # <<>>, inbox' = Tail(inbox), TakeCovered(Head(inbox)),
           UNCHANGED <<segment, inflight, progress>>
    PROVE  StepPlaces'
<1>0. /\ FilesOrdered /\ RoundSound /\ inflight.covers \subseteq Triple
      /\ lanes \in [Executors -> Lane] /\ written \subseteq Triple
      /\ closed \in Seq(Closed) /\ segment.rotation \in Nat
      /\ images \in [Executors -> SUBSET Image]
      /\ \A e \in Executors : \A im \in SureImages(e)' : im.through \in Nat
  BY DEF PlacesInv, TypeOK, WriterTypeOK, SharedTypeOK, InFlight, Segment, SureImages, Image
<1>1. PICK m \in ToWriter : m = Head(inbox) /\ m.type = "Covered" /\ TakeCovered(m)
  <2>1. Head(inbox) \in ToWriter
    BY DEF TypeOK, SharedTypeOK
  <2> QED
    BY Zenon, <2>1 DEF TakeCovered
<1>2. m.executor \in Executors /\ m.through \in Nat /\ m.cycle \in Nat
  BY <1>1 DEF ToWriter, SyncNow
<1> DEFINE covered == [f \in Executors |->
               IF f = m.executor THEN Larger(lanes[m.executor].covered, m.through)
               ELSE lanes[f].covered]
<1>3. \A f \in Executors :
        /\ lanes'[f].covered = covered[f] /\ covered[f] \in Nat
        /\ SameLane(f) /\ lanes'[f].stopped = lanes[f].stopped
  <2>1. \A f \in Executors : lanes[f] \in Lane /\ lanes[f].covered \in Nat
    BY Zenon, <1>0 DEF Lane
  <2>2. \A f \in Executors :
          \/ lanes'[f] = lanes[f] /\ covered[f] = lanes[f].covered
          \/ lanes'[f] = [lanes[f] EXCEPT !.covered = covered[f], !.imaged = TRUE,
                                          !.nudged = FALSE]
    BY ZenonT(40), <1>0, <1>1, <1>2 DEF TakeCovered
  <2>3. \A f \in Executors : covered[f] \in Nat
    BY Zenon, <1>2, <2>1, LargerType
  <2> HIDE DEF covered
  <2>4. ASSUME NEW f \in Executors
        PROVE  LET k == [lanes[f] EXCEPT !.covered = covered[f], !.imaged = TRUE, !.nudged = FALSE]
               IN  /\ k.written = lanes[f].written /\ k.received = lanes[f].received
                   /\ k.pending = lanes[f].pending /\ k.stopped = lanes[f].stopped
                   /\ k.covered = covered[f]
    BY ZenonT(40), <2>1 DEF Lane
  <2> QED
    BY ZenonT(40), <2>2, <2>3, <2>4 DEF SameLane
<1>4. PICK n \in 0 .. Len(closed) :
        /\ \A j \in 1 .. n : CoveredByAll(closed[j], covered)
        /\ closed' = SubSeq(closed, n + 1, Len(closed))
        /\ written' = {t \in written : t[1] \notin {closed[j].rotation : j \in 1 .. n}}
        /\ dropped' = {t \in dropped : t[1] \notin {closed[j].rotation : j \in 1 .. n}}
  BY Zenon, <1>1 DEF TakeCovered, Compact
<1> HIDE DEF covered
<1>5. staged' = staged /\ \A e \in Executors : images'[e] \subseteq images[e]
  <2>1. \A e \in Executors : images'[e] \subseteq images[e]
    <3>1. PICK kept \in SUBSET {im \in images[m.executor] : im.cycle < m.cycle} :
            images' = [images EXCEPT ![m.executor] =
                         (@ \ {im \in images[m.executor] : im.cycle < m.cycle}) \cup kept]
      BY ZenonT(40), <1>1 DEF TakeCovered, Compact
    <3> QED
      BY ZenonT(40), <1>0, <3>1
  <2> QED
    BY ZenonT(40), <1>1, <2>1 DEF TakeCovered
<1>6. ASSUME NEW t \in written \ written'
      PROVE  t[1] # segment.rotation /\ Kept(t[2], t[3])'
  <2>1. PICK j \in 1 .. n : t[1] = closed[j].rotation
    BY ZenonT(40), <1>4, <1>6
  <2>2. j \in DOMAIN closed /\ closed[j] \in Closed /\ t[2] \in Executors /\ t[3] \in Nat
    BY <1>0, <1>6, <2>1 DEF Triple
  <2>3. /\ t[3] <= closed[j].last[t[2]] /\ closed[j].last[t[2]] \in Nat
        /\ closed[j].rotation < segment.rotation /\ closed[j].rotation \in Nat
    BY ZenonT(40), <1>0, <1>6, <2>1, <2>2 DEF FilesOrdered, Closed, Frozen
  <2>4. closed[j].last[t[2]] <= lanes'[t[2]].covered /\ lanes'[t[2]].covered \in Nat
    BY ZenonT(40), <1>3, <1>4, <2>1, <2>2 DEF CoveredByAll
  <2>5. t[3] > 0 => Imaged(t[2], t[3])'
    <3> SUFFICES ASSUME t[3] > 0 PROVE Imaged(t[2], t[3])'
      BY Zenon
    <3>1. PICK im \in SureImages(t[2])' : im.through >= lanes'[t[2]].covered
      BY SMTT(30), <2>2, <2>3, <2>4 DEF ImagesInv, CoversBacked
    <3> QED
      BY SMTT(30), <1>0, <2>2, <2>3, <2>4, <3>1 DEF Imaged
  <2> QED
    BY <1>0, <2>1, <2>2, <2>3, <2>5 DEF Kept
<1>7. \A k \in DOMAIN closed' : \E j \in DOMAIN closed : closed'[k] = closed[j]
  <2>1. closed \in Seq(Closed)
    BY Zenon, <1>0
  <2>2. n \in 0 .. Len(closed) /\ closed' = SubSeq(closed, n + 1, Len(closed))
    BY Zenon, <1>4
  <2> QED
    BY Zenon, <2>1, <2>2, SuffixFacts
<1>8. \A t \in Triple : Kept(t[2], t[3]) => Kept(t[2], t[3])'
  BY Zenon, TriplesKept
<1>9. written' \subseteq written /\ dropped' \subseteq dropped
  BY ZenonT(40), <1>4
<1>10. FilesOrdered'
  BY <1>0, <1>3, <1>7, <1>9 DEF FilesOrdered, SameLane, Triple
<1>11. RoundSound'
  BY ZenonT(40), <1>0, <1>6, <1>8, <1>9 DEF RoundSound
<1>12. ASSUME NEW e \in Executors PROVE ExecPlaces(e)'
  <2>1. Takes /\ Says(e) /\ ~SubmitOf(Head(inbox), e)
    BY Zenon, <1>1 DEF Takes, Says, SubmitOf
  <2> QED
    BY ZenonT(40), <1>3, <1>5, <1>6, <2>1, QuietPlaces
<1> QED
  BY ZenonT(40), <1>10, <1>11, <1>12 DEF StepPlaces

-----------------------------------------------------------------------------
(* All of them. *)

\* A step of the writer or the disk leaves every batch somewhere.
LEMMA WriterStepPlaces ==
    ASSUME TypeOK, TypeOK', ImagesInv, ImagesInv', WritesClean, PlacesInv, WriterNext,
           UNCHANGED execVars
    PROVE  StepPlaces'
<1>0. /\ \A e \in Executors : Keeps(e)
      /\ segment \in Segment /\ segment.attempted \in Nat /\ inbox \in Seq(ToWriter)
      /\ lanes \in [Executors -> Lane]
  <2>1. segment \in Segment /\ inbox \in Seq(ToWriter) /\ lanes \in [Executors -> Lane]
    BY Zenon DEF TypeOK, WriterTypeOK, SharedTypeOK
  <2> QED
    BY Zenon, <2>1, WriterKeeps DEF PlacesInv, Segment
<1>1. ASSUME Fail(segment), UNCHANGED <<inbox, written, closed, images>> PROVE StepPlaces'
  BY <1>0, <1>1, FailKeeps
<1>2. CASE SyncDone \/ LastSettles
  <2>1. /\ Settle
        /\ UNCHANGED <<closed, inbox, written, dropped, images>>
    BY Zenon, <1>2 DEF SyncDone, LastSettles
  <2>2. CASE inflight.result = "err" /\ Fail(segment)
    BY Zenon, <1>1, <2>1, <2>2
  <2>3. CASE /\ inflight.result = "ok" /\ ReportDurable(RoundCovers)
             /\ inflight' = NoSync /\ UNCHANGED <<segment, staged>>
    BY ZenonT(40), <1>0, <2>1, <2>3, SettleKeeps
  <2> QED
    BY Zenon, <2>1, <2>2, <2>3 DEF Settle
<1>3. CASE Take
  <2>1. inbox # <<>> /\ inbox' = Tail(inbox) /\ UNCHANGED <<segment, inflight, progress>> /\ Takes
    BY Zenon, <1>3 DEF Take, CanTake, Takes
  <2>2. CASE TakeSubmit(Head(inbox))
    BY ZenonT(40), <1>0, <2>1, <2>2, SubmitKeeps
  <2>3. CASE TakeCovered(Head(inbox))
    BY ZenonT(40), <1>0, <2>1, <2>3, CoveredKeeps
  <2>4. CASE TakeSyncNow(Head(inbox))
    <3>1. /\ UNCHANGED <<segment, staged, inflight, closed, progress, written, dropped, images>>
          /\ Head(inbox).type # "Submit" /\ lanes' = lanes
      BY Zenon, <2>1, <2>4 DEF TakeSyncNow
    <3> QED
      BY ZenonT(40), <1>0, <2>1, <3>1, IdleKeeps DEF SameLane
  <2>5. CASE TakeStop(Head(inbox))
    <3>1. PICK m \in ToWriter : m = Head(inbox) /\ m.type = "Stop"
      <4>1. Head(inbox) \in ToWriter
        BY <1>0, <2>1
      <4> QED
        BY ZenonT(40), <2>5, <4>1 DEF TakeStop
    <3>2. /\ UNCHANGED <<segment, staged, inflight, closed, progress, written, dropped, images>>
          /\ Head(inbox).type # "Submit"
          /\ lanes' = [lanes EXCEPT ![m.executor].stopped = TRUE]
      BY Zenon, <2>1, <2>5, <3>1 DEF TakeStop
    <3>3. ASSUME NEW e \in Executors
          PROVE  /\ SameLane(e)
                 /\ lanes'[e].stopped => lanes[e].stopped \/ StopOf(Head(inbox), e)
      <4>1. CASE e # m.executor
        <5>1. lanes'[e] = lanes[e]
          BY Zenon, <1>0, <3>2, <4>1
        <5> QED
          BY Zenon, <5>1 DEF SameLane
      <4>2. CASE e = m.executor
        <5>1. lanes'[e] = [lanes[e] EXCEPT !.stopped = TRUE] /\ lanes[e] \in Lane
          BY Zenon, <1>0, <3>2, <4>2
        <5>2. StopOf(Head(inbox), e)
          BY Zenon, <3>1, <4>2 DEF StopOf
        <5> QED
          BY Zenon, <5>1, <5>2 DEF SameLane, Lane
      <4> QED
        BY Zenon, <4>1, <4>2
    <3> QED
      BY ZenonT(40), <1>0, <2>1, <3>2, <3>3, IdleKeeps
  <2> QED
    BY ZenonT(40), <1>3, <2>2, <2>3, <2>4, <2>5 DEF Take
<1>4. CASE DrainEnds \/ (MaybeIssue /\ SkipIssue)
  <2>1. UNCHANGED <<lanes, segment, staged, inflight, closed, inbox, progress, written,
                    dropped, images>>
    BY Zenon, <1>4 DEF DrainEnds, MaybeIssue, SkipIssue, sharedVars
  <2>2. Takes /\ \A e \in Executors : SameLane(e)
    BY Zenon, <2>1 DEF Takes, SameLane
  <2> QED
    BY Zenon, <1>0, <2>1, <2>2, IdleKeeps
<1>5. CASE (MaybeIssue \/ WriterTick) /\ Issue
  <2>1. Issue /\ UNCHANGED <<closed, inbox, written, dropped, images>>
    BY Zenon, <1>5 DEF MaybeIssue, WriterTick
  <2> QED
    BY Zenon, <1>0, <2>1, IssueKeeps
<1>6. CASE ((MaybeIssue \/ WriterTick) /\ MarkFails) \/ WriteFails
  <2>1. Fail(segment) /\ UNCHANGED <<inbox, written, closed, images>>
    BY Zenon, <1>6 DEF MaybeIssue, WriterTick, MarkFails, WriteFails
  <2> QED
    BY Zenon, <1>1, <2>1
<1>7. CASE RotateFails
  <2>1. PICK seg \in Segment : /\ seg = [segment EXCEPT !.attempted = segment.attempted + 1]
                               /\ seg.rotation = segment.rotation
                               /\ seg.failed = segment.failed
                               /\ segment.attempted <= seg.attempted
    <3>1. segment.attempted \in Nat /\ segment.attempted + 1 \in Nat
          /\ segment.attempted <= segment.attempted + 1
      BY <1>0 DEF Segment
    <3>2. LET s == [segment EXCEPT !.attempted = segment.attempted + 1]
          IN  /\ s \in Segment /\ s.rotation = segment.rotation /\ s.failed = segment.failed
              /\ s.attempted = segment.attempted + 1
      BY ZenonT(40), <1>0, <3>1 DEF Segment
    <3> QED
      BY Zenon, <3>1, <3>2
  <2>2. Fail(seg) /\ UNCHANGED <<inbox, written, closed, images>>
    BY Zenon, <1>7, <2>1 DEF RotateFails
  <2> QED
    BY Zenon, <1>0, <2>1, <2>2, FailKeeps
<1>8. CASE RotateSyncs
  <2>1. UnsyncedBytes /\ UNCHANGED <<closed, inbox, written, images>>
    BY Zenon, <1>8 DEF RotateSyncs
  <2>2. CASE Fail(segment)
    BY ZenonT(40), <1>1, <2>1, <2>2
  <2>3. CASE /\ SyncSucceeds(InRotation(written, segment.rotation))
             /\ segment' = [segment EXCEPT !.dirty = FALSE]
             /\ UNCHANGED <<lanes, staged, inflight, progress>>
    BY ZenonT(40), <1>0, <2>1, <2>3, RotateSyncKeeps
  <2> QED
    BY ZenonT(40), <1>8, <2>2, <2>3 DEF RotateSyncs
<1>9. CASE LastSyncs
  <2>1. UnsyncedBytes /\ inflight.result = "none" /\ UNCHANGED <<closed, inbox, written, images>>
    BY Zenon, <1>9 DEF LastSyncs
  <2>2. CASE Fail(segment)
    BY ZenonT(40), <1>1, <2>1, <2>2
  <2>3. CASE /\ SyncSucceeds(InRotation(written, segment.rotation))
             /\ segment' = [segment EXCEPT !.dirty = FALSE]
             /\ ReportDurable(LaneWritten)
             /\ UNCHANGED <<staged, inflight>>
    BY ZenonT(40), <1>0, <2>1, <2>3, LastSyncKeeps
  <2> QED
    BY ZenonT(40), <1>9, <2>2, <2>3 DEF LastSyncs
<1>10. CASE WriteStaged \/ RotateSwaps \/ WriterEnds \/ DiskSyncs
  BY ZenonT(40), <1>0, <1>10, WriteKeeps, SwapKeeps, EndKeeps, DiskKeeps
<1>11. (MaybeIssue => Issue \/ MarkFails \/ SkipIssue) /\ (WriterTick => Issue \/ MarkFails)
  BY Zenon DEF MaybeIssue, WriterTick
<1> QED
  BY ZenonT(40), <1>2, <1>3, <1>4, <1>5, <1>6, <1>7, <1>8, <1>9, <1>10, <1>11 DEF WriterNext, WriterStep

\* What a failure or a report leaves of who stopped.
LEMMA StoppedStays ==
    ASSUME TypeOK
    PROVE  /\ Fail(segment) => /\ \A e \in Executors : lanes'[e].stopped = lanes[e].stopped
                               /\ staged' = <<>>
           /\ ReportDurable(RoundCovers) \/ ReportDurable(LaneWritten) =>
                \A e \in Executors : lanes'[e].stopped = lanes[e].stopped
<1>0. \A e \in Executors : lanes[e] \in Lane
  BY Zenon DEF TypeOK, WriterTypeOK
<1>1. ASSUME Fail(segment)
      PROVE  staged' = <<>> /\ \A e \in Executors : lanes'[e].stopped = lanes[e].stopped
  <2>1. staged' = <<>> /\ \A e \in Executors : lanes'[e] = LaneFailed(lanes[e])
    BY Zenon, <1>1 DEF Fail, FailTelling
  <2> QED
    BY ZenonT(40), <1>0, <2>1, LaneOrder
<1>2. ASSUME ReportDurable(RoundCovers) \/ ReportDurable(LaneWritten), NEW e \in Executors
      PROVE  lanes'[e].stopped = lanes[e].stopped
  <2>1. PICK frozen : ReportDurable(frozen)
    BY Zenon, <1>2
  <2>2. \/ lanes'[e] = lanes[e]
        \/ lanes'[e] = [lanes[e] EXCEPT !.durable = frozen[e], !.reported = lanes[e].bytes]
    BY Zenon, <2>1 DEF ReportDurable
  <2>3. [lanes[e] EXCEPT !.durable = frozen[e], !.reported = lanes[e].bytes].stopped
          = lanes[e].stopped
    BY <1>0, LaneOrder
  <2> QED
    BY Zenon, <2>2, <2>3
<1> QED
  BY ZenonT(40), <1>1, <1>2

\* Nothing is staged outside a drain, and the last round follows every Stop.
LEMMA DrainsNext ==
    ASSUME TypeOK, BetweenDrains, WriterNext
    PROVE  BetweenDrains'
<1>1. CASE Take
  BY Zenon, <1>1 DEF Take, BetweenDrains
<1>2. CASE DrainEnds \/ RotateSwaps \/ WriterEnds \/ DiskSyncs
  <2>1. CASE DrainEnds
    BY Zenon, <2>1 DEF DrainEnds, BetweenDrains
  <2>2. CASE RotateSwaps
    BY Zenon, <2>2 DEF RotateSwaps, BetweenDrains
  <2>3. CASE WriterEnds \/ DiskSyncs
    BY Zenon, <2>3 DEF WriterEnds, DiskSyncs, BetweenDrains
  <2> QED
    BY Zenon, <1>2, <2>1, <2>2, <2>3
<1>3. CASE SyncDone \/ LastSettles
  <2>1. pc \in {"select", "last"} /\ staged = <<>>
    BY Zenon, <1>3 DEF SyncDone, LastSettles, BetweenDrains
  <2>2. \/ Fail(segment)
        \/ ReportDurable(RoundCovers) /\ staged' = staged
    BY Zenon, <1>3 DEF SyncDone, LastSettles, Settle
  <2>3. staged' = <<>> /\ \A e \in Executors : lanes'[e].stopped = lanes[e].stopped
    BY Zenon, <2>1, <2>2, StoppedStays
  <2>4. pc' \in {"last", "ended"} => pc = "last"
    BY Zenon, <1>3 DEF SyncDone, LastSettles
  <2> QED
    BY Zenon, <2>3, <2>4 DEF BetweenDrains
<1>4. CASE WriteStaged \/ WriteFails \/ RotateFails
  <2>1. pc' = "issue" /\ staged' = <<>>
    BY Zenon, <1>4 DEF WriteStaged, WriteFails, RotateFails, Fail, FailTelling
  <2> QED
    BY Zenon, <2>1 DEF BetweenDrains
<1>5. CASE RotateSyncs
  BY Zenon, <1>5 DEF RotateSyncs, BetweenDrains, Fail, FailTelling
<1>6. CASE MaybeIssue \/ WriterTick
  <2>1. pc \in {"select", "issue"} /\ staged = <<>>
    BY Zenon, <1>6 DEF MaybeIssue, WriterTick, BetweenDrains
  <2>2. Fail(segment) \/ (lanes' = lanes /\ staged' = staged)
    BY Zenon, <1>6 DEF MaybeIssue, WriterTick, Issue, MarkFails, SkipIssue
  <2>3. staged' = <<>> /\ \A e \in Executors : lanes'[e].stopped = lanes[e].stopped
    BY ZenonT(40), <2>1, <2>2, StoppedStays
  <2>4. pc' \in {"last", "ended"} => \A e \in Executors : lanes[e].stopped
    BY Zenon, <1>6 DEF MaybeIssue, WriterTick, AllStopped
  <2> QED
    BY Zenon, <2>3, <2>4 DEF BetweenDrains
<1>7. CASE LastSyncs
  <2>1. pc' = "last" /\ staged = <<>> /\ \A e \in Executors : lanes[e].stopped
    BY Zenon, <1>7 DEF LastSyncs, BetweenDrains
  <2>2. Fail(segment) \/ (ReportDurable(LaneWritten) /\ staged' = staged)
    BY Zenon, <1>7 DEF LastSyncs
  <2>3. staged' = <<>> /\ \A e \in Executors : lanes'[e].stopped = lanes[e].stopped
    BY ZenonT(40), <2>1, <2>2, StoppedStays
  <2> QED
    BY ZenonT(40), <2>1, <2>3 DEF BetweenDrains
<1> QED
  BY Zenon, <1>1, <1>2, <1>3, <1>4, <1>5, <1>6, <1>7 DEF WriterNext, WriterStep

\* The writer's half: the invariant is kept by every step of the task and the disk.
LEMMA WriterKeepsPlaces ==
    ASSUME TypeOK, TypeOK', ImagesInv, ImagesInv', WritesClean, PlacesInv, WriterNext,
           UNCHANGED execVars
    PROVE  PlacesInv'
BY Zenon, WriterStepPlaces, DrainsNext DEF PlacesInv, StepPlaces

=============================================================================
