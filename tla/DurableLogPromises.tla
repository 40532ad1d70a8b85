------------------------- MODULE DurableLogPromises -------------------------
(***************************************************************************)
(* What an image promises, and what a failure may never do, proved of      *)
(* DurableLog for every set of executors, every policy and every bound:    *)
(* the writer takes nothing for covered that no durable image covers; a    *)
(* SAVE answered OK is in a durable image; no held reply is answered       *)
(* twice; no segment that failed is written again.                         *)
(***************************************************************************)
EXTENDS DurableLogImages

\* A tick reaches no other executor, whatever its cycle comes to.
LEMMA TickReach ==
    ASSUME TypeOK, NEW e \in Executors, NEW s \in SyncState, NEW sweep \in Seq(ToWriter),
           \A i \in DOMAIN sweep : sweep[i].executor = e,
           TickCycle(e, s, sweep) \/ TickIdle(e, s, sweep)
    PROVE  Apart(e) /\ \E new \in Seq(ToWriter) : SendsOwn(e, new)
<1>1. Apart(e)
  <2>1. /\ images' = images \/ \E x : images' = [images EXCEPT ![e] = x]
        /\ checkpoint' = checkpoint \/ \E x : checkpoint' = [checkpoint EXCEPT ![e] = x]
        /\ cycle' = cycle \/ \E x : cycle' = [cycle EXCEPT ![e] = x]
        /\ \E x : sync' = [sync EXCEPT ![e] = x]
        /\ \E x : saves' = [saves EXCEPT ![e] = x]
        /\ saved' = saved \/ \E x : saved' = [saved EXCEPT ![e] = x]
        /\ proven' = proven \/ \E x : proven' = [proven EXCEPT ![e] = x]
        /\ UNCHANGED <<phase, progress, granted>>
    <3>1. CASE TickCycle(e, s, sweep)
      BY ZenonT(40), <3>1 DEF TickCycle
    <3>2. CASE TickIdle(e, s, sweep)
      BY Zenon, <3>2 DEF TickIdle
    <3> QED
      BY Zenon, <3>1, <3>2
  <2> QED
    BY ZenonT(40), <2>1 DEF Apart, TypeOK, ExecTypeOK, SharedTypeOK
<1>2. PICK sent \in Seq(ToWriter) : SentByTick(e, sent) /\ inbox' = inbox \o sweep \o sent
  BY Zenon, TickTypes
<1>3. \A i \in DOMAIN sent : sent[i].type # "SyncNow" => sent[i].executor = e
  BY <1>2 DEF SentByTick, SyncNow, Covered
<1>4. /\ sweep \o sent \in Seq(ToWriter)
      /\ inbox' = inbox \o (sweep \o sent)
  BY <1>2 DEF TypeOK, SharedTypeOK
<1>5. ASSUME NEW i \in DOMAIN (sweep \o sent), (sweep \o sent)[i].type # "SyncNow"
      PROVE  (sweep \o sent)[i].executor = e
  <2>1. CASE i \in DOMAIN sweep
    BY <1>5, <2>1
  <2>2. CASE i \notin DOMAIN sweep
    <3>1. i - Len(sweep) \in DOMAIN sent /\ (sweep \o sent)[i] = sent[i - Len(sweep)]
      BY <2>2
    <3> QED
      BY Zenon, <1>3, <1>5, <3>1
  <2> QED
    BY Zenon, <2>1, <2>2
<1> QED
  BY Zenon, <1>1, <1>4, <1>5 DEF SendsOwn

\* Nor does any other arm of the executor's select.
LEMMA ExecReach ==
    ASSUME TypeOK, NEW e \in Executors, ExecMoves(e)
    PROVE  /\ lanes' = lanes
           /\ Apart(e)
           /\ \E new \in Seq(ToWriter) : SendsOwn(e, new)
<1>1. lanes' = lanes
  BY Zenon DEF ExecMoves, ServeMoves, HearMoves, TickMoves, SweepMoves, StopMoves, ExecFrame, writerVars
<1>2. ASSUME inbox' = inbox PROVE \E new \in Seq(ToWriter) : SendsOwn(e, new)
  <2>1. <<>> \in Seq(ToWriter) /\ inbox' = inbox \o <<>> /\ DOMAIN <<>> = {}
    BY <1>2 DEF TypeOK, SharedTypeOK
  <2> QED
    BY Zenon, <2>1 DEF SendsOwn
<1>3. ASSUME NEW m \in ToWriter, m.executor = e, inbox' = Append(inbox, m)
      PROVE  \E new \in Seq(ToWriter) : SendsOwn(e, new)
  <2>1. /\ <<m>> \in Seq(ToWriter)
        /\ inbox' = inbox \o <<m>>
        /\ \A i \in DOMAIN <<m>> : <<m>>[i] = m
    BY <1>3 DEF TypeOK, SharedTypeOK
  <2> QED
    BY Zenon, <1>3, <2>1 DEF SendsOwn
<1>4. /\ sync[e] \in SyncState /\ Submitted(sync[e]) \in SyncState
      /\ sync[e].batch + 1 \in Nat /\ Submitted(sync[e]).batch = sync[e].batch + 1
  BY ZenonT(40), SubmittedType DEF TypeOK, ExecTypeOK, SyncState
<1>5. /\ \A b \in Nat : Submit(e, b) \in ToWriter /\ Submit(e, b).executor = e
      /\ Stop(e) \in ToWriter /\ Stop(e).executor = e
  BY Zenon, MessageTypes DEF Submit, Stop
<1> USE DEF TypeOK, ExecTypeOK, SharedTypeOK
<1>6. CASE ServeMoves(e)
  <2>1. Apart(e)
    BY ZenonT(40), <1>6 DEF Apart, ServeMoves, Serve, ServeWrite, ServeExpired, Save, BgSave, Asked,
                AskForSnapshot
  <2>2. \/ inbox' = inbox
        \/ inbox' = Append(inbox, Submit(e, sync[e].batch + 1))
    BY Zenon, <1>4, <1>6 DEF ServeMoves, Serve, ServeWrite, ServeExpired, Save, BgSave, Asked
  <2> QED
    BY Zenon, <1>1, <1>2, <1>3, <1>4, <1>5, <2>1, <2>2
<1>7. CASE HearMoves(e)
  <2>1. Apart(e)
    BY ZenonT(40), <1>7 DEF Apart, HearMoves, HearWriter, Hear, HearWritten, HearDurable, Refuse,
                LetGo, HearNudge, HearStopped
  <2>2. inbox' = inbox
    BY Zenon, <1>7 DEF HearMoves, HearWriter, Hear, HearStopped
  <2> QED
    BY Zenon, <1>1, <1>2, <2>1, <2>2
<1>8. CASE TickMoves(e)
  <2>1. <<>> \in Seq(ToWriter) /\ DOMAIN <<>> = {}
    OBVIOUS
  <2>2. TickCycle(e, sync[e], <<>>) \/ TickIdle(e, sync[e], <<>>)
    BY ZenonT(40), <1>8 DEF TickMoves, Tick
  <2>3. \A i \in DOMAIN <<>> : <<>>[i].executor = e
    BY Zenon, <2>1
  <2> QED
    BY Zenon, <1>1, <1>4, <2>1, <2>2, <2>3, TickReach
<1>9. CASE SweepMoves(e)
  <2> DEFINE sweep == <<Submit(e, sync[e].batch + 1)>>
  <2>1. sweep \in Seq(ToWriter) /\ \A i \in DOMAIN sweep : sweep[i].executor = e
    BY <1>4, <1>5
  <2>2. TickCycle(e, Submitted(sync[e]), sweep) \/ TickIdle(e, Submitted(sync[e]), sweep)
    BY Zenon, <1>4, <1>9 DEF SweepMoves, SweepTick
  <2> HIDE DEF sweep
  <2> QED
    BY ZenonT(40), <1>1, <1>4, <2>1, <2>2, TickReach
<1>10. CASE StopMoves(e)
  <2>1. Apart(e)
    BY Zenon, <1>10 DEF Apart, StopMoves, StopSeen, SendStop
  <2>2. inbox' = inbox \/ inbox' = Append(inbox, Stop(e))
    BY Zenon, <1>10 DEF StopMoves, StopSeen, SendStop
  <2> QED
    BY ZenonT(40), <1>1, <1>2, <1>3, <1>5, <2>1, <2>2
<1> QED
  BY Zenon, <1>6, <1>7, <1>8, <1>9, <1>10 DEF ExecMoves

\* A step of e outside its cycle: the bases and numbers stay, the batches grow,
\* the cycle stays as it is or is abandoned.
LEMMA LocalKeepsImages ==
    ASSUME TypeOK, ImagesInv, NEW e \in Executors, NEW new \in Seq(ToWriter),
           inbox' = inbox \o new, \A i \in DOMAIN new : new[i].type # "Covered",
           lanes' = lanes, images'[e] = images[e], saved'[e] = saved[e],
           checkpoint'[e].openedAt = checkpoint[e].openedAt,
           checkpoint'[e].next = checkpoint[e].next,
           sync'[e].batch \in Nat, sync[e].batch <= sync'[e].batch,
           cycle'[e] = cycle[e] \/ ~cycle'[e].open,
           \A b \in saves'[e].now \cup saves'[e].after :
               b \in saves[e].now \cup saves[e].after \cup {sync[e].batch},
           cycle'[e].open => saves'[e].now = saves[e].now,
           ~cycle'[e].open => saves'[e].after = {}
    PROVE  (CyclesGrow(e) /\ CoversBacked(e) /\ SavesCovered(e))'
<1>1. CyclesGrow(e) /\ CoversBacked(e) /\ SavesCovered(e)
  BY Zenon DEF ImagesInv
<1>2. SureImages(e)' = SureImages(e)
  BY Zenon DEF SureImages
<1>3. /\ checkpoint[e].openedAt \in Nat /\ sync[e].batch \in Nat
      /\ saves[e].now \in SUBSET Nat /\ saves[e].after \in SUBSET Nat
  BY Zenon DEF TypeOK, ExecTypeOK, Checkpoint, SyncState, Saves
<1>4. CyclesGrow(e)'
  BY <1>1, <1>2, <1>3 DEF CyclesGrow
<1>5. CoversBacked(e)'
  <2>1. /\ SureImages(e) \subseteq SureImages(e)'
        /\ checkpoint'[e].openedAt \in Nat
        /\ checkpoint[e].openedAt <= checkpoint'[e].openedAt
        /\ \A i \in DOMAIN new : ~CoveredOf(new[i], e)
    BY <1>2, <1>3 DEF CoveredOf
  <2> QED
    BY Zenon, <1>1, <2>1, CoversStayBacked
<1>6. SavesCovered(e)'
  <2>1. \A b \in saves'[e].now \cup saves'[e].after : b <= sync'[e].batch
    <3> SUFFICES ASSUME NEW b \in saves'[e].now \cup saves'[e].after
                 PROVE  b <= sync'[e].batch
      BY Zenon
    <3>1. CASE b \in saves[e].now \cup saves[e].after
      <4>1. b <= sync[e].batch
        BY Zenon, <1>1, <3>1 DEF SavesCovered
      <4> QED
        BY <1>3, <3>1, <4>1
    <3>2. CASE b = sync[e].batch
      BY Zenon, <3>2
    <3> QED
      BY Zenon, <3>1, <3>2
  <2> QED
    BY Zenon, <1>1, <1>2, <2>1 DEF SavesCovered
<1> QED
  BY Zenon, <1>4, <1>5, <1>6

\* A tick, with a cycle or without.
LEMMA TickKeepsImages ==
    ASSUME TypeOK, ImagesInv, NEW e \in Executors, NEW s \in SyncState,
           sync[e].batch <= s.batch, NEW sweep \in Seq(ToWriter),
           \A i \in DOMAIN sweep : sweep[i].type # "Covered",
           TickCycle(e, s, sweep) \/ TickIdle(e, s, sweep), lanes' = lanes
    PROVE  (CyclesGrow(e) /\ CoversBacked(e) /\ SavesCovered(e))'
<1>1. CASE TickCycle(e, s, sweep)
  BY Zenon, <1>1, CycleKeepsImages
<1>2. CASE TickIdle(e, s, sweep)
  <2>1. inbox' = inbox \o sweep
    BY Zenon, <1>2 DEF TickIdle
  <2>2. UNCHANGED <<images, saved, checkpoint, cycle>> /\ ~cycle[e].open
    BY Zenon, <1>2 DEF TickIdle
  <2>3. sync'[e] = s /\ s.batch \in Nat
    BY Zenon, <1>2 DEF TickIdle, TypeOK, ExecTypeOK, SyncState
  <2>4. saves'[e].now = saves[e].now /\ saves'[e].after = saves[e].after
    BY <1>2 DEF TickIdle, TypeOK, ExecTypeOK, Saves
  <2>5. saves[e].after = {}
    BY Zenon, <2>2 DEF ImagesInv, SavesCovered
  <2> QED
    BY ZenonT(40), <2>1, <2>2, <2>3, <2>4, <2>5, LocalKeepsImages
<1> QED
  BY Zenon, <1>1, <1>2

\* Executor e's own half of its step.
LEMMA ExecKeepsOwn ==
    ASSUME TypeOK, ImagesInv, NEW e \in Executors, ExecMoves(e)
    PROVE  (CyclesGrow(e) /\ CoversBacked(e) /\ SavesCovered(e))'
<1>0. lanes' = lanes
  BY Zenon, ExecReach
<1>1. /\ sync[e] \in SyncState /\ Submitted(sync[e]) \in SyncState
      /\ sync[e].batch \in Nat /\ sync[e].batch + 1 \in Nat
      /\ Submitted(sync[e]).batch = sync[e].batch + 1
      /\ checkpoint[e] \in Checkpoint /\ saves[e] \in Saves
      /\ inbox \in Seq(ToWriter)
  BY ZenonT(40), SubmittedType DEF TypeOK, ExecTypeOK, SharedTypeOK, SyncState
<1>2. /\ <<>> \in Seq(ToWriter)
      /\ inbox = inbox \o <<>>
      /\ \A i \in DOMAIN <<>> : <<>>[i].type # "Covered"
  BY <1>1
<1>3. ASSUME NEW m \in ToWriter, m.type # "Covered"
      PROVE  /\ <<m>> \in Seq(ToWriter)
             /\ Append(inbox, m) = inbox \o <<m>>
             /\ \A i \in DOMAIN <<m>> : <<m>>[i].type # "Covered"
  BY <1>1, <1>3
<1>4. /\ Submit(e, sync[e].batch + 1) \in ToWriter
      /\ Submit(e, sync[e].batch + 1).type # "Covered"
      /\ Stop(e) \in ToWriter /\ Stop(e).type # "Covered"
  BY Zenon, <1>1, MessageTypes DEF Submit, Stop
<1>5. ~cycle[e].open => saves[e].after = {}
  BY Zenon DEF ImagesInv, SavesCovered
<1>11. ASSUME inbox' = inbox, sync'[e].batch = sync[e].batch
       PROVE  /\ inbox' = inbox \o <<>>
              /\ sync'[e].batch \in Nat /\ sync[e].batch <= sync'[e].batch
  BY <1>1, <1>2, <1>11
<1> USE DEF TypeOK, ExecTypeOK, SharedTypeOK
<1>6. CASE ServeMoves(e)
  <2>1. CASE ServeWrite(e) \/ ServeExpired(e)
    <3>1. /\ inbox' = Append(inbox, Submit(e, sync[e].batch + 1))
          /\ UNCHANGED <<images, saved, checkpoint, cycle, saves>>
      BY ZenonT(40), <1>1, <2>1 DEF ServeWrite, ServeExpired
    <3>2. sync'[e].batch = sync[e].batch + 1
      <4>1. CASE ServeWrite(e)
        <5>1. sync'[e] = [Submitted(sync[e]) EXCEPT
                 !.held = IF Holds(Policy) THEN sync[e].held \cup {sync[e].batch + 1} ELSE sync[e].held]
          BY Zenon, <4>1 DEF ServeWrite
        <5> QED
          BY Zenon, <1>1, <5>1 DEF SyncState
      <4>2. CASE ServeExpired(e)
        BY Zenon, <1>1, <4>2 DEF ServeExpired
      <4> QED
        BY ZenonT(40), <2>1, <4>1, <4>2
    <3>3. sync[e].batch <= sync[e].batch + 1
      BY <1>1
    <3> QED
      BY ZenonT(40), <1>0, <1>1, <1>3, <1>4, <1>5, <3>1, <3>2, <3>3, LocalKeepsImages
  <2>2. CASE Save(e) \/ BgSave(e)
    <3>1. UNCHANGED <<images, saved, cycle, sync, inbox>>
      BY ZenonT(40), <2>2 DEF Save, BgSave, Asked
    <3>2. checkpoint'[e].openedAt = checkpoint[e].openedAt /\ checkpoint'[e].next = checkpoint[e].next
      BY SMTT(30), <1>1, <2>2 DEF Save, BgSave, AskForSnapshot, Checkpoint
    <3>3. CASE cycle[e].open
      <4>1. saves'[e] = [WaitsAfter(e) EXCEPT !.taken = saves[e].taken + 1]
        BY ZenonT(40), <2>2, <3>3 DEF Save, BgSave, Asked
      <4>2. /\ saves'[e].now = saves[e].now
            /\ saves'[e].after = saves[e].after \cup {sync[e].batch}
        BY ZenonT(40), <1>1, <4>1 DEF WaitsAfter, Saves
      <4>3. /\ inbox' = inbox \o <<>>
            /\ sync'[e].batch \in Nat /\ sync[e].batch <= sync'[e].batch
        BY ZenonT(40), <3>1, <1>11
      <4>4. \A b \in saves'[e].now \cup saves'[e].after :
             b \in saves[e].now \cup saves[e].after \cup {sync[e].batch}
        BY SMTT(30), <4>2
      <4> QED
        BY ZenonT(40), <1>0, <1>2, <3>1, <3>2, <3>3, <4>2, <4>3, <4>4, LocalKeepsImages
    <3>4. CASE ~cycle[e].open
      <4>1. \/ saves'[e] = [WaitsNow(e) EXCEPT !.taken = saves[e].taken + 1]
            \/ saves'[e] = [[saves[e] EXCEPT !.asked = TRUE] EXCEPT !.taken = saves[e].taken + 1]
        BY Zenon, <2>2, <3>4 DEF Save, BgSave, Asked
      <4>2. /\ \/ saves'[e].now = saves[e].now
               \/ saves'[e].now = saves[e].now \cup {sync[e].batch}
            /\ saves'[e].after = saves[e].after
        BY ZenonT(40), <1>1, <4>1 DEF WaitsNow, Saves
      <4>3. /\ inbox' = inbox \o <<>>
            /\ sync'[e].batch \in Nat /\ sync[e].batch <= sync'[e].batch
        BY Zenon, <3>1, <1>11
      <4>4. \A b \in saves'[e].now \cup saves'[e].after :
             b \in saves[e].now \cup saves[e].after \cup {sync[e].batch}
        BY ZenonT(40), <4>2
      <4> QED
        BY ZenonT(40), <1>0, <1>2, <1>5, <3>1, <3>2, <3>4, <4>2, <4>3, <4>4, LocalKeepsImages
    <3> QED
      BY ZenonT(40), <3>3, <3>4
  <2> QED
    BY Zenon, <1>6, <2>1, <2>2 DEF ServeMoves, Serve
<1>7. CASE HearMoves(e)
  <2>1. UNCHANGED <<images, saved, inbox>>
    BY Zenon, <1>7 DEF HearMoves, HearWriter, Hear, HearStopped
  <2>2. PICK m : HearWritten(e, m) \/ HearDurable(e, m) \/ Refuse(e, m) \/ HearNudge(e, m)
                 \/ HearStopped(e)
    BY Zenon, <1>7 DEF HearMoves, HearWriter, Hear
  <2>3. \/ sync'[e] = sync[e]
        \/ sync'[e].batch = sync[e].batch
    <3>1. CASE HearWritten(e, m)
      BY ZenonT(40), <1>1, <3>1 DEF HearWritten, SyncState
    <3>2. CASE HearDurable(e, m)
      BY ZenonT(40), <1>1, <3>2 DEF HearDurable, SyncState
    <3>3. CASE Refuse(e, m)
      BY ZenonT(40), <1>1, <3>3 DEF Refuse, LetGo, SyncState
    <3>4. CASE HearNudge(e, m)
      BY Zenon, <3>4 DEF HearNudge
    <3>5. CASE HearStopped(e)
      BY ZenonT(40), <1>1, <3>5 DEF HearStopped, SyncState
    <3> QED
      BY ZenonT(40), <2>2, <3>1, <3>2, <3>3, <3>4, <3>5
  <2>4. checkpoint'[e].openedAt = checkpoint[e].openedAt /\ checkpoint'[e].next = checkpoint[e].next
    BY SMTT(30), <1>1, <2>2 DEF HearWritten, HearDurable, Refuse, HearNudge, HearStopped, Checkpoint
  <2>5. CASE Refuse(e, m)
    <3>1. /\ ~cycle'[e].open
          /\ saves'[e].now = saves[e].now \cup saves[e].after
          /\ saves'[e].after = {}
      BY ZenonT(40), <1>1, <2>5 DEF Refuse, LetGo, Saves, NoCycle, Fresh
    <3>2. /\ inbox' = inbox \o <<>>
          /\ sync'[e].batch \in Nat /\ sync[e].batch <= sync'[e].batch
      BY ZenonT(40), <2>1, <2>3, <1>11
    <3>3. \A b \in saves'[e].now \cup saves'[e].after :
           b \in saves[e].now \cup saves[e].after \cup {sync[e].batch}
      BY SMTT(30), <3>1
    <3> QED
      BY ZenonT(40), <1>0, <1>2, <2>1, <2>4, <3>1, <3>2, <3>3, LocalKeepsImages
  <2>6. CASE ~Refuse(e, m)
    <3>1. cycle' = cycle /\ saves' = saves
      BY SMTT(30), <2>2, <2>6 DEF HearWritten, HearDurable, HearNudge, HearStopped
    <3>2. /\ inbox' = inbox \o <<>>
          /\ sync'[e].batch \in Nat /\ sync[e].batch <= sync'[e].batch
      BY Zenon, <2>1, <2>3, <1>11
    <3>3. \A b \in saves'[e].now \cup saves'[e].after :
           b \in saves[e].now \cup saves[e].after \cup {sync[e].batch}
      BY Zenon, <3>1
    <3> QED
      BY ZenonT(40), <1>0, <1>2, <1>5, <2>1, <2>4, <3>1, <3>2, <3>3, LocalKeepsImages
  <2> QED
    BY ZenonT(40), <2>5, <2>6
<1>8. CASE TickMoves(e)
  <2>1. TickCycle(e, sync[e], <<>>) \/ TickIdle(e, sync[e], <<>>)
    BY ZenonT(40), <1>8 DEF TickMoves, Tick
  <2>2. sync[e].batch <= sync[e].batch
    BY <1>1
  <2> QED
    BY ZenonT(40), <1>0, <1>1, <1>2, <2>1, <2>2, TickKeepsImages
<1>9. CASE SweepMoves(e)
  <2> DEFINE sweep == <<Submit(e, sync[e].batch + 1)>>
  <2>1. sweep \in Seq(ToWriter) /\ \A i \in DOMAIN sweep : sweep[i].type # "Covered"
    BY ZenonT(40), <1>3, <1>4
  <2>2. TickCycle(e, Submitted(sync[e]), sweep) \/ TickIdle(e, Submitted(sync[e]), sweep)
    BY ZenonT(40), <1>1, <1>9 DEF SweepMoves, SweepTick
  <2>3. sync[e].batch <= Submitted(sync[e]).batch
    BY <1>1
  <2> HIDE DEF sweep
  <2> QED
    BY ZenonT(40), <1>0, <1>1, <2>1, <2>2, <2>3, TickKeepsImages
<1>10. CASE StopMoves(e)
  <2>1. UNCHANGED <<images, saved, checkpoint, cycle, sync, saves>>
    BY Zenon, <1>10 DEF StopMoves, StopSeen, SendStop
  <2>2. inbox' = inbox \/ inbox' = Append(inbox, Stop(e))
    BY ZenonT(40), <1>10 DEF StopMoves, StopSeen, SendStop
  <2>3. sync[e].batch <= sync'[e].batch
    BY SMTT(30), <1>1, <2>1
  <2>4. CASE inbox' = inbox
    BY ZenonT(40), <1>0, <1>1, <1>2, <1>5, <2>1, <2>3, <2>4, LocalKeepsImages
  <2>5. CASE inbox' = Append(inbox, Stop(e))
    BY ZenonT(40), <1>0, <1>1, <1>3, <1>4, <1>5, <2>1, <2>3, <2>5, LocalKeepsImages
  <2> QED
    BY ZenonT(40), <2>2, <2>4, <2>5
<1> QED
  BY Zenon, <1>6, <1>7, <1>8, <1>9, <1>10 DEF ExecMoves

\* Every step of the node keeps the images' invariant.
LEMMA ImagesNext == TypeOK /\ ImagesInv /\ [Next]_vars => ImagesInv'
<1> SUFFICES ASSUME TypeOK, ImagesInv, [Next]_vars PROVE ImagesInv'
  BY Zenon
<1>1. CASE WriterMoves \/ DiskMoves
  <2>1. WriterNext /\ UNCHANGED execVars
    BY ZenonT(40), <1>1 DEF WriterMoves, DiskMoves, WriterNext
  <2>2. CASE Take /\ TakeCovered(Head(inbox))
    BY ZenonT(40), <2>1, <2>2, CoverKeepsImages
  <2>3. CASE ~(Take /\ TakeCovered(Head(inbox)))
    <3>1. /\ images' = images
          /\ \A e \in Executors : lanes'[e].covered = lanes[e].covered
          /\ inbox' = inbox \/ (inbox # <<>> /\ inbox' = Tail(inbox))
      BY ZenonT(40), <2>1, <2>3, WriterQuiet
    <3> QED
      BY ZenonT(40), <2>1, <3>1, QuietKeepsImages
  <2> QED
    BY ZenonT(40), <2>2, <2>3
<1>2. ASSUME NEW e \in Executors, ExecMoves(e) PROVE ImagesInv'
  <2> SUFFICES ASSUME NEW f \in Executors
               PROVE  (CyclesGrow(f) /\ CoversBacked(f) /\ SavesCovered(f))'
    BY Zenon DEF ImagesInv
  <2>1. CASE f = e
    BY ZenonT(40), <1>2, <2>1, ExecKeepsOwn
  <2>2. CASE f # e
    <3>1. lanes' = lanes /\ Apart(e)
      BY Zenon, <1>2, ExecReach
    <3>2. PICK new \in Seq(ToWriter) : SendsOwn(e, new)
      BY Zenon, <1>2, ExecReach
    <3>3. inbox' = inbox \o new /\ \A i \in DOMAIN new : ~CoveredOf(new[i], f)
      BY Zenon, <2>2, <3>2 DEF SendsOwn, CoveredOf
    <3>4. /\ images'[f] = images[f] /\ checkpoint'[f] = checkpoint[f]
          /\ cycle'[f] = cycle[f] /\ sync'[f] = sync[f]
          /\ saves'[f] = saves[f] /\ saved'[f] = saved[f]
      BY Zenon, <2>2, <3>1 DEF Apart
    <3> QED
      BY Zenon, <3>1, <3>3, <3>4, OthersKeepImages
  <2> QED
    BY ZenonT(40), <2>1, <2>2
<1>3. CASE RequestStop \/ UNCHANGED vars
  <2>1. UNCHANGED <<inbox, images, lanes, execVars>>
    BY Zenon, <1>3 DEF RequestStop, vars, sharedVars, writerVars
  <2> QED
    BY Zenon, <2>1, QuietKeepsImages
<1> QED
  BY ZenonT(40), <1>1, <1>2, <1>3 DEF Next

\* The images' invariant holds: file numbers and bases only grow, every cover on
\* its way to the writer is of a durable image still on disk, and a waiting SAVE
\* is held by the bases of the cycle it waits for.
THEOREM ImagesHold == Spec => []ImagesInv
<1>1. Spec => []TypeOK
  BY Zenon, TypeCorrect
<1> QED
  BY <1>1, ImagesInit, ImagesNext, PTL DEF Spec

\* The writer compacts only by durable images: whatever it takes for covered,
\* and removes closed segments by, an image with its footer and its directory
\* entry synced covers.
THEOREM CoverDurable == Spec => []CoverIsDurable
<1>1. ImagesInv => CoverIsDurable
  BY ZenonT(40) DEF ImagesInv, CoversBacked, CoverIsDurable
<1> QED
  BY <1>1, ImagesHold, PTL

\* A SAVE that was answered OK stays true: at every later moment a durable image
\* holds everything applied before it.
THEOREM SaveDurable == Spec => []SavedIsDurable
<1>1. ImagesInv => SavedIsDurable
  BY Zenon DEF ImagesInv, SavesCovered, SavedIsDurable
<1> QED
  BY <1>1, ImagesHold, PTL

-----------------------------------------------------------------------------
(* Held replies. *)

\* A batch is held, granted or refused only once it was submitted, and is at
\* most one of the three: a submission takes a number none of them has.
Answers(s, g, r) ==
    /\ s.held \cup g \cup r \subseteq 1 .. s.batch
    /\ g \cap r = {}
    /\ s.held \cap (g \cup r) = {}

AnswersInv == \A e \in Executors : Answers(sync[e], granted[e], refused[e])

\* The executor's steps, by what they do to one executor's answers.
LEMMA AnswersKept ==
    ASSUME NEW s \in SyncState, NEW z \in SyncState,
           NEW g \in SUBSET Nat, NEW r \in SUBSET Nat, Answers(s, g, r)
    PROVE  /\ (z.batch = s.batch /\ z.held = s.held) => Answers(z, g, r)
           /\ (z.batch = s.batch + 1 /\ z.held \subseteq s.held \cup {s.batch + 1})
                => Answers(z, g, r)
           /\ \A t \in Nat :
                (z.batch = s.batch /\ z.held = {b \in s.held : b > t}) =>
                    Answers(z, g \cup {b \in s.held : b <= t}, r)
           /\ (z.batch = s.batch /\ z.held = {}) => Answers(z, g, r \cup s.held)
<1>1. s.batch \in Nat /\ s.held \in SUBSET Nat
  BY Zenon DEF SyncState
<1> QED
  BY <1>1 DEF Answers

\* A submission moves the batch on and leaves what is held alone.
LEMMA SubmittedAnswers ==
    ASSUME NEW s \in SyncState
    PROVE  Submitted(s).batch = s.batch + 1 /\ Submitted(s).held = s.held
BY Zenon DEF Submitted, SyncState

\* Every step of the node answers a held batch at most once.
LEMMA AnswersNext == TypeOK /\ AnswersInv /\ [Next]_vars => AnswersInv'
<1> SUFFICES ASSUME TypeOK, AnswersInv, [Next]_vars PROVE AnswersInv'
  BY Zenon
<1>0. TypeOK'
  BY Zenon, NextTypes
<1>1. CASE WriterMoves \/ DiskMoves \/ RequestStop \/ UNCHANGED vars
  BY Zenon, <1>1 DEF WriterMoves, DiskMoves, RequestStop, vars, execVars, AnswersInv
<1>2. ASSUME NEW e \in Executors, ExecMoves(e) PROVE AnswersInv'
  <2> USE DEF TypeOK, ExecTypeOK
  <2>1. /\ sync[e] \in SyncState /\ sync'[e] \in SyncState
        /\ granted[e] \in SUBSET Nat /\ refused[e] \in SUBSET Nat
        /\ Answers(sync[e], granted[e], refused[e])
    BY Zenon, <1>0 DEF AnswersInv
  <2>2. \A f \in Executors \ {e} :
          sync'[f] = sync[f] /\ granted'[f] = granted[f] /\ refused'[f] = refused[f]
    <3>1. CASE ServeMoves(e) \/ StopMoves(e)
      BY Zenon, <3>1 DEF ServeMoves, Serve, ServeWrite, ServeExpired, Save, BgSave, Asked,
                  StopMoves, StopSeen, SendStop
    <3>2. CASE HearMoves(e)
      BY ZenonT(40), <3>2 DEF HearMoves, HearWriter, Hear, HearWritten, HearDurable, Refuse, LetGo,
                  HearNudge, HearStopped
    <3>3. CASE TickMoves(e) \/ SweepMoves(e)
      <4>1. PICK x : sync' = [sync EXCEPT ![e] = x]
        BY ZenonT(40), <3>3 DEF TickMoves, Tick, SweepMoves, SweepTick, TickCycle, TickIdle
      <4>2. UNCHANGED <<granted, refused>>
        BY Zenon, <3>3 DEF TickMoves, Tick, SweepMoves, SweepTick, TickCycle, TickIdle
      <4> QED
        BY SMTT(30), <4>1, <4>2
    <3> QED
      BY Zenon, <1>2, <3>1, <3>2, <3>3 DEF ExecMoves
  <2>3. Answers(sync'[e], granted'[e], refused'[e])
    <3>1. CASE ServeMoves(e)
      <4>1. UNCHANGED <<granted, refused>>
        BY ZenonT(40), <3>1 DEF ServeMoves, Serve, ServeWrite, ServeExpired, Save, BgSave, Asked
      <4>2. CASE ServeWrite(e)
        <5>1. sync'[e] = [Submitted(sync[e]) EXCEPT
                 !.held = IF Holds(Policy) THEN sync[e].held \cup {sync[e].batch + 1} ELSE sync[e].held]
          BY ZenonT(40), <4>2 DEF ServeWrite
        <5>2. /\ sync'[e].batch = sync[e].batch + 1
              /\ sync'[e].held \subseteq sync[e].held \cup {sync[e].batch + 1}
          BY ZenonT(40), <2>1, <5>1, SubmittedType, SubmittedAnswers DEF SyncState
        <5> QED
          BY Zenon, <2>1, <4>1, <5>2, AnswersKept
      <4>3. CASE ServeExpired(e)
        <5>1. sync'[e].batch = sync[e].batch + 1 /\ sync'[e].held = sync[e].held
          BY ZenonT(40), <2>1, <4>3, SubmittedAnswers DEF ServeExpired
        <5> QED
          BY Zenon, <2>1, <4>1, <5>1, AnswersKept
      <4>4. CASE Save(e) \/ BgSave(e)
        BY ZenonT(40), <2>1, <4>1, <4>4 DEF Save, BgSave, Asked
      <4> QED
        BY ZenonT(40), <3>1, <4>2, <4>3, <4>4 DEF ServeMoves, Serve
    <3>2. CASE HearMoves(e)
      <4>1. CASE Hear(e)
        <5> DEFINE m == Head(progress[e])
        <5>1. CASE HearWritten(e, m)
          <6>1. sync'[e].batch = sync[e].batch /\ sync'[e].held = sync[e].held
            BY ZenonT(40), <2>1, <5>1 DEF HearWritten, SyncState
          <6> QED
            BY Zenon, <2>1, <5>1, <6>1, AnswersKept DEF HearWritten
        <5>2. CASE HearDurable(e, m)
          <6>1. m.through \in Nat
            <7>1. m \in Progress
              BY <4>1 DEF Hear, SharedTypeOK
            <7> QED
              BY <5>2, <7>1 DEF HearDurable, Progress, Fault, Nudge, Stopped
          <6>2. /\ sync'[e].batch = sync[e].batch
                /\ sync'[e].held = {b \in sync[e].held : b > m.through}
            BY Zenon, <2>1, <5>2 DEF HearDurable, StillHeld, SyncState
          <6>3. /\ granted'[e] = granted[e] \cup {b \in sync[e].held : b <= m.through}
                /\ refused'[e] = refused[e]
            BY ZenonT(40), <5>2 DEF HearDurable
          <6> HIDE DEF m
          <6>4. Answers(sync'[e], granted[e] \cup {b \in sync[e].held : b <= m.through}, refused[e])
            BY ZenonT(40), <2>1, <6>1, <6>2, AnswersKept
          <6> QED
            BY ZenonT(40), <6>3, <6>4
        <5>3. CASE Refuse(e, m)
          <6>1. sync'[e].batch = sync[e].batch /\ sync'[e].held = {}
            BY ZenonT(40), <2>1, <5>3 DEF Refuse, LetGo, SyncState
          <6>2. granted'[e] = granted[e] /\ refused'[e] = refused[e] \cup sync[e].held
            BY Zenon, <5>3 DEF Refuse, LetGo
          <6>3. Answers(sync'[e], granted[e], refused[e] \cup sync[e].held)
            BY Zenon, <2>1, <6>1, AnswersKept
          <6> QED
            BY Zenon, <6>2, <6>3
        <5>4. CASE HearNudge(e, m)
          BY ZenonT(40), <2>1, <5>4 DEF HearNudge
        <5> QED
          BY ZenonT(40), <4>1, <5>1, <5>2, <5>3, <5>4 DEF Hear
      <4>2. CASE HearStopped(e)
        <5>1. sync'[e].batch = sync[e].batch /\ sync'[e].held = {}
          BY ZenonT(40), <2>1, <4>2 DEF HearStopped, SyncState
        <5>2. granted'[e] = granted[e] /\ refused'[e] = refused[e] \cup sync[e].held
          BY ZenonT(40), <4>2 DEF HearStopped
        <5>3. Answers(sync'[e], granted[e], refused[e] \cup sync[e].held)
          BY Zenon, <2>1, <5>1, AnswersKept
        <5> QED
          BY Zenon, <5>2, <5>3
      <4> QED
        BY ZenonT(40), <3>2, <4>1, <4>2 DEF HearMoves, HearWriter
    <3>3. ASSUME NEW s \in SyncState, NEW sweep,
                 TickCycle(e, s, sweep) \/ TickIdle(e, s, sweep)
          PROVE  /\ sync'[e].batch = s.batch /\ sync'[e].held = s.held
                 /\ UNCHANGED <<granted, refused>>
      <4>1. sync'[e] = s \/ \E p : sync'[e] = [s EXCEPT !.refusing = p]
        <5>1. CASE TickCycle(e, s, sweep)
          <6>1. PICK p : sync' = [sync EXCEPT ![e] = [s EXCEPT !.refusing = p]]
            BY Zenon, <5>1 DEF TickCycle
          <6> QED
            BY Zenon, <6>1
        <5>2. CASE TickIdle(e, s, sweep)
          BY ZenonT(40), <5>2 DEF TickIdle
        <5> QED
          BY Zenon, <3>3, <5>1, <5>2
      <4>2. UNCHANGED <<granted, refused>>
        BY Zenon, <3>3 DEF TickCycle, TickIdle
      <4> QED
        BY Zenon, <4>1, <4>2 DEF SyncState
    <3>4. CASE TickMoves(e)
      <4>1. /\ sync'[e].batch = sync[e].batch /\ sync'[e].held = sync[e].held
            /\ UNCHANGED <<granted, refused>>
        BY ZenonT(40), <2>1, <3>3, <3>4 DEF TickMoves, Tick
      <4> QED
        BY Zenon, <2>1, <4>1, AnswersKept
    <3>5. CASE SweepMoves(e)
      <4>1. /\ sync'[e].batch = Submitted(sync[e]).batch
            /\ sync'[e].held = Submitted(sync[e]).held
            /\ UNCHANGED <<granted, refused>>
        BY ZenonT(40), <2>1, <3>3, <3>5, SubmittedType DEF SweepMoves, SweepTick
      <4>2. sync'[e].batch = sync[e].batch + 1 /\ sync'[e].held = sync[e].held
        BY ZenonT(40), <2>1, <4>1, SubmittedAnswers
      <4> QED
        BY Zenon, <2>1, <4>1, <4>2, AnswersKept
    <3>6. CASE StopMoves(e)
      BY ZenonT(40), <2>1, <3>6 DEF StopMoves, StopSeen, SendStop
    <3> QED
      BY ZenonT(40), <1>2, <3>1, <3>2, <3>4, <3>5, <3>6 DEF ExecMoves
  <2> QED
    BY Zenon, <2>2, <2>3 DEF AnswersInv
<1> QED
  BY Zenon, <1>1, <1>2 DEF Next

\* A held reply is answered once: what a late `Durable` grants, a `Fault` or the
\* stop never also refuses, and nothing answered is held again.
THEOREM AnswersOnce == Spec => []AnsweredOnce
<1>1. Init => AnswersInv
  BY DEF Init, ExecInit, AnswersInv, Answers
<1>2. AnswersInv => AnsweredOnce
  BY Zenon DEF AnswersInv, Answers, AnsweredOnce
<1> QED
  BY <1>1, <1>2, AnswersNext, TypeCorrect, PTL DEF Spec

-----------------------------------------------------------------------------
(* Failed segments. *)

\* A rotation comes before the write whenever the open segment has failed.
LEMMA CleanNext == TypeOK /\ WritesClean /\ [Next]_vars => WritesClean'
<1> SUFFICES ASSUME TypeOK, WritesClean, [Next]_vars, pc' = "write"
             PROVE  ~segment'.failed
  BY Zenon DEF WritesClean
<1>1. CASE WriterMoves
  <2>1. DrainEnds \/ RotateSwaps
    BY Zenon, <1>1 DEF WriterMoves, WriterStep, SyncDone, Take, WriteStaged, WriteFails, RotateSyncs,
                RotateFails, MaybeIssue, WriterTick, LastSettles, LastSyncs, WriterEnds
  <2>2. CASE DrainEnds
    BY Zenon, <2>2 DEF DrainEnds, NeedsRotation
  <2>3. CASE RotateSwaps
    BY Zenon, <2>3 DEF RotateSwaps
  <2> QED
    BY Zenon, <2>1, <2>2, <2>3
<1>2. CASE DiskMoves
  BY Zenon, <1>2 DEF DiskMoves, DiskSyncs, WritesClean
<1>3. ASSUME NEW e \in Executors, ExecMoves(e) PROVE ~segment'.failed
  BY Zenon, <1>3 DEF ExecMoves, ServeMoves, HearMoves, TickMoves, SweepMoves, StopMoves, ExecFrame,
              writerVars, WritesClean
<1>4. CASE RequestStop \/ UNCHANGED vars
  BY Zenon, <1>4 DEF RequestStop, vars, writerVars, WritesClean
<1> QED
  BY Zenon, <1>1, <1>2, <1>3, <1>4 DEF Next

\* Only WriteStaged adds to the log, and only to the open segment.
LEMMA OnlyWriteStagedWrites ==
    ASSUME TypeOK, WritesClean, [Next]_vars
    PROVE  segment.failed => \A t \in written' \ written : t[1] # segment.rotation
<1> SUFFICES ASSUME segment.failed PROVE written' \subseteq written
  BY Zenon
<1>1. CASE WriterMoves
  <2>1. CASE WriteStaged
    BY Zenon, <2>1 DEF WriteStaged, WritesClean
  <2>2. CASE Take
    <3>1. CASE TakeCovered(Head(inbox))
      BY ZenonT(40), <3>1 DEF TakeCovered, Compact
    <3>2. CASE ~TakeCovered(Head(inbox))
      BY SMTT(30), <2>2, <3>2 DEF Take, TakeSubmit, TakeSyncNow, TakeStop
    <3> QED
      BY Zenon, <3>1, <3>2
  <2>3. CASE ~WriteStaged /\ ~Take
    BY ZenonT(40), <1>1, <2>3 DEF WriterMoves, WriterStep, SyncDone, DrainEnds, WriteFails, RotateSyncs,
                      RotateSwaps, RotateFails, MaybeIssue, WriterTick, LastSettles, LastSyncs,
                      WriterEnds, sharedVars
  <2> QED
    BY Zenon, <2>1, <2>2, <2>3
<1>2. CASE DiskMoves
  BY Zenon, <1>2 DEF DiskMoves, DiskSyncs
<1>3. ASSUME NEW e \in Executors, ExecMoves(e) PROVE written' \subseteq written
  BY Zenon, <1>3 DEF ExecMoves, ServeMoves, HearMoves, TickMoves, SweepMoves, StopMoves, ExecFrame
<1>4. CASE RequestStop \/ UNCHANGED vars
  BY Zenon, <1>4 DEF RequestStop, vars, sharedVars
<1> QED
  BY Zenon, <1>1, <1>2, <1>3, <1>4 DEF Next

\* A segment that a write or a sync failed on is never written again: only the
\* segment a rotation opens takes the batches after it.
THEOREM FailedStaysClosed == Spec => FailedSegmentStaysClosed
<1>1. Init => WritesClean
  BY Zenon DEF Init, WriterInit, WritesClean
<1>2. TypeOK /\ WritesClean /\ [Next]_vars =>
        [segment.failed => \A t \in written' \ written : t[1] # segment.rotation]_vars
  BY Zenon, OnlyWriteStagedWrites
<1> QED
  BY <1>1, <1>2, CleanNext, TypeCorrect, PTL DEF Spec, FailedSegmentStaysClosed

=============================================================================
