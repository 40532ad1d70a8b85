------------------------- MODULE DurableLogSurvival -------------------------
(***************************************************************************)
(* What survives a crash of the node, proved of DurableLog for every set   *)
(* of executors, every policy and every bound: the tick of an open         *)
(* snapshot cycle keeps PlacesInv too, so every step does, and what        *)
(* follows from it.                                                        *)
(***************************************************************************)
EXTENDS DurableLogPromises, DurableLogWriterPlaces, DurableLogExecPlaces

-----------------------------------------------------------------------------
(* A tick of an open cycle. *)

\* What a footed file holds: what the scan may have picked up is in the bases,
\* or durable in the log, or was so when the file was footed first.
LEMMA StepFooted ==
    ASSUME NEW c \in Cycle, NEW next \in Nat, NEW s \in SyncState,
           c.dirPending => c.ended, NEW o \in Step(c, next, s),
           NEW w, w = IF c.ended THEN c.waiting ELSE s.batch
    PROVE  /\ \A im \in o.image : im.cycle = c.number /\ im.through = c.through /\ im.upto = w
           /\ o.image # {} => c.dirPending \/ w = c.through \/ w <= s.durableBatch
           /\ o.cycle.waiting \in {0, c.waiting, w}
           /\ o.cycle.dirPending =>
                 /\ o.cycle.waiting = w /\ o.cycle.ended
                 /\ c.dirPending \/ w = c.through \/ w <= s.durableBatch
<1> DEFINE restarted == Fresh(next, c.through)
           scanned == [c EXCEPT !.file = TRUE, !.ticks = c.ticks + 1]
           ended == ScanEnded([c EXCEPT !.file = TRUE], s)
           footed(sure) == {[cycle |-> c.number, through |-> c.through,
                             upto |-> ended.waiting, sure |-> sure]}
           Sound == c.dirPending \/ w = c.through \/ w <= s.durableBatch
           Clean(x) == ~x.dirPending /\ x.waiting \in {0, c.waiting, w}
<1>0. w \in Nat /\ s.durableBatch \in Nat
  BY ZenonT(40) DEF Cycle, SyncState
<1>1. ended.waiting = w /\ ended.through = c.through /\ ended.dirPending = c.dirPending /\ ended.ended
  BY ZenonT(40) DEF Cycle, ScanEnded
<1>2. /\ [ended EXCEPT !.asked = TRUE].waiting = w
      /\ [ended EXCEPT !.asked = TRUE].dirPending = c.dirPending
      /\ [ended EXCEPT !.dirPending = TRUE].waiting = w
      /\ [ended EXCEPT !.dirPending = TRUE].ended
  BY ZenonT(40) DEF Cycle, ScanEnded
<1>3. restarted.waiting = 0 /\ ~restarted.dirPending
  BY ZenonT(40) DEF Fresh
<1>4. scanned.waiting = c.waiting /\ scanned.dirPending = c.dirPending
  BY ZenonT(40) DEF Cycle
<1>5. ~ShortOfImage(ended, s) => Sound
  BY <1>0, <1>1 DEF ShortOfImage
<1>6. \/ c.dirPending /\ o = Outcome(c, FALSE, footed(TRUE), TRUE, FALSE)
      \/ c.dirPending /\ o = Outcome(c, FALSE, footed(FALSE), FALSE, TRUE)
      \/ ~c.dirPending /\ o = Outcome(scanned, FALSE, {}, FALSE, FALSE)
      \/ ~c.dirPending /\ o = Outcome(restarted, FALSE, {}, FALSE, TRUE)
      \/ ~c.dirPending /\ o = Outcome([ended EXCEPT !.asked = TRUE], ~c.asked, {}, FALSE, FALSE)
      \/ /\ ~c.dirPending /\ ~ShortOfImage(ended, s)
         /\ \/ o = Outcome(ended, FALSE, footed(TRUE), TRUE, FALSE)
            \/ o = Outcome([ended EXCEPT !.dirPending = TRUE], FALSE, footed(FALSE), FALSE, TRUE)
            \/ o = Outcome(restarted, FALSE, footed(FALSE), FALSE, TRUE)
  BY Zenon DEF Step
<1>7. PICK x, p, I, d, f :
        /\ o = Outcome(x, p, I, d, f)
        /\ I = {} \/ (Sound /\ (I = footed(TRUE) \/ I = footed(FALSE)))
        /\ \/ Clean(x)
           \/ Sound /\ x.waiting = w /\ x.ended
  <2>1. c.dirPending => c.waiting = w /\ c.ended /\ Sound
    BY ZenonT(40)
  <2>2. ~c.dirPending => /\ Clean(scanned) /\ Clean(restarted) /\ Clean(ended)
                         /\ Clean([ended EXCEPT !.asked = TRUE])
    BY ZenonT(40), <1>1, <1>2, <1>3, <1>4
  <2> HIDE DEF restarted, scanned, ended, footed, Sound, Clean
  <2> QED
    BY ZenonT(40), <1>2, <1>5, <1>6, <2>1, <2>2
<1>8. o.cycle = x /\ o.image = I
  BY ZenonT(40), <1>7 DEF Outcome
<1>9. \A im \in footed(TRUE) \cup footed(FALSE) :
        im.cycle = c.number /\ im.through = c.through /\ im.upto = w
  BY <1>1
<1> HIDE DEF footed, Sound
<1>10. /\ \A im \in o.image : im.cycle = c.number /\ im.through = c.through /\ im.upto = w
       /\ o.image # {} => Sound
  BY ZenonT(40), <1>7, <1>8, <1>9
<1>11. /\ o.cycle.waiting \in {0, c.waiting, w}
       /\ o.cycle.dirPending => o.cycle.waiting = w /\ o.cycle.ended /\ Sound
  BY ZenonT(40), <1>7, <1>8
<1> QED
  BY ZenonT(40), <1>10, <1>11 DEF Sound

\* A tick with a cycle open, or opened by it: which cycle it steps, and what it
\* leaves of the executor's state.
LEMMA CycleFacts ==
    ASSUME TypeOK, ImagesInv, NEW e \in Executors, NEW s \in SyncState,
           sync[e].batch <= s.batch, NEW sweep, TickCycle(e, s, sweep)
    PROVE  \E c \in Cycle, nx \in Nat : \E o \in Step(c, nx, s) :
             /\ c.open /\ c.number < nx /\ checkpoint[e].next <= nx /\ c.through <= s.batch
             /\ c = cycle[e] \/ (~cycle[e].open /\ c = Fresh(checkpoint[e].next, s.batch))
             /\ \A jm \in SureImages(e) : jm.cycle < c.number /\ jm.through <= c.through
             /\ images'[e] = {im \in images[e] : im.cycle # c.number} \cup o.image
             /\ cycle'[e] = IF o.done THEN NoCycle ELSE o.cycle
             /\ checkpoint'[e].next = IF o.cycle.number # c.number THEN nx + 1 ELSE nx
             /\ sync'[e] = [s EXCEPT !.refusing = s.refusing /\ ~o.done]
             /\ proven'[e] = IF o.done THEN proven[e] \cup 1 .. c.through ELSE proven[e]
             /\ UNCHANGED <<phase, granted, progress>>
<1>1. CyclesGrow(e)
  BY ZenonT(40) DEF ImagesInv
<1>2. /\ checkpoint[e] \in Checkpoint /\ cycle[e] \in Cycle
      /\ images[e] \in SUBSET Image /\ sync[e] \in SyncState
  BY Zenon DEF TypeOK, ExecTypeOK, SharedTypeOK
<1>3. \A im \in SureImages(e) : im.cycle \in Nat /\ im.through \in Nat
  BY ZenonT(40), <1>2 DEF SureImages, Image
<1>4. /\ checkpoint[e].next \in Nat /\ checkpoint[e].next + 1 \in Nat
      /\ checkpoint[e].openedAt \in Nat /\ s.batch \in Nat /\ sync[e].batch \in Nat
  BY SMTT(30), <1>2 DEF Checkpoint, SyncState
<1> DEFINE k0 == IF Opens(e, s)
                 THEN [checkpoint[e] EXCEPT !.next = checkpoint[e].next + 1, !.openedAt = s.batch,
                                            !.forced = FALSE, !.nudged = FALSE]
                 ELSE checkpoint[e]
           c0 == IF Opens(e, s) THEN Fresh(checkpoint[e].next, s.batch) ELSE cycle[e]
<1>5. PICK k \in Checkpoint : k = k0
  BY ZenonT(40), <1>2, <1>4, CheckpointUpdates
<1>6. PICK c \in Cycle : c = c0
  BY ZenonT(40), <1>2, <1>4, CycleTypes
<1>7. k.next \in Nat /\ c.number \in Nat /\ c.through \in Nat
  BY SMTT(30) DEF Checkpoint, Cycle
<1>8. PICK o \in Step(c, k.next, s) :
        /\ images'[e] = {im \in images[e] : im.cycle # c.number} \cup o.image
        /\ cycle'[e] = IF o.done THEN NoCycle ELSE o.cycle
        /\ checkpoint'[e] =
             [k EXCEPT !.next = IF o.cycle.number # c.number THEN k.next + 1 ELSE k.next,
                       !.imaged = k.imaged \/ o.done,
                       !.nudged = k.nudged \/ (o.done /\ saves[e].after # {})]
        /\ sync'[e] = [s EXCEPT !.refusing = s.refusing /\ ~o.done]
        /\ proven'[e] = IF o.done THEN proven[e] \cup 1 .. c.through ELSE proven[e]
  <2>1. PICK o \in Step(c0, k0.next, s) :
          /\ images' = [images EXCEPT ![e] =
                          {im \in images[e] : im.cycle # c0.number} \cup o.image]
          /\ cycle' = [cycle EXCEPT ![e] = IF o.done THEN NoCycle ELSE o.cycle]
          /\ checkpoint' = [checkpoint EXCEPT ![e] =
               [k0 EXCEPT !.next = IF o.cycle.number # c0.number THEN k0.next + 1 ELSE k0.next,
                          !.imaged = k0.imaged \/ o.done,
                          !.nudged = k0.nudged \/ (o.done /\ saves[e].after # {})]]
          /\ sync' = [sync EXCEPT ![e] = [s EXCEPT !.refusing = s.refusing /\ ~o.done]]
          /\ proven' = [proven EXCEPT ![e] =
                          IF o.done THEN proven[e] \cup 1 .. c0.through ELSE proven[e]]
    BY Zenon DEF TickCycle
  <2> HIDE DEF k0, c0
  <2> QED
    BY ZenonT(40), <1>5, <1>6, <2>1 DEF TypeOK, ExecTypeOK, SharedTypeOK
<1>9. c.open /\ UNCHANGED <<phase, granted, progress>>
  <2>1. c.open
    BY ZenonT(40), <1>5, <1>6 DEF TickCycle
  <2> QED
    BY Zenon, <2>1 DEF TickCycle
<1>10. /\ c.number < k.next /\ checkpoint[e].next <= k.next /\ c.through <= s.batch
       /\ c = cycle[e] \/ (~cycle[e].open /\ c = Fresh(checkpoint[e].next, s.batch))
       /\ \A jm \in SureImages(e) : jm.cycle < c.number /\ jm.through <= c.through
  <2>1. CASE Opens(e, s)
    <3>1. k.next = checkpoint[e].next + 1
      BY ZenonT(40), <1>2, <1>5, <2>1 DEF Checkpoint
    <3>2. c = Fresh(checkpoint[e].next, s.batch) /\ ~cycle[e].open
      BY ZenonT(40), <1>6, <2>1 DEF Opens
    <3>3. c.number = checkpoint[e].next /\ c.through = s.batch
      BY ZenonT(40), <3>2 DEF Fresh
    <3>4. checkpoint[e].openedAt <= s.batch
      BY <1>1, <1>4 DEF CyclesGrow
    <3>5. \A jm \in SureImages(e) : jm.cycle < c.number /\ jm.through <= c.through
      BY SMTT(30), <1>1, <1>3, <1>4, <3>3, <3>4 DEF CyclesGrow
    <3> QED
      BY <1>4, <3>1, <3>2, <3>3, <3>5
  <2>2. CASE ~Opens(e, s)
    <3>1. k = checkpoint[e] /\ c = cycle[e]
      BY ZenonT(40), <1>5, <1>6, <2>2
    <3>2. cycle[e].open
      BY ZenonT(40), <1>9, <3>1
    <3>3. /\ c.number < k.next /\ c.through = checkpoint[e].openedAt
          /\ checkpoint[e].openedAt <= sync[e].batch
          /\ \A jm \in SureImages(e) :
                jm.cycle < c.number /\ jm.through <= checkpoint[e].openedAt
      BY ZenonT(40), <1>1, <3>1, <3>2 DEF CyclesGrow
    <3> QED
      BY <1>4, <3>1, <3>3
  <2> QED
    BY ZenonT(40), <2>1, <2>2
<1>11. checkpoint'[e].next = IF o.cycle.number # c.number THEN k.next + 1 ELSE k.next
  BY ZenonT(40), <1>8 DEF Checkpoint
<1> HIDE DEF k0, c0
<1> QED
  BY ZenonT(40), <1>7, <1>8, <1>9, <1>10, <1>11

\* A tick with a cycle open: the image it leaves holds only what is kept, and
\* one that ends a refusal holds everything.
LEMMA CyclePlaces ==
    ASSUME TypeOK, TypeOK', ImagesInv, NEW e \in Executors, NEW s, NEW sweep,
           TickStart(e, s, sweep), phase[e] = "serving", TickCycle(e, s, sweep),
           WriterStill, ExecPlaces(e)
    PROVE  ExecPlaces(e)' /\ Keeps(e)
<1>0. /\ HeardBehind(e) /\ Promised(e) /\ RefusalClean(e) /\ StopLast(e)
      /\ ImagesNumbered(e) /\ ImagesBehind(e)
      /\ images[e] \in SUBSET Image /\ cycle[e] \in Cycle /\ cycle[e].waiting \in Nat
      /\ proven[e] \subseteq Nat /\ granted[e] \subseteq Nat
      /\ progress[e] \in Seq(Progress) /\ checkpoint[e].next \in Nat
  BY Zenon DEF TypeOK, ExecTypeOK, SharedTypeOK, ExecPlaces, Cycle, Checkpoint
<1>1. /\ s \in SyncState /\ sweep \in Seq(ToWriter)
      /\ sync[e].batch \in Nat /\ s.batch \in Nat /\ sync[e].batch <= s.batch
      /\ s.durableBatch = sync[e].durableBatch /\ s.durableBatch \in Nat
      /\ s.refusing = sync[e].refusing
      /\ s.refusing => s = sync[e]
  BY ZenonT(40), StartFacts
<1>2. PICK c \in Cycle, nx \in Nat : \E o \in Step(c, nx, s) :
        /\ c.open /\ c.number < nx /\ checkpoint[e].next <= nx /\ c.through <= s.batch
        /\ c = cycle[e] \/ (~cycle[e].open /\ c = Fresh(checkpoint[e].next, s.batch))
        /\ \A jm \in SureImages(e) : jm.cycle < c.number /\ jm.through <= c.through
        /\ images'[e] = {im \in images[e] : im.cycle # c.number} \cup o.image
        /\ cycle'[e] = IF o.done THEN NoCycle ELSE o.cycle
        /\ checkpoint'[e].next = IF o.cycle.number # c.number THEN nx + 1 ELSE nx
        /\ sync'[e] = [s EXCEPT !.refusing = s.refusing /\ ~o.done]
        /\ proven'[e] = IF o.done THEN proven[e] \cup 1 .. c.through ELSE proven[e]
        /\ UNCHANGED <<phase, granted, progress>>
  BY Zenon, <1>1, CycleFacts
<1>3. PICK o \in Step(c, nx, s) :
        /\ c.open /\ c.number < nx /\ checkpoint[e].next <= nx /\ c.through <= s.batch
        /\ c = cycle[e] \/ (~cycle[e].open /\ c = Fresh(checkpoint[e].next, s.batch))
        /\ \A jm \in SureImages(e) : jm.cycle < c.number /\ jm.through <= c.through
        /\ images'[e] = {im \in images[e] : im.cycle # c.number} \cup o.image
        /\ cycle'[e] = IF o.done THEN NoCycle ELSE o.cycle
        /\ checkpoint'[e].next = IF o.cycle.number # c.number THEN nx + 1 ELSE nx
        /\ sync'[e] = [s EXCEPT !.refusing = s.refusing /\ ~o.done]
        /\ proven'[e] = IF o.done THEN proven[e] \cup 1 .. c.through ELSE proven[e]
        /\ UNCHANGED <<phase, granted, progress>>
  BY ZenonT(40), <1>2
<1>4. /\ c.number \in Nat /\ c.through \in Nat /\ c.waiting \in Nat
      /\ sync'[e].batch = s.batch /\ sync'[e].durableBatch = s.durableBatch
      /\ sync'[e].held = s.held /\ sync'[e].sent = s.sent
      /\ sync'[e].refusing <=> (s.refusing /\ ~o.done)
      /\ checkpoint'[e].next \in Nat /\ nx <= checkpoint'[e].next
  <2>1. /\ sync'[e].batch = s.batch /\ sync'[e].durableBatch = s.durableBatch
        /\ sync'[e].held = s.held /\ sync'[e].sent = s.sent
        /\ sync'[e].refusing = (s.refusing /\ ~o.done)
    BY ZenonT(40), <1>1, <1>3 DEF SyncState
  <2>2. c.number \in Nat /\ c.through \in Nat /\ c.waiting \in Nat
    BY Zenon DEF Cycle
  <2>3. checkpoint'[e].next \in Nat /\ nx <= checkpoint'[e].next
    <3>1. checkpoint'[e].next = IF o.cycle.number # c.number THEN nx + 1 ELSE nx
      BY ZenonT(40), <1>3
    <3> QED
      BY <3>1
  <2> QED
    BY ZenonT(40), <2>1, <2>2, <2>3
<1>5. /\ o.cycle.open
      /\ o.cycle.through = c.through
      /\ o.cycle.number \in {c.number, nx}
      /\ o.done => /\ o.cycle.number = c.number
                   /\ ~o.ask /\ ~o.fails
                   /\ \E u : o.image = {[cycle |-> c.number, through |-> c.through,
                                        upto |-> u, sure |-> TRUE]}
      /\ ~o.done => \A im \in o.image : ~im.sure
  <2>1. s \in SyncState /\ c.open
    BY ZenonT(40), <1>1, <1>3
  <2> QED
    BY Zenon, <2>1, StepShape
<1>6. /\ NoCycle.waiting = 0 /\ ~NoCycle.open /\ ~NoCycle.dirPending
      /\ c.dirPending => /\ c = cycle[e] /\ c.ended
                         /\ \A i \in 1 .. c.waiting : i <= c.through \/ Kept(e, i)
      /\ c.waiting <= s.batch
      /\ c = cycle[e] \/ (c.number = checkpoint[e].next /\ c.through = s.batch)
  <2>1. NoCycle.waiting = 0 /\ ~NoCycle.open /\ ~NoCycle.dirPending
    BY Zenon DEF NoCycle, Fresh
  <2>2. CASE c = cycle[e]
    BY SMTT(30), <1>0, <1>1, <2>1, <2>2 DEF ImagesBehind, HeardBehind
  <2>3. CASE c = Fresh(checkpoint[e].next, s.batch)
    BY SMTT(30), <1>1, <2>1, <2>3 DEF Fresh
  <2> QED
    BY ZenonT(40), <1>3, <2>2, <2>3
<1>7. PICK w \in Nat : w = (IF c.ended THEN c.waiting ELSE s.batch) /\ w <= s.batch
  BY SMTT(30), <1>1, <1>4, <1>6
<1>8. /\ \A im \in o.image : im.cycle = c.number /\ im.through = c.through /\ im.upto = w
      /\ o.image # {} => c.dirPending \/ w = c.through \/ w <= s.durableBatch
      /\ o.cycle.waiting \in {0, c.waiting, w}
      /\ o.cycle.dirPending =>
            /\ o.cycle.waiting = w /\ o.cycle.ended
            /\ c.dirPending \/ w = c.through \/ w <= s.durableBatch
  BY <1>1, <1>6, <1>7, StepFooted
<1>9. s.refusing => c.through = s.batch
  BY ZenonT(40), <1>0, <1>1, <1>3, <1>6 DEF RefusalClean
<1>10. /\ SureImages(e) \subseteq SureImages(e)'
       /\ \A im \in images'[e] : \/ im \in images[e] /\ im.cycle # c.number
                                 \/ im \in o.image
       /\ \A jm \in SureImages(e)' : jm \in SureImages(e) \/ (o.done /\ jm \in o.image)
       /\ o.done => \E jm \in SureImages(e)' : jm.through = c.through
  <2>1. /\ \A im \in images'[e] : \/ im \in images[e] /\ im.cycle # c.number
                                  \/ im \in o.image
        /\ \A im \in images[e] : im.cycle # c.number => im \in images'[e]
        /\ \A im \in o.image : im \in images'[e]
    BY ZenonT(40), <1>3
  <2>2. \A jm \in SureImages(e) : jm.cycle # c.number
    BY <1>0, <1>3, <1>4 DEF SureImages, Image
  <2>3. SureImages(e) \subseteq SureImages(e)'
    BY ZenonT(40), <2>1, <2>2 DEF SureImages
  <2>4. \A jm \in SureImages(e)' : jm \in SureImages(e) \/ (o.done /\ jm \in o.image)
    BY ZenonT(40), <1>5, <2>1 DEF SureImages
  <2>5. o.done => \E jm \in SureImages(e)' : jm.through = c.through
    <3> SUFFICES ASSUME o.done PROVE \E jm \in SureImages(e)' : jm.through = c.through
      BY Zenon
    <3>1. PICK u : o.image = {[cycle |-> c.number, through |-> c.through, upto |-> u, sure |-> TRUE]}
      BY ZenonT(40), <1>5
    <3> QED
      BY <2>1, <3>1 DEF SureImages
  <2> QED
    BY ZenonT(40), <2>1, <2>3, <2>4, <2>5
<1>11. Keeps(e)
  BY ZenonT(40), <1>10 DEF Keeps, Kept, Imaged, OnDisk, WriterStill
<1>12. /\ o.done => \A i \in 1 .. c.through : Imaged(e, i)'
       /\ s.refusing /\ o.done => \A i \in 1 .. s.batch : Imaged(e, i)'
  <2>1. o.done => \A i \in 1 .. c.through : Imaged(e, i)'
    BY <1>4, <1>10 DEF Imaged
  <2> QED
    BY ZenonT(40), <1>9, <2>1
<1>13. (c.dirPending \/ w = c.through \/ w <= s.durableBatch)
         => \A i \in 1 .. w : i <= c.through \/ Kept(e, i)
  <2>1. CASE c.dirPending
    BY ZenonT(40), <1>6, <1>7, <2>1
  <2>2. CASE w = c.through
    BY <1>4, <2>2
  <2>3. CASE w <= s.durableBatch
    <3>1. CASE s.refusing
      BY SMTT(30), <1>1, <1>4, <1>7, <1>9, <3>1
    <3>2. CASE ~s.refusing
      BY SMTT(30), <1>0, <1>1, <2>3, <3>2 DEF Promised, KeptTo
    <3> QED
      BY ZenonT(40), <3>1, <3>2
  <2> QED
    BY ZenonT(40), <2>1, <2>2, <2>3
<1>14. RefusalClean(e)'
  BY ZenonT(40), <1>0, <1>1, <1>3, <1>4, <1>5, <1>9 DEF RefusalClean
<1>15. HeardBehind(e)'
  <2>1. cycle'[e].waiting <= s.batch
    BY SMTT(30), <1>1, <1>3, <1>6, <1>7, <1>8
  <2>2. \A k \in DOMAIN progress[e] : progress[e][k].type = "Durable" =>
          progress[e][k].through \in Nat /\ progress[e][k].through <= s.batch
    <3>1. \A k \in DOMAIN progress[e] :
            progress[e][k].type = "Durable" => progress[e][k].through \in Nat
      BY <1>0 DEF Progress, Fault, Nudge, Stopped
    <3> QED
      BY SMTT(30), <1>0, <1>1, <3>1 DEF HeardBehind
  <2> QED
    BY SMTT(30), <1>0, <1>1, <1>3, <1>4, <2>1, <2>2 DEF HeardBehind
<1>16. ImagesNumbered(e)'
  <2>1. \A im \in images[e] : im.cycle \in Nat /\ im.through \in Nat
    BY ZenonT(40), <1>0 DEF Image
  <2>2. \A im \in images[e] : im.cycle < nx /\ im.cycle <= c.number
    BY SMTT(30), <1>0, <1>3, <1>4, <1>6, <2>1 DEF ImagesNumbered
  <2>3. \A im \in images'[e] : im.cycle < nx /\ im.cycle <= c.number /\ im.cycle \in Nat
    BY SMTT(30), <1>3, <1>4, <1>8, <1>10, <2>1, <2>2
  <2>4. cycle'[e].open => c.number <= cycle'[e].number /\ cycle'[e].number \in Nat
    BY SMTT(30), <1>3, <1>4, <1>5, <1>6
  <2>5. \A im \in images'[e] : /\ im.cycle < checkpoint'[e].next
                               /\ cycle'[e].open => im.cycle <= cycle'[e].number
    BY SMTT(30), <1>4, <2>3, <2>4
  <2>6. ASSUME NEW im \in images'[e], NEW jm \in SureImages(e)', jm.cycle <= im.cycle
        PROVE  jm.through <= im.through
    <3>1. CASE im \in o.image
      BY SMTT(30), <1>3, <1>4, <1>8, <1>10, <3>1
    <3>2. CASE im \in images[e] /\ im.cycle # c.number
      <4>1. jm \in SureImages(e)
        BY SMTT(30), <1>4, <1>8, <1>10, <2>1, <2>2, <2>6, <3>2
      <4> QED
        BY ZenonT(40), <1>0, <2>6, <3>2, <4>1 DEF ImagesNumbered
    <3> QED
      BY ZenonT(40), <1>10, <3>1, <3>2
  <2> QED
    BY ZenonT(40), <2>5, <2>6 DEF ImagesNumbered
<1>17. ImagesBehind(e)'
  <2>1. ASSUME NEW im \in images'[e], NEW i \in 1 .. im.upto
        PROVE  i <= im.through \/ Kept(e, i)'
    <3>1. CASE im \in o.image
      BY SMTT(30), <1>8, <1>11, <1>13, <2>1, <3>1 DEF Keeps
    <3>2. CASE im \in images[e]
      <4>1. i \in Nat
        BY SMTT(30), <1>0, <3>2 DEF Image
      <4> QED
        BY ZenonT(40), <1>0, <1>11, <2>1, <3>2, <4>1 DEF ImagesBehind, Keeps
    <3> QED
      BY ZenonT(40), <1>10, <3>1, <3>2
  <2>2. ASSUME cycle'[e].dirPending
        PROVE  /\ cycle'[e].ended
               /\ \A i \in 1 .. cycle'[e].waiting : i <= cycle'[e].through \/ Kept(e, i)'
    <3>1. cycle'[e] = o.cycle
      BY ZenonT(40), <1>3, <1>6, <2>2
    <3>2. /\ o.cycle.waiting = w /\ o.cycle.ended /\ o.cycle.through = c.through
          /\ c.dirPending \/ w = c.through \/ w <= s.durableBatch
      BY ZenonT(40), <1>5, <1>8, <2>2, <3>1
    <3>3. \A i \in 1 .. w : i <= c.through \/ Kept(e, i)'
      BY SMTT(30), <1>11, <1>13, <3>2 DEF Keeps
    <3> QED
      BY ZenonT(40), <3>1, <3>2, <3>3
  <2> QED
    BY ZenonT(40), <2>1, <2>2 DEF ImagesBehind
<1>18. Promised(e)'
  <2>1. \A b \in proven'[e] \cup granted'[e] : KeptTo(e, b)'
    <3>1. \A b \in proven[e] \cup granted[e] : KeptTo(e, b)'
      BY SMTT(30), <1>0, <1>11 DEF Promised, KeptTo, Keeps
    <3>2. o.done => \A b \in 1 .. c.through : KeptTo(e, b)'
      BY <1>4, <1>12 DEF KeptTo, Kept
    <3> QED
      BY ZenonT(40), <1>3, <3>1, <3>2
  <2>2. ASSUME NEW b \in Nat, b <= s.batch, KeptTo(e, b) \/ sync[e].refusing
        PROVE  sync'[e].refusing \/ KeptTo(e, b)'
    <3>1. CASE KeptTo(e, b)
      BY SMTT(30), <1>11, <2>2, <3>1 DEF KeptTo, Keeps
    <3>2. CASE s.refusing /\ o.done
      BY SMTT(30), <1>1, <1>12, <2>2, <3>2 DEF KeptTo, Kept
    <3> QED
      BY ZenonT(40), <1>1, <1>4, <2>2, <3>1, <3>2
  <2>3. \A k \in DOMAIN progress'[e] : progress'[e][k].type = "Durable" =>
          (ToldBefore(e, k) \/ KeptTo(e, progress[e][k].through))'
    <3> SUFFICES ASSUME NEW k \in DOMAIN progress[e], progress[e][k].type = "Durable"
                 PROVE  (ToldBefore(e, k) \/ KeptTo(e, progress[e][k].through))'
      BY ZenonT(40), <1>3
    <3>1. PICK t \in Nat : t = progress[e][k].through /\ t <= s.batch
      <4>1. progress[e][k].through \in Nat
        BY <1>0 DEF Progress, Fault, Nudge, Stopped
      <4> QED
        BY SMTT(30), <1>0, <1>1, <4>1 DEF HeardBehind
    <3>2. CASE \E j \in 1 .. k - 1 : progress[e][j] = Fault
      BY ZenonT(40), <1>3, <3>2 DEF ToldBefore
    <3>3. CASE sync[e].refusing \/ KeptTo(e, t)
      <4>1. sync'[e].refusing \/ KeptTo(e, t)'
        BY ZenonT(40), <2>2, <3>1, <3>3
      <4> QED
        BY ZenonT(40), <1>3, <3>1, <4>1 DEF ToldBefore, KeptTo
    <3> QED
      BY ZenonT(40), <1>0, <3>1, <3>2, <3>3 DEF Promised, ToldBefore
  <2>4. \A k \in DOMAIN progress'[e] : progress'[e][k] # Stopped
    BY ZenonT(40), <1>0, <1>3 DEF StopLast
  <2>5. (sync[e].refusing \/ KeptTo(e, sync[e].durableBatch))'
    <3>1. s.durableBatch <= s.batch /\ (KeptTo(e, s.durableBatch) \/ sync[e].refusing)
      BY SMTT(30), <1>0, <1>1 DEF HeardBehind, Promised
    <3>2. sync'[e].refusing \/ KeptTo(e, s.durableBatch)'
      BY ZenonT(40), <1>1, <2>2, <3>1
    <3> QED
      BY ZenonT(40), <1>4, <3>2 DEF KeptTo
  <2>6. phase'[e] # "ended"
    BY ZenonT(40), <1>3
  <2> QED
    BY ZenonT(40), <2>1, <2>3, <2>4, <2>5, <2>6 DEF Promised
<1>19. Told(e) => Told(e)' \/ \A i \in 1 .. sync'[e].batch : Imaged(e, i)'
  BY ZenonT(40), <1>1, <1>3, <1>4, <1>12 DEF Told, FaultQueued
<1>20. \A k \in DOMAIN progress'[e] :
         progress'[e][k] = Stopped => phase'[e] \in {"stopping", "ended"}
  BY ZenonT(40), <1>0, <1>3 DEF StopLast
<1>21. PICK sent \in Seq(ToWriter) : SentByTick(e, sent) /\ inbox' = inbox \o sweep \o sent
  BY ZenonT(40), <1>1, TickTypes
<1>22. PICK new \in Seq(ToWriter) : Grows(e, new)
  BY ZenonT(40), <1>3, <1>4, <1>21, TickGrows
<1> QED
  BY ZenonT(40), <1>11, <1>14, <1>15, <1>16, <1>17, <1>18, <1>19, <1>20, <1>22, OwnPlaces

\* A tick, with a cycle or without, after a sweep or not.
LEMMA TickPlaces ==
    ASSUME TypeOK, TypeOK', ImagesInv, NEW e \in Executors, TickMoves(e) \/ SweepMoves(e),
           ExecPlaces(e)
    PROVE  ExecPlaces(e)' /\ Keeps(e)
<1>1. ASSUME NEW s, NEW sweep, TickStart(e, s, sweep), phase[e] = "serving", WriterStill,
             TickCycle(e, s, sweep) \/ TickIdle(e, s, sweep)
      PROVE  ExecPlaces(e)' /\ Keeps(e)
  <2>1. CASE TickCycle(e, s, sweep)
    BY ZenonT(40), <1>1, <2>1, CyclePlaces
  <2>2. CASE TickIdle(e, s, sweep)
    <3>1. Keeps(e)
      BY ZenonT(40), <1>1, <2>2 DEF TickIdle, Keeps, Kept, Imaged, OnDisk, SureImages, WriterStill
    <3> QED
      BY ZenonT(40), <1>1, <2>2, <3>1, IdlePlaces
  <2> QED
    BY ZenonT(40), <1>1, <2>1, <2>2
<1>2. WriterStill
  BY ZenonT(40) DEF TickMoves, SweepMoves, ExecFrame, WriterStill
<1>3. CASE TickMoves(e)
  <2>1. /\ phase[e] = "serving"
        /\ TickCycle(e, sync[e], <<>>) \/ TickIdle(e, sync[e], <<>>)
    BY ZenonT(40), <1>3 DEF TickMoves, Tick
  <2>2. TickStart(e, sync[e], <<>>)
    BY Zenon DEF TickStart
  <2> QED
    BY ZenonT(40), <1>1, <1>2, <2>1, <2>2
<1>4. CASE SweepMoves(e)
  <2> DEFINE s == Submitted(sync[e])
             sweep == <<Submit(e, sync[e].batch + 1)>>
  <2>1. s.batch = sync[e].batch + 1
    BY ZenonT(40), SubmittedType DEF TypeOK, ExecTypeOK
  <2>2. /\ phase[e] = "serving" /\ ~sync[e].refusing
        /\ TickCycle(e, s, sweep) \/ TickIdle(e, s, sweep)
    BY ZenonT(40), <1>4, <2>1 DEF SweepMoves, SweepTick, MayAppend
  <2>3. TickStart(e, s, sweep)
    BY ZenonT(40), <2>2 DEF TickStart
  <2> HIDE DEF s, sweep
  <2> QED
    BY ZenonT(40), <1>1, <1>2, <2>2, <2>3
<1> QED
  BY ZenonT(40), <1>3, <1>4

-----------------------------------------------------------------------------
(* All of them. *)

\* The executors' half: the invariant is kept by every step of every executor.
LEMMA ExecKeepsPlaces ==
    ASSUME TypeOK, TypeOK', ImagesInv, PlacesInv, NEW e \in Executors, ExecMoves(e)
    PROVE  PlacesInv'
<1>1. WriterStill
  BY Zenon DEF ExecMoves, ServeMoves, HearMoves, TickMoves, SweepMoves, StopMoves, ExecFrame, WriterStill
<1>2. ExecPlaces(e)
  BY ZenonT(40) DEF PlacesInv
<1>3. ExecPlaces(e)' /\ Keeps(e)
  <2>1. CASE ServeMoves(e) \/ HearMoves(e) \/ StopMoves(e)
    <3>1. images' = images
      BY ZenonT(40), <2>1 DEF ServeMoves, Serve, ServeWrite, ServeExpired, Save, BgSave, Asked,
                  HearMoves, HearWriter, Hear, HearStopped, StopMoves, StopSeen, SendStop
    <3>2. Keeps(e)
      BY ZenonT(40), <1>1, <3>1 DEF Keeps, Kept, Imaged, OnDisk, SureImages, WriterStill
    <3> QED
      BY ZenonT(40), <1>2, <2>1, <3>2, ServePlaces, HearPlaces, StopPlaces
  <2>2. CASE TickMoves(e) \/ SweepMoves(e)
    BY ZenonT(40), <1>2, <2>2, TickPlaces
  <2> QED
    BY ZenonT(40), <2>1, <2>2 DEF ExecMoves
<1>4. Apart(e) /\ \E new \in Seq(ToWriter) : SendsOwn(e, new)
  BY ZenonT(40), ExecReach
<1>5. ASSUME NEW f \in Executors PROVE ExecPlaces(f)' /\ Keeps(f)
  <2>1. CASE f = e
    BY ZenonT(40), <1>3, <2>1
  <2>2. CASE f # e
    <3>1. PICK new \in Seq(ToWriter) : SendsOwn(e, new)
      BY ZenonT(40), <1>4
    <3>2. images'[f] = images[f] /\ ExecPlaces(f)
      BY ZenonT(40), <1>4, <2>2 DEF Apart, PlacesInv
    <3>3. Keeps(f)
      BY ZenonT(40), <1>1, <3>2 DEF Keeps, Kept, Imaged, OnDisk, SureImages, WriterStill
    <3> QED
      BY ZenonT(40), <1>1, <1>4, <2>2, <3>1, <3>2, <3>3, OthersPlaces
  <2> QED
    BY ZenonT(40), <2>1, <2>2
<1>6. UNCHANGED <<pc, lanes, staged, segment, inflight, closed, written, dropped>>
  BY ZenonT(40), <1>1 DEF WriterStill, writerVars
<1>7. FilesOrdered' /\ BetweenDrains'
  BY ZenonT(40), <1>6 DEF PlacesInv, FilesOrdered, BetweenDrains
<1>8. RoundSound'
  <2>1. \A t \in Triple : Kept(t[2], t[3]) => Kept(t[2], t[3])'
    BY ZenonT(40), <1>5, TriplesKept
  <2>2. written \subseteq Triple /\ inflight.covers \subseteq Triple
    BY ZenonT(40) DEF TypeOK, SharedTypeOK, WriterTypeOK, InFlight
  <2> QED
    BY ZenonT(40), <1>6, <2>1, <2>2 DEF PlacesInv, RoundSound
<1> QED
  BY ZenonT(40), <1>5, <1>7, <1>8 DEF PlacesInv

\* Nothing was sent, written or promised at the start.
LEMMA PlacesInit == Init => PlacesInv
<1> SUFFICES ASSUME Init PROVE PlacesInv
  BY ZenonT(40)
<1>1. /\ inbox = <<>> /\ written = {} /\ dropped = {} /\ staged = <<>> /\ closed = <<>>
      /\ pc = "select" /\ inflight = NoSync
      /\ segment = [rotation |-> 0, attempted |-> 0, bytes |-> 0, dirty |-> FALSE, failed |-> FALSE]
  BY ZenonT(40) DEF Init, SharedInit, WriterInit
<1>2. FilesOrdered /\ BetweenDrains /\ RoundSound
  BY <1>1 DEF FilesOrdered, BetweenDrains, RoundSound, NoSync
<1>3. ASSUME NEW e \in Executors PROVE ExecPlaces(e)
  <2>1. /\ progress[e] = <<>> /\ images[e] = {} /\ lanes[e] = NewLane
        /\ phase[e] = "serving" /\ cycle[e] = NoCycle /\ proven[e] = {} /\ granted[e] = {}
        /\ sync[e].batch = 0 /\ sync[e].durableBatch = 0 /\ ~sync[e].refusing
        /\ NoSync.frozen[e] = 0
    BY ZenonT(40) DEF Init, SharedInit, WriterInit, ExecInit, NoSync
  <2>2. /\ lanes[e].received = 0 /\ lanes[e].written = 0 /\ ~lanes[e].stopped
        /\ cycle[e].waiting = 0 /\ ~cycle[e].open /\ ~cycle[e].dirPending
    BY SMTT(30), <2>1 DEF NewLane, NoCycle, Fresh
  <2>3. DOMAIN inbox = {} /\ DOMAIN staged = {} /\ DOMAIN progress[e] = {}
    BY SMTT(30), <1>1, <2>1
  <2>4. LaneBehind(e) /\ QueueOrdered(e) /\ HeardBehind(e) /\ StopLast(e)
    BY SMTT(30), <1>1, <2>1, <2>2, <2>3 DEF LaneBehind, QueueOrdered, HeardBehind, StopLast
  <2>5. RefusalClean(e) /\ ImagesNumbered(e) /\ ImagesBehind(e)
    BY ZenonT(40), <2>1, <2>2 DEF RefusalClean, ImagesNumbered, ImagesBehind, SureImages
  <2>6. Placed(e)
    BY SMTT(30), <1>1, <2>1, <2>2 DEF Placed, WrittenPlaced, RoundPlaced, StagedPlaced, QueuedPlaced
  <2>7. Promised(e)
    BY <2>1, <2>3 DEF Promised, KeptTo
  <2> QED
    BY ZenonT(40), <2>4, <2>5, <2>6, <2>7 DEF ExecPlaces
<1> QED
  BY ZenonT(40), <1>2, <1>3 DEF PlacesInv

\* Every step of the node leaves every batch somewhere.
LEMMA PlacesNext ==
    TypeOK /\ TypeOK' /\ ImagesInv /\ ImagesInv' /\ WritesClean /\ PlacesInv /\ [Next]_vars
        => PlacesInv'
<1> SUFFICES ASSUME TypeOK, TypeOK', ImagesInv, ImagesInv', WritesClean, PlacesInv, [Next]_vars
             PROVE  PlacesInv'
  BY Zenon
<1>1. CASE WriterMoves \/ DiskMoves
  <2>1. WriterNext /\ UNCHANGED execVars
    BY Zenon, <1>1 DEF WriterMoves, DiskMoves, WriterNext
  <2> QED
    BY ZenonT(40), <2>1, WriterKeepsPlaces
<1>2. ASSUME NEW e \in Executors, ExecMoves(e) PROVE PlacesInv'
  BY ZenonT(40), <1>2, ExecKeepsPlaces
<1>3. CASE RequestStop \/ UNCHANGED vars
  <2>1. UNCHANGED <<sharedVars, writerVars, execVars>>
    BY ZenonT(40), <1>3 DEF RequestStop, vars
  <2>2. UNCHANGED <<inbox, progress, written, synced, dropped, images, pc, lanes, segment, staged,
                    inflight, closed, phase, sync, checkpoint, cycle, proven, granted>>
    BY ZenonT(40), <2>1 DEF sharedVars, writerVars, execVars
  <2>3. FilesOrdered' /\ BetweenDrains'
    BY ZenonT(40), <2>2 DEF PlacesInv, FilesOrdered, BetweenDrains
  <2>4. RoundSound'
    BY ZenonT(40), <2>2 DEF PlacesInv, RoundSound, Kept, Imaged, OnDisk, SureImages
  <2>5. ASSUME NEW e \in Executors PROVE ExecPlaces(e)'
    <3>1. ExecPlaces(e)
      BY ZenonT(40) DEF PlacesInv
    <3>2. LaneBehind(e)' /\ QueueOrdered(e)' /\ HeardBehind(e)' /\ StopLast(e)'
      <4>1. LaneBehind(e)' /\ HeardBehind(e)'
        BY ZenonT(40), <2>2, <3>1 DEF ExecPlaces, LaneBehind, HeardBehind
      <4>2. QueueOrdered(e)'
        BY ZenonT(40), <2>2, <3>1 DEF ExecPlaces, QueueOrdered
      <4>3. StopLast(e)'
        BY ZenonT(40), <2>2, <3>1 DEF ExecPlaces, StopLast
      <4> QED
        BY Zenon, <4>1, <4>2, <4>3
    <3>3. RefusalClean(e)' /\ ImagesNumbered(e)' /\ ImagesBehind(e)'
      BY ZenonT(40), <2>2, <3>1 DEF ExecPlaces, RefusalClean, ImagesNumbered, ImagesBehind, Kept, Imaged,
                        OnDisk, SureImages
    <3>4. Placed(e)'
      BY Zenon, <2>2, <3>1 DEF ExecPlaces, Placed, Told, FaultQueued, WrittenPlaced, RoundPlaced,
                        StagedPlaced, QueuedPlaced, UnderSync, InSegment, Kept, Imaged, OnDisk,
                        SureImages
    <3>5. Promised(e)'
      BY ZenonT(40), <2>2, <3>1 DEF ExecPlaces, Promised, ToldBefore, KeptTo, Kept, Imaged, OnDisk, SureImages
    <3> QED
      BY ZenonT(40), <3>2, <3>3, <3>4, <3>5 DEF ExecPlaces
  <2> QED
    BY ZenonT(40), <2>3, <2>4, <2>5 DEF PlacesInv
<1> QED
  BY ZenonT(40), <1>1, <1>2, <1>3 DEF Next

\* Every batch an executor ever sent is in a durable image, on disk, under the
\* round in flight, in the open segment, staged or queued - or the executor knows,
\* or will hear, that it is not; and whatever the node has said, or is about to
\* say, of a batch is backed by an image or by the disk.
THEOREM PlacesHold == Spec => []PlacesInv
<1>1. Spec => []TypeOK /\ []ImagesInv
  BY TypeCorrect, ImagesHold, PTL
<1>2. Init => WritesClean
  BY Zenon DEF Init, WriterInit, WritesClean
<1>3. Spec => []WritesClean
  BY <1>1, <1>2, CleanNext, PTL DEF Spec
<1> QED
  BY <1>1, <1>3, PlacesInit, PlacesNext, PTL DEF Spec

-----------------------------------------------------------------------------
(* What follows. *)

\* What is kept is found by the next start, whichever image it reads.
LEMMA KeptRecovers ==
    ASSUME TypeOK, NEW e \in Executors, ImagesNumbered(e), NEW im \in Candidates(e),
           NEW i \in Nat \ {0}, Kept(e, i)
    PROVE  i <= im.through \/ OnDisk(e, i)
<1> SUFFICES ASSUME NEW jm \in SureImages(e), i <= jm.through PROVE i <= im.through
  BY Zenon DEF Kept, Imaged
<1>1. im \in images[e] /\ jm.cycle <= im.cycle
  BY Zenon DEF Candidates
<1>2. jm.through <= im.through
  BY ZenonT(40), <1>1 DEF ImagesNumbered
<1>3. jm.through \in Nat /\ im.through \in Nat
  BY <1>1 DEF TypeOK, SharedTypeOK, SureImages, Image
<1> QED
  BY <1>2, <1>3

\* What the node has said survives a crash of the node at any moment.
LEMMA SurvivalFollows ==
    ASSUME TypeOK, PlacesInv
    PROVE  ProvenSurvives /\ AcknowledgedSurvives /\ ImageNotAheadOfLog /\ CleanStopKeepsAll
<1>0. ASSUME NEW e \in Executors
      PROVE  /\ ImagesNumbered(e) /\ Promised(e) /\ ImagesBehind(e)
             /\ proven[e] \cup granted[e] \subseteq Nat /\ sync[e].batch \in Nat
             /\ \A im \in images[e] : im.upto \in Nat
  BY DEF PlacesInv, ExecPlaces, TypeOK, ExecTypeOK, SharedTypeOK, SyncState, Image
<1>1. ASSUME NEW e \in Executors, NEW b \in Nat, KeptTo(e, b), NEW im \in Candidates(e)
      PROVE  Recovers(e, im, b)
  BY <1>0, <1>1, KeptRecovers DEF KeptTo, Recovers
<1>2. ProvenSurvives
  BY ZenonT(40), <1>0, <1>1 DEF ProvenSurvives, Promised
<1>3. AcknowledgedSurvives
  BY ZenonT(40), <1>0, <1>1 DEF AcknowledgedSurvives, Promised
<1>4. CleanStopKeepsAll
  BY ZenonT(40), <1>0, <1>1 DEF CleanStopKeepsAll, Promised
<1>5. ImageNotAheadOfLog
  <2> SUFFICES ASSUME NEW e \in Executors, NEW im \in Candidates(e), NEW i \in 1 .. im.upto
               PROVE  i <= im.through \/ OnDisk(e, i)
    BY Zenon DEF ImageNotAheadOfLog, Recovers
  <2>1. CASE im \in images[e]
    <3>1. i \in Nat \ {0}
      BY <1>0, <2>1
    <3>2. i <= im.through \/ Kept(e, i)
      BY ZenonT(40), <1>0, <2>1 DEF ImagesBehind
    <3> QED
      BY ZenonT(40), <1>0, <3>1, <3>2, KeptRecovers
  <2>2. CASE im = NoImage
    BY <2>2 DEF NoImage
  <2> QED
    BY ZenonT(40), <2>1, <2>2 DEF Candidates
<1> QED
  BY ZenonT(40), <1>2, <1>3, <1>4, <1>5

\* What an executor counts durable, by a `Durable` or by a finished image,
\* survives a crash at any moment, whichever image the next start reads.
THEOREM ProvenIsDurable == Spec => []ProvenSurvives
BY TypeCorrect, PlacesHold, SurvivalFollows, PTL

\* A write whose held reply went out as its own survives a crash at any moment.
THEOREM AcknowledgedIsDurable == Spec => []AcknowledgedSurvives
BY TypeCorrect, PlacesHold, SurvivalFollows, PTL

\* No image a start could read holds a batch that is neither in its bases nor in
\* the log to be replayed over it.
THEOREM ImageBehindLog == Spec => []ImageNotAheadOfLog
BY TypeCorrect, PlacesHold, SurvivalFollows, PTL

\* An executor that stopped without refusing left everything it ever sent to the
\* next start, under every policy.
THEOREM CleanStopIsDurable == Spec => []CleanStopKeepsAll
BY TypeCorrect, PlacesHold, SurvivalFollows, PTL

\* While an executor serves writes and no `Fault` is on its way to it, every
\* batch it ever sent is durable or still on its way to the disk.
THEOREM NoSilentLoss == Spec => []NothingLostInSilence
<1>1. ASSUME TypeOK, PlacesInv PROVE NothingLostInSilence
  <2> SUFFICES ASSUME NEW e \in Executors, ~sync[e].refusing, ~FaultQueued(e),
                      inflight.result # "err", NEW b \in 1 .. sync[e].batch
               PROVE  \/ \E im \in SureImages(e) : b <= im.through
                      \/ OnDisk(e, b)
                      \/ OnItsWay(e, b)
    BY ZenonT(40) DEF NothingLostInSilence
  <2>1. /\ WrittenPlaced(e) /\ StagedPlaced(e) /\ QueuedPlaced(e) /\ RoundSound
        /\ b \in Nat /\ b # 0 /\ b <= sync[e].batch
        /\ sync[e].batch \in Nat /\ lanes[e].written \in Nat /\ lanes[e].received \in Nat
    BY SMTT(30), <1>1 DEF PlacesInv, ExecPlaces, Placed, Told, TypeOK, ExecTypeOK, SyncState, WriterTypeOK,
                Lane
  <2>2. CASE b <= lanes[e].written
    <3>1. Kept(e, b) \/ UnderSync(e, b) \/ InSegment(e, b)
      BY <2>1, <2>2 DEF WrittenPlaced
    <3>2. CASE UnderSync(e, b)
      BY ZenonT(40), <2>1, <3>2 DEF UnderSync, RoundSound, OnItsWay
    <3>3. CASE InSegment(e, b)
      <4>1. <<segment.rotation, e, b>>[1] = segment.rotation
        BY ZenonT(40)
      <4> QED
        BY ZenonT(40), <2>1, <3>3, <4>1 DEF InSegment, RoundSound, OnItsWay
    <3> QED
      BY ZenonT(40), <2>1, <3>1, <3>2, <3>3 DEF Kept, Imaged
  <2>3. CASE lanes[e].written < b /\ b <= lanes[e].received
    BY SMTT(30), <2>1, <2>3 DEF StagedPlaced, Imaged, OnItsWay
  <2>4. CASE lanes[e].received < b
    BY SMTT(30), <2>1, <2>4 DEF QueuedPlaced, Imaged, OnItsWay
  <2> QED
    BY SMTT(30), <2>1, <2>2, <2>3, <2>4
<1>2. TypeOK /\ PlacesInv => NothingLostInSilence
  BY ZenonT(40), <1>1
<1> QED
  BY <1>2, TypeCorrect, PlacesHold, PTL

=============================================================================
