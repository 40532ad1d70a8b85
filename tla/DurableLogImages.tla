-------------------------- MODULE DurableLogImages --------------------------
(***************************************************************************)
(* What an image promises in DurableLog: the invariant behind the          *)
(* promises, strong enough to be inductive, and two parts of its proof:    *)
(* the writer's steps, and a tick of an open snapshot cycle, which goes    *)
(* on, starts over under a new file number, or ends in a durable image and *)
(* the cover that tells the writer.  DurableLogPromises has the rest.      *)
(***************************************************************************)
EXTENDS DurableLogTypes

-----------------------------------------------------------------------------
(* The inductive invariant. *)

CoveredOf(m, e) == m.type = "Covered" /\ m.executor = e

\* File numbers and batches only grow: every durable image and every cover on
\* its way to the writer is of a file numbered before the open cycle's, and
\* covers no more than the bases the last cycle opened with.
CyclesGrow(e) ==
    /\ checkpoint[e].openedAt <= sync[e].batch
    /\ cycle[e].open => /\ cycle[e].number < checkpoint[e].next
                        /\ cycle[e].through = checkpoint[e].openedAt
    /\ \A im \in SureImages(e) :
          /\ im.cycle < checkpoint[e].next
          /\ cycle[e].open => im.cycle < cycle[e].number
          /\ im.through <= checkpoint[e].openedAt
    /\ \A im, jm \in SureImages(e) : im.cycle < jm.cycle => im.through <= jm.through

\* A cover on its way is of an image that is durable and still there, and the
\* covers arrive in the order of their files.
CoversBacked(e) ==
    /\ \A i \in DOMAIN inbox : CoveredOf(inbox[i], e) =>
          /\ lanes[e].covered <= inbox[i].through
          /\ \E im \in SureImages(e) :
                im.cycle = inbox[i].cycle /\ im.through = inbox[i].through
    /\ \A i, j \in DOMAIN inbox :
          (i < j /\ CoveredOf(inbox[i], e) /\ CoveredOf(inbox[j], e)) =>
              inbox[i].cycle < inbox[j].cycle
    /\ lanes[e].covered <= checkpoint[e].openedAt
    /\ lanes[e].covered > 0 => \E im \in SureImages(e) : im.through >= lanes[e].covered

\* A SAVE waits for a cycle whose bases hold what it found applied.
SavesCovered(e) ==
    /\ \A b \in saves[e].now \cup saves[e].after : b <= sync[e].batch
    /\ cycle[e].open => \A b \in saves[e].now : b <= cycle[e].through
    /\ ~cycle[e].open => saves[e].after = {}
    /\ \A b \in saved[e] : b > 0 => \E im \in SureImages(e) : im.through >= b

\* The images' half of the node's promises, strong enough to be inductive.
ImagesInv == \A e \in Executors : CyclesGrow(e) /\ CoversBacked(e) /\ SavesCovered(e)

-----------------------------------------------------------------------------
(* What the parts of a step leave alone. *)

\* Only a cover moves what the writer takes for covered.
LEMMA CoveredKept ==
    ASSUME NEW l \in Lane, NEW a, NEW b, NEW c
    PROVE  /\ LaneFailed(l).covered = l.covered
           /\ LaneWrote(l).covered = l.covered
           /\ [l EXCEPT !.durable = a, !.reported = b].covered = l.covered
           /\ [l EXCEPT !.received = a, !.pending = b].covered = l.covered
           /\ [l EXCEPT !.stopped = a].covered = l.covered
           /\ [l EXCEPT !.nudged = a].covered = l.covered
           /\ [l EXCEPT !.covered = a, !.imaged = b, !.nudged = c].covered = a
BY Zenon DEF Lane, LaneFailed, LaneWrote

\* Every step of the writer but the taking of a cover leaves the images and
\* what is covered alone, and takes at most one message.
LEMMA WriterQuiet ==
    ASSUME TypeOK, WriterNext, ~(Take /\ TakeCovered(Head(inbox)))
    PROVE  /\ images' = images
           /\ \A e \in Executors : lanes'[e].covered = lanes[e].covered
           /\ inbox' = inbox \/ (inbox # <<>> /\ inbox' = Tail(inbox))
<1>0. lanes \in [Executors -> Lane]
  BY Zenon DEF TypeOK, WriterTypeOK
<1>1. ASSUME NEW seg, Fail(seg)
      PROVE  \A e \in Executors : lanes'[e].covered = lanes[e].covered
  BY SMTT(30), <1>0, <1>1, CoveredKept DEF Fail, FailTelling
<1>2. ASSUME NEW frozen, ReportDurable(frozen)
      PROVE  \A e \in Executors : lanes'[e].covered = lanes[e].covered
  <2>1. \A e \in Executors :
          \/ lanes'[e] = [lanes[e] EXCEPT !.durable = frozen[e], !.reported = lanes[e].bytes]
          \/ lanes'[e] = lanes[e]
    BY Zenon, <1>2 DEF ReportDurable
  <2> QED
    BY ZenonT(40), <1>0, <2>1 DEF Lane
<1>3. ASSUME Settle
      PROVE  \A e \in Executors : lanes'[e].covered = lanes[e].covered
  BY Zenon, <1>1, <1>2, <1>3 DEF Settle
<1>4. ASSUME Issue \/ MarkFails \/ SkipIssue
      PROVE  \A e \in Executors : lanes'[e].covered = lanes[e].covered
  BY Zenon, <1>1, <1>4 DEF Issue, MarkFails, SkipIssue
<1>5. CASE SyncDone
  BY Zenon, <1>3, <1>5 DEF SyncDone
<1>6. CASE Take
  <2>1. inbox # <<>> /\ inbox' = Tail(inbox)
    BY Zenon, <1>6 DEF Take, CanTake
  <2>2. CASE TakeSubmit(Head(inbox))
    <3>1. Head(inbox) \in ToWriter /\ Head(inbox).executor \in Executors
      BY <2>1, <2>2 DEF TypeOK, SharedTypeOK, TakeSubmit, ToWriter, SyncNow
    <3> QED
      BY <1>0, <2>1, <2>2, <3>1, CoveredKept DEF TakeSubmit
  <2>3. CASE TakeSyncNow(Head(inbox))
    BY Zenon, <2>1, <2>3 DEF TakeSyncNow
  <2>4. CASE TakeStop(Head(inbox))
    <3>1. Head(inbox) \in ToWriter /\ Head(inbox).executor \in Executors
      BY <2>1, <2>4 DEF TypeOK, SharedTypeOK, TakeStop, ToWriter, SyncNow
    <3> QED
      BY <1>0, <2>1, <2>4, <3>1, CoveredKept DEF TakeStop
  <2> QED
    BY ZenonT(40), <1>6, <2>2, <2>3, <2>4 DEF Take
<1>7. CASE DrainEnds
  BY Zenon, <1>7 DEF DrainEnds, sharedVars
<1>8. CASE WriteStaged
  BY Zenon, <1>0, <1>8, CoveredKept DEF WriteStaged
<1>9. CASE WriteFails
  BY Zenon, <1>1, <1>9 DEF WriteFails
<1>10. CASE RotateSyncs
  BY Zenon, <1>1, <1>10 DEF RotateSyncs
<1>11. CASE RotateSwaps
  <2>1. \A e \in Executors :
          lanes'[e] = [lanes[e] EXCEPT !.nudged = lanes[e].nudged \/ e \in NudgeDue(closed')]
    BY Zenon, <1>11 DEF RotateSwaps
  <2>2. images' = images /\ inbox' = inbox
    BY Zenon, <1>11 DEF RotateSwaps
  <2> QED
    BY ZenonT(40), <1>0, <2>1, <2>2 DEF Lane
<1>12. CASE RotateFails
  BY Zenon, <1>1, <1>12 DEF RotateFails
<1>13. CASE MaybeIssue
  BY Zenon, <1>4, <1>13 DEF MaybeIssue
<1>14. CASE WriterTick
  BY Zenon, <1>4, <1>14 DEF WriterTick
<1>15. CASE LastSettles
  BY Zenon, <1>3, <1>15 DEF LastSettles
<1>16. CASE LastSyncs
  BY Zenon, <1>1, <1>2, <1>16 DEF LastSyncs
<1>17. CASE WriterEnds
  BY Zenon, <1>17 DEF WriterEnds
<1>18. CASE DiskSyncs
  BY Zenon, <1>18 DEF DiskSyncs
<1> QED
  BY ZenonT(40), <1>5, <1>6, <1>7, <1>8, <1>9, <1>10, <1>11, <1>12, <1>13, <1>14, <1>15, <1>16,
     <1>17, <1>18 DEF WriterNext, WriterStep

\* What a tick of an open cycle comes to: the same bases throughout, under the
\* same number or the next; a durable image, if it is done, of those bases; and
\* no durable image otherwise.
LEMMA StepShape ==
    ASSUME NEW c \in Cycle, NEW next \in Nat, NEW s \in SyncState, c.open,
           NEW o \in Step(c, next, s)
    PROVE  /\ o.cycle.open
           /\ o.cycle.through = c.through
           /\ o.cycle.number \in {c.number, next}
           /\ o.done => /\ o.cycle.number = c.number
                        /\ ~o.ask /\ ~o.fails
                        /\ \E u : o.image = {[cycle |-> c.number, through |-> c.through,
                                             upto |-> u, sure |-> TRUE]}
           /\ ~o.done => \A im \in o.image : ~im.sure
<1> DEFINE restarted == Fresh(next, c.through)
           scanned == [c EXCEPT !.file = TRUE, !.ticks = c.ticks + 1]
           ended == ScanEnded([c EXCEPT !.file = TRUE], s)
           footed(sure) == {[cycle |-> c.number, through |-> c.through,
                             upto |-> ended.waiting, sure |-> sure]}
           Same(x) == x.open /\ x.through = c.through /\ x.number = c.number
<1>1. Same(c) /\ Same(scanned) /\ Same(ended)
  BY Zenon DEF Cycle, ScanEnded
<1>2. Same([ended EXCEPT !.asked = TRUE]) /\ Same([ended EXCEPT !.dirPending = TRUE])
  BY Zenon DEF Cycle, ScanEnded
<1>3. restarted.open /\ restarted.through = c.through /\ restarted.number = next
  BY Zenon DEF Fresh
<1>4. \A im \in footed(FALSE) : ~im.sure
  OBVIOUS
<1>5. \E u : footed(TRUE) = {[cycle |-> c.number, through |-> c.through,
                             upto |-> u, sure |-> TRUE]}
  BY Zenon
<1>6. \/ o = Outcome(c, FALSE, footed(TRUE), TRUE, FALSE)
      \/ o = Outcome(c, FALSE, footed(FALSE), FALSE, TRUE)
      \/ o = Outcome(scanned, FALSE, {}, FALSE, FALSE)
      \/ o = Outcome(restarted, FALSE, {}, FALSE, TRUE)
      \/ o = Outcome([ended EXCEPT !.asked = TRUE], ~c.asked, {}, FALSE, FALSE)
      \/ o = Outcome(ended, FALSE, footed(TRUE), TRUE, FALSE)
      \/ o = Outcome([ended EXCEPT !.dirPending = TRUE], FALSE, footed(FALSE), FALSE, TRUE)
      \/ o = Outcome(restarted, FALSE, footed(FALSE), FALSE, TRUE)
  BY Zenon DEF Step
<1>7. PICK x, p, I, d, f :
        /\ o = Outcome(x, p, I, d, f)
        /\ Same(x) \/ (x = restarted /\ ~d)
        /\ d => ~p /\ ~f /\ I = footed(TRUE)
        /\ ~d => I = {} \/ I = footed(FALSE)
  <2> HIDE DEF restarted, scanned, ended, footed, Same
  <2> QED
    BY Zenon, <1>1, <1>2, <1>6
<1>8. o.cycle = x /\ o.ask = p /\ o.image = I /\ o.done = d /\ o.fails = f
  BY Zenon, <1>7 DEF Outcome
<1> HIDE DEF restarted, footed
<1> QED
  BY ZenonT(40), <1>3, <1>4, <1>5, <1>7, <1>8

-----------------------------------------------------------------------------
(* The invariant, step by step. *)

\* A node starts with no image, no cycle and nothing covered.
LEMMA ImagesInit == Init => ImagesInv
BY DEF Init, SharedInit, WriterInit, ExecInit, ImagesInv, CyclesGrow, CoversBacked,
       SavesCovered, SureImages, NoCycle, Fresh, NewLane

\* A step of the writer that takes no cover.
LEMMA QuietKeepsImages ==
    ASSUME TypeOK, ImagesInv, UNCHANGED execVars, images' = images,
           \A e \in Executors : lanes'[e].covered = lanes[e].covered,
           inbox' = inbox \/ (inbox # <<>> /\ inbox' = Tail(inbox))
    PROVE  ImagesInv'
<1> SUFFICES ASSUME NEW e \in Executors
             PROVE  (CyclesGrow(e) /\ CoversBacked(e) /\ SavesCovered(e))'
  BY Zenon DEF ImagesInv
<1>1. CyclesGrow(e) /\ CoversBacked(e) /\ SavesCovered(e)
  BY Zenon DEF ImagesInv
<1>2. SureImages(e)' = SureImages(e)
  BY Zenon DEF SureImages
<1>3. CyclesGrow(e)'
  BY Zenon, <1>1, <1>2 DEF CyclesGrow, execVars
<1>4. SavesCovered(e)'
  BY Zenon, <1>1, <1>2 DEF SavesCovered, execVars
<1>5. CASE inbox' = inbox
  BY ZenonT(40), <1>1, <1>2, <1>3, <1>4, <1>5 DEF CoversBacked, execVars
<1>6. CASE inbox # <<>> /\ inbox' = Tail(inbox)
  <2>1. inbox \in Seq(ToWriter)
    BY Zenon DEF TypeOK, SharedTypeOK
  <2>2. \A i \in DOMAIN inbox' : i + 1 \in DOMAIN inbox /\ inbox'[i] = inbox[i + 1]
    BY <1>6, <2>1
  <2>3. DOMAIN inbox' \subseteq Nat
    BY <1>6, <2>1
  <2>4. \A i \in DOMAIN inbox' : CoveredOf(inbox'[i], e) =>
          /\ lanes'[e].covered <= inbox'[i].through
          /\ \E im \in SureImages(e)' :
                im.cycle = inbox'[i].cycle /\ im.through = inbox'[i].through
    BY <1>1, <1>2, <2>2 DEF CoversBacked
  <2>5. \A i, j \in DOMAIN inbox' :
          (i < j /\ CoveredOf(inbox'[i], e) /\ CoveredOf(inbox'[j], e)) =>
              inbox'[i].cycle < inbox'[j].cycle
    <3> SUFFICES ASSUME NEW i \in DOMAIN inbox', NEW j \in DOMAIN inbox',
                        i < j, CoveredOf(inbox'[i], e), CoveredOf(inbox'[j], e)
                 PROVE  inbox'[i].cycle < inbox'[j].cycle
      BY Zenon
    <3>1. i + 1 < j + 1
      BY <2>3
    <3> QED
      BY Zenon, <1>1, <2>2, <3>1 DEF CoversBacked
  <2>6. CoversBacked(e)'
    BY Zenon, <1>1, <1>2, <2>4, <2>5 DEF CoversBacked, CoveredOf, execVars
  <2> QED
    BY Zenon, <1>3, <1>4, <2>6
<1> QED
  BY Zenon, <1>5, <1>6

\* The writer takes a cover: the images it removes are older than the one the
\* cover names, which is durable and holds at least as much.
LEMMA CoverKeepsImages ==
    ASSUME TypeOK, ImagesInv, Take, TakeCovered(Head(inbox)), UNCHANGED execVars
    PROVE  /\ ImagesInv'
           /\ \A e \in Executors : \A im \in SureImages(e) :
                 \E jm \in SureImages(e)' : jm.through >= im.through
<1>1. inbox \in Seq(ToWriter) /\ inbox # <<>> /\ inbox' = Tail(inbox)
  BY Zenon DEF TypeOK, SharedTypeOK, Take, CanTake
<1>0. PICK m \in ToWriter : m = Head(inbox)
  BY <1>1
<1> DEFINE f == m.executor
           older == {im \in images[f] : im.cycle < m.cycle}
<1>2. /\ 1 \in DOMAIN inbox /\ inbox[1] = m
      /\ DOMAIN inbox' \subseteq Nat \ {0}
      /\ \A i \in DOMAIN inbox' : i + 1 \in DOMAIN inbox /\ inbox'[i] = inbox[i + 1]
  BY <1>0, <1>1
<1>3. /\ f \in Executors /\ m.through \in Nat /\ m.cycle \in Nat
      /\ CoveredOf(m, f)
  BY <1>0 DEF TakeCovered, ToWriter, SyncNow, CoveredOf
<1>4. lanes[f].covered \in Nat /\ lanes \in [Executors -> Lane]
  BY Zenon, <1>3 DEF TypeOK, WriterTypeOK, Lane
<1>5. /\ lanes[f].covered <= m.through
      /\ \E im \in SureImages(f) : im.cycle = m.cycle /\ im.through = m.through
  BY ZenonT(40), <1>2, <1>3 DEF ImagesInv, CoversBacked
<1>6. Larger(lanes[f].covered, m.through) = m.through
  BY <1>3, <1>4, <1>5 DEF Larger
<1>7. \A e \in Executors :
        lanes'[e].covered = IF e = f THEN m.through ELSE lanes[e].covered
  <2>1. \A e \in Executors :
          lanes'[e] = IF e = f
                      THEN [lanes[f] EXCEPT !.covered = m.through, !.imaged = TRUE, !.nudged = FALSE]
                      ELSE lanes[e]
    BY Zenon, <1>0, <1>3, <1>4, <1>6 DEF TakeCovered
  <2> QED
    BY Zenon, <1>3, <1>4, <2>1 DEF Lane
<1>8. PICK kept \in SUBSET older :
        images' = [images EXCEPT ![f] = (images[f] \ older) \cup kept]
  BY ZenonT(40), <1>0 DEF TakeCovered, Compact
<1>9. images \in [Executors -> SUBSET Image]
  BY Zenon DEF TypeOK, SharedTypeOK
<1>10. \A e \in Executors : SureImages(e)' \subseteq SureImages(e)
  BY Zenon, <1>3, <1>8, <1>9 DEF SureImages
<1>11. \A e \in Executors : e # f => SureImages(e)' = SureImages(e)
  BY Zenon, <1>3, <1>8, <1>9 DEF SureImages
<1>12. \A im \in SureImages(f) : ~(im.cycle < m.cycle) => im \in SureImages(f)'
  BY Zenon, <1>3, <1>8, <1>9 DEF SureImages
<1>13. \A e \in Executors : \A im \in SureImages(e) : im.cycle \in Nat /\ im.through \in Nat
  BY <1>9 DEF SureImages, Image
<1> HIDE DEF older
<1>14. PICK named \in SureImages(f)' : named.cycle = m.cycle /\ named.through = m.through
  BY <1>3, <1>5, <1>12, <1>13
\* Whatever a durable image held, a durable image still holds.
<1>15. \A e \in Executors : \A im \in SureImages(e) :
         \E jm \in SureImages(e)' : jm.through >= im.through
  <2> TAKE e \in Executors
  <2> TAKE im \in SureImages(e)
  <2>1. CASE e # f
    BY <1>11, <1>13, <2>1
  <2>2. CASE e = f /\ im.cycle < m.cycle
    <3>1. im.through <= named.through
      BY Zenon, <1>3, <1>10, <1>14, <2>2 DEF ImagesInv, CyclesGrow
    <3> QED
      BY Zenon, <1>3, <1>10, <1>13, <1>14, <2>2, <3>1
  <2>3. CASE e = f /\ ~(im.cycle < m.cycle)
    BY <1>12, <1>13, <2>3
  <2> QED
    BY Zenon, <2>1, <2>2, <2>3
<1> SUFFICES ASSUME NEW e \in Executors
             PROVE  (CyclesGrow(e) /\ CoversBacked(e) /\ SavesCovered(e))'
  BY Zenon, <1>15 DEF ImagesInv
<1>16. CyclesGrow(e) /\ CoversBacked(e) /\ SavesCovered(e)
  BY Zenon DEF ImagesInv
<1>17. CyclesGrow(e)'
  BY Zenon, <1>10, <1>16 DEF CyclesGrow, execVars
<1>18. SavesCovered(e)'
  <2>1. \A b \in saved[e] : b \in Nat
    BY Zenon DEF TypeOK, ExecTypeOK
  <2>2. \A b \in saved[e] : b > 0 => \E im \in SureImages(e)' : im.through >= b
    BY <1>10, <1>13, <1>15, <1>16, <2>1 DEF SavesCovered
  <2> QED
    BY Zenon, <1>16, <2>2 DEF SavesCovered, execVars
<1>19. CoversBacked(e)'
  <2>1. \A i \in DOMAIN inbox' : CoveredOf(inbox'[i], e) =>
          \E im \in SureImages(e)' :
                im.cycle = inbox'[i].cycle /\ im.through = inbox'[i].through
    <3> SUFFICES ASSUME NEW i \in DOMAIN inbox', CoveredOf(inbox'[i], e)
                 PROVE  \E im \in SureImages(e)' :
                           im.cycle = inbox'[i].cycle /\ im.through = inbox'[i].through
      BY Zenon
    <3>1. PICK im \in SureImages(e) :
            im.cycle = inbox'[i].cycle /\ im.through = inbox'[i].through
      BY <1>2, <1>16 DEF CoversBacked
    <3>2. CASE e = f
      <4>1. 1 < i + 1
        BY <1>2
      <4>2. m.cycle < inbox'[i].cycle
        BY ZenonT(40), <1>2, <1>3, <1>16, <3>2, <4>1 DEF CoversBacked
      <4> QED
        BY <1>3, <1>12, <1>13, <3>1, <3>2, <4>2
    <3> QED
      BY Zenon, <1>11, <3>1, <3>2
  <2>2. \A i \in DOMAIN inbox' : CoveredOf(inbox'[i], e) =>
          lanes'[e].covered <= inbox'[i].through
    <3> SUFFICES ASSUME NEW i \in DOMAIN inbox', CoveredOf(inbox'[i], e)
                 PROVE  lanes'[e].covered <= inbox'[i].through
      BY Zenon
    <3>1. CASE e = f
      <4>1. 1 < i + 1
        BY <1>2
      <4>2. m.cycle < inbox'[i].cycle
        BY ZenonT(40), <1>2, <1>3, <1>16, <3>1, <4>1 DEF CoversBacked
      <4>3. PICK im \in SureImages(e) :
              im.cycle = inbox'[i].cycle /\ im.through = inbox'[i].through
        BY <1>2, <1>16 DEF CoversBacked
      <4>4. named.through <= im.through
        BY ZenonT(40), <1>10, <1>14, <1>16, <3>1, <4>2, <4>3 DEF CyclesGrow
      <4> QED
        BY ZenonT(40), <1>3, <1>7, <1>14, <3>1, <4>3, <4>4
    <3>2. CASE e # f
      BY Zenon, <1>2, <1>7, <1>16, <3>2 DEF CoversBacked
    <3> QED
      BY Zenon, <3>1, <3>2
  <2>3. \A i, j \in DOMAIN inbox' :
          (i < j /\ CoveredOf(inbox'[i], e) /\ CoveredOf(inbox'[j], e)) =>
              inbox'[i].cycle < inbox'[j].cycle
    <3> SUFFICES ASSUME NEW i \in DOMAIN inbox', NEW j \in DOMAIN inbox',
                        i < j, CoveredOf(inbox'[i], e), CoveredOf(inbox'[j], e)
                 PROVE  inbox'[i].cycle < inbox'[j].cycle
      BY Zenon
    <3>1. i + 1 < j + 1
      BY <1>2
    <3> QED
      BY Zenon, <1>2, <1>16, <3>1 DEF CoversBacked
  <2>4. lanes'[e].covered <= checkpoint[e].openedAt
    BY ZenonT(40), <1>3, <1>7, <1>10, <1>14, <1>16 DEF CoversBacked, CyclesGrow
  <2>5. lanes'[e].covered > 0 => \E im \in SureImages(e)' : im.through >= lanes'[e].covered
    <3>1. CASE e = f
      BY <1>3, <1>7, <1>14, <3>1
    <3>2. CASE e # f
      BY Zenon, <1>7, <1>11, <1>16, <3>2 DEF CoversBacked
    <3> QED
      BY Zenon, <3>1, <3>2
  <2> QED
    BY Zenon, <2>1, <2>2, <2>3, <2>4, <2>5 DEF CoversBacked, CoveredOf, execVars
<1> QED
  BY Zenon, <1>17, <1>18, <1>19

-----------------------------------------------------------------------------
(* A tick of an open cycle. *)

\* Covers stay backed when the inbox grows by anything but covers, no durable
\* image goes, and bases only grow.
LEMMA CoversStayBacked ==
    ASSUME TypeOK, NEW f \in Executors, NEW new \in Seq(ToWriter), CoversBacked(f),
           inbox' = inbox \o new, \A i \in DOMAIN new : ~CoveredOf(new[i], f),
           lanes' = lanes, SureImages(f) \subseteq SureImages(f)',
           checkpoint'[f].openedAt \in Nat,
           checkpoint[f].openedAt <= checkpoint'[f].openedAt
    PROVE  CoversBacked(f)'
<1>1. inbox \in Seq(ToWriter)
  BY Zenon DEF TypeOK, SharedTypeOK
<1>2. \A i \in DOMAIN inbox' :
        \/ i \in DOMAIN inbox /\ inbox'[i] = inbox[i]
        \/ ~CoveredOf(inbox'[i], f)
  <2> SUFFICES ASSUME NEW i \in DOMAIN inbox', i \notin DOMAIN inbox
               PROVE  ~CoveredOf(inbox'[i], f)
    BY <1>1
  <2>1. i - Len(inbox) \in DOMAIN new /\ inbox'[i] = new[i - Len(inbox)]
    BY <1>1
  <2> QED
    BY Zenon, <2>1
<1>3. lanes[f].covered \in Nat /\ checkpoint[f].openedAt \in Nat
  BY Zenon DEF TypeOK, WriterTypeOK, Lane, ExecTypeOK, Checkpoint
<1>4. \A i \in DOMAIN inbox' : CoveredOf(inbox'[i], f) =>
        /\ lanes'[f].covered <= inbox'[i].through
        /\ \E im \in SureImages(f)' :
              im.cycle = inbox'[i].cycle /\ im.through = inbox'[i].through
  BY ZenonT(40), <1>2 DEF CoversBacked
<1>5. \A i, j \in DOMAIN inbox' :
        (i < j /\ CoveredOf(inbox'[i], f) /\ CoveredOf(inbox'[j], f)) =>
            inbox'[i].cycle < inbox'[j].cycle
  BY Zenon, <1>2 DEF CoversBacked
<1>6. lanes'[f].covered <= checkpoint'[f].openedAt
  BY <1>3 DEF CoversBacked
<1>7. lanes'[f].covered > 0 => \E im \in SureImages(f)' : im.through >= lanes'[f].covered
  BY Zenon DEF CoversBacked
<1> QED
  BY Zenon, <1>4, <1>5, <1>6, <1>7 DEF CoversBacked, CoveredOf

\* An executor whose own records and images a step leaves alone.
LEMMA OthersKeepImages ==
    ASSUME TypeOK, ImagesInv, NEW f \in Executors, NEW new \in Seq(ToWriter),
           inbox' = inbox \o new, \A i \in DOMAIN new : ~CoveredOf(new[i], f),
           lanes' = lanes, images'[f] = images[f], checkpoint'[f] = checkpoint[f],
           cycle'[f] = cycle[f], sync'[f] = sync[f], saves'[f] = saves[f],
           saved'[f] = saved[f]
    PROVE  (CyclesGrow(f) /\ CoversBacked(f) /\ SavesCovered(f))'
<1>1. SureImages(f)' = SureImages(f)
  BY Zenon DEF SureImages
<1>2. CyclesGrow(f) /\ CoversBacked(f) /\ SavesCovered(f)
  BY Zenon DEF ImagesInv
<1>3. CyclesGrow(f)'
  BY Zenon, <1>1, <1>2 DEF CyclesGrow
<1>4. SavesCovered(f)'
  BY Zenon, <1>1, <1>2 DEF SavesCovered
<1>5. CoversBacked(f)'
  <2>1. checkpoint[f].openedAt \in Nat
    BY Zenon DEF TypeOK, ExecTypeOK, Checkpoint
  <2>2. /\ SureImages(f) \subseteq SureImages(f)'
        /\ checkpoint'[f].openedAt \in Nat
        /\ checkpoint[f].openedAt <= checkpoint'[f].openedAt
    BY <1>1, <2>1
  <2> QED
    BY Zenon, <1>2, <2>2, CoversStayBacked
<1> QED
  BY Zenon, <1>3, <1>4, <1>5

\* A tick of executor e with a cycle open: the open cycle's bases and number lie
\* past every durable image, so the image it finishes, and the cover it sends,
\* extend what was there.
LEMMA CycleKeepsImages ==
    ASSUME TypeOK, ImagesInv, NEW e \in Executors, NEW s \in SyncState,
           sync[e].batch <= s.batch, NEW sweep \in Seq(ToWriter),
           \A i \in DOMAIN sweep : sweep[i].type # "Covered",
           TickCycle(e, s, sweep), lanes' = lanes
    PROVE  (CyclesGrow(e) /\ CoversBacked(e) /\ SavesCovered(e))'
<1>1. CyclesGrow(e) /\ CoversBacked(e) /\ SavesCovered(e)
  BY Zenon DEF ImagesInv
<1>2. /\ checkpoint[e] \in Checkpoint /\ cycle[e] \in Cycle /\ saves[e] \in Saves
      /\ images[e] \in SUBSET Image /\ saved[e] \in SUBSET Nat
      /\ sync[e] \in SyncState /\ inbox \in Seq(ToWriter)
  BY Zenon DEF TypeOK, ExecTypeOK, SharedTypeOK
<1>3. \A im \in SureImages(e) : im.cycle \in Nat /\ im.through \in Nat
  BY Zenon, <1>2 DEF SureImages, Image
<1>4. /\ checkpoint[e].next \in Nat /\ checkpoint[e].next + 1 \in Nat
      /\ checkpoint[e].openedAt \in Nat /\ s.batch \in Nat /\ sync[e].batch \in Nat
      /\ saves[e].now \in SUBSET Nat /\ saves[e].after \in SUBSET Nat
  BY SMTT(30), <1>2 DEF Checkpoint, SyncState, Saves
<1> DEFINE k0 == IF Opens(e, s)
                 THEN [checkpoint[e] EXCEPT !.next = checkpoint[e].next + 1, !.openedAt = s.batch,
                                            !.forced = FALSE, !.nudged = FALSE]
                 ELSE checkpoint[e]
           c0 == IF Opens(e, s) THEN Fresh(checkpoint[e].next, s.batch) ELSE cycle[e]
<1>5. PICK k \in Checkpoint : k = k0
  BY Zenon, <1>2, <1>4, CheckpointUpdates
<1>6. PICK c \in Cycle : c = c0
  BY Zenon, <1>2, <1>4, CycleTypes
<1>7. k.next \in Nat /\ k.openedAt \in Nat /\ c.number \in Nat /\ c.through \in Nat
  BY SMTT(30) DEF Checkpoint, Cycle
<1>8. PICK o \in Step(c, k.next, s) :
        /\ inbox' = inbox \o sweep \o TickSends(e, o)
        /\ images'[e] = {im \in images[e] : im.cycle # c.number} \cup o.image
        /\ cycle'[e] = IF o.done THEN NoCycle ELSE o.cycle
        /\ checkpoint'[e] =
             [k EXCEPT !.next = IF o.cycle.number # c.number THEN k.next + 1 ELSE k.next,
                       !.imaged = k.imaged \/ o.done,
                       !.nudged = k.nudged \/ (o.done /\ saves[e].after # {})]
        /\ sync'[e] = [s EXCEPT !.refusing = s.refusing /\ ~o.done]
        /\ saves'[e] = SavesAfterTick(e, o)
        /\ saved'[e] = IF o.done THEN saved[e] \cup saves[e].now ELSE saved[e]
  <2>1. PICK o \in Step(c0, k0.next, s) :
          /\ inbox' = inbox \o sweep \o TickSends(e, o)
          /\ images' = [images EXCEPT ![e] =
                          {im \in images[e] : im.cycle # c0.number} \cup o.image]
          /\ cycle' = [cycle EXCEPT ![e] = IF o.done THEN NoCycle ELSE o.cycle]
          /\ checkpoint' = [checkpoint EXCEPT ![e] =
               [k0 EXCEPT !.next = IF o.cycle.number # c0.number THEN k0.next + 1 ELSE k0.next,
                          !.imaged = k0.imaged \/ o.done,
                          !.nudged = k0.nudged \/ (o.done /\ saves[e].after # {})]]
          /\ sync' = [sync EXCEPT ![e] = [s EXCEPT !.refusing = s.refusing /\ ~o.done]]
          /\ saves' = [saves EXCEPT ![e] = SavesAfterTick(e, o)]
          /\ saved' = [saved EXCEPT ![e] =
                         IF o.done THEN saved[e] \cup saves[e].now ELSE saved[e]]
    BY Zenon DEF TickCycle
  <2> HIDE DEF k0, c0
  <2> QED
    BY ZenonT(40), <1>5, <1>6, <2>1 DEF TypeOK, ExecTypeOK, SharedTypeOK
<1>9. c.open
  BY Zenon, <1>5, <1>6 DEF TickCycle
<1>10. /\ o.cycle.open
       /\ o.cycle.through = c.through
       /\ o.cycle.number \in {c.number, k.next}
       /\ o.done => /\ o.cycle.number = c.number
                    /\ ~o.ask /\ ~o.fails
                    /\ \E u : o.image = {[cycle |-> c.number, through |-> c.through,
                                         upto |-> u, sure |-> TRUE]}
       /\ ~o.done => \A im \in o.image : ~im.sure
  BY Zenon, <1>7, <1>9, StepShape
<1>11. /\ c.number < k.next
       /\ c.through = k.openedAt
       /\ checkpoint[e].openedAt <= k.openedAt
       /\ checkpoint[e].next <= k.next
       /\ k.openedAt <= s.batch
       /\ \A im \in SureImages(e) : im.cycle < c.number /\ im.through <= k.openedAt
       /\ \A b \in saves[e].now : b <= c.through
  <2>1. CASE Opens(e, s)
    <3>1. k.next = checkpoint[e].next + 1 /\ k.openedAt = s.batch
      BY Zenon, <1>2, <1>5, <2>1 DEF Checkpoint
    <3>2. c.number = checkpoint[e].next /\ c.through = s.batch
      BY Zenon, <1>6, <2>1 DEF Fresh
    <3>3. checkpoint[e].openedAt <= s.batch
      BY <1>1, <1>4 DEF CyclesGrow
    <3>4. \A im \in SureImages(e) : im.cycle < c.number /\ im.through <= k.openedAt
      BY <1>1, <1>3, <1>4, <3>1, <3>2, <3>3 DEF CyclesGrow
    <3>5. \A b \in saves[e].now : b <= c.through
      BY <1>1, <1>4, <3>2 DEF SavesCovered
    <3> QED
      BY <1>4, <3>1, <3>2, <3>3, <3>4, <3>5
  <2>2. CASE ~Opens(e, s)
    <3>1. k = checkpoint[e] /\ c = cycle[e]
      BY Zenon, <1>5, <1>6, <2>2
    <3>2. cycle[e].open
      BY ZenonT(40), <1>9, <3>1
    <3>3. c.number < k.next /\ c.through = k.openedAt /\ k.openedAt <= s.batch
      BY <1>1, <1>4, <3>1, <3>2 DEF CyclesGrow
    <3>4. \A im \in SureImages(e) : im.cycle < c.number /\ im.through <= k.openedAt
      BY ZenonT(40), <1>1, <3>1, <3>2 DEF CyclesGrow
    <3>5. \A b \in saves[e].now : b <= c.through
      BY ZenonT(40), <1>1, <3>1, <3>2 DEF SavesCovered
    <3> QED
      BY <1>4, <3>1, <3>3, <3>4, <3>5
  <2> QED
    BY Zenon, <2>1, <2>2
<1>12. /\ checkpoint'[e].openedAt = k.openedAt
       /\ checkpoint'[e].next = IF o.cycle.number # c.number THEN k.next + 1 ELSE k.next
       /\ sync'[e].batch = s.batch
  BY Zenon, <1>8 DEF Checkpoint, SyncState
<1>13. CASE ~o.done
  <2>1. SureImages(e)' = SureImages(e)
    BY <1>2, <1>3, <1>7, <1>8, <1>10, <1>11, <1>13 DEF SureImages
  <2>2. cycle'[e] = o.cycle /\ saved'[e] = saved[e]
    BY ZenonT(40), <1>8, <1>13
  <2>3. /\ o.cycle.number < checkpoint'[e].next
        /\ c.number <= o.cycle.number
        /\ k.next <= checkpoint'[e].next
    BY <1>7, <1>10, <1>11, <1>12
  <2>4. CyclesGrow(e)'
    <3>1. \A im \in SureImages(e)' :
            /\ im.cycle < checkpoint'[e].next
            /\ im.cycle < o.cycle.number
            /\ im.through <= checkpoint'[e].openedAt
      <4>1. o.cycle.number \in Nat /\ checkpoint'[e].next \in Nat
        BY <1>7, <1>10, <1>12
      <4> QED
        BY SMTT(30), <1>3, <1>7, <1>11, <1>12, <2>1, <2>3, <4>1
    <3> QED
      BY ZenonT(40), <1>1, <1>10, <1>11, <1>12, <2>1, <2>2, <2>3, <3>1 DEF CyclesGrow
  <2>5. CoversBacked(e)'
    <3> DEFINE new == sweep \o TickSends(e, o)
    <3>1. TickSends(e, o) = <<SyncNow>> \/ TickSends(e, o) = <<>>
      BY Zenon, <1>13 DEF TickSends
    <3>2. TickSends(e, o) \in Seq(ToWriter)
      <4>1. <<>> \in Seq(ToWriter) /\ <<SyncNow>> \in Seq(ToWriter)
        BY MessageTypes
      <4> QED
        BY ZenonT(40), <3>1, <4>1
    <3>3. \A i \in DOMAIN TickSends(e, o) : TickSends(e, o)[i].type # "Covered"
      BY <3>1 DEF SyncNow
    <3>4. new \in Seq(ToWriter) /\ inbox' = inbox \o new
      BY <1>2, <1>8, <3>2
    <3>5. \A i \in DOMAIN new : ~CoveredOf(new[i], e)
      <4> SUFFICES ASSUME NEW i \in DOMAIN new PROVE new[i].type # "Covered"
        BY Zenon DEF CoveredOf
      <4>1. CASE i \in DOMAIN sweep
        BY <3>2, <4>1
      <4>2. CASE i \notin DOMAIN sweep
        <5>1. i - Len(sweep) \in DOMAIN TickSends(e, o) /\ new[i] = TickSends(e, o)[i - Len(sweep)]
          BY <3>2, <4>2
        <5> QED
          BY Zenon, <3>3, <5>1
      <4> QED
        BY Zenon, <4>1, <4>2
    <3> HIDE DEF new
    <3>6. /\ SureImages(e) \subseteq SureImages(e)'
          /\ checkpoint'[e].openedAt \in Nat
          /\ checkpoint[e].openedAt <= checkpoint'[e].openedAt
      BY SMTT(30), <1>7, <1>11, <1>12, <2>1
    <3> QED
      BY Zenon, <1>1, <3>4, <3>5, <3>6, CoversStayBacked
  <2>6. SavesCovered(e)'
    <3>1. saves'[e].now \subseteq saves[e].now /\ saves'[e].after \subseteq saves[e].after
      BY SMTT(30), <1>2, <1>8, <1>13 DEF SavesAfterTick, Saves
    <3>2. \A b \in saves[e].now \cup saves[e].after : b <= sync'[e].batch
      BY SMTT(30), <1>1, <1>4, <1>12 DEF SavesCovered
    <3> QED
      BY ZenonT(40), <1>1, <1>10, <1>11, <2>1, <2>2, <3>1, <3>2 DEF SavesCovered
  <2> QED
    BY ZenonT(40), <2>4, <2>5, <2>6
<1>14. CASE o.done
  <2>1. PICK u : o.image = {[cycle |-> c.number, through |-> c.through, upto |-> u, sure |-> TRUE]}
    BY ZenonT(40), <1>10, <1>14
  <2> DEFINE image == [cycle |-> c.number, through |-> c.through, upto |-> u, sure |-> TRUE]
  <2>2. SureImages(e)' = SureImages(e) \cup {image}
    BY <1>2, <1>3, <1>7, <1>8, <1>11, <2>1 DEF SureImages
  <2>3. image.cycle = c.number /\ image.through = c.through
    BY Zenon
  <2> HIDE DEF image
  <2>4. /\ ~cycle'[e].open
        /\ checkpoint'[e].next = k.next
        /\ saved'[e] = saved[e] \cup saves[e].now
    BY Zenon, <1>8, <1>10, <1>12, <1>14 DEF NoCycle, Fresh
  <2>5. CyclesGrow(e)'
    <3>1. \A im \in SureImages(e)' :
            im.cycle < checkpoint'[e].next /\ im.through <= checkpoint'[e].openedAt
      BY <1>3, <1>7, <1>11, <1>12, <2>2, <2>3, <2>4
    <3>2. \A im, jm \in SureImages(e)' : im.cycle < jm.cycle => im.through <= jm.through
      <4> TAKE im, jm \in SureImages(e)'
      <4> HAVE im.cycle < jm.cycle
      <4>1. CASE jm = image
        BY SMTT(30), <1>3, <1>7, <1>11, <2>2, <2>3, <4>1
      <4>2. CASE jm # image /\ im = image
        BY <1>3, <1>7, <1>11, <2>2, <2>3, <4>2
      <4>3. CASE jm # image /\ im # image
        BY ZenonT(40), <1>1, <2>2, <4>3 DEF CyclesGrow
      <4> QED
        BY Zenon, <4>1, <4>2, <4>3
    <3> QED
      BY ZenonT(40), <1>11, <1>12, <2>4, <3>1, <3>2 DEF CyclesGrow
  <2>6. CoversBacked(e)'
    <3> DEFINE cover == Covered(e, c.number, c.through)
               n == Len(inbox) + Len(sweep) + 1
    <3>1. TickSends(e, o) = <<cover>>
      BY Zenon, <1>10, <1>14 DEF TickSends
    <3>2. cover \in ToWriter
      BY Zenon, <1>7, MessageTypes
    <3>3. /\ DOMAIN inbox' = 1 .. n
          /\ inbox'[n] = cover
          /\ \A i \in 1 .. n : \/ i \in DOMAIN inbox /\ inbox'[i] = inbox[i]
                               \/ i = n
                               \/ ~CoveredOf(inbox'[i], e)
      <4> HIDE DEF cover
      <4>1. inbox' = inbox \o sweep \o <<cover>>
        BY ZenonT(40), <1>8, <3>1
      <4>2. DOMAIN inbox' = 1 .. n /\ inbox'[n] = cover
        BY <1>2, <3>2, <4>1
      <4>3. ASSUME NEW i \in 1 .. n, i \notin DOMAIN inbox, i # n
            PROVE  ~CoveredOf(inbox'[i], e)
        <5>1. i - Len(inbox) \in DOMAIN sweep /\ inbox'[i] = sweep[i - Len(inbox)]
          BY <1>2, <3>2, <4>1, <4>3
        <5> QED
          BY Zenon, <5>1 DEF CoveredOf
      <4>4. \A i \in 1 .. n : i \in DOMAIN inbox => inbox'[i] = inbox[i]
        BY <1>2, <3>2, <4>1
      <4> QED
        BY Zenon, <4>2, <4>3, <4>4
    <3>4. /\ cover.through = c.through /\ cover.cycle = c.number /\ CoveredOf(cover, e)
      BY Zenon DEF Covered, CoveredOf
    <3>5. \A i \in DOMAIN inbox : i \in Nat /\ i < n
      BY <1>2
    <3> HIDE DEF cover, n
    <3>6. lanes[e].covered \in Nat /\ lanes[e].covered <= k.openedAt
      <4>1. lanes[e].covered \in Nat
        BY Zenon DEF TypeOK, WriterTypeOK, Lane
      <4>2. lanes[e].covered <= checkpoint[e].openedAt
        BY Zenon, <1>1 DEF CoversBacked
      <4> QED
        BY <1>4, <1>7, <1>11, <4>1, <4>2
    <3>7. \A i \in DOMAIN inbox' : CoveredOf(inbox'[i], e) =>
            /\ lanes'[e].covered <= inbox'[i].through
            /\ \E im \in SureImages(e)' :
                  im.cycle = inbox'[i].cycle /\ im.through = inbox'[i].through
      <4> SUFFICES ASSUME NEW i \in DOMAIN inbox', CoveredOf(inbox'[i], e)
                   PROVE  /\ lanes'[e].covered <= inbox'[i].through
                          /\ \E im \in SureImages(e)' :
                                im.cycle = inbox'[i].cycle /\ im.through = inbox'[i].through
        BY Zenon
      <4>1. CASE i = n
        BY ZenonT(40), <1>11, <2>2, <2>3, <3>3, <3>4, <3>6, <4>1
      <4>2. CASE i # n
        BY Zenon, <1>1, <2>2, <3>3, <4>2 DEF CoversBacked
      <4> QED
        BY Zenon, <4>1, <4>2
    <3>8. \A i, j \in DOMAIN inbox' :
            (i < j /\ CoveredOf(inbox'[i], e) /\ CoveredOf(inbox'[j], e)) =>
                inbox'[i].cycle < inbox'[j].cycle
      <4> SUFFICES ASSUME NEW i \in DOMAIN inbox', NEW j \in DOMAIN inbox',
                          i < j, CoveredOf(inbox'[i], e), CoveredOf(inbox'[j], e)
                   PROVE  inbox'[i].cycle < inbox'[j].cycle
        BY ZenonT(40)
      <4>1. n \in Nat /\ i \in Nat /\ j \in Nat /\ i <= n /\ j <= n
        BY SMTT(30), <1>2, <3>3 DEF n
      <4>2. i \in DOMAIN inbox /\ inbox'[i] = inbox[i]
        BY SMTT(30), <3>3, <4>1
      <4>3. PICK im \in SureImages(e) : im.cycle = inbox[i].cycle
        BY SMTT(30), <1>1, <4>2 DEF CoversBacked
      <4>4. CASE j = n
        BY Zenon, <1>11, <3>3, <3>4, <4>2, <4>3, <4>4
      <4>5. CASE j # n
        <5>1. j \in DOMAIN inbox /\ inbox'[j] = inbox[j]
          BY ZenonT(40), <3>3, <4>5
        <5> QED
          BY ZenonT(40), <1>1, <4>2, <5>1 DEF CoversBacked
      <4> QED
        BY Zenon, <4>4, <4>5
    <3>9. lanes'[e].covered <= checkpoint'[e].openedAt
      BY SMTT(30), <1>12, <3>6
    <3>10. lanes'[e].covered > 0 => \E im \in SureImages(e)' : im.through >= lanes'[e].covered
      BY ZenonT(40), <1>1, <2>2 DEF CoversBacked
    <3> QED
      BY SMTT(30), <3>7, <3>8, <3>9, <3>10 DEF CoversBacked, CoveredOf
  <2>7. SavesCovered(e)'
    <3>1. saves'[e].now = saves[e].after /\ saves'[e].after = {}
      <4>1. saves'[e] = [saves[e] EXCEPT !.now = saves[e].after, !.after = {},
                                         !.asked = saves[e].after # {}]
        BY SMTT(30), <1>8, <1>10, <1>14 DEF SavesAfterTick
      <4> QED
        BY ZenonT(40), <1>2, <4>1 DEF Saves
    <3>2. \A b \in saves[e].after : b <= sync'[e].batch
      BY SMTT(30), <1>1, <1>4, <1>12 DEF SavesCovered
    <3>3. \A b \in saved'[e] : b > 0 => \E im \in SureImages(e)' : im.through >= b
      <4> SUFFICES ASSUME NEW b \in saved'[e], b > 0
                   PROVE  \E im \in SureImages(e)' : im.through >= b
        BY SMTT(30)
      <4>1. CASE b \in saved[e]
        BY ZenonT(40), <1>1, <2>2, <4>1 DEF SavesCovered
      <4>2. CASE b \in saves[e].now
        BY ZenonT(40), <1>4, <1>7, <1>11, <2>2, <2>3, <4>2
      <4> QED
        BY ZenonT(40), <2>4, <4>1, <4>2
    <3> QED
      BY ZenonT(40), <2>4, <3>1, <3>2, <3>3 DEF SavesCovered
  <2> QED
    BY Zenon, <2>5, <2>6, <2>7
<1> QED
  BY Zenon, <1>13, <1>14

=============================================================================
