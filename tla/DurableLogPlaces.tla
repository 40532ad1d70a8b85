-------------------------- MODULE DurableLogPlaces --------------------------
(***************************************************************************)
(* PlacesInv, the inductive invariant behind what survives a crash in      *)
(* DurableLog: what a step of the writer must leave true, and the          *)
(* writer's failing, settling, issuing and receiving.                      *)
(***************************************************************************)
EXTENDS DurableLogImages

-----------------------------------------------------------------------------
(* What a step that grows what is kept leaves true. *)

\* The messages after one more.
LEMMA AppendFacts ==
    ASSUME NEW T, NEW p \in Seq(T), NEW m \in T
    PROVE  /\ DOMAIN Append(p, m) = 1 .. Len(p) + 1
           /\ DOMAIN p = 1 .. Len(p) /\ Len(p) \in Nat
           /\ \A k \in 1 .. Len(p) : Append(p, m)[k] = p[k]
           /\ Append(p, m)[Len(p) + 1] = m
OBVIOUS

\* What the writer says to e: nothing, or one message that is true when said.
Says(e) ==
    \/ progress'[e] = progress[e]
    \/ \E m \in Progress :
          /\ progress'[e] = Append(progress[e], m)
          /\ m.type = "Durable" =>
                m.through <= sync[e].batch /\ (Told(e) \/ KeptTo(e, m.through)')
          /\ m = Stopped => /\ phase[e] \in {"stopping", "ended"}
                            /\ Told(e) \/ KeptTo(e, sync[e].batch)'

\* What is said stays true, and a failure that was told stays told.
LEMMA SaysKeeps ==
    ASSUME TypeOK, NEW e \in Executors, UNCHANGED execVars, Keeps(e), Says(e),
           HeardBehind(e), Promised(e)
    PROVE  /\ HeardBehind(e)' /\ Promised(e)' /\ (Told(e) => Told(e)')
           /\ (\A k \in DOMAIN progress[e] :
                  progress[e][k] = Stopped => phase[e] \in {"stopping", "ended"})
              => (\A k \in DOMAIN progress'[e] :
                  progress'[e][k] = Stopped => phase'[e] \in {"stopping", "ended"})
<1>0. /\ progress[e] \in Seq(Progress)
      /\ sync[e].batch \in Nat /\ sync[e].durableBatch \in Nat
      /\ proven[e] \cup granted[e] \subseteq Nat
  BY Zenon DEF TypeOK, SharedTypeOK, ExecTypeOK, SyncState
<1>1. /\ sync' = sync /\ cycle' = cycle /\ phase' = phase
      /\ proven' = proven /\ granted' = granted
  BY Zenon DEF execVars
<1>2. /\ \A b \in proven'[e] \cup granted'[e] : KeptTo(e, b)'
      /\ (sync[e].refusing \/ KeptTo(e, sync[e].durableBatch))'
      /\ (phase[e] = "ended" => sync[e].refusing \/ KeptTo(e, sync[e].batch))'
  BY <1>0, <1>1 DEF Promised, KeptTo, Keeps
<1>3. CASE progress'[e] = progress[e]
  <2>1. \A k \in DOMAIN progress[e] : ToldBefore(e, k) => ToldBefore(e, k)'
    BY Zenon, <1>1, <1>3 DEF ToldBefore
  <2>2. \A k \in DOMAIN progress[e] : progress[e][k].type = "Durable" => progress[e][k].through \in Nat
    BY <1>0 DEF Progress, Fault, Nudge, Stopped
  <2>3. Promised(e)'
    BY <1>0, <1>1, <1>2, <1>3, <2>1, <2>2 DEF Promised, KeptTo, Keeps
  <2> QED
    BY Zenon, <1>1, <1>3, <2>3 DEF HeardBehind, Told, FaultQueued
<1>4. CASE progress'[e] # progress[e]
  <2>1. PICK m \in Progress :
          /\ progress'[e] = Append(progress[e], m)
          /\ m.type = "Durable" =>
                m.through <= sync[e].batch /\ (Told(e) \/ KeptTo(e, m.through)')
          /\ m = Stopped => /\ phase[e] \in {"stopping", "ended"}
                            /\ Told(e) \/ KeptTo(e, sync[e].batch)'
    BY Zenon, <1>4 DEF Says
  <2>0. PICK n \in Nat : n = Len(progress[e])
    BY <1>0
  <2>2. /\ DOMAIN progress'[e] = 1 .. n + 1 /\ DOMAIN progress[e] = 1 .. n /\ n \in Nat
        /\ \A k \in 1 .. n : progress'[e][k] = progress[e][k]
        /\ progress'[e][n + 1] = m
    BY <1>0, <2>0, <2>1, AppendFacts
  <2>3. \A k \in 1 .. n : ToldBefore(e, k) => ToldBefore(e, k)'
    BY <1>1, <2>2 DEF ToldBefore
  <2>4. Told(e) => ToldBefore(e, n + 1)' /\ Told(e)'
    <3>1. CASE sync[e].refusing
      BY Zenon, <1>1, <3>1 DEF Told, ToldBefore
    <3>2. ASSUME NEW j \in 1 .. n, progress[e][j] = Fault
          PROVE  ToldBefore(e, n + 1)' /\ Told(e)'
      <4>1. j \in 1 .. (n + 1) - 1 /\ j \in DOMAIN progress'[e] /\ progress'[e][j] = Fault
        BY <2>2, <3>2
      <4> QED
        BY Zenon, <4>1 DEF Told, FaultQueued, ToldBefore
    <3> QED
      BY Zenon, <2>2, <3>1, <3>2 DEF Told, FaultQueued
  <2>5. \A k \in 1 .. n : progress[e][k].type = "Durable" => progress[e][k].through \in Nat
    <3>1. \A k \in 1 .. n : progress[e][k] \in Progress
      BY <1>0, <2>2
    <3> QED
      BY <3>1 DEF Progress, Fault, Nudge, Stopped
  <2>6. \A k \in DOMAIN progress'[e] : k \in 1 .. n \/ k = n + 1
    BY <2>2
  <2>7. \A k \in DOMAIN progress'[e] : progress'[e][k].type = "Durable" =>
           (ToldBefore(e, k) \/ KeptTo(e, progress[e][k].through))'
    <3> SUFFICES ASSUME NEW k \in DOMAIN progress'[e], progress'[e][k].type = "Durable"
                 PROVE  (ToldBefore(e, k) \/ KeptTo(e, progress[e][k].through))'
      BY Zenon
    <3>1. CASE k \in 1 .. n
      BY <2>2, <2>3, <2>5, <3>1 DEF Promised, KeptTo, Keeps
    <3>2. CASE k = n + 1
      BY Zenon, <2>1, <2>2, <2>4, <3>2 DEF KeptTo
    <3> QED
      BY Zenon, <2>6, <3>1, <3>2
  <2>8. \A k \in DOMAIN progress'[e] : progress'[e][k] = Stopped =>
           (ToldBefore(e, k) \/ KeptTo(e, sync[e].batch))'
    <3> SUFFICES ASSUME NEW k \in DOMAIN progress'[e], progress'[e][k] = Stopped
                 PROVE  (ToldBefore(e, k) \/ KeptTo(e, sync[e].batch))'
      BY Zenon
    <3>1. CASE k \in 1 .. n
      <4>1. ToldBefore(e, k)' \/ KeptTo(e, sync[e].batch)
        BY Zenon, <2>2, <2>3, <3>1 DEF Promised
      <4>2. \A i \in 1 .. sync[e].batch : Kept(e, i) => Kept(e, i)'
        BY <1>0 DEF Keeps
      <4> QED
        BY ZenonT(40), <1>1, <4>1, <4>2 DEF KeptTo
    <3>2. CASE k = n + 1
      BY Zenon, <2>1, <2>2, <2>4, <3>2
    <3> QED
      BY Zenon, <2>6, <3>1, <3>2
  <2>9. Promised(e)'
    BY Zenon, <1>1, <1>2, <2>7, <2>8 DEF Promised
  <2>10. HeardBehind(e)'
    BY ZenonT(40), <1>1, <2>1, <2>2, <2>6 DEF HeardBehind
  <2> QED
    BY Zenon, <1>1, <2>1, <2>2, <2>4, <2>6, <2>9, <2>10
<1> QED
  BY Zenon, <1>3, <1>4

\* The writer takes the first of the messages to it, or none.
Takes == inbox' = inbox \/ (inbox # <<>> /\ inbox' = Tail(inbox))

\* Then every message still queued is one place nearer, or where it was.
LEMMA TakesFacts ==
    ASSUME TypeOK, Takes
    PROVE  \E d \in {0, 1} :
              /\ d = 1 => inbox # <<>> /\ inbox' = Tail(inbox)
              /\ d = 0 => inbox' = inbox
              /\ \A k \in DOMAIN inbox' :
                    k \in Nat \ {0} /\ k + d \in DOMAIN inbox /\ inbox'[k] = inbox[k + d]
              /\ \A k \in DOMAIN inbox :
                    k \in Nat \ {0} /\ (d < k => k - d \in DOMAIN inbox')
<1>0. inbox \in Seq(ToWriter)
  BY Zenon DEF TypeOK, SharedTypeOK
<1>1. CASE inbox' = inbox
  <2>1. \A k \in DOMAIN inbox :
          k \in Nat \ {0} /\ k + 0 \in DOMAIN inbox /\ k - 0 \in DOMAIN inbox /\ k + 0 = k
    BY <1>0
  <2> QED
    BY <1>1, <2>1
<1>2. CASE inbox # <<>> /\ inbox' = Tail(inbox)
  <2>1. \A k \in DOMAIN inbox' :
          k \in Nat \ {0} /\ k + 1 \in DOMAIN inbox /\ inbox'[k] = inbox[k + 1]
    BY <1>0, <1>2
  <2>2. \A k \in DOMAIN inbox : k \in Nat \ {0} /\ (1 < k => k - 1 \in DOMAIN inbox')
    BY <1>0, <1>2
  <2> QED
    BY <1>2, <2>1, <2>2
<1> QED
  BY Zenon, <1>1, <1>2 DEF Takes

\* What stays queued stays in order.
LEMMA QueueStays ==
    ASSUME TypeOK, NEW e \in Executors, UNCHANGED execVars, Takes, QueueOrdered(e),
           lanes'[e].received \in Nat,
           \/ lanes'[e].received <= lanes[e].received
           \/ /\ inbox # <<>> /\ inbox' = Tail(inbox) /\ SubmitOf(Head(inbox), e)
              /\ lanes'[e].received = Head(inbox).batch
    PROVE  QueueOrdered(e)'
<1>1. PICK d \in {0, 1} :
        /\ d = 1 => inbox # <<>> /\ inbox' = Tail(inbox)
        /\ d = 0 => inbox' = inbox
        /\ \A k \in DOMAIN inbox' :
              k \in Nat \ {0} /\ k + d \in DOMAIN inbox /\ inbox'[k] = inbox[k + d]
        /\ \A k \in DOMAIN inbox : k \in Nat \ {0}
  BY Zenon, TakesFacts
<1>0. /\ inbox \in Seq(ToWriter) /\ lanes[e].received \in Nat
      /\ \A k \in DOMAIN inbox : SubmitOf(inbox[k], e) => inbox[k].batch \in Nat
  <2>1. inbox \in Seq(ToWriter) /\ lanes[e].received \in Nat
    BY Zenon DEF TypeOK, SharedTypeOK, WriterTypeOK, Lane
  <2>2. \A k \in DOMAIN inbox : inbox[k] \in ToWriter
    BY <2>1
  <2> QED
    BY <2>1, <2>2 DEF SubmitOf, ToWriter, SyncNow
<1>2. \A j, k \in DOMAIN inbox' :
        (j < k /\ SubmitOf(inbox'[j], e) /\ SubmitOf(inbox'[k], e)) =>
            inbox'[j].batch < inbox'[k].batch
  <2> SUFFICES ASSUME NEW j \in DOMAIN inbox', NEW k \in DOMAIN inbox',
                      j < k, SubmitOf(inbox'[j], e), SubmitOf(inbox'[k], e)
               PROVE  inbox'[j].batch < inbox'[k].batch
    BY Zenon
  <2>1. j + d < k + d
    BY <1>1
  <2> QED
    BY Zenon, <1>1, <2>1 DEF QueueOrdered
<1>3. ASSUME NEW k \in DOMAIN inbox', SubmitOf(inbox'[k], e)
      PROVE  lanes'[e].received < inbox'[k].batch /\ inbox'[k].batch <= sync'[e].batch
  <2>1. /\ k + d \in DOMAIN inbox /\ inbox'[k] = inbox[k + d]
        /\ lanes[e].received < inbox[k + d].batch /\ inbox[k + d].batch <= sync'[e].batch
        /\ inbox[k + d].batch \in Nat
    BY Zenon, <1>0, <1>1, <1>3 DEF QueueOrdered, execVars
  <2>2. CASE lanes'[e].received <= lanes[e].received
    BY <1>0, <2>1, <2>2
  <2>3. CASE /\ inbox # <<>> /\ inbox' = Tail(inbox) /\ SubmitOf(Head(inbox), e)
             /\ lanes'[e].received = Head(inbox).batch
    <3>1. 1 \in DOMAIN inbox /\ Head(inbox) = inbox[1] /\ inbox' # inbox
      BY <1>0, <2>3
    <3>2. 1 < k + d
      BY <1>1, <1>3, <3>1
    <3> QED
      BY ZenonT(40), <1>3, <2>1, <2>3, <3>1, <3>2 DEF QueueOrdered
  <2> QED
    BY Zenon, <2>2, <2>3
<1> QED
  BY Zenon, <1>2, <1>3 DEF QueueOrdered, SubmitOf

\* And nothing follows a Stop.
LEMMA StopStays ==
    ASSUME TypeOK, NEW e \in Executors, UNCHANGED execVars, Takes, StopLast(e),
           \A k \in DOMAIN progress'[e] :
               progress'[e][k] = Stopped => phase'[e] \in {"stopping", "ended"},
           lanes'[e].stopped =>
               \/ lanes[e].stopped
               \/ inbox # <<>> /\ inbox' = Tail(inbox) /\ StopOf(Head(inbox), e)
    PROVE  StopLast(e)'
<1>0. inbox \in Seq(ToWriter) /\ phase' = phase
  BY Zenon DEF TypeOK, SharedTypeOK, execVars
<1>1. PICK d \in {0, 1} :
        /\ d = 1 => inbox # <<>> /\ inbox' = Tail(inbox)
        /\ d = 0 => inbox' = inbox
        /\ \A k \in DOMAIN inbox' :
              k \in Nat \ {0} /\ k + d \in DOMAIN inbox /\ inbox'[k] = inbox[k + d]
        /\ \A k \in DOMAIN inbox : k \in Nat \ {0}
  BY Zenon, TakesFacts
<1>2. ASSUME NEW k \in DOMAIN inbox', StopOf(inbox'[k], e)
      PROVE  /\ phase'[e] \in {"stopping", "ended"}
             /\ \A j \in DOMAIN inbox' : k < j => ~SubmitOf(inbox'[j], e)
  <2>1. \A j \in DOMAIN inbox' : k < j => k + d < j + d
    BY <1>1
  <2> QED
    BY ZenonT(40), <1>0, <1>1, <1>2, <2>1 DEF StopLast
<1>3. ASSUME lanes'[e].stopped
      PROVE  /\ phase'[e] \in {"stopping", "ended"}
             /\ \A k \in DOMAIN inbox' : ~SubmitOf(inbox'[k], e)
  <2>1. CASE lanes[e].stopped
    BY Zenon, <1>0, <1>1, <2>1 DEF StopLast
  <2>2. CASE inbox # <<>> /\ inbox' = Tail(inbox) /\ StopOf(Head(inbox), e)
    <3>1. 1 \in DOMAIN inbox /\ Head(inbox) = inbox[1] /\ inbox' # inbox
      BY <1>0, <2>2
    <3>2. d = 1 /\ \A k \in DOMAIN inbox' : 1 < k + d
      BY <1>1, <3>1
    <3> QED
      BY ZenonT(40), <1>0, <1>1, <2>2, <3>1, <3>2 DEF StopLast
  <2> QED
    BY Zenon, <1>3, <2>1, <2>2
<1> QED
  BY ZenonT(40), <1>2, <1>3 DEF StopLast, SubmitOf, StopOf

\* A batch still queued is where it was, unless it is the one taken.
LEMMA QueuedStays ==
    ASSUME TypeOK, NEW e \in Executors, UNCHANGED execVars, Takes, Keeps(e), QueuedPlaced(e),
           lanes'[e].received = lanes[e].received,
           inbox' = inbox \/ ~SubmitOf(Head(inbox), e)
    PROVE  QueuedPlaced(e)'
<1>0. inbox \in Seq(ToWriter) /\ sync' = sync /\ lanes[e].received \in Nat
  BY Zenon DEF TypeOK, SharedTypeOK, WriterTypeOK, Lane, execVars
<1>1. PICK d \in {0, 1} :
        /\ d = 1 => inbox # <<>> /\ inbox' = Tail(inbox)
        /\ d = 0 => inbox' = inbox
        /\ \A k \in DOMAIN inbox' :
              k \in Nat \ {0} /\ k + d \in DOMAIN inbox /\ inbox'[k] = inbox[k + d]
        /\ \A k \in DOMAIN inbox : k \in Nat \ {0} /\ (d < k => k - d \in DOMAIN inbox')
  BY Zenon, TakesFacts
<1> SUFFICES ASSUME NEW i \in lanes[e].received + 1 .. sync[e].batch
             PROVE  Imaged(e, i)' \/ \E k \in DOMAIN inbox' : inbox'[k] = Submit(e, i)
  BY Zenon, <1>0 DEF QueuedPlaced
<1>2. CASE Imaged(e, i)
  BY <1>0, <1>2 DEF Keeps
<1>3. ASSUME NEW k \in DOMAIN inbox, inbox[k] = Submit(e, i)
      PROVE  \E j \in DOMAIN inbox' : inbox'[j] = Submit(e, i)
  <2>1. SubmitOf(inbox[k], e)
    BY <1>3 DEF SubmitOf, Submit
  <2>2. d < k
    <3>1. CASE d = 0
      BY <1>1, <3>1
    <3>2. CASE d = 1
      <4>1. Head(inbox) = inbox[1] /\ inbox' # inbox
        BY <1>0, <1>1, <3>2
      <4> QED
        BY <1>1, <2>1, <3>2, <4>1
    <3> QED
      BY Zenon, <3>1, <3>2
  <2>3. k - d \in DOMAIN inbox' /\ (k - d) + d = k
    BY <1>1, <2>2
  <2> QED
    BY ZenonT(40), <1>1, <1>3, <2>3
<1> QED
  BY Zenon, <1>2, <1>3 DEF QueuedPlaced

\* A step of the writer, seen from executor e.
LEMMA WriterPlaces ==
    ASSUME TypeOK, TypeOK', NEW e \in Executors, UNCHANGED execVars, Takes, Keeps(e), Says(e),
           images'[e] \subseteq images[e], ExecPlaces(e), LaneBehind(e)',
           \/ lanes'[e].received <= lanes[e].received
           \/ /\ inbox # <<>> /\ inbox' = Tail(inbox) /\ SubmitOf(Head(inbox), e)
              /\ lanes'[e].received = Head(inbox).batch,
           lanes'[e].stopped =>
               \/ lanes[e].stopped
               \/ inbox # <<>> /\ inbox' = Tail(inbox) /\ StopOf(Head(inbox), e),
           (~Told(e) /\ ~Told(e)') =>
               (WrittenPlaced(e) /\ RoundPlaced(e) /\ StagedPlaced(e) /\ QueuedPlaced(e))'
    PROVE  ExecPlaces(e)'
<1>1. /\ LaneBehind(e) /\ QueueOrdered(e) /\ HeardBehind(e) /\ StopLast(e)
      /\ RefusalClean(e) /\ ImagesNumbered(e)
      /\ Placed(e) /\ Promised(e) /\ ImagesBehind(e)
  BY Zenon DEF ExecPlaces
<1>2. /\ HeardBehind(e)' /\ Promised(e)' /\ (Told(e) => Told(e)')
      /\ \A k \in DOMAIN progress'[e] :
             progress'[e][k] = Stopped => phase'[e] \in {"stopping", "ended"}
  BY Zenon, <1>1, SaysKeeps DEF StopLast
<1>3. lanes'[e].received \in Nat
  BY Zenon DEF TypeOK, WriterTypeOK, Lane
<1>4. QueueOrdered(e)'
  BY Zenon, <1>1, <1>3, QueueStays
<1>5. StopLast(e)'
  BY Zenon, <1>1, <1>2, StopStays
<1>6. RefusalClean(e)'
  BY Zenon, <1>1 DEF RefusalClean, execVars
<1>7. SureImages(e)' \subseteq SureImages(e)
  BY Zenon DEF SureImages
<1>8. ImagesNumbered(e)'
  BY Zenon, <1>1, <1>7 DEF ImagesNumbered, execVars
<1>9. Placed(e)'
  BY ZenonT(40), <1>1, <1>2 DEF Placed
<1>10. ImagesBehind(e)'
  <2>1. cycle' = cycle /\ cycle[e].waiting \in Nat
    BY ZenonT(40) DEF execVars, TypeOK, ExecTypeOK, Cycle
  <2>2. \A im \in images[e] : im.upto \in Nat
    BY DEF TypeOK, SharedTypeOK, Image
  <2> QED
    BY <1>1, <2>1, <2>2 DEF ImagesBehind, Keeps
<1> QED
  BY Zenon, <1>2, <1>4, <1>5, <1>6, <1>8, <1>9, <1>10 DEF ExecPlaces

-----------------------------------------------------------------------------
(* The writer loses nothing that is kept. *)

\* What the updates of a lane do to its place in the order.
LEMMA LaneOrder ==
    ASSUME NEW l \in Lane, NEW a, NEW b, NEW c
    PROVE  /\ LET k == LaneFailed(l) IN
              /\ k.written = l.written /\ k.received = l.written
              /\ k.pending = 0 /\ k.stopped = l.stopped
           /\ LET k == LaneWrote(l) IN
              /\ k.written = l.received /\ k.received = l.received
              /\ k.pending = 0 /\ k.stopped = l.stopped
           /\ LET k == [l EXCEPT !.durable = a, !.reported = b] IN
              /\ k.written = l.written /\ k.received = l.received
              /\ k.pending = l.pending /\ k.stopped = l.stopped
           /\ LET k == [l EXCEPT !.received = a, !.pending = b] IN
              k.written = l.written /\ k.received = a /\ k.pending = b /\ k.stopped = l.stopped
           /\ LET k == [l EXCEPT !.stopped = a] IN
              /\ k.written = l.written /\ k.received = l.received
              /\ k.pending = l.pending /\ k.stopped = a
           /\ LET k == [l EXCEPT !.nudged = a] IN
              /\ k.written = l.written /\ k.received = l.received
              /\ k.pending = l.pending /\ k.stopped = l.stopped
           /\ LET k == [l EXCEPT !.covered = a, !.imaged = b, !.nudged = c] IN
              /\ k.written = l.written /\ k.received = l.received
              /\ k.pending = l.pending /\ k.stopped = l.stopped
BY Zenon DEF Lane, LaneFailed, LaneWrote

\* Nothing kept is lost to a step of the writer or the disk: a rotation is removed
\* only when durable images hold every batch in it, an image only when a newer one
\* does.
LEMMA WriterKeeps ==
    ASSUME TypeOK, TypeOK', ImagesInv, ImagesInv', FilesOrdered, WriterNext, UNCHANGED execVars,
           NEW e \in Executors
    PROVE  Keeps(e)
<1>1. CASE Take /\ TakeCovered(Head(inbox))
  <2>0. /\ \A im \in SureImages(e) : im.through \in Nat
        /\ \A im \in SureImages(e)' : im.through \in Nat
        /\ closed \in Seq(Closed) /\ synced \subseteq written /\ written \subseteq Triple
    BY DEF SureImages, TypeOK, SharedTypeOK, WriterTypeOK, Image
  <2>1. \A im \in SureImages(e) : \E jm \in SureImages(e)' : jm.through >= im.through
    BY Zenon, <1>1, CoverKeepsImages
  <2>2. \A i \in Nat : Imaged(e, i) => Imaged(e, i)'
    BY <2>0, <2>1 DEF Imaged
  <2>3. PICK m \in ToWriter : m = Head(inbox) /\ m.type = "Covered" /\ TakeCovered(m)
    <3>1. Head(inbox) \in ToWriter
      BY <1>1 DEF TypeOK, SharedTypeOK, Take, CanTake
    <3> QED
      BY Zenon, <1>1, <3>1 DEF TakeCovered
  <2>4. m.executor \in Executors /\ m.through \in Nat
    BY <2>3 DEF ToWriter, SyncNow
  <2> DEFINE covered == [f \in Executors |->
               IF f = m.executor THEN Larger(lanes[m.executor].covered, m.through)
               ELSE lanes[f].covered]
  <2>5. \A f \in Executors : lanes'[f].covered = covered[f] /\ covered[f] \in Nat
    <3>1. lanes \in [Executors -> Lane] /\ \A f \in Executors : lanes[f].covered \in Nat
      BY Zenon DEF TypeOK, WriterTypeOK, Lane
    <3>2. \A f \in Executors :
            lanes'[f] = IF f = m.executor
                        THEN [lanes[f] EXCEPT !.covered = covered[f], !.imaged = TRUE,
                                              !.nudged = FALSE]
                        ELSE lanes[f]
      BY Zenon, <2>3, <2>4, <3>1 DEF TakeCovered
    <3>3. \A f \in Executors : lanes'[f].covered = covered[f]
      BY ZenonT(40), <3>1, <3>2 DEF Lane
    <3> QED
      BY Zenon, <2>4, <3>1, <3>3, LargerType
  <2>6. PICK n \in 0 .. Len(closed) :
          /\ \A j \in 1 .. n : CoveredByAll(closed[j], covered)
          /\ synced' = {t \in synced : t[1] \notin {closed[j].rotation : j \in 1 .. n}}
    BY Zenon, <2>3 DEF TakeCovered, Compact
  <2> HIDE DEF covered
  <2>7. ASSUME NEW t \in synced, t[2] = e, t[3] > 0, t \notin synced'
        PROVE  Imaged(e, t[3])'
    <3>1. PICK j \in 1 .. n : t[1] = closed[j].rotation
      BY Zenon, <2>6, <2>7
    <3>2. j \in DOMAIN closed /\ closed[j] \in Closed
      BY <2>0, <3>1
    <3>3. t[3] <= closed[j].last[e] /\ closed[j].last[e] \in Nat /\ t[3] \in Nat
      BY Zenon, <2>0, <2>7, <3>1, <3>2 DEF FilesOrdered, Closed, Frozen, Triple
    <3>4. closed[j].last[e] <= lanes'[e].covered /\ lanes'[e].covered \in Nat
      BY Zenon, <2>5, <2>6, <3>1 DEF CoveredByAll
    <3>5. PICK im \in SureImages(e)' : im.through >= lanes'[e].covered
      BY <2>7, <3>3, <3>4 DEF ImagesInv, CoversBacked
    <3> QED
      BY <2>0, <3>3, <3>4, <3>5 DEF Imaged
  <2>8. ASSUME NEW i \in Nat \ {0}, OnDisk(e, i) PROVE Kept(e, i)'
    <3>1. PICK t \in synced : t[2] = e /\ t[3] = i
      BY Zenon, <2>8 DEF OnDisk
    <3>2. CASE t \in synced'
      BY Zenon, <3>1, <3>2 DEF Kept, OnDisk
    <3>3. CASE t \notin synced'
      BY <2>7, <2>8, <3>1, <3>3 DEF Kept
    <3> QED
      BY Zenon, <3>2, <3>3
  <2> QED
    BY Zenon, <2>2, <2>8 DEF Keeps, Kept
<1>2. CASE ~(Take /\ TakeCovered(Head(inbox)))
  <2>1. images' = images
    BY Zenon, <1>2, WriterQuiet
  <2>2. synced \subseteq synced'
    <3>1. CASE Take
      BY Zenon, <1>2, <3>1 DEF Take, TakeSubmit, TakeSyncNow, TakeStop
    <3>2. CASE SyncDone \/ WriteStaged \/ WriteFails \/ RotateSwaps \/ RotateFails
      BY Zenon, <3>2 DEF SyncDone, WriteStaged, WriteFails, RotateSwaps, RotateFails
    <3>3. CASE MaybeIssue \/ WriterTick \/ LastSettles \/ WriterEnds \/ DrainEnds
      BY Zenon, <3>3 DEF MaybeIssue, WriterTick, LastSettles, WriterEnds, DrainEnds, sharedVars
    <3>4. CASE RotateSyncs \/ LastSyncs \/ DiskSyncs
      BY Zenon, <3>4 DEF RotateSyncs, LastSyncs, DiskSyncs, SyncSucceeds, SyncFails
    <3> QED
      BY ZenonT(40), <3>1, <3>2, <3>3, <3>4 DEF WriterNext, WriterStep
  <2>3. SureImages(e)' = SureImages(e)
    BY Zenon, <2>1 DEF SureImages
  <2> QED
    BY Zenon, <2>2, <2>3 DEF Keeps, Kept, Imaged, OnDisk
<1> QED
  BY Zenon, <1>1, <1>2

-----------------------------------------------------------------------------
(* The writer's steps, one by one. *)

\* What each of them has to keep but where the task is.
StepPlaces == FilesOrdered /\ RoundSound /\ \A e \in Executors : ExecPlaces(e)

\* What is kept of a written triple stays kept.
LEMMA TriplesKept ==
    ASSUME \A e \in Executors : Keeps(e)
    PROVE  \A t \in Triple : Kept(t[2], t[3]) => Kept(t[2], t[3])'
BY Zenon DEF Keeps, Triple

\* A failure: those it dropped batches of are told, and the others had none.
LEMMA FailKeeps ==
    ASSUME TypeOK, TypeOK', PlacesInv, UNCHANGED execVars, \A e \in Executors : Keeps(e),
           NEW seg \in Segment, Fail(seg), seg.rotation = segment.rotation,
           seg.failed = segment.failed, segment.attempted <= seg.attempted,
           UNCHANGED <<inbox, written, closed, images>>
    PROVE  StepPlaces'
<1>0. /\ FilesOrdered /\ RoundSound
      /\ segment \in Segment /\ lanes \in [Executors -> Lane]
      /\ written \subseteq Triple /\ progress \in [Executors -> Seq(Progress)]
  BY Zenon DEF PlacesInv, TypeOK, WriterTypeOK, SharedTypeOK
<1>1. /\ segment'.rotation = segment.rotation
      /\ segment'.attempted = seg.attempted
      /\ segment'.failed /\ ~segment'.dirty
      /\ inflight' = NoSync /\ staged' = <<>>
  BY Zenon DEF Fail, FailTelling, Segment
<1>2. \A e \in Executors :
        /\ lanes[e] \in Lane
        /\ lanes'[e].written = lanes[e].written /\ lanes'[e].received = lanes[e].written
        /\ lanes'[e].pending = 0 /\ lanes'[e].stopped = lanes[e].stopped
        /\ lanes[e].written \in Nat /\ lanes[e].received \in Nat /\ lanes[e].pending \in Nat
  <2>1. \A e \in Executors : lanes'[e] = LaneFailed(lanes[e]) /\ lanes[e] \in Lane
    BY Zenon, <1>0 DEF Fail, FailTelling
  <2>2. \A e \in Executors : lanes[e].written \in Nat /\ lanes[e].received \in Nat /\ lanes[e].pending \in Nat
    BY Zenon, <2>1 DEF Lane
  <2> QED
    BY <2>1, <2>2, LaneOrder
<1>3. \A e \in Executors :
        progress'[e] = IF ~segment.failed \/ lanes[e].pending > 0
                       THEN Append(progress[e], Fault) ELSE progress[e]
  BY ZenonT(40) DEF Fail, FailTelling
<1>4. FilesOrdered'
  BY <1>0, <1>1, <1>2 DEF FilesOrdered, Segment, Triple
<1>5. RoundSound'
  BY Zenon, <1>1 DEF RoundSound, NoSync
<1>6. ASSUME NEW e \in Executors PROVE ExecPlaces(e)'
  <2>1. /\ ExecPlaces(e) /\ LaneBehind(e) /\ Placed(e)
        /\ sync' = sync /\ sync[e].batch \in Nat
    BY Zenon DEF PlacesInv, ExecPlaces, execVars, TypeOK, ExecTypeOK, SyncState
  <2>2. Says(e)
    <3>1. Fault \in Progress /\ Fault.type # "Durable" /\ Fault # Stopped
      BY Zenon DEF Fault, Progress, Stopped
    <3> QED
      BY Zenon, <1>3, <3>1 DEF Says
  <2>3. LaneBehind(e)'
    <3>1. inflight'.frozen[e] = 0
      BY Zenon, <1>1 DEF NoSync
    <3> QED
      BY <1>1, <1>2, <2>1, <3>1 DEF LaneBehind
  <2>4. Takes /\ images'[e] \subseteq images[e]
    BY Zenon DEF Takes
  <2>5. lanes'[e].received <= lanes[e].received
    BY Zenon, <1>2, <2>1 DEF LaneBehind
  <2>6. ASSUME ~Told(e), ~Told(e)'
        PROVE  (WrittenPlaced(e) /\ RoundPlaced(e) /\ StagedPlaced(e) /\ QueuedPlaced(e))'
    <3>1. segment.failed /\ lanes[e].pending = 0
      <4>1. CASE ~segment.failed \/ lanes[e].pending > 0
        <5>1. progress'[e] = Append(progress[e], Fault) /\ progress[e] \in Seq(Progress) /\ Fault \in Progress
          BY ZenonT(40), <1>0, <1>3, <4>1 DEF Fault, Progress
        <5>2. FaultQueued(e)'
          BY <5>1, AppendFacts DEF FaultQueued
        <5> QED
          BY Zenon, <2>6, <5>2 DEF Told
      <4> QED
        BY <1>2, <4>1
    <3>2. inflight = NoSync /\ lanes[e].received = lanes[e].written
      BY Zenon, <1>0, <2>1, <3>1 DEF RoundSound, LaneBehind
    <3>3. WrittenPlaced(e) /\ QueuedPlaced(e)
      BY ZenonT(40), <2>1, <2>6 DEF Placed
    <3>4. WrittenPlaced(e)'
      <4>1. \A i \in 1 .. lanes[e].written : Kept(e, i)
        BY ZenonT(40), <3>1, <3>2, <3>3 DEF WrittenPlaced, UnderSync, InSegment, NoSync
      <4> QED
        BY <1>2, <4>1 DEF WrittenPlaced, Keeps
    <3>5. RoundPlaced(e)'
      BY <1>1 DEF RoundPlaced, NoSync
    <3>6. StagedPlaced(e)'
      BY <1>2 DEF StagedPlaced
    <3>7. QueuedPlaced(e)'
      BY ZenonT(40), <1>2, <2>4, <3>2, <3>3, QueuedStays
    <3> QED
      BY ZenonT(40), <3>4, <3>5, <3>6, <3>7
  <2> QED
    BY ZenonT(40), <1>2, <2>1, <2>2, <2>3, <2>4, <2>5, <2>6, WriterPlaces
<1> QED
  BY Zenon, <1>4, <1>5, <1>6 DEF StepPlaces

\* A `Durable` for the batches up to frozen, none of which is in doubt.
LEMMA ReportSays ==
    ASSUME TypeOK, NEW frozen \in Frozen, ReportDurable(frozen), NEW e \in Executors,
           frozen[e] <= sync[e].batch, Told(e) \/ KeptTo(e, frozen[e])'
    PROVE  /\ Says(e)
           /\ lanes'[e].written = lanes[e].written /\ lanes'[e].received = lanes[e].received
           /\ lanes'[e].pending = lanes[e].pending /\ lanes'[e].stopped = lanes[e].stopped
<1>0. frozen[e] \in Nat /\ lanes[e] \in Lane /\ lanes[e].bytes \in Nat
  BY Zenon DEF TypeOK, WriterTypeOK, Lane, Frozen
<1>1. \/ progress'[e] = progress[e]
      \/ progress'[e] = Append(progress[e], Durable(frozen[e], lanes[e].bytes))
  BY Zenon DEF ReportDurable
<1>2. PICK m \in Progress : m = Durable(frozen[e], lanes[e].bytes)
  BY Zenon, <1>0, MessageTypes
<1>3. m.type = "Durable" /\ m.through = frozen[e] /\ m # Stopped
  BY Zenon, <1>2 DEF Durable, Stopped
<1>4. Says(e)
  BY Zenon, <1>1, <1>2, <1>3 DEF Says
<1>5. \/ lanes'[e] = lanes[e]
      \/ lanes'[e] = [lanes[e] EXCEPT !.durable = frozen[e], !.reported = lanes[e].bytes]
  BY Zenon DEF ReportDurable
<1>6. LET k == [lanes[e] EXCEPT !.durable = frozen[e], !.reported = lanes[e].bytes] IN
      /\ k.written = lanes[e].written /\ k.received = lanes[e].received
      /\ k.pending = lanes[e].pending /\ k.stopped = lanes[e].stopped
  BY <1>0, LaneOrder
<1> QED
  BY Zenon, <1>4, <1>5, <1>6

\* The round in flight settled well: everything it froze is kept.
LEMMA SettleKeeps ==
    ASSUME TypeOK, TypeOK', PlacesInv, UNCHANGED execVars, \A e \in Executors : Keeps(e),
           inflight.result = "ok", ReportDurable(RoundCovers), inflight' = NoSync,
           UNCHANGED <<segment, staged, closed, inbox, written, dropped, images>>
    PROVE  StepPlaces'
<1>0. /\ FilesOrdered /\ RoundSound /\ inflight \in InFlight
      /\ written \subseteq Triple /\ inflight.covers \subseteq Triple
  BY Zenon DEF PlacesInv, TypeOK, WriterTypeOK, SharedTypeOK, InFlight
<1>1. PICK frozen \in Frozen : frozen = inflight.frozen
  BY Zenon, <1>0 DEF InFlight
<1>2. ReportDurable(frozen)
  BY Zenon, <1>1 DEF RoundCovers
<1>3. \A t \in Triple : Kept(t[2], t[3]) => Kept(t[2], t[3])'
  BY Zenon, TriplesKept
<1>4. \A t \in inflight.covers : Kept(t[2], t[3])
  BY Zenon, <1>0 DEF RoundSound
<1>5. ASSUME NEW e \in Executors
      PROVE  /\ Says(e)
             /\ lanes'[e].written = lanes[e].written /\ lanes'[e].received = lanes[e].received
             /\ lanes'[e].pending = lanes[e].pending /\ lanes'[e].stopped = lanes[e].stopped
  <2>1. LaneBehind(e) /\ Placed(e) /\ Keeps(e) /\ frozen[e] \in Nat
    BY Zenon DEF PlacesInv, ExecPlaces, Frozen
  <2>2. frozen[e] <= sync[e].batch
    BY Zenon, <1>1, <2>1 DEF LaneBehind
  <2>3. Told(e) \/ KeptTo(e, frozen[e])'
    <3> SUFFICES ASSUME ~Told(e), NEW i \in 1 .. frozen[e] PROVE Kept(e, i)'
      BY Zenon DEF KeptTo
    <3>1. Kept(e, i) \/ UnderSync(e, i)
      BY Zenon, <1>1, <2>1 DEF Placed, RoundPlaced
    <3>2. Kept(e, i)
      BY Zenon, <1>4, <3>1 DEF UnderSync
    <3> QED
      BY <2>1, <3>2 DEF Keeps
  <2> QED
    BY Zenon, <1>2, <2>2, <2>3, ReportSays
<1>6. FilesOrdered'
  BY Zenon, <1>0, <1>5 DEF FilesOrdered, Triple
<1>7. RoundSound'
  BY Zenon, <1>0, <1>3, <1>4 DEF RoundSound, NoSync
<1>8. ASSUME NEW e \in Executors PROVE ExecPlaces(e)'
  <2>1. /\ ExecPlaces(e) /\ LaneBehind(e) /\ Placed(e) /\ Keeps(e)
        /\ sync' = sync /\ sync[e].batch \in Nat
        /\ lanes[e].written \in Nat /\ lanes[e].received \in Nat
    BY ZenonT(40) DEF PlacesInv, ExecPlaces, execVars, TypeOK, ExecTypeOK, SyncState, WriterTypeOK, Lane
  <2>2. Takes /\ images'[e] \subseteq images[e] /\ lanes'[e].received <= lanes[e].received
    BY SMTT(30), <1>5, <2>1 DEF Takes
  <2>3. LaneBehind(e)'
    BY <1>5, <2>1 DEF LaneBehind, NoSync
  <2>4. ASSUME ~Told(e)
        PROVE  (WrittenPlaced(e) /\ RoundPlaced(e) /\ StagedPlaced(e) /\ QueuedPlaced(e))'
    <3>1. WrittenPlaced(e) /\ StagedPlaced(e) /\ QueuedPlaced(e)
      BY ZenonT(40), <2>1, <2>4 DEF Placed
    <3>2. WrittenPlaced(e)'
      <4>1. \A i \in 1 .. lanes[e].written : Kept(e, i) \/ InSegment(e, i)
        BY Zenon, <1>4, <3>1 DEF WrittenPlaced, UnderSync
      <4> QED
        BY <1>5, <2>1, <4>1 DEF WrittenPlaced, Keeps, InSegment
    <3>3. RoundPlaced(e)'
      BY SMTT(30) DEF RoundPlaced, NoSync
    <3>4. StagedPlaced(e)'
      BY <1>5, <2>1, <3>1 DEF StagedPlaced, Keeps
    <3>5. QueuedPlaced(e)'
      BY ZenonT(40), <1>5, <2>1, <2>2, <3>1, QueuedStays
    <3> QED
      BY ZenonT(40), <3>2, <3>3, <3>4, <3>5
  <2> QED
    BY ZenonT(40), <1>5, <2>1, <2>2, <2>3, <2>4, WriterPlaces
<1> QED
  BY Zenon, <1>6, <1>7, <1>8 DEF StepPlaces

\* The writer's order of e's batches stays as it is.
SameLane(e) ==
    /\ lanes'[e].written = lanes[e].written /\ lanes'[e].received = lanes[e].received
    /\ lanes'[e].pending = lanes[e].pending

\* A step that moves no batch of e.
LEMMA QuietPlaces ==
    ASSUME TypeOK, TypeOK', PlacesInv, UNCHANGED execVars, NEW e \in Executors, Keeps(e),
           Says(e), Takes, SameLane(e), images'[e] \subseteq images[e], staged' = staged,
           inbox' = inbox \/ ~SubmitOf(Head(inbox), e),
           lanes'[e].stopped =>
               \/ lanes[e].stopped
               \/ inbox # <<>> /\ inbox' = Tail(inbox) /\ StopOf(Head(inbox), e),
           segment'.failed = segment.failed, segment'.rotation = segment.rotation,
           inflight'.frozen = inflight.frozen, inflight'.covers = inflight.covers,
           inflight'.result # "err" => inflight.result # "err",
           \A t \in written \ written' : t[1] # segment.rotation
    PROVE  ExecPlaces(e)'
<1>1. /\ ExecPlaces(e) /\ LaneBehind(e) /\ Placed(e)
      /\ sync' = sync /\ sync[e].batch \in Nat
      /\ lanes[e].written \in Nat /\ lanes[e].received \in Nat
      /\ inflight.frozen[e] \in Nat
  BY ZenonT(40) DEF PlacesInv, ExecPlaces, execVars, TypeOK, ExecTypeOK, SyncState, WriterTypeOK, Lane,
         InFlight, Frozen
<1>2. LaneBehind(e)' /\ lanes'[e].received <= lanes[e].received
  BY <1>1 DEF LaneBehind, SameLane
<1>3. ASSUME ~Told(e)
      PROVE  (WrittenPlaced(e) /\ RoundPlaced(e) /\ StagedPlaced(e) /\ QueuedPlaced(e))'
  <2>1. WrittenPlaced(e) /\ RoundPlaced(e) /\ StagedPlaced(e) /\ QueuedPlaced(e)
    BY ZenonT(40), <1>1, <1>3 DEF Placed
  <2>2. \A i \in Nat : /\ UnderSync(e, i) => UnderSync(e, i)'
                       /\ InSegment(e, i) => InSegment(e, i)'
    BY SMTT(30) DEF UnderSync, InSegment
  <2>3. WrittenPlaced(e)'
    BY SMTT(30), <1>1, <2>1, <2>2 DEF WrittenPlaced, Keeps, SameLane
  <2>4. RoundPlaced(e)'
    BY SMTT(30), <1>1, <2>1, <2>2 DEF RoundPlaced, Keeps
  <2>5. StagedPlaced(e)'
    BY <1>1, <2>1 DEF StagedPlaced, Keeps, SameLane
  <2>6. QueuedPlaced(e)'
    BY Zenon, <1>1, <2>1, QueuedStays DEF SameLane
  <2> QED
    BY Zenon, <2>3, <2>4, <2>5, <2>6
<1> QED
  BY Zenon, <1>1, <1>2, <1>3, WriterPlaces

\* A round starts: what it freezes is in the open segment, and so under it.
LEMMA IssueKeeps ==
    ASSUME TypeOK, TypeOK', PlacesInv, UNCHANGED execVars, \A e \in Executors : Keeps(e),
           Issue, UNCHANGED <<closed, inbox, written, dropped, images>>
    PROVE  StepPlaces'
<1>0. /\ FilesOrdered /\ RoundSound /\ segment \in Segment /\ written \subseteq Triple
  BY Zenon DEF PlacesInv, TypeOK, WriterTypeOK, SharedTypeOK
<1>1. /\ ~segment.failed /\ inflight = NoSync
      /\ segment'.rotation = segment.rotation /\ segment'.attempted = segment.attempted
      /\ ~segment'.failed
      /\ inflight'.frozen = LaneWritten /\ inflight'.result = "running"
      /\ inflight'.covers = InRotation(written, segment.rotation)
      /\ lanes' = lanes /\ staged' = staged /\ progress' = progress
  BY Zenon, <1>0 DEF Issue, MayIssue, RoundSound, Segment
<1>2. FilesOrdered'
  BY Zenon, <1>0, <1>1 DEF FilesOrdered
<1>3. RoundSound'
  <2>1. \A t \in dropped : t[1] # segment.rotation
    BY Zenon, <1>0, <1>1 DEF RoundSound, NoSync
  <2> QED
    BY Zenon, <1>1, <2>1 DEF RoundSound, InRotation, NoSync
<1>4. ASSUME NEW e \in Executors PROVE ExecPlaces(e)'
  <2>1. /\ ExecPlaces(e) /\ LaneBehind(e) /\ Placed(e) /\ Keeps(e)
        /\ sync' = sync /\ sync[e].batch \in Nat
        /\ lanes[e].written \in Nat /\ lanes[e].received \in Nat
    BY ZenonT(40) DEF PlacesInv, ExecPlaces, execVars, TypeOK, ExecTypeOK, SyncState, WriterTypeOK, Lane
  <2>2. Takes /\ Says(e) /\ images'[e] \subseteq images[e] /\ lanes'[e].received <= lanes[e].received
    BY SMTT(30), <1>1, <2>1 DEF Takes, Says
  <2>3. LaneBehind(e)' /\ inflight'.frozen[e] = lanes[e].written
    BY <1>1, <2>1 DEF LaneBehind, LaneWritten
  <2>4. ASSUME ~Told(e)
        PROVE  (WrittenPlaced(e) /\ RoundPlaced(e) /\ StagedPlaced(e) /\ QueuedPlaced(e))'
    <3>1. WrittenPlaced(e) /\ StagedPlaced(e) /\ QueuedPlaced(e)
      BY Zenon, <2>1, <2>4 DEF Placed
    <3>2. \A i \in 1 .. lanes[e].written : Kept(e, i) \/ InSegment(e, i)
      BY Zenon, <1>1, <3>1 DEF WrittenPlaced, UnderSync, NoSync
    <3>3. \A i \in Nat : InSegment(e, i) => UnderSync(e, i)'
      <4> SUFFICES ASSUME NEW i \in Nat, InSegment(e, i) PROVE UnderSync(e, i)'
        BY Zenon
      <4>1. <<segment.rotation, e, i>> \in inflight'.covers
        BY ZenonT(40), <1>1 DEF InSegment, InRotation
      <4> QED
        BY Zenon, <4>1 DEF UnderSync
    <3>4. \A i \in 1 .. lanes[e].written : (Kept(e, i) \/ UnderSync(e, i))'
      BY <2>1, <3>2, <3>3 DEF Keeps
    <3>5. WrittenPlaced(e)' /\ RoundPlaced(e)'
      BY ZenonT(40), <1>1, <2>3, <3>4 DEF WrittenPlaced, RoundPlaced
    <3>6. StagedPlaced(e)'
      BY <1>1, <2>1, <3>1 DEF StagedPlaced, Keeps
    <3>7. QueuedPlaced(e)'
      BY ZenonT(40), <1>1, <2>1, <2>2, <3>1, QueuedStays
    <3> QED
      BY ZenonT(40), <3>5, <3>6, <3>7
  <2> QED
    BY ZenonT(40), <1>1, <2>1, <2>2, <2>3, <2>4, WriterPlaces
<1> QED
  BY Zenon, <1>2, <1>3, <1>4 DEF StepPlaces

\* A batch is taken: it was the next of its executor's, so what lies between it
\* and the last one taken was dropped by a failure that was recovered from.
LEMMA SubmitKeeps ==
    ASSUME TypeOK, TypeOK', PlacesInv, UNCHANGED execVars, \A e \in Executors : Keeps(e),
           inbox # <<>>, inbox' = Tail(inbox), TakeSubmit(Head(inbox)),
           UNCHANGED <<segment, inflight, progress>>
    PROVE  StepPlaces'
<1>0. /\ FilesOrdered /\ RoundSound /\ lanes \in [Executors -> Lane] /\ written \subseteq Triple
      /\ inbox \in Seq(ToWriter) /\ staged \in Seq(Executors \X Nat) /\ inflight \in InFlight
      /\ inflight.covers \subseteq Triple
  BY Zenon DEF PlacesInv, TypeOK, WriterTypeOK, SharedTypeOK, InFlight
<1>1. PICK m \in ToWriter : m = Head(inbox) /\ m = inbox[1] /\ m.type = "Submit"
  <2>1. Head(inbox) \in ToWriter /\ Head(inbox) = inbox[1]
    BY <1>0
  <2> QED
    BY Zenon, <2>1 DEF TakeSubmit
<1>2. /\ m.executor \in Executors /\ m.batch \in Nat /\ m = Submit(m.executor, m.batch)
  BY <1>1 DEF ToWriter, SyncNow, Submit
<1>3. /\ lanes' = [lanes EXCEPT ![m.executor] =
                     [@ EXCEPT !.received = m.batch, !.pending = lanes[m.executor].pending + 1]]
      /\ staged' = Append(staged, <<m.executor, m.batch>>)
      /\ UNCHANGED <<closed, written, dropped, images>>
  BY Zenon, <1>1 DEF TakeSubmit
<1>4. \A e \in Executors :
        /\ lanes[e] \in Lane /\ lanes[e].written \in Nat /\ lanes[e].received \in Nat
        /\ lanes[e].pending \in Nat
        /\ lanes'[e].written = lanes[e].written /\ lanes'[e].stopped = lanes[e].stopped
        /\ e # m.executor => SameLane(e)
        /\ e = m.executor => lanes'[e].received = m.batch /\ lanes'[e].pending = lanes[e].pending + 1
  <2>1. \A e \in Executors :
          /\ lanes[e] \in Lane /\ lanes[e].written \in Nat /\ lanes[e].received \in Nat
          /\ lanes[e].pending \in Nat
    BY Zenon, <1>0 DEF Lane
  <2>2. \A e \in Executors : e # m.executor => lanes'[e] = lanes[e]
    BY Zenon, <1>0, <1>3
  <2>3. LET k == lanes'[m.executor] IN
        /\ k.written = lanes[m.executor].written /\ k.stopped = lanes[m.executor].stopped
        /\ k.received = m.batch /\ k.pending = lanes[m.executor].pending + 1
    <3>1. lanes'[m.executor] = [lanes[m.executor] EXCEPT !.received = m.batch,
                                  !.pending = lanes[m.executor].pending + 1]
      BY Zenon, <1>0, <1>2, <1>3
    <3> QED
      BY Zenon, <1>2, <2>1, <3>1 DEF Lane
  <2> QED
    BY Zenon, <2>1, <2>2, <2>3 DEF SameLane
<1>5. /\ \A k \in DOMAIN staged : k \in DOMAIN staged' /\ staged'[k] = staged[k]
      /\ \A k \in DOMAIN staged' :
            (k \in DOMAIN staged /\ staged'[k] = staged[k]) \/ staged'[k] = <<m.executor, m.batch>>
      /\ \E k \in DOMAIN staged' : staged'[k] = <<m.executor, m.batch>>
  <2>1. <<m.executor, m.batch>> \in Executors \X Nat
    BY Zenon, <1>2
  <2>2. PICK n \in Nat : n = Len(staged)
    BY <1>0
  <2>3. /\ DOMAIN staged' = 1 .. n + 1 /\ DOMAIN staged = 1 .. n
        /\ \A k \in 1 .. n : staged'[k] = staged[k]
        /\ staged'[n + 1] = <<m.executor, m.batch>>
    BY <1>0, <1>3, <2>1, <2>2, AppendFacts
  <2>4. n + 1 \in 1 .. n + 1 /\ \A k \in 1 .. n + 1 : k \in 1 .. n \/ k = n + 1
    OBVIOUS
  <2>5. \A k \in 1 .. n : k \in 1 .. n + 1
    OBVIOUS
  <2> QED
    BY Zenon, <2>3, <2>4, <2>5
<1>6. FilesOrdered'
  BY Zenon, <1>0, <1>3, <1>4 DEF FilesOrdered, Triple
<1>7. RoundSound'
  <2>1. \A t \in Triple : Kept(t[2], t[3]) => Kept(t[2], t[3])'
    BY Zenon, TriplesKept
  <2> QED
    BY Zenon, <1>0, <1>3, <2>1 DEF RoundSound
<1>8. ASSUME NEW e \in Executors PROVE ExecPlaces(e)'
  <2>1. /\ ExecPlaces(e) /\ LaneBehind(e) /\ Placed(e) /\ Keeps(e) /\ QueueOrdered(e)
        /\ sync' = sync /\ sync[e].batch \in Nat
    BY Zenon DEF PlacesInv, ExecPlaces, execVars, TypeOK, ExecTypeOK, SyncState
  <2>2. Takes /\ Says(e) /\ images'[e] \subseteq images[e] /\ SubmitOf(Head(inbox), m.executor)
    BY Zenon, <1>1, <1>3 DEF Takes, Says, SubmitOf
  <2>3. e = m.executor => lanes[e].received < m.batch /\ m.batch <= sync[e].batch
    <3>1. 1 \in DOMAIN inbox
      BY SMTT(30), <1>0
    <3> QED
      BY Zenon, <1>1, <2>1, <3>1 DEF QueueOrdered, SubmitOf
  <2>4. LaneBehind(e)'
    <3>1. lanes[e].received <= lanes'[e].received /\ lanes'[e].received <= sync[e].batch
          /\ lanes'[e].received \in Nat
      BY <1>2, <1>4, <2>1, <2>3 DEF LaneBehind, SameLane
    <3>2. \A k \in DOMAIN staged' : staged'[k][1] = e => staged'[k][2] <= lanes'[e].received
      <4> SUFFICES ASSUME NEW k \in DOMAIN staged', staged'[k][1] = e
                   PROVE  staged'[k][2] <= lanes'[e].received
        BY ZenonT(40)
      <4>1. CASE k \in DOMAIN staged /\ staged'[k] = staged[k]
        <5>1. staged[k][2] \in Nat /\ staged[k][2] <= lanes[e].received
          BY <1>0, <2>1, <4>1 DEF LaneBehind
        <5> QED
          BY SMTT(30), <1>4, <3>1, <4>1, <5>1
      <4>2. CASE staged'[k] = <<m.executor, m.batch>>
        BY SMTT(30), <1>2, <1>4, <4>2
      <4> QED
        BY Zenon, <1>5, <4>1, <4>2
    <3>3. lanes'[e].pending = 0 => lanes'[e].received = lanes'[e].written
      BY <1>4, <2>1 DEF LaneBehind, SameLane
    <3> QED
      BY SMTT(30), <1>4, <2>1, <3>1, <3>2, <3>3 DEF LaneBehind
  <2>5. ASSUME ~Told(e)
        PROVE  (WrittenPlaced(e) /\ RoundPlaced(e) /\ StagedPlaced(e) /\ QueuedPlaced(e))'
    <3>1. WrittenPlaced(e) /\ RoundPlaced(e) /\ StagedPlaced(e) /\ QueuedPlaced(e)
      BY Zenon, <2>1, <2>5 DEF Placed
    <3>2. WrittenPlaced(e)'
      <4>1. \A i \in 1 .. lanes[e].written : Kept(e, i) => Kept(e, i)'
        BY <1>4, <2>1 DEF Keeps
      <4>2. \A i : /\ UnderSync(e, i) => UnderSync(e, i)'
                   /\ InSegment(e, i) => InSegment(e, i)'
        BY Zenon, <1>3 DEF UnderSync, InSegment
      <4> QED
        BY ZenonT(40), <1>4, <3>1, <4>1, <4>2 DEF WrittenPlaced
    <3>3. RoundPlaced(e)'
      <4>1. inflight.frozen[e] \in Nat
        BY Zenon, <1>0 DEF InFlight, Frozen
      <4>2. \A i \in 1 .. inflight.frozen[e] : Kept(e, i) => Kept(e, i)'
        BY <2>1, <4>1 DEF Keeps
      <4>3. \A i : UnderSync(e, i) => UnderSync(e, i)'
        BY Zenon DEF UnderSync
      <4> QED
        BY ZenonT(40), <3>1, <4>2, <4>3 DEF RoundPlaced
    <3>4. CASE e # m.executor
      <4>1. StagedPlaced(e)'
        <5>1. \A i \in Nat : (\E k \in DOMAIN staged : staged[k] = <<e, i>>)
                               => \E k \in DOMAIN staged' : staged'[k] = <<e, i>>
          BY Zenon, <1>5
        <5>2. /\ lanes'[e].written = lanes[e].written /\ lanes'[e].received = lanes[e].received
              /\ lanes[e].written \in Nat /\ lanes[e].received \in Nat /\ Keeps(e)
          BY ZenonT(40), <1>4, <2>1, <3>4 DEF SameLane
        <5>3. \A i \in lanes[e].written + 1 .. lanes[e].received :
                i \in Nat /\ (Imaged(e, i) => Imaged(e, i)')
          BY <5>2 DEF Keeps
        <5> QED
          BY ZenonT(40), <3>1, <5>1, <5>2, <5>3 DEF StagedPlaced
      <4>2. QueuedPlaced(e)'
        <5>1. ~SubmitOf(Head(inbox), e)
          BY ZenonT(40), <1>1, <3>4 DEF SubmitOf
        <5> QED
          BY ZenonT(40), <1>4, <2>1, <2>2, <3>1, <3>4, <5>1, QueuedStays DEF SameLane
      <4> QED
        BY Zenon, <3>2, <3>3, <4>1, <4>2
    <3>5. CASE e = m.executor
      <4>1. ASSUME NEW i \in lanes[e].received + 1 .. sync[e].batch, ~Imaged(e, i)
            PROVE  i >= m.batch /\ (i > m.batch => \E k \in DOMAIN inbox' : inbox'[k] = Submit(e, i))
        <5>1. PICK k \in DOMAIN inbox : inbox[k] = Submit(e, i)
          BY ZenonT(40), <3>1, <4>1 DEF QueuedPlaced
        <5>2. k \in Nat /\ 1 <= k /\ 1 \in DOMAIN inbox /\ i \in Nat
          BY SMTT(30), <1>0, <1>4, <4>1
        <5>3. inbox[k].batch = i /\ SubmitOf(inbox[k], e) /\ SubmitOf(inbox[1], e)
          BY <1>1, <3>5, <5>1 DEF SubmitOf, Submit
        <5>4. CASE k = 1
          BY <1>1, <1>2, <5>2, <5>3, <5>4
        <5>5. CASE k > 1
          <6>1. m.batch < i
            BY ZenonT(40), <1>1, <2>1, <5>2, <5>3, <5>5 DEF QueueOrdered
          <6>2. k - 1 \in DOMAIN inbox' /\ inbox'[k - 1] = inbox[k]
            BY SMTT(30), <1>0, <5>2, <5>5
          <6> QED
            BY <1>2, <5>1, <5>2, <6>1, <6>2
        <5> QED
          BY <5>2, <5>4, <5>5
      <4>2. StagedPlaced(e)'
        <5> SUFFICES ASSUME NEW i \in lanes[e].written + 1 .. m.batch, ~Imaged(e, i)'
                     PROVE  \E k \in DOMAIN staged' : staged'[k] = <<e, i>>
          BY ZenonT(40), <1>4, <3>5 DEF StagedPlaced
        <5>1. i \in Nat /\ ~Imaged(e, i)
          BY <1>4, <2>1 DEF Keeps
        <5>2. CASE i <= lanes[e].received
          <6>1. \E k \in DOMAIN staged : staged[k] = <<e, i>>
            BY <1>4, <3>1, <5>1, <5>2 DEF StagedPlaced
          <6> QED
            BY ZenonT(40), <1>5, <6>1
        <5>3. CASE i > lanes[e].received
          <6>1. i = m.batch
            <7>1. /\ m.batch \in Nat /\ lanes[e].received \in Nat /\ sync[e].batch \in Nat
                  /\ m.batch <= sync[e].batch
              BY ZenonT(40), <1>2, <1>4, <2>1, <2>3, <3>5
            <7>2. i <= m.batch /\ i \in lanes[e].received + 1 .. sync[e].batch
              BY <1>4, <5>1, <5>3, <7>1
            <7>3. i >= m.batch
              BY Zenon, <4>1, <5>1, <7>2
            <7> QED
              BY <5>1, <7>1, <7>2, <7>3
          <6> QED
            BY ZenonT(40), <1>5, <3>5, <6>1
        <5> QED
          BY <1>4, <5>1, <5>2, <5>3
      <4>3. QueuedPlaced(e)'
        <5> SUFFICES ASSUME NEW i \in m.batch + 1 .. sync[e].batch, ~Imaged(e, i)'
                     PROVE  \E k \in DOMAIN inbox' : inbox'[k] = Submit(e, i)
          BY Zenon, <1>4, <2>1, <3>5 DEF QueuedPlaced
        <5>1. /\ m.batch \in Nat /\ lanes[e].received \in Nat /\ sync[e].batch \in Nat
              /\ lanes[e].received < m.batch /\ Keeps(e)
          BY ZenonT(40), <1>2, <1>4, <2>1, <2>3, <3>5
        <5>2. i \in Nat /\ i > m.batch /\ i \in lanes[e].received + 1 .. sync[e].batch
          BY <5>1
        <5>3. ~Imaged(e, i)
          BY Zenon, <5>1, <5>2 DEF Keeps
        <5> QED
          BY Zenon, <4>1, <5>2, <5>3
      <4> QED
        BY Zenon, <3>2, <3>3, <4>2, <4>3
    <3> QED
      BY Zenon, <3>4, <3>5
  <2>6. \/ lanes'[e].received <= lanes[e].received
        \/ /\ inbox # <<>> /\ inbox' = Tail(inbox) /\ SubmitOf(Head(inbox), e)
           /\ lanes'[e].received = Head(inbox).batch
    <3>1. CASE e = m.executor
      BY ZenonT(40), <1>1, <1>4, <2>2, <3>1 DEF Takes
    <3>2. CASE e # m.executor
      <4>1. lanes'[e].received = lanes[e].received /\ lanes[e].received \in Nat
        BY ZenonT(40), <1>4, <3>2 DEF SameLane
      <4> QED
        BY <4>1
    <3> QED
      BY Zenon, <3>1, <3>2
  <2> QED
    BY ZenonT(40), <1>4, <2>1, <2>2, <2>4, <2>5, <2>6, WriterPlaces
<1> QED
  BY Zenon, <1>6, <1>7, <1>8 DEF StepPlaces

=============================================================================
