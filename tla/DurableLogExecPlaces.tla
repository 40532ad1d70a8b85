------------------------ MODULE DurableLogExecPlaces ------------------------
(***************************************************************************)
(* The executor's half of PlacesInv, DurableLog's invariant: serving,      *)
(* hearing the writer, stopping, and ticks with no snapshot cycle open.    *)
(***************************************************************************)
EXTENDS DurableLogTypes

-----------------------------------------------------------------------------
(* What an executor's step is made of. *)

\* What executor e's queue to the writer grows by: at most one batch, the next
\* one, before anything else it sends; and nothing after a Stop.
Grows(e, new) ==
    /\ inbox' = inbox \o new
    /\ \/ /\ sync'[e].batch = sync[e].batch
          /\ \A k \in DOMAIN new : ~SubmitOf(new[k], e)
       \/ /\ sync'[e].batch = sync[e].batch + 1
          /\ phase[e] \in {"serving", "draining"}
          /\ 1 \in DOMAIN new /\ new[1] = Submit(e, sync[e].batch + 1)
          /\ \A k \in DOMAIN new : k # 1 => ~SubmitOf(new[k], e)
    /\ \A k \in DOMAIN new : StopOf(new[k], e) =>
          /\ phase'[e] \in {"stopping", "ended"}
          /\ \A j \in DOMAIN new : ~SubmitOf(new[j], e)
    /\ phase[e] \in {"stopping", "ended"} => phase'[e] \in {"stopping", "ended"}

\* Where the messages of a queue that grew come from.
LEMMA GrownQueue ==
    ASSUME TypeOK, NEW new \in Seq(ToWriter), inbox' = inbox \o new
    PROVE  \E n \in Nat :
              /\ DOMAIN inbox = 1 .. n
              /\ \A k \in DOMAIN inbox : k \in DOMAIN inbox' /\ inbox'[k] = inbox[k]
              /\ \A k \in DOMAIN inbox' :
                    \/ k \in DOMAIN inbox /\ inbox'[k] = inbox[k]
                    \/ k \in Nat /\ n < k /\ k - n \in DOMAIN new /\ inbox'[k] = new[k - n]
              /\ \A k \in DOMAIN new : n + k \in DOMAIN inbox' /\ inbox'[n + k] = new[k]
<1>0. inbox \in Seq(ToWriter)
  BY Zenon DEF TypeOK, SharedTypeOK
<1>1. PICK n \in Nat : n = Len(inbox)
  BY <1>0
<1>2. DOMAIN inbox = 1 .. n /\ DOMAIN inbox' = 1 .. n + Len(new) /\ DOMAIN new = 1 .. Len(new)
      /\ Len(new) \in Nat
  BY <1>0, <1>1
<1>3. /\ \A k \in 1 .. n : inbox'[k] = inbox[k]
      /\ \A k \in 1 .. Len(new) : inbox'[n + k] = new[k]
  BY <1>0, <1>1, <1>2
<1>4. ASSUME NEW k \in 1 .. n + Len(new), k \notin 1 .. n
      PROVE  k \in Nat /\ n < k /\ k - n \in 1 .. Len(new) /\ inbox'[k] = new[k - n]
  <2>1. k \in Nat /\ n < k /\ k - n \in 1 .. Len(new) /\ n + (k - n) = k
    BY <1>2, <1>4
  <2> QED
    BY ZenonT(40), <1>3, <2>1
<1>5. \A k \in 1 .. n : k \in 1 .. n + Len(new)
  BY <1>2
<1>6. \A k \in 1 .. Len(new) : n + k \in 1 .. n + Len(new)
  BY <1>2
<1> QED
  BY ZenonT(40), <1>2, <1>3, <1>4, <1>5, <1>6

\* The order of the queue, and of the lane behind it, when it grows so.
LEMMA GrowsKeeps ==
    ASSUME TypeOK, TypeOK', NEW e \in Executors, NEW new \in Seq(ToWriter), Grows(e, new),
           UNCHANGED <<lanes, staged, inflight>>, Keeps(e),
           LaneBehind(e), QueueOrdered(e), StopLast(e)
    PROVE  /\ sync[e].batch <= sync'[e].batch
           /\ LaneBehind(e)' /\ QueueOrdered(e)'
           /\ lanes'[e].stopped => /\ phase'[e] \in {"stopping", "ended"}
                                   /\ \A k \in DOMAIN inbox' : ~SubmitOf(inbox'[k], e)
           /\ \A k \in DOMAIN inbox' : StopOf(inbox'[k], e) =>
                 /\ phase'[e] \in {"stopping", "ended"}
                 /\ \A j \in DOMAIN inbox' : k < j => ~SubmitOf(inbox'[j], e)
           /\ QueuedPlaced(e) => QueuedPlaced(e)'
<1>0. /\ sync[e].batch \in Nat /\ sync'[e].batch \in Nat /\ lanes[e].received \in Nat
      /\ phase[e] \in {"serving", "draining", "stopping", "ended"}
      /\ lanes[e].written \in Nat /\ inflight.frozen[e] \in Nat
  BY ZenonT(40) DEF TypeOK, ExecTypeOK, SyncState, WriterTypeOK, Lane, InFlight, Frozen
<1>1. PICK n \in Nat :
        /\ DOMAIN inbox = 1 .. n
        /\ \A k \in DOMAIN inbox : k \in DOMAIN inbox' /\ inbox'[k] = inbox[k]
        /\ \A k \in DOMAIN inbox' :
              \/ k \in DOMAIN inbox /\ inbox'[k] = inbox[k]
              \/ k \in Nat /\ n < k /\ k - n \in DOMAIN new /\ inbox'[k] = new[k - n]
        /\ \A k \in DOMAIN new : n + k \in DOMAIN inbox' /\ inbox'[n + k] = new[k]
  BY Zenon, GrownQueue DEF Grows
<1>2. sync[e].batch <= sync'[e].batch
  BY <1>0 DEF Grows
<1>3. LaneBehind(e)'
  BY <1>0, <1>2 DEF LaneBehind
<1>4. \A k \in DOMAIN inbox' : SubmitOf(inbox'[k], e) =>
        \/ k \in DOMAIN inbox /\ inbox'[k] = inbox[k]
        \/ /\ k = n + 1 /\ inbox'[k].batch = sync[e].batch + 1
           /\ sync'[e].batch = sync[e].batch + 1 /\ phase[e] \in {"serving", "draining"}
  <2> SUFFICES ASSUME NEW k \in DOMAIN inbox', SubmitOf(inbox'[k], e),
                      k \in Nat, n < k, k - n \in DOMAIN new, inbox'[k] = new[k - n]
               PROVE  /\ k = n + 1 /\ inbox'[k].batch = sync[e].batch + 1
                      /\ sync'[e].batch = sync[e].batch + 1 /\ phase[e] \in {"serving", "draining"}
    BY Zenon, <1>1
  <2>1. /\ sync'[e].batch = sync[e].batch + 1 /\ phase[e] \in {"serving", "draining"}
        /\ new[1] = Submit(e, sync[e].batch + 1) /\ k - n = 1
    BY Zenon DEF Grows
  <2> QED
    BY <2>1 DEF Submit
<1>5. QueueOrdered(e)'
  <2>1. ASSUME NEW k \in DOMAIN inbox', SubmitOf(inbox'[k], e)
        PROVE  lanes'[e].received < inbox'[k].batch /\ inbox'[k].batch <= sync'[e].batch
    <3>1. CASE k \in DOMAIN inbox /\ inbox'[k] = inbox[k]
      <4>1. inbox[k] \in ToWriter
        BY <3>1 DEF TypeOK, SharedTypeOK
      <4>2. inbox[k].batch \in Nat
        BY <2>1, <3>1, <4>1 DEF SubmitOf, ToWriter, SyncNow
      <4> QED
        BY <1>0, <1>2, <2>1, <3>1, <4>2 DEF QueueOrdered
    <3>2. CASE inbox'[k].batch = sync[e].batch + 1 /\ sync'[e].batch = sync[e].batch + 1
      BY <1>0, <3>2 DEF LaneBehind
    <3> QED
      BY Zenon, <1>4, <2>1, <3>1, <3>2
  <2>2. ASSUME NEW j \in DOMAIN inbox', NEW k \in DOMAIN inbox', j < k,
               SubmitOf(inbox'[j], e), SubmitOf(inbox'[k], e)
        PROVE  inbox'[j].batch < inbox'[k].batch
    <3>1. CASE k \in DOMAIN inbox /\ inbox'[k] = inbox[k]
      <4>1. j \in DOMAIN inbox /\ inbox'[j] = inbox[j]
        BY <1>1, <1>4, <2>2, <3>1
      <4> QED
        BY Zenon, <2>2, <3>1, <4>1 DEF QueueOrdered
    <3>2. CASE k = n + 1 /\ inbox'[k].batch = sync[e].batch + 1
      <4>1. j \in DOMAIN inbox /\ inbox'[j] = inbox[j]
        BY <1>1, <1>4, <2>2, <3>2
      <4>2. inbox[j] \in ToWriter
        BY <4>1 DEF TypeOK, SharedTypeOK
      <4>3. inbox[j].batch \in Nat /\ inbox[j].batch <= sync[e].batch
        BY <2>2, <4>1, <4>2 DEF SubmitOf, ToWriter, SyncNow, QueueOrdered
      <4> QED
        BY <1>0, <3>2, <4>1, <4>3
    <3> QED
      BY ZenonT(40), <1>4, <2>2, <3>1, <3>2
  <2> QED
    BY Zenon, <2>1, <2>2 DEF QueueOrdered, SubmitOf
<1>6. ASSUME lanes'[e].stopped
      PROVE  /\ phase'[e] \in {"stopping", "ended"}
             /\ \A k \in DOMAIN inbox' : ~SubmitOf(inbox'[k], e)
  <2>1. phase[e] \in {"stopping", "ended"} /\ \A k \in DOMAIN inbox : ~SubmitOf(inbox[k], e)
    BY Zenon, <1>6 DEF StopLast
  <2> QED
    BY Zenon, <1>4, <2>1 DEF Grows
<1>7. ASSUME NEW k \in DOMAIN inbox', StopOf(inbox'[k], e)
      PROVE  /\ phase'[e] \in {"stopping", "ended"}
             /\ \A j \in DOMAIN inbox' : k < j => ~SubmitOf(inbox'[j], e)
  <2>1. CASE k \in DOMAIN inbox /\ inbox'[k] = inbox[k]
    <3>1. /\ phase[e] \in {"stopping", "ended"}
          /\ \A j \in DOMAIN inbox : k < j => ~SubmitOf(inbox[j], e)
      BY Zenon, <1>7, <2>1 DEF StopLast
    <3> QED
      BY Zenon, <1>4, <3>1 DEF Grows
  <2>2. CASE k \in Nat /\ n < k /\ k - n \in DOMAIN new /\ inbox'[k] = new[k - n]
    <3>1. phase'[e] \in {"stopping", "ended"} /\ \A j \in DOMAIN new : ~SubmitOf(new[j], e)
      BY Zenon, <1>7, <2>2 DEF Grows
    <3>2. \A j \in DOMAIN inbox' : k < j => j \notin DOMAIN inbox
      BY <1>1, <2>2
    <3> QED
      BY Zenon, <1>1, <3>1, <3>2
  <2> QED
    BY Zenon, <1>1, <2>1, <2>2
<1>8. ASSUME QueuedPlaced(e) PROVE QueuedPlaced(e)'
  <2> SUFFICES ASSUME NEW i \in lanes[e].received + 1 .. sync'[e].batch
               PROVE  Imaged(e, i)' \/ \E k \in DOMAIN inbox' : inbox'[k] = Submit(e, i)
    BY Zenon DEF QueuedPlaced
  <2>1. CASE i <= sync[e].batch
    <3>1. i \in lanes[e].received + 1 .. sync[e].batch /\ i \in Nat
      BY <1>0, <2>1
    <3>2. Imaged(e, i) \/ \E k \in DOMAIN inbox : inbox[k] = Submit(e, i)
      BY Zenon, <1>8, <3>1 DEF QueuedPlaced
    <3> QED
      BY Zenon, <1>1, <3>1, <3>2 DEF Keeps
  <2>2. CASE i > sync[e].batch
    <3>1. 1 \in DOMAIN new /\ new[1] = Submit(e, i)
      <4>1. sync'[e].batch = sync[e].batch + 1 /\ i = sync[e].batch + 1
        BY <1>0, <2>2 DEF Grows
      <4> QED
        BY <1>0, <4>1 DEF Grows
    <3>2. n + 1 \in DOMAIN inbox' /\ inbox'[n + 1] = Submit(e, i)
      BY Zenon, <1>1, <3>1
    <3> QED
      BY Zenon, <3>2
  <2> QED
    BY <1>0, <2>1, <2>2
<1> QED
  BY Zenon, <1>2, <1>3, <1>5, <1>6, <1>7, <1>8

\* Executor e hears the first of the messages to it, or none.
Hears(e) == progress'[e] = progress[e] \/ (progress[e] # <<>> /\ progress'[e] = Tail(progress[e]))

\* Then every message still on its way is one place nearer, or where it was.
LEMMA HearsFacts ==
    ASSUME TypeOK, NEW e \in Executors, Hears(e)
    PROVE  \E d \in {0, 1} :
              /\ d = 1 => progress[e] # <<>> /\ Head(progress[e]) = progress[e][1]
                          /\ progress'[e] = Tail(progress[e])
              /\ d = 0 => progress'[e] = progress[e]
              /\ \A k \in DOMAIN progress'[e] :
                    /\ k \in Nat \ {0} /\ k + d \in DOMAIN progress[e]
                    /\ progress'[e][k] = progress[e][k + d]
              /\ \A k \in DOMAIN progress[e] :
                    k \in Nat \ {0} /\ (d < k => k - d \in DOMAIN progress'[e])
<1>0. progress[e] \in Seq(Progress)
  BY Zenon DEF TypeOK, SharedTypeOK
<1>1. CASE progress'[e] = progress[e]
  <2>1. \A k \in DOMAIN progress[e] :
          k \in Nat \ {0} /\ k + 0 \in DOMAIN progress[e] /\ k - 0 \in DOMAIN progress[e] /\ k + 0 = k
    BY <1>0
  <2> QED
    BY <1>1, <2>1
<1>2. CASE progress[e] # <<>> /\ progress'[e] = Tail(progress[e])
  <2>1. \A k \in DOMAIN progress'[e] :
          /\ k \in Nat \ {0} /\ k + 1 \in DOMAIN progress[e]
          /\ progress'[e][k] = progress[e][k + 1]
    BY <1>0, <1>2
  <2>2. \A k \in DOMAIN progress[e] :
          k \in Nat \ {0} /\ (1 < k => k - 1 \in DOMAIN progress'[e])
    BY <1>0, <1>2
  <2>3. Head(progress[e]) = progress[e][1]
    BY <1>0, <1>2
  <2> QED
    BY <1>2, <2>1, <2>2, <2>3
<1> QED
  BY Zenon, <1>1, <1>2 DEF Hears

\* It counts as durable only what is kept, and forgets no failure.
HeardWell(e) ==
    /\ sync[e].refusing => sync'[e].refusing
    /\ progress'[e] # progress[e] /\ Head(progress[e]) = Fault => sync'[e].refusing
    /\ \A b \in proven'[e] \cup granted'[e] : b \in proven[e] \cup granted[e] \/ KeptTo(e, b)'
    /\ sync'[e].durableBatch <= sync'[e].batch
    /\ (sync[e].refusing \/ KeptTo(e, sync[e].durableBatch))'
    /\ phase'[e] = "ended" =>
           phase[e] = "ended" \/ (sync[e].refusing \/ KeptTo(e, sync[e].batch))'

\* So what the node has said, and is about to say, stays true.
LEMMA HearsKeeps ==
    ASSUME TypeOK, TypeOK', NEW e \in Executors, Keeps(e), Hears(e), HeardWell(e),
           HeardBehind(e), Promised(e),
           \A k \in DOMAIN progress[e] :
               progress[e][k] = Stopped => phase[e] \in {"stopping", "ended"},
           \/ sync'[e].batch = sync[e].batch
           \/ sync[e].batch <= sync'[e].batch /\ phase[e] \in {"serving", "draining"},
           phase[e] \in {"stopping", "ended"} => phase'[e] \in {"stopping", "ended"},
           cycle'[e].waiting <= sync'[e].batch
    PROVE  /\ HeardBehind(e)' /\ Promised(e)' /\ (Told(e) => Told(e)')
           /\ \A k \in DOMAIN progress'[e] :
                  progress'[e][k] = Stopped => phase'[e] \in {"stopping", "ended"}
<1>0. /\ progress[e] \in Seq(Progress)
      /\ sync[e].batch \in Nat /\ sync'[e].batch \in Nat
      /\ proven[e] \cup granted[e] \subseteq Nat
      /\ \A k \in DOMAIN progress[e] : progress[e][k] \in Progress
  BY DEF TypeOK, SharedTypeOK, ExecTypeOK, SyncState
<1>1. PICK d \in {0, 1} :
        /\ d = 1 => progress[e] # <<>> /\ Head(progress[e]) = progress[e][1]
                    /\ progress'[e] = Tail(progress[e])
        /\ d = 0 => progress'[e] = progress[e]
        /\ \A k \in DOMAIN progress'[e] :
              /\ k \in Nat \ {0} /\ k + d \in DOMAIN progress[e]
              /\ progress'[e][k] = progress[e][k + d]
        /\ \A k \in DOMAIN progress[e] :
              k \in Nat \ {0} /\ (d < k => k - d \in DOMAIN progress'[e])
  BY Zenon, HearsFacts
<1>2. \A k \in DOMAIN progress[e] : progress[e][k].type = "Durable" => progress[e][k].through \in Nat
  BY <1>0 DEF Progress, Fault, Nudge, Stopped
<1>3. sync[e].batch <= sync'[e].batch
  BY <1>0
<1>4. HeardBehind(e)'
  <2>1. ASSUME NEW k \in DOMAIN progress'[e], progress'[e][k].type = "Durable"
        PROVE  progress'[e][k].through <= sync'[e].batch
    BY <1>0, <1>1, <1>2, <1>3, <2>1 DEF HeardBehind
  <2> QED
    BY ZenonT(40), <2>1 DEF HeardBehind, HeardWell
<1>5. ASSUME NEW j \in DOMAIN progress[e], progress[e][j] = Fault, ~sync'[e].refusing
      PROVE  j \in Nat /\ d < j /\ j - d \in DOMAIN progress'[e] /\ progress'[e][j - d] = Fault
  <2>1. d < j
    <3>1. CASE d = 0
      BY <1>1, <3>1
    <3>2. CASE d = 1
      <4>0. Len(progress[e]) \in Nat /\ Len(progress'[e]) = Len(progress[e]) - 1
        <5>1. progress[e] # <<>> /\ progress'[e] = Tail(progress[e])
          BY Zenon, <1>1, <3>2
        <5> QED
          BY <1>0, <5>1
      <4>1. progress'[e] # progress[e]
        BY <4>0
      <4>2. j # 1
        BY ZenonT(40), <1>1, <1>5, <3>2, <4>1 DEF HeardWell
      <4> QED
        BY <1>1, <3>2, <4>2
    <3> QED
      BY Zenon, <3>1, <3>2
  <2>2. j - d \in DOMAIN progress'[e] /\ (j - d) + d = j
    BY <1>1, <2>1
  <2> QED
    BY Zenon, <1>1, <1>5, <2>1, <2>2
<1>6. Told(e) => Told(e)'
  BY Zenon, <1>5 DEF Told, FaultQueued, HeardWell
<1>7. ASSUME NEW k \in DOMAIN progress'[e], ToldBefore(e, k + d) PROVE ToldBefore(e, k)'
  <2> SUFFICES ASSUME ~sync'[e].refusing PROVE \E i \in 1 .. k - 1 : progress'[e][i] = Fault
    BY Zenon DEF ToldBefore
  <2>1. PICK j \in 1 .. (k + d) - 1 : progress[e][j] = Fault
    BY Zenon, <1>7 DEF ToldBefore, HeardWell
  <2>2. j \in DOMAIN progress[e]
    BY <1>0, <1>1, <1>7, <2>1
  <2>3. j \in Nat /\ d < j /\ progress'[e][j - d] = Fault
    BY Zenon, <1>5, <2>1, <2>2
  <2>4. j - d \in 1 .. k - 1
    BY <1>1, <2>1, <2>3
  <2> QED
    BY Zenon, <2>3, <2>4
<1>8. \A k \in DOMAIN progress'[e] : progress'[e][k].type = "Durable" =>
        (ToldBefore(e, k) \/ KeptTo(e, progress[e][k].through))'
  <2> SUFFICES ASSUME NEW k \in DOMAIN progress'[e], progress'[e][k].type = "Durable"
               PROVE  (ToldBefore(e, k) \/ KeptTo(e, progress[e][k].through))'
    BY Zenon
  <2>1. PICK t \in Nat : t = progress'[e][k].through /\ t = progress[e][k + d].through
    BY Zenon, <1>1, <1>2
  <2>2. ToldBefore(e, k + d) \/ KeptTo(e, t)
    BY Zenon, <1>1, <2>1 DEF Promised
  <2>3. ToldBefore(e, k)' \/ KeptTo(e, t)'
    BY <1>7, <2>2 DEF KeptTo, Keeps
  <2> QED
    BY Zenon, <2>1, <2>3 DEF KeptTo
<1>9. \A k \in DOMAIN progress'[e] : progress'[e][k] = Stopped =>
        /\ phase'[e] \in {"stopping", "ended"}
        /\ (ToldBefore(e, k) \/ KeptTo(e, sync[e].batch))'
  <2> SUFFICES ASSUME NEW k \in DOMAIN progress'[e], progress'[e][k] = Stopped
               PROVE  /\ phase'[e] \in {"stopping", "ended"}
                      /\ (ToldBefore(e, k) \/ KeptTo(e, sync[e].batch))'
    BY Zenon
  <2>1. k + d \in DOMAIN progress[e] /\ progress[e][k + d] = Stopped
    BY Zenon, <1>1
  <2>2. phase[e] \in {"stopping", "ended"}
    BY Zenon, <2>1
  <2>3. sync'[e].batch = sync[e].batch
    BY Zenon, <2>2
  <2>4. ToldBefore(e, k + d) \/ KeptTo(e, sync[e].batch)
    BY ZenonT(40), <2>1 DEF Promised
  <2> QED
    BY <1>0, <1>7, <2>2, <2>3, <2>4 DEF KeptTo, Keeps
<1>10. \A b \in proven'[e] \cup granted'[e] : KeptTo(e, b)'
  BY <1>0 DEF Promised, KeptTo, Keeps, HeardWell
<1>11. (phase[e] = "ended" => sync[e].refusing \/ KeptTo(e, sync[e].batch))'
  <2> SUFFICES ASSUME phase'[e] = "ended", phase[e] = "ended", ~sync'[e].refusing
               PROVE  KeptTo(e, sync[e].batch)'
    BY Zenon DEF HeardWell
  <2>1. sync'[e].batch = sync[e].batch /\ KeptTo(e, sync[e].batch)
    BY Zenon DEF Promised, HeardWell
  <2> QED
    BY <1>0, <2>1 DEF KeptTo, Keeps
<1>12. Promised(e)'
  BY Zenon, <1>8, <1>9, <1>10, <1>11 DEF Promised, HeardWell
<1> QED
  BY Zenon, <1>4, <1>6, <1>9, <1>12

\* The writer, and the directory's segments, while an executor steps.
WriterStill == UNCHANGED <<writerVars, written, synced, dropped>>

\* What is kept up to a batch stays so.
LEMMA KeptStays ==
    ASSUME NEW e, Keeps(e), NEW b \in Nat, KeptTo(e, b)
    PROVE  \A i \in 1 .. b : Kept(e, i)'
BY DEF Keeps, KeptTo

\* An executor all of whose batches a durable image holds has them in their places.
LEMMA ImagedAll ==
    ASSUME TypeOK', NEW e \in Executors, LaneBehind(e)',
           \A i \in 1 .. sync'[e].batch : Imaged(e, i)'
    PROVE  Placed(e)'
<1>1. /\ lanes'[e].written \in Nat /\ lanes'[e].received \in Nat /\ inflight'.frozen[e] \in Nat
      /\ sync'[e].batch \in Nat
  BY ZenonT(40) DEF TypeOK, WriterTypeOK, Lane, InFlight, Frozen, ExecTypeOK, SyncState
<1>2. /\ lanes'[e].written <= sync'[e].batch /\ lanes'[e].received <= sync'[e].batch
      /\ inflight'.frozen[e] <= sync'[e].batch
  BY <1>1 DEF LaneBehind
<1>3. WrittenPlaced(e)' /\ RoundPlaced(e)'
  BY <1>1, <1>2 DEF WrittenPlaced, RoundPlaced, Kept
<1>4. StagedPlaced(e)'
  BY <1>1, <1>2 DEF StagedPlaced
<1>5. QueuedPlaced(e)'
  BY <1>1 DEF QueuedPlaced
<1> QED
  BY Zenon, <1>3, <1>4, <1>5 DEF Placed

\* What the writer has of e stays where it is while the writer does nothing.
LEMMA PlacedStays ==
    ASSUME TypeOK, NEW e \in Executors, UNCHANGED <<lanes, staged, inflight, segment, written>>,
           Keeps(e), WrittenPlaced(e), RoundPlaced(e), StagedPlaced(e)
    PROVE  WrittenPlaced(e)' /\ RoundPlaced(e)' /\ StagedPlaced(e)'
<1>1. /\ lanes[e].written \in Nat /\ lanes[e].received \in Nat /\ inflight.frozen[e] \in Nat
  BY ZenonT(40) DEF TypeOK, WriterTypeOK, Lane, InFlight, Frozen
<1>2. \A i \in Nat : /\ UnderSync(e, i) => UnderSync(e, i)'
                     /\ InSegment(e, i) => InSegment(e, i)'
  BY ZenonT(40) DEF UnderSync, InSegment
<1>3. WrittenPlaced(e)'
  BY <1>1, <1>2 DEF WrittenPlaced, Keeps
<1>4. RoundPlaced(e)'
  BY <1>1, <1>2 DEF RoundPlaced, Keeps
<1>5. StagedPlaced(e)'
  BY <1>1 DEF StagedPlaced, Keeps
<1> QED
  BY Zenon, <1>3, <1>4, <1>5

\* A step of executor e, seen from e.
LEMMA OwnPlaces ==
    ASSUME TypeOK, TypeOK', NEW e \in Executors, NEW new \in Seq(ToWriter), Grows(e, new),
           WriterStill, Keeps(e), ExecPlaces(e),
           HeardBehind(e)', Promised(e)', RefusalClean(e)', ImagesNumbered(e)', ImagesBehind(e)',
           \A k \in DOMAIN progress'[e] :
               progress'[e][k] = Stopped => phase'[e] \in {"stopping", "ended"},
           Told(e) => Told(e)' \/ \A i \in 1 .. sync'[e].batch : Imaged(e, i)'
    PROVE  ExecPlaces(e)'
<1>0. /\ UNCHANGED <<lanes, staged, inflight, segment, written>>
      /\ LaneBehind(e) /\ QueueOrdered(e) /\ StopLast(e) /\ Placed(e)
  BY ZenonT(40) DEF WriterStill, writerVars, ExecPlaces
<1>1. /\ LaneBehind(e)' /\ QueueOrdered(e)'
      /\ lanes'[e].stopped => /\ phase'[e] \in {"stopping", "ended"}
                              /\ \A k \in DOMAIN inbox' : ~SubmitOf(inbox'[k], e)
      /\ \A k \in DOMAIN inbox' : StopOf(inbox'[k], e) =>
            /\ phase'[e] \in {"stopping", "ended"}
            /\ \A j \in DOMAIN inbox' : k < j => ~SubmitOf(inbox'[j], e)
      /\ QueuedPlaced(e) => QueuedPlaced(e)'
  BY ZenonT(40), <1>0, GrowsKeeps
<1>2. StopLast(e)'
  BY ZenonT(40), <1>1 DEF StopLast, SubmitOf, StopOf
<1>3. Placed(e)'
  <2>1. CASE Told(e)'
    BY ZenonT(40), <2>1 DEF Placed
  <2>2. CASE \A i \in 1 .. sync'[e].batch : Imaged(e, i)'
    BY ZenonT(40), <1>1, <2>2, ImagedAll
  <2>3. CASE ~Told(e)
    <3>1. WrittenPlaced(e) /\ RoundPlaced(e) /\ StagedPlaced(e) /\ QueuedPlaced(e)
      BY ZenonT(40), <1>0, <2>3 DEF Placed
    <3>2. WrittenPlaced(e)' /\ RoundPlaced(e)' /\ StagedPlaced(e)'
      BY ZenonT(40), <1>0, <3>1, PlacedStays
    <3> QED
      BY ZenonT(40), <1>1, <3>1, <3>2 DEF Placed
  <2> QED
    BY ZenonT(40), <2>1, <2>2, <2>3
<1> QED
  BY ZenonT(40), <1>1, <1>2, <1>3 DEF ExecPlaces

\* A cycle that stays, or is abandoned, waits for nothing the executor did not send.
LEMMA WaitsBehind ==
    ASSUME TypeOK, TypeOK', NEW e \in Executors, HeardBehind(e),
           cycle'[e] = cycle[e] \/ cycle'[e] = NoCycle, sync[e].batch <= sync'[e].batch
    PROVE  cycle'[e].waiting <= sync'[e].batch
<1>1. sync[e].batch \in Nat /\ sync'[e].batch \in Nat /\ cycle[e].waiting \in Nat
  BY ZenonT(40) DEF TypeOK, ExecTypeOK, SyncState, Cycle
<1>2. NoCycle.waiting = 0
  BY Zenon DEF NoCycle, Fresh
<1>3. cycle[e].waiting <= sync[e].batch
  BY Zenon DEF HeardBehind
<1> QED
  BY <1>1, <1>2, <1>3

\* Images stay behind when they, and what is kept of e, stay.
LEMMA BehindStays ==
    ASSUME TypeOK, NEW e \in Executors, Keeps(e), ImagesBehind(e), images'[e] = images[e],
           cycle'[e] = cycle[e] \/ cycle'[e] = NoCycle
    PROVE  ImagesBehind(e)'
<1>1. cycle[e].waiting \in Nat /\ \A im \in images[e] : im.upto \in Nat
  <2>1. cycle[e].waiting \in Nat
    BY ZenonT(40) DEF TypeOK, ExecTypeOK, Cycle
  <2>2. \A im \in images[e] : im.upto \in Nat
    BY DEF TypeOK, SharedTypeOK, Image
  <2> QED
    BY Zenon, <2>1, <2>2
<1>2. ~NoCycle.dirPending
  BY Zenon DEF NoCycle, Fresh
<1>3. \A im \in images'[e] : \A i \in 1 .. im.upto : i <= im.through \/ Kept(e, i)'
  BY <1>1 DEF ImagesBehind, Keeps
<1>4. ASSUME cycle'[e].dirPending
      PROVE  /\ cycle'[e].ended
             /\ \A i \in 1 .. cycle'[e].waiting : i <= cycle'[e].through \/ Kept(e, i)'
  <2>1. cycle'[e] = cycle[e] /\ cycle[e].dirPending
    BY Zenon, <1>2, <1>4
  <2>2. /\ cycle[e].ended
        /\ \A i \in 1 .. cycle[e].waiting : i <= cycle[e].through \/ Kept(e, i)
    BY Zenon, <2>1 DEF ImagesBehind
  <2>3. \A i \in 1 .. cycle[e].waiting : Kept(e, i) => Kept(e, i)'
    BY <1>1 DEF Keeps
  <2> QED
    BY Zenon, <2>1, <2>2, <2>3
<1> QED
  BY ZenonT(40), <1>3, <1>4 DEF ImagesBehind

\* A step of executor e that leaves its images, and its open cycle, alone - or
\* abandons the cycle.
LEMMA LocalPlaces ==
    ASSUME TypeOK, TypeOK', NEW e \in Executors, NEW new \in Seq(ToWriter), Grows(e, new),
           WriterStill, ExecPlaces(e), Hears(e), HeardWell(e), RefusalClean(e)',
           images'[e] = images[e], cycle'[e] = cycle[e] \/ cycle'[e] = NoCycle,
           checkpoint'[e].next = checkpoint[e].next
    PROVE  ExecPlaces(e)'
<1>0. /\ HeardBehind(e) /\ Promised(e) /\ StopLast(e) /\ ImagesNumbered(e) /\ ImagesBehind(e)
      /\ LaneBehind(e) /\ QueueOrdered(e) /\ UNCHANGED <<lanes, staged, inflight>>
  BY ZenonT(40) DEF ExecPlaces, WriterStill, writerVars
<1>1. Keeps(e) /\ SureImages(e)' = SureImages(e)
  BY ZenonT(40) DEF Keeps, Kept, Imaged, OnDisk, SureImages, WriterStill
<1>2. sync[e].batch <= sync'[e].batch
  BY ZenonT(40), <1>0, <1>1, GrowsKeeps
<1>3. /\ \/ sync'[e].batch = sync[e].batch
         \/ sync[e].batch <= sync'[e].batch /\ phase[e] \in {"serving", "draining"}
      /\ phase[e] \in {"stopping", "ended"} => phase'[e] \in {"stopping", "ended"}
  BY ZenonT(40), <1>2 DEF Grows
<1>4. cycle'[e].waiting <= sync'[e].batch
  BY ZenonT(40), <1>0, <1>2, WaitsBehind
<1>5. /\ HeardBehind(e)' /\ Promised(e)' /\ (Told(e) => Told(e)')
      /\ \A k \in DOMAIN progress'[e] :
             progress'[e][k] = Stopped => phase'[e] \in {"stopping", "ended"}
  BY ZenonT(40), <1>0, <1>1, <1>3, <1>4, HearsKeeps DEF StopLast
<1>6. ImagesNumbered(e)'
  <2>1. ~NoCycle.open
    BY Zenon DEF NoCycle, Fresh
  <2> QED
    BY ZenonT(40), <1>0, <1>1, <2>1 DEF ImagesNumbered
<1>7. ImagesBehind(e)'
  BY ZenonT(40), <1>0, <1>1, BehindStays
<1> QED
  BY ZenonT(40), <1>1, <1>5, <1>6, <1>7, OwnPlaces

\* Nothing was heard, and nothing new is counted durable.
LEMMA HeardNothing ==
    ASSUME TypeOK, TypeOK', NEW e \in Executors, WriterStill, images'[e] = images[e],
           HeardBehind(e), Promised(e),
           proven'[e] = proven[e], granted'[e] = granted[e],
           sync'[e].refusing = sync[e].refusing, sync'[e].durableBatch = sync[e].durableBatch,
           sync[e].batch <= sync'[e].batch, phase'[e] = "ended" => phase[e] = "ended",
           progress'[e] # progress[e] => Head(progress[e]) # Fault
    PROVE  HeardWell(e)
<1>0. sync[e].batch \in Nat /\ sync'[e].batch \in Nat /\ sync[e].durableBatch \in Nat
  BY ZenonT(40) DEF TypeOK, ExecTypeOK, SyncState
<1>1. Keeps(e)
  BY ZenonT(40) DEF Keeps, Kept, Imaged, OnDisk, SureImages, WriterStill
<1>2. (sync[e].refusing \/ KeptTo(e, sync[e].durableBatch))'
  <2>1. sync[e].refusing \/ KeptTo(e, sync[e].durableBatch)
    BY Zenon DEF Promised
  <2>2. KeptTo(e, sync[e].durableBatch) => \A i \in 1 .. sync[e].durableBatch : Kept(e, i)'
    BY ZenonT(40), <1>0, <1>1, KeptStays
  <2> QED
    BY ZenonT(40), <2>1, <2>2 DEF KeptTo
<1>3. sync'[e].durableBatch <= sync'[e].batch
  <2>1. sync[e].durableBatch <= sync[e].batch
    BY Zenon DEF HeardBehind
  <2> QED
    BY <1>0, <2>1
<1> QED
  BY ZenonT(40), <1>2, <1>3 DEF HeardWell

\* A step of another executor.
LEMMA OthersPlaces ==
    ASSUME TypeOK, TypeOK', NEW e \in Executors, Apart(e), WriterStill,
           NEW new \in Seq(ToWriter), SendsOwn(e, new),
           NEW f \in Executors, f # e, ExecPlaces(f)
    PROVE  ExecPlaces(f)'
<1>1. /\ images'[f] = images[f] /\ checkpoint'[f] = checkpoint[f]
      /\ cycle'[f] = cycle[f] /\ sync'[f] = sync[f]
      /\ phase'[f] = phase[f] /\ progress'[f] = progress[f]
      /\ proven'[f] = proven[f] /\ granted'[f] = granted[f]
  BY Zenon DEF Apart
<1>2. \A k \in DOMAIN new : ~SubmitOf(new[k], f) /\ ~StopOf(new[k], f)
  BY DEF SendsOwn, SubmitOf, StopOf
<1>3. Grows(f, new) /\ Hears(f)
  BY ZenonT(40), <1>1, <1>2 DEF Grows, SendsOwn, Hears
<1>4. RefusalClean(f)'
  BY ZenonT(40), <1>1 DEF ExecPlaces, RefusalClean
<1>5. sync[f].batch <= sync'[f].batch
  <2>1. sync[f].batch \in Nat
    BY ZenonT(40) DEF TypeOK, ExecTypeOK, SyncState
  <2> QED
    BY <1>1, <2>1
<1>6. HeardWell(f)
  BY ZenonT(40), <1>1, <1>5, HeardNothing DEF ExecPlaces
<1> QED
  BY ZenonT(40), <1>1, <1>3, <1>4, <1>6, LocalPlaces

-----------------------------------------------------------------------------
(* The executor's steps, one by one. *)

\* A message, as what is sent.
LEMMA Single ==
    ASSUME NEW T, NEW m \in T
    PROVE  <<m>> \in Seq(T) /\ DOMAIN <<m>> = {1} /\ <<m>>[1] = m
OBVIOUS

\* Nothing, the next batch, or a Stop goes out.
LEMMA GrowsBy ==
    ASSUME TypeOK, NEW e \in Executors,
           phase[e] \in {"stopping", "ended"} => phase'[e] \in {"stopping", "ended"},
           \/ inbox' = inbox /\ sync'[e].batch = sync[e].batch
           \/ /\ inbox' = Append(inbox, Submit(e, sync[e].batch + 1))
              /\ sync'[e].batch = sync[e].batch + 1 /\ phase[e] \in {"serving", "draining"}
           \/ /\ inbox' = Append(inbox, Stop(e)) /\ sync'[e].batch = sync[e].batch
              /\ phase'[e] = "stopping"
    PROVE  \E new \in Seq(ToWriter) : Grows(e, new)
<1>0. inbox \in Seq(ToWriter) /\ sync[e].batch + 1 \in Nat
  BY DEF TypeOK, SharedTypeOK, ExecTypeOK, SyncState
<1>1. CASE inbox' = inbox /\ sync'[e].batch = sync[e].batch
  <2>1. <<>> \in Seq(ToWriter) /\ inbox' = inbox \o <<>> /\ DOMAIN <<>> = {}
    BY <1>0, <1>1
  <2> QED
    BY ZenonT(40), <1>1, <2>1 DEF Grows
<1>2. CASE /\ inbox' = Append(inbox, Submit(e, sync[e].batch + 1))
           /\ sync'[e].batch = sync[e].batch + 1 /\ phase[e] \in {"serving", "draining"}
  <2>1. PICK m \in ToWriter : m = Submit(e, sync[e].batch + 1)
    BY Zenon, <1>0, MessageTypes
  <2>2. /\ <<m>> \in Seq(ToWriter) /\ inbox' = inbox \o <<m>> /\ DOMAIN <<m>> = {1} /\ <<m>>[1] = m
    BY <1>0, <1>2, <2>1
  <2>3. ~StopOf(m, e)
    BY Zenon, <2>1 DEF StopOf, Submit
  <2>4. Grows(e, <<m>>)
    BY ZenonT(40), <1>2, <2>1, <2>2, <2>3 DEF Grows
  <2> QED
    BY ZenonT(40), <2>2, <2>4
<1>3. CASE /\ inbox' = Append(inbox, Stop(e)) /\ sync'[e].batch = sync[e].batch
           /\ phase'[e] = "stopping"
  <2>1. PICK m \in ToWriter : m = Stop(e)
    BY Zenon, MessageTypes
  <2>2. /\ <<m>> \in Seq(ToWriter) /\ inbox' = inbox \o <<m>> /\ DOMAIN <<m>> = {1} /\ <<m>>[1] = m
    BY <1>0, <1>3, <2>1
  <2>3. ~SubmitOf(m, e)
    BY ZenonT(40), <2>1 DEF SubmitOf, Stop
  <2>4. Grows(e, <<m>>)
    BY Zenon, <1>3, <2>2, <2>3 DEF Grows
  <2> QED
    BY ZenonT(40), <2>2, <2>4
<1> QED
  BY ZenonT(40), <1>1, <1>2, <1>3

\* What a submission does to the state it is made in.
LEMMA SubmittedFacts ==
    ASSUME NEW s \in SyncState
    PROVE  /\ Submitted(s) \in SyncState
           /\ Submitted(s).batch = s.batch + 1 /\ Submitted(s).durableBatch = s.durableBatch
           /\ Submitted(s).refusing = s.refusing
           /\ \A h : LET z == [Submitted(s) EXCEPT !.held = h] IN
                     /\ z.batch = s.batch + 1 /\ z.durableBatch = s.durableBatch
                     /\ z.refusing = s.refusing
<1>1. Submitted(s) \in SyncState
  BY Zenon, SubmittedType
<1>2. /\ Submitted(s).batch = s.batch + 1 /\ Submitted(s).durableBatch = s.durableBatch
      /\ Submitted(s).refusing = s.refusing
  BY Zenon DEF Submitted, SyncState
<1> QED
  BY Zenon, <1>1, <1>2 DEF SyncState

\* Commands: the next batch goes to the writer, or nothing does.
LEMMA ServePlaces ==
    ASSUME TypeOK, TypeOK', NEW e \in Executors, ServeMoves(e), ExecPlaces(e)
    PROVE  ExecPlaces(e)'
<1>0. /\ sync \in [Executors -> SyncState] /\ sync[e] \in SyncState /\ sync[e].batch \in Nat
      /\ checkpoint \in [Executors -> Checkpoint]
      /\ HeardBehind(e) /\ Promised(e) /\ RefusalClean(e)
  BY Zenon DEF TypeOK, ExecTypeOK, SyncState, ExecPlaces
<1>1. /\ WriterStill
      /\ UNCHANGED <<phase, cycle, proven, granted, progress, images>>
  <2>1. WriterStill
    BY Zenon DEF ServeMoves, ExecFrame, WriterStill
  <2> QED
    BY Zenon, <2>1 DEF ServeMoves, Serve, ServeWrite, ServeExpired, Save, BgSave, Asked
<1>2. checkpoint'[e].next = checkpoint[e].next
  BY SMTT(30), <1>0 DEF ServeMoves, Serve, ServeWrite, ServeExpired, Save, BgSave, AskForSnapshot,
                        Checkpoint
<1>3. CASE ServeWrite(e) \/ ServeExpired(e)
  <2>1. /\ inbox' = Append(inbox, Submit(e, sync[e].batch + 1))
        /\ ~sync[e].refusing /\ phase[e] \in {"serving", "draining"}
    <3>1. Submitted(sync[e]).batch = sync[e].batch + 1
      BY Zenon, <1>0, SubmittedFacts
    <3> QED
      BY Zenon, <1>0, <1>3, <3>1 DEF ServeWrite, ServeExpired, Accepts, MayAppend
  <2>2. /\ sync'[e].batch = sync[e].batch + 1 /\ sync'[e].durableBatch = sync[e].durableBatch
        /\ sync'[e].refusing = sync[e].refusing
    <3>1. \/ sync'[e] = Submitted(sync[e])
          \/ \E h : sync'[e] = [Submitted(sync[e]) EXCEPT !.held = h]
      BY Zenon, <1>0, <1>3 DEF ServeWrite, ServeExpired
    <3>2. CASE sync'[e] = Submitted(sync[e])
      BY ZenonT(40), <1>0, <3>2, SubmittedFacts
    <3>3. ASSUME NEW h, sync'[e] = [Submitted(sync[e]) EXCEPT !.held = h]
          PROVE  /\ sync'[e].batch = sync[e].batch + 1
                 /\ sync'[e].durableBatch = sync[e].durableBatch
                 /\ sync'[e].refusing = sync[e].refusing
      <4>1. LET z == [Submitted(sync[e]) EXCEPT !.held = h] IN
            /\ z.batch = sync[e].batch + 1 /\ z.durableBatch = sync[e].durableBatch
            /\ z.refusing = sync[e].refusing
        BY Zenon, <1>0, SubmittedFacts
      <4> QED
        BY Zenon, <3>3, <4>1
    <3> QED
      BY Zenon, <3>1, <3>2, <3>3
  <2>3. PICK new \in Seq(ToWriter) : Grows(e, new)
    BY ZenonT(40), <1>1, <2>1, <2>2, GrowsBy
  <2>4. RefusalClean(e)' /\ Hears(e)
    BY ZenonT(40), <1>1, <2>1, <2>2 DEF RefusalClean, Hears
  <2>5. sync[e].batch <= sync'[e].batch
    BY <1>0, <2>2
  <2>6. HeardWell(e)
    BY ZenonT(40), <1>0, <1>1, <2>2, <2>5, HeardNothing
  <2> QED
    BY ZenonT(40), <1>1, <1>2, <2>3, <2>4, <2>6, LocalPlaces
<1>4. CASE Save(e) \/ BgSave(e)
  <2>1. inbox' = inbox /\ sync' = sync
    BY Zenon, <1>4 DEF Save, BgSave, Asked
  <2>2. PICK new \in Seq(ToWriter) : Grows(e, new)
    BY ZenonT(40), <1>1, <2>1, GrowsBy
  <2>3. RefusalClean(e)' /\ Hears(e)
    BY ZenonT(40), <1>0, <1>1, <2>1 DEF RefusalClean, Hears
  <2>4. sync[e].batch <= sync'[e].batch
    BY <1>0, <2>1
  <2>5. HeardWell(e)
    BY ZenonT(40), <1>0, <1>1, <2>1, <2>4, HeardNothing
  <2> QED
    BY ZenonT(40), <1>1, <1>2, <2>2, <2>3, <2>5, LocalPlaces
<1> QED
  BY Zenon, <1>3, <1>4 DEF ServeMoves, Serve

\* The stop is seen, and then sent.
LEMMA StopPlaces ==
    ASSUME TypeOK, TypeOK', NEW e \in Executors, StopMoves(e), ExecPlaces(e)
    PROVE  ExecPlaces(e)'
<1>0. /\ phase \in [Executors -> {"serving", "draining", "stopping", "ended"}]
      /\ sync[e].batch \in Nat /\ HeardBehind(e) /\ Promised(e) /\ RefusalClean(e)
  BY Zenon DEF TypeOK, ExecTypeOK, SyncState, ExecPlaces
<1>1. /\ WriterStill
      /\ UNCHANGED <<sync, checkpoint, cycle, proven, granted, progress, images>>
      /\ phase[e] \in {"serving", "draining"}
      /\ \/ inbox' = inbox /\ phase'[e] = "draining"
         \/ inbox' = Append(inbox, Stop(e)) /\ phase'[e] = "stopping"
  <2>1. WriterStill
    BY Zenon DEF StopMoves, ExecFrame, WriterStill
  <2> QED
    BY Zenon, <1>0, <2>1 DEF StopMoves, StopSeen, SendStop
<1>2. PICK new \in Seq(ToWriter) : Grows(e, new)
  BY ZenonT(40), <1>1, GrowsBy
<1>3. RefusalClean(e)' /\ Hears(e)
  BY Zenon, <1>0, <1>1 DEF RefusalClean, Hears
<1>4. HeardWell(e)
  <2>1. sync[e].batch <= sync'[e].batch /\ phase'[e] # "ended"
    BY <1>0, <1>1
  <2> QED
    BY ZenonT(40), <1>0, <1>1, <2>1, HeardNothing
<1> QED
  BY ZenonT(40), <1>1, <1>2, <1>3, <1>4, LocalPlaces

\* What the writer says is heard in the order it was said.
LEMMA HearPlaces ==
    ASSUME TypeOK, TypeOK', NEW e \in Executors, HearMoves(e), ExecPlaces(e)
    PROVE  ExecPlaces(e)'
<1>0. /\ sync \in [Executors -> SyncState] /\ sync[e] \in SyncState /\ sync[e].batch \in Nat
      /\ sync[e].durableBatch \in Nat /\ sync[e].held \subseteq Nat /\ sync[e].sent \subseteq Nat
      /\ phase \in [Executors -> {"serving", "draining", "stopping", "ended"}]
      /\ checkpoint \in [Executors -> Checkpoint] /\ cycle \in [Executors -> Cycle]
      /\ proven \in [Executors -> SUBSET Nat] /\ granted \in [Executors -> SUBSET Nat]
      /\ progress \in [Executors -> Seq(Progress)]
      /\ HeardBehind(e) /\ Promised(e) /\ RefusalClean(e)
  BY ZenonT(40) DEF TypeOK, ExecTypeOK, SharedTypeOK, SyncState, ExecPlaces
<1>1. /\ WriterStill /\ UNCHANGED <<images, inbox>>
      /\ progress[e] # <<>> /\ progress'[e] = Tail(progress[e]) /\ Hears(e)
  <2>1. WriterStill
    BY Zenon DEF HearMoves, ExecFrame, WriterStill
  <2>2. UNCHANGED <<images, inbox>> /\ progress[e] # <<>> /\ progress'[e] = Tail(progress[e])
    BY Zenon, <1>0 DEF HearMoves, HearWriter, Hear, HearStopped
  <2> QED
    BY Zenon, <2>1, <2>2 DEF Hears
<1>2. PICK m \in Progress : m = Head(progress[e]) /\ m = progress[e][1] /\ 1 \in DOMAIN progress[e]
  <2>1. progress[e] \in Seq(Progress)
    BY ZenonT(40), <1>0
  <2> QED
    BY <1>1, <2>1
<1>3. ToldBefore(e, 1) => sync[e].refusing
  BY DEF ToldBefore
<1>4. Keeps(e)
  BY Zenon, <1>1 DEF Keeps, Kept, Imaged, OnDisk, SureImages, WriterStill
<1>5. ASSUME sync'[e].batch = sync[e].batch,
             phase[e] \in {"stopping", "ended"} => phase'[e] \in {"stopping", "ended"}
      PROVE  \E new \in Seq(ToWriter) : Grows(e, new)
  BY ZenonT(40), <1>1, <1>5, GrowsBy
<1>6. CASE HearWritten(e, m) /\ UNCHANGED phase
  <2>1. /\ sync'[e].batch = sync[e].batch /\ sync'[e].durableBatch = sync[e].durableBatch
        /\ sync'[e].refusing = sync[e].refusing /\ sync'[e].held = sync[e].held
        /\ sync'[e].sent = sync[e].sent
        /\ UNCHANGED <<phase, checkpoint, cycle, proven, granted>> /\ m # Fault
    BY <1>0, <1>6 DEF HearWritten, SyncState, Fault
  <2>2. RefusalClean(e)'
    BY ZenonT(40), <1>0, <2>1 DEF RefusalClean
  <2>3. HeardWell(e)
    <3>1. sync[e].batch <= sync'[e].batch
      BY <1>0, <2>1
    <3> QED
      BY ZenonT(40), <1>0, <1>1, <1>2, <2>1, <3>1, HeardNothing
  <2> QED
    BY ZenonT(40), <1>1, <1>5, <2>1, <2>2, <2>3, LocalPlaces
<1>7. CASE HearNudge(e, m) /\ UNCHANGED phase
  <2>1. /\ UNCHANGED <<phase, sync, cycle, proven, granted>> /\ m # Fault
        /\ checkpoint'[e].next = checkpoint[e].next
    BY <1>0, <1>7 DEF HearNudge, Fault, Checkpoint
  <2>2. RefusalClean(e)'
    BY Zenon, <1>0, <2>1 DEF RefusalClean
  <2>3. HeardWell(e)
    <3>1. sync[e].batch <= sync'[e].batch
      BY <1>0, <2>1
    <3> QED
      BY ZenonT(40), <1>0, <1>1, <1>2, <2>1, <3>1, HeardNothing
  <2> QED
    BY ZenonT(40), <1>1, <1>5, <2>1, <2>2, <2>3, LocalPlaces
<1>8. CASE HearDurable(e, m) /\ UNCHANGED phase
  <2>0. m.type = "Durable" /\ m # Fault /\ m.through \in Nat
    BY <1>8 DEF HearDurable, Progress, Fault, Nudge, Stopped
  <2>1. /\ sync'[e].batch = sync[e].batch
        /\ sync'[e].durableBatch = Larger(sync[e].durableBatch, m.through)
        /\ sync'[e].refusing = sync[e].refusing
        /\ sync'[e].held \subseteq sync[e].held /\ sync'[e].sent \subseteq sync[e].sent
        /\ UNCHANGED <<phase, checkpoint, cycle>>
    <3>1. sync'[e] = [sync[e] EXCEPT !.acked = Larger(sync[e].acked, m.bytes),
                            !.durableBatch = Larger(sync[e].durableBatch, m.through),
                            !.sent = StillSent(sync[e], m.through),
                            !.held = StillHeld(sync[e], m.through)]
      BY Zenon, <1>0, <1>8 DEF HearDurable
    <3>2. /\ sync'[e].batch = sync[e].batch
          /\ sync'[e].durableBatch = Larger(sync[e].durableBatch, m.through)
          /\ sync'[e].refusing = sync[e].refusing
          /\ sync'[e].held = StillHeld(sync[e], m.through)
          /\ sync'[e].sent = StillSent(sync[e], m.through)
      BY ZenonT(40), <1>0, <3>1 DEF SyncState
    <3> QED
      BY Zenon, <1>8, <3>2 DEF HearDurable, StillHeld, StillSent
  <2>2. /\ proven'[e] = proven[e] \cup {b \in sync[e].sent : b <= m.through}
        /\ granted'[e] = granted[e] \cup {b \in sync[e].held : b <= m.through}
    BY Zenon, <1>0, <1>8 DEF HearDurable
  <2>3. m.through <= sync[e].batch /\ (sync[e].refusing \/ KeptTo(e, m.through))
    BY ZenonT(40), <1>0, <1>2, <1>3, <2>0 DEF HeardBehind, Promised
  <2>4. \/ sync'[e].durableBatch = sync[e].durableBatch
        \/ sync'[e].durableBatch = m.through
    BY ZenonT(40), <2>1 DEF Larger
  <2>5. RefusalClean(e)'
    BY ZenonT(40), <1>0, <2>1 DEF RefusalClean
  <2>6. \A b \in proven'[e] \cup granted'[e] : b \in proven[e] \cup granted[e] \/ KeptTo(e, b)'
    <3> SUFFICES ASSUME NEW b \in sync[e].sent \cup sync[e].held, b <= m.through
                 PROVE  KeptTo(e, b)'
      BY Zenon, <2>2
    <3>1. ~sync[e].refusing /\ b \in Nat
      BY Zenon, <1>0 DEF RefusalClean
    <3> QED
      BY <1>4, <2>0, <2>3, <3>1 DEF KeptTo, Keeps
  <2>7. (sync[e].refusing \/ KeptTo(e, sync[e].durableBatch))'
    <3>1. sync[e].refusing \/ (KeptTo(e, sync[e].durableBatch) /\ KeptTo(e, m.through))
      BY ZenonT(40), <1>0, <2>3 DEF Promised
    <3>2. \A b \in Nat : KeptTo(e, b) => (\A i \in 1 .. b : Kept(e, i)')
      BY Zenon, <1>4, KeptStays
    <3>3. sync'[e].refusing \/ \A i \in 1 .. sync'[e].durableBatch : Kept(e, i)'
      BY ZenonT(40), <1>0, <2>0, <2>1, <2>4, <3>1, <3>2
    <3> QED
      BY ZenonT(40), <3>3 DEF KeptTo
  <2>8. HeardWell(e)
    BY ZenonT(40), <1>0, <1>2, <2>0, <2>1, <2>3, <2>4, <2>6, <2>7 DEF HeardWell, HeardBehind
  <2> QED
    BY ZenonT(40), <1>1, <1>5, <2>1, <2>5, <2>8, LocalPlaces
<1>9. CASE Refuse(e, m) /\ UNCHANGED phase
  <2>1. /\ sync'[e].batch = sync[e].batch /\ sync'[e].durableBatch = sync[e].durableBatch
        /\ sync'[e].refusing /\ sync'[e].held = {} /\ sync'[e].sent = {}
        /\ UNCHANGED <<phase, proven, granted>>
        /\ cycle'[e] = NoCycle /\ checkpoint'[e].next = checkpoint[e].next
    BY ZenonT(40), <1>0, <1>9 DEF Refuse, LetGo, SyncState, Checkpoint
  <2>2. RefusalClean(e)'
    BY Zenon, <2>1 DEF RefusalClean, NoCycle, Fresh
  <2>3. HeardWell(e)
    BY ZenonT(40), <1>0, <2>1 DEF HeardWell, HeardBehind
  <2> QED
    BY ZenonT(40), <1>1, <1>5, <2>1, <2>2, <2>3, LocalPlaces
<1>10. CASE HearStopped(e)
  <2>1. /\ sync'[e].batch = sync[e].batch /\ sync'[e].durableBatch = sync[e].durableBatch
        /\ sync'[e].refusing = sync[e].refusing /\ sync'[e].held = {}
        /\ sync'[e].sent = sync[e].sent
        /\ UNCHANGED <<checkpoint, cycle, proven, granted>>
        /\ phase'[e] = "ended" /\ m = Stopped /\ m # Fault
    <3>1. /\ UNCHANGED <<checkpoint, cycle, proven, granted>>
          /\ phase'[e] = "ended" /\ m = Stopped /\ m # Fault
      BY <1>0, <1>2, <1>10 DEF HearStopped, Stopped, Fault
    <3> QED
      BY ZenonT(40), <1>0, <1>10, <3>1 DEF HearStopped, SyncState
  <2>2. RefusalClean(e)'
    BY ZenonT(40), <1>0, <2>1 DEF RefusalClean
  <2>3. sync[e].refusing \/ KeptTo(e, sync[e].batch)
    BY ZenonT(40), <1>0, <1>2, <1>3, <2>1 DEF Promised
  <2>4. /\ (sync[e].refusing \/ KeptTo(e, sync[e].batch))'
        /\ (sync[e].refusing \/ KeptTo(e, sync[e].durableBatch))'
    <3>1. sync[e].refusing \/ (KeptTo(e, sync[e].batch) /\ KeptTo(e, sync[e].durableBatch))
      BY ZenonT(40), <1>0, <2>3 DEF Promised
    <3>2. \A b \in Nat : KeptTo(e, b) => \A i \in 1 .. b : Kept(e, i)'
      BY Zenon, <1>4, KeptStays
    <3> QED
      BY ZenonT(40), <1>0, <2>1, <3>1, <3>2 DEF KeptTo
  <2>5. HeardWell(e)
    BY ZenonT(40), <1>0, <1>2, <2>1, <2>4 DEF HeardWell, HeardBehind
  <2> QED
    BY ZenonT(40), <1>1, <1>5, <2>1, <2>2, <2>5, LocalPlaces
<1>11. \/ (HearWritten(e, m) \/ HearDurable(e, m) \/ Refuse(e, m) \/ HearNudge(e, m))
             /\ UNCHANGED phase
       \/ HearStopped(e)
  BY Zenon, <1>2 DEF HearMoves, HearWriter, Hear
<1> QED
  BY ZenonT(40), <1>6, <1>7, <1>8, <1>9, <1>10, <1>11

-----------------------------------------------------------------------------
(* A tick. *)

\* What a tick starts from: the state it finds, or the one its sweep left.
TickStart(e, s, sweep) ==
    \/ s = sync[e] /\ sweep = <<>>
    \/ /\ ~sync[e].refusing /\ s = Submitted(sync[e])
       /\ sweep = <<Submit(e, sync[e].batch + 1)>>

\* Which is a state of the executor, behind at most one batch.
LEMMA StartFacts ==
    ASSUME TypeOK, NEW e \in Executors, NEW s, NEW sweep, TickStart(e, s, sweep)
    PROVE  /\ s \in SyncState /\ sweep \in Seq(ToWriter)
           /\ sync[e].batch \in Nat /\ s.batch \in Nat /\ sync[e].batch <= s.batch
           /\ s.durableBatch = sync[e].durableBatch /\ s.durableBatch \in Nat
           /\ s.refusing = sync[e].refusing
           /\ s.refusing => s = sync[e]
           /\ \/ s.batch = sync[e].batch /\ DOMAIN sweep = {}
              \/ /\ s.batch = sync[e].batch + 1 /\ DOMAIN sweep = {1}
                 /\ sweep[1] = Submit(e, sync[e].batch + 1)
<1>0. sync[e] \in SyncState /\ sync[e].batch \in Nat /\ sync[e].durableBatch \in Nat
  BY Zenon DEF TypeOK, ExecTypeOK, SyncState
<1>1. CASE s = sync[e] /\ sweep = <<>>
  <2>1. sweep \in Seq(ToWriter) /\ DOMAIN sweep = {} /\ sync[e].batch <= s.batch
    BY <1>0, <1>1
  <2> QED
    BY Zenon, <1>0, <1>1, <2>1
<1>2. CASE /\ ~sync[e].refusing /\ s = Submitted(sync[e])
           /\ sweep = <<Submit(e, sync[e].batch + 1)>>
  <2>1. PICK m \in ToWriter : m = Submit(e, sync[e].batch + 1)
    BY <1>0, MessageTypes
  <2>2. sweep \in Seq(ToWriter) /\ DOMAIN sweep = {1} /\ sweep[1] = m
    BY ZenonT(40), <1>2, <2>1, Single
  <2> QED
    BY <1>0, <1>2, <2>1, <2>2, SubmittedFacts
<1> QED
  BY Zenon, <1>1, <1>2 DEF TickStart

\* Three things sent are the first, and then the other two.
LEMMA Joined ==
    ASSUME NEW T, NEW a \in Seq(T), NEW b \in Seq(T), NEW c \in Seq(T)
    PROVE  (a \o b) \o c = a \o (b \o c)
<1>0. \A u, v \in Seq(T) : u \o v \in Seq(T)
  OBVIOUS
<1>1. PICK ab, bc : ab = a \o b /\ bc = b \o c /\ ab \in Seq(T) /\ bc \in Seq(T)
  BY ZenonT(40), <1>0
<1>2. PICK x, y : x = ab \o c /\ y = a \o bc /\ x \in Seq(T) /\ y \in Seq(T)
  BY ZenonT(40), <1>0, <1>1
<1>3. /\ Len(ab) = Len(a) + Len(b) /\ Len(bc) = Len(b) + Len(c)
      /\ Len(x) = Len(ab) + Len(c) /\ Len(y) = Len(a) + Len(bc)
      /\ Len(a) \in Nat /\ Len(b) \in Nat /\ Len(c) \in Nat
  BY <1>1, <1>2
<1>4. ASSUME NEW k \in 1 .. Len(x) PROVE x[k] = y[k]
  BY <1>1, <1>2, <1>3
<1> QED
  BY SMTT(30), <1>1, <1>2, <1>3, <1>4

\* What a tick sends, its sweep's batch first.
LEMMA TickGrows ==
    ASSUME TypeOK, NEW e \in Executors, NEW s, NEW sweep, TickStart(e, s, sweep),
           NEW sent \in Seq(ToWriter), SentByTick(e, sent), inbox' = inbox \o sweep \o sent,
           sync'[e].batch = s.batch, phase[e] = "serving", phase' = phase
    PROVE  \E new \in Seq(ToWriter) : Grows(e, new)
<1>0. /\ sweep \in Seq(ToWriter) /\ inbox \in Seq(ToWriter)
      /\ \/ s.batch = sync[e].batch /\ DOMAIN sweep = {}
         \/ /\ s.batch = sync[e].batch + 1 /\ DOMAIN sweep = {1}
            /\ sweep[1] = Submit(e, sync[e].batch + 1)
  <2>1. inbox \in Seq(ToWriter)
    BY ZenonT(40) DEF TypeOK, SharedTypeOK
  <2>2. sweep \in Seq(ToWriter)
    BY ZenonT(40), StartFacts
  <2>3. \/ s.batch = sync[e].batch /\ DOMAIN sweep = {}
        \/ /\ s.batch = sync[e].batch + 1 /\ DOMAIN sweep = {1}
           /\ sweep[1] = Submit(e, sync[e].batch + 1)
    BY StartFacts
  <2> QED
    BY ZenonT(40), <2>1, <2>2, <2>3
<1>1. PICK new \in Seq(ToWriter) : new = sweep \o sent /\ inbox' = inbox \o new
  <2>1. sweep \o sent \in Seq(ToWriter)
    BY <1>0
  <2>2. sweep \in Seq(ToWriter) /\ inbox \in Seq(ToWriter)
    BY ZenonT(40), <1>0
  <2>3. inbox' = inbox \o (sweep \o sent)
    BY SMTT(30), <2>2, Joined
  <2> QED
    BY ZenonT(40), <2>1, <2>3
<1>2. /\ \A k \in DOMAIN sweep : k \in DOMAIN new /\ new[k] = sweep[k]
      /\ \A k \in DOMAIN new : \/ k \in DOMAIN sweep
                               \/ \E j \in DOMAIN sent : new[k] = sent[j]
  <2>1. \A k \in DOMAIN sweep : k \in DOMAIN new /\ new[k] = sweep[k]
    BY <1>0, <1>1
  <2>2. ASSUME NEW k \in DOMAIN new, k \notin DOMAIN sweep
        PROVE  \E j \in DOMAIN sent : new[k] = sent[j]
    <3>1. k - Len(sweep) \in DOMAIN sent /\ new[k] = sent[k - Len(sweep)]
      BY <1>0, <1>1, <2>2
    <3> QED
      BY ZenonT(40), <3>1
  <2> QED
    BY Zenon, <2>1, <2>2
<1>3. \A j \in DOMAIN sent : ~SubmitOf(sent[j], e) /\ ~StopOf(sent[j], e)
  BY DEF SentByTick, SyncNow, Covered, SubmitOf, StopOf
<1>4. CASE s.batch = sync[e].batch /\ DOMAIN sweep = {}
  <2>1. \A k \in DOMAIN new : ~SubmitOf(new[k], e) /\ ~StopOf(new[k], e)
    BY ZenonT(40), <1>2, <1>3, <1>4
  <2> QED
    BY ZenonT(40), <1>1, <1>4, <2>1 DEF Grows
<1>5. CASE /\ s.batch = sync[e].batch + 1 /\ DOMAIN sweep = {1}
           /\ sweep[1] = Submit(e, sync[e].batch + 1)
  <2>1. ~StopOf(Submit(e, sync[e].batch + 1), e)
    BY Zenon DEF StopOf, Submit
  <2>2. /\ 1 \in DOMAIN new /\ new[1] = Submit(e, sync[e].batch + 1)
        /\ \A k \in DOMAIN new : k # 1 => ~SubmitOf(new[k], e)
        /\ \A k \in DOMAIN new : ~StopOf(new[k], e)
    BY ZenonT(40), <1>2, <1>3, <1>5, <2>1
  <2> QED
    BY ZenonT(40), <1>1, <1>5, <2>2 DEF Grows
<1> QED
  BY ZenonT(40), <1>0, <1>4, <1>5

\* A tick with no cycle.
LEMMA IdlePlaces ==
    ASSUME TypeOK, TypeOK', NEW e \in Executors, NEW s, NEW sweep, TickStart(e, s, sweep),
           phase[e] = "serving", TickIdle(e, s, sweep), WriterStill, ExecPlaces(e)
    PROVE  ExecPlaces(e)'
<1>0. /\ sync \in [Executors -> SyncState] /\ HeardBehind(e) /\ Promised(e) /\ RefusalClean(e)
  BY Zenon DEF TypeOK, ExecTypeOK, ExecPlaces
<1>1. /\ s \in SyncState /\ sweep \in Seq(ToWriter)
      /\ s.durableBatch = sync[e].durableBatch /\ s.refusing = sync[e].refusing
      /\ s.refusing => s = sync[e]
      /\ sync[e].batch <= s.batch
  BY Zenon, StartFacts
<1>2. /\ sync'[e] = s
      /\ UNCHANGED <<phase, checkpoint, cycle, proven, granted, progress, images>>
  BY Zenon, <1>0 DEF TickIdle
<1>3. PICK sent \in Seq(ToWriter) : SentByTick(e, sent) /\ inbox' = inbox \o sweep \o sent
  BY ZenonT(40), <1>1, TickTypes
<1>4. PICK new \in Seq(ToWriter) : Grows(e, new)
  BY ZenonT(40), <1>2, <1>3, TickGrows
<1>5. RefusalClean(e)' /\ Hears(e)
  BY ZenonT(40), <1>0, <1>1, <1>2 DEF RefusalClean, Hears
<1>6. HeardWell(e)
  BY ZenonT(40), <1>0, <1>1, <1>2, HeardNothing
<1> QED
  BY ZenonT(40), <1>2, <1>4, <1>5, <1>6, LocalPlaces

=============================================================================
