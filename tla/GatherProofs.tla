---------------------------- MODULE GatherProofs ----------------------------
(***************************************************************************)
(* NoLostWakeup and EachItsReply for every number of commands and every    *)
(* set of executors.                                                       *)
(***************************************************************************)
EXTENDS Gather, FiniteSetTheorems, SequenceTheorems, TLAPS

Out == {e \in Executors : Live(e)}

Places == {None} \cup (Executors \X Nat)

Types ==
    /\ phase \in {"route", "send", "check", "register", "wait", "done"}
    /\ routed \in 0 .. NCommands
    /\ buckets \in [Executors -> Seq(Commands)]
    /\ positions \in Seq(Places) /\ Len(positions) = routed
    /\ sent \in SUBSET Executors
    /\ share \in [Executors -> {"unmade", "queued", "dropping", "last", "gone"}]
    /\ remaining \in Nat /\ permit \in BOOLEAN
    /\ answers \in [Executors -> Seq(Commands)]
    /\ alive \in SUBSET Executors

\* The count is the number of Shares made and not yet counted down.
Counted == remaining = Cardinality(Out)

\* A sorted command's position leads to it in its executor's bucket.
Placed ==
    \A c \in 1 .. routed :
        IF Target[c] = Unaddressed THEN positions[c] = None
        ELSE \E i \in 1 .. Len(buckets[Target[c]]) :
                positions[c] = <<Target[c], i>> /\ buckets[Target[c]][i] = c

\* How far the caller is tells which Shares exist.
Sending ==
    /\ phase # "route" => routed = NCommands
    /\ phase = "route" => \A e \in Executors : share[e] = "unmade"
    /\ \A e \in Executors : e \in sent <=> share[e] # "unmade"
    /\ phase \notin {"route", "send"} => \A e \in Executors : e \in sent \/ buckets[e] = <<>>

\* An answer is the whole bucket's, and a Share on its way out of an executor
\* that lives has left one.
Owed ==
    \A e \in Executors :
        /\ answers[e] \in {<<>>, buckets[e]}
        /\ share[e] = "unmade" => answers[e] = <<>>
        /\ share[e] \in {"dropping", "last", "gone"} /\ e \in alive => answers[e] = buckets[e]

IInv == Types /\ Counted /\ Placed /\ Sending /\ Owed /\ NoLostWakeup /\ EachItsReply

-----------------------------------------------------------------------------

LEMMA OutFinite == IsFiniteSet(Out) /\ Cardinality(Out) \in Nat
<1>1. IsFiniteSet(Out)
  BY GatherAssumption, FS_Subset DEF Out
<1> QED BY <1>1, FS_CardinalityType

LEMMA NothingOut == ASSUME Cardinality(Out) = 0 PROVE Out = {}
  BY OutFinite, FS_EmptySet

\* The initial states satisfy the invariant.
LEMMA InitInv == Init => IInv
<1> SUFFICES ASSUME Init PROVE IInv
  OBVIOUS
<1> USE GatherAssumption
<1>1. Out = {}
  BY DEF Init, Out, Live
<1>0. <<>> \in Seq(Places) /\ Len(<<>>) = 0 /\ <<>> \in Seq(Commands)
  OBVIOUS
<1>2. Types
  <2>1. buckets \in [Executors -> Seq(Commands)] /\ answers \in [Executors -> Seq(Commands)]
    BY <1>0 DEF Init, None
  <2>2. positions \in Seq(Places) /\ Len(positions) = routed
    BY <1>0 DEF Init
  <2>3. routed \in 0 .. NCommands /\ remaining \in Nat
    BY DEF Init
  <2>4. share \in [Executors -> {"unmade", "queued", "dropping", "last", "gone"}]
    BY DEF Init
  <2>5. /\ phase \in {"route", "send", "check", "register", "wait", "done"}
        /\ sent \in SUBSET Executors /\ alive \in SUBSET Executors /\ permit \in BOOLEAN
    BY DEF Init
  <2> QED BY <2>1, <2>2, <2>3, <2>4, <2>5 DEF Types
<1>4. Placed /\ Sending /\ Owed /\ NoLostWakeup /\ EachItsReply
  BY DEF Init, Placed, Sending, Owed, NoLostWakeup, EachItsReply, None
<1>3. Counted
  BY <1>1, FS_EmptySet DEF Counted, Init
<1> QED BY <1>2, <1>3, <1>4 DEF IInv

\* One command sorted: the positions noted before still lead to theirs.
LEMMA RouteInv == IInv /\ Route => IInv'
<1> SUFFICES ASSUME IInv, Route PROVE IInv'
  OBVIOUS
<1> USE GatherAssumption DEF IInv
<1> DEFINE c == routed + 1
<1>0. c \in Commands /\ Target[c] \in Executors \cup {Unaddressed}
  BY DEF Types, Route, Commands
<1>a. PICK p \in Places : positions' = Append(positions, p)
          /\ p = IF Target[c] = Unaddressed THEN None ELSE <<Target[c], Len(buckets[Target[c]]) + 1>>
  <2> DEFINE q == IF Target[c] = Unaddressed THEN None ELSE <<Target[c], Len(buckets[Target[c]]) + 1>>
  <2>1. positions' = Append(positions, q)
    BY <1>0 DEF Route
  <2>2. CASE Target[c] = Unaddressed
    BY <2>1, <2>2 DEF Places
  <2>3. CASE Target[c] # Unaddressed
    <3>1. Target[c] \in Executors /\ Len(buckets[Target[c]]) + 1 \in Nat
      BY <1>0, <2>3 DEF Types
    <3>2. q \in Executors \X Nat
      BY <2>3, <3>1
    <3> QED BY <2>1, <3>2 DEF Places
  <2> QED BY <2>2, <2>3
<1>b. /\ positions' \in Seq(Places) /\ Len(positions') = c
      /\ \A d \in 1 .. routed : positions'[d] = positions[d]
      /\ positions'[c] = p
  BY <1>a, AppendProperties DEF Types
<1>c. ASSUME NEW e \in Executors
      PROVE  /\ buckets'[e] \in Seq(Commands)
             /\ Len(buckets[e]) <= Len(buckets'[e])
             /\ \A i \in 1 .. Len(buckets[e]) : buckets'[e][i] = buckets[e][i]
             /\ e = Target[c] => Len(buckets'[e]) = Len(buckets[e]) + 1
                                 /\ buckets'[e][Len(buckets[e]) + 1] = c
  <2>1. buckets[e] \in Seq(Commands) /\ Len(buckets[e]) \in Nat
    BY DEF Types
  <2>2. CASE e = Target[c]
    <3>1. buckets'[e] = Append(buckets[e], c)
      BY <2>2, <1>0 DEF Route, Types
    <3> QED BY <3>1, <2>1, <1>0, AppendProperties
  <2>3. CASE e # Target[c]
    <3>1. buckets'[e] = buckets[e]
      BY <2>3, <1>0 DEF Route, Types
    <3> QED BY <3>1, <2>1, <2>3
  <2> QED BY <2>2, <2>3
<1>d. buckets' \in [Executors -> Seq(Commands)]
  <2>1. buckets' = [buckets EXCEPT ![Target[c]] = Append(@, c)] \/ buckets' = buckets
    BY DEF Route
  <2> QED BY <2>1, <1>c DEF Types
<1>1. Types'
  BY <1>0, <1>b, <1>d DEF Types, Route, Commands
<1>2. Out' = Out
  BY DEF Out, Live, Route
<1>3. Counted'
  BY <1>2 DEF Counted, Route
<1>4. Placed'
  <2> SUFFICES ASSUME NEW d \in 1 .. routed'
               PROVE  IF Target[d] = Unaddressed THEN positions'[d] = None
                      ELSE \E i \in 1 .. Len(buckets'[Target[d]]) :
                              positions'[d] = <<Target[d], i>> /\ buckets'[Target[d]][i] = d
    BY DEF Placed
  <2>1. CASE d = c
    <3>1. CASE Target[c] = Unaddressed
      BY <2>1, <3>1, <1>a, <1>b
    <3>2. CASE Target[c] # Unaddressed
      <4>1. Target[c] \in Executors
        BY <1>0, <3>2
      <4>2. Len(buckets[Target[c]]) + 1 \in 1 .. Len(buckets'[Target[c]])
        BY <4>1, <1>c DEF Types
      <4> QED BY <2>1, <3>2, <4>1, <4>2, <1>a, <1>b, <1>c
    <3> QED BY <3>1, <3>2
  <2>2. CASE d # c
    <3>1. d \in 1 .. routed /\ positions'[d] = positions[d]
      BY <1>b, <2>2 DEF Route, Types
    <3>2. CASE Target[d] = Unaddressed
      BY <3>1, <3>2 DEF Placed
    <3>3. CASE Target[d] # Unaddressed
      <4>1. Target[d] \in Executors
        BY <3>1, <3>3 DEF Types, Commands
      <4>2. PICK i \in 1 .. Len(buckets[Target[d]]) :
              positions[d] = <<Target[d], i>> /\ buckets[Target[d]][i] = d
        BY <3>1, <3>3 DEF Placed
      <4>3. i \in 1 .. Len(buckets'[Target[d]]) /\ buckets'[Target[d]][i] = buckets[Target[d]][i]
        BY <1>c, <4>1, <4>2 DEF Types
      <4> QED BY <3>1, <3>3, <4>2, <4>3
    <3> QED BY <3>2, <3>3
  <2> QED BY <2>1, <2>2
<1>5. Sending'
  BY DEF Sending, Route, Types
<1>6. Owed'
  <2> SUFFICES ASSUME NEW e \in Executors
               PROVE  /\ answers'[e] \in {<<>>, buckets'[e]}
                      /\ share'[e] = "unmade" => answers'[e] = <<>>
                      /\ share'[e] \in {"dropping", "last", "gone"} /\ e \in alive'
                            => answers'[e] = buckets'[e]
    BY DEF Owed
  <2>1. share[e] = "unmade" /\ answers[e] = <<>>
    BY DEF Sending, Owed, Route
  <2> QED BY <2>1 DEF Route
<1>7. NoLostWakeup' /\ EachItsReply'
  BY DEF NoLostWakeup, EachItsReply, Route
<1> QED BY <1>1, <1>3, <1>4, <1>5, <1>6, <1>7

\* A Share made is one more out.
LEMMA SendInv == ASSUME NEW e \in Executors, IInv, Send(e) PROVE IInv'
<1> USE GatherAssumption DEF IInv
<1>1. Types'
  BY DEF Types, Send, Handed
<1>2. e \notin Out /\ Out' = Out \cup {e}
  BY DEF Out, Live, Send, Handed, Sending, Types
<1>3. Counted'
  BY <1>2, OutFinite, FS_AddElement DEF Counted, Send
<1>4. Placed' /\ Sending'
  BY DEF Placed, Sending, Send, Handed, Types
<1>5. Owed'
  BY DEF Owed, Send, Handed, Types, Sending
<1>6. NoLostWakeup' /\ EachItsReply'
  BY DEF NoLostWakeup, EachItsReply, Send
<1> QED BY <1>1, <1>3, <1>4, <1>5, <1>6

\* An answer is left before the Share is dropped.
LEMMA DeliverInv == ASSUME NEW e \in Executors, IInv, Deliver(e) PROVE IInv'
<1> USE GatherAssumption DEF IInv
<1>1. [i \in DOMAIN buckets[e] |-> Answer(buckets[e][i])] = buckets[e]
  BY DEF Types, Answer
<1>2. Types'
  BY <1>1 DEF Types, Deliver
<1>3. Out' = Out
  BY DEF Out, Live, Deliver, Types
<1>4. Counted' /\ Placed' /\ Sending'
  BY <1>3 DEF Counted, Placed, Sending, Deliver, Types
<1>5. Owed'
  BY <1>1 DEF Owed, Deliver, Types
<1>6. NoLostWakeup' /\ EachItsReply'
  BY DEF NoLostWakeup, EachItsReply, Deliver, Types
<1> QED BY <1>2, <1>4, <1>5, <1>6

\* A death drops the Share unanswered, and nobody is owed by the dead.
LEMMA DieInv == ASSUME NEW e \in Executors, IInv, Die(e) PROVE IInv'
<1> USE GatherAssumption DEF IInv
<1>1. Types'
  BY DEF Types, Die
<1>2. Out' = Out
  BY DEF Out, Live, Die, Types
<1>3. Counted' /\ Placed'
  BY <1>2 DEF Counted, Placed, Die
<1>6. Sending'
  BY DEF Sending, Die, Types
<1>4. Owed'
  BY DEF Owed, Die, Types
<1>5. NoLostWakeup' /\ EachItsReply'
  BY DEF NoLostWakeup, EachItsReply, Die, Types
<1> QED BY <1>1, <1>3, <1>4, <1>5, <1>6

\* A Share counted down is one less out, and the last one will notify.
LEMMA DropInv == ASSUME NEW e \in Executors, IInv, Drop(e) PROVE IInv'
<1> USE GatherAssumption DEF IInv
<1>1. e \in Out /\ Out' = Out \ {e}
  BY DEF Out, Live, Drop, Types
<1>2. Cardinality(Out') = Cardinality(Out) - 1 /\ Cardinality(Out') \in Nat
  BY <1>1, OutFinite, FS_RemoveElement, FS_CardinalityType
<1>3. remaining' = remaining - 1 /\ remaining' \in Nat /\ Counted'
  BY <1>2 DEF Counted, Drop
<1>4. Types'
  BY <1>3 DEF Types, Drop
<1>5. Placed' /\ Sending'
  BY DEF Placed, Sending, Drop, Types
<1>6. Owed'
  BY DEF Owed, Drop, Types
<1>7. NoLostWakeup'
  BY <1>3 DEF NoLostWakeup, Drop, Types
<1>8. EachItsReply'
  BY DEF EachItsReply, Drop
<1> QED BY <1>3, <1>4, <1>5, <1>6, <1>7, <1>8

LEMMA NotifyInv == ASSUME NEW e \in Executors, IInv, NotifyOne(e) PROVE IInv'
<1> USE GatherAssumption DEF IInv
<1>1. Out' = Out
  BY DEF Out, Live, NotifyOne, Types
<1>2. permit' = TRUE
  BY DEF NotifyOne, Permit
<1>3. Types'
  BY <1>2 DEF Types, NotifyOne
<1>4. Counted' /\ Placed' /\ Sending' /\ Owed'
  BY <1>1 DEF Counted, Placed, Sending, Owed, NotifyOne, Types
<1>5. NoLostWakeup' /\ EachItsReply'
  BY <1>2 DEF NoLostWakeup, EachItsReply, NotifyOne
<1> QED BY <1>3, <1>4, <1>5

\* With nothing out, the reply at a position is the command's own, or there is
\* none because its executor died or it had no executor.
LEMMA GatheredReply ==
    ASSUME IInv, phase = "check", remaining = 0, NEW c \in Commands
    PROVE  /\ ReplyAt(c) \in {Answer(c), Unavailable}
           /\ Target[c] \in alive => ReplyAt(c) = Answer(c)
<1> USE GatherAssumption DEF IInv
<1>1. c \in 1 .. routed /\ Out = {}
  BY NothingOut DEF Sending, Commands, Counted
<1>2. CASE Target[c] = Unaddressed
  <2>1. Target[c] \notin alive
    BY <1>2 DEF Types
  <2>2. positions[c] = None
    BY <1>1, <1>2 DEF Placed
  <2> QED BY <2>1, <2>2 DEF ReplyAt
<1>3. CASE Target[c] # Unaddressed
  <2> DEFINE e == Target[c]
  <2>1. e \in Executors
    BY <1>3
  <2>2. PICK i \in 1 .. Len(buckets[e]) : positions[c] = <<e, i>> /\ buckets[e][i] = c
    BY <1>1, <1>3 DEF Placed
  <2>3. positions[c] # None /\ positions[c][1] = e /\ positions[c][2] = i
    BY <2>2 DEF None
  <2>4. ReplyAt(c) = IF i \in DOMAIN answers[e] THEN answers[e][i] ELSE Unavailable
    BY <2>3 DEF ReplyAt
  <2>5. CASE answers[e] = buckets[e]
    <3>1. i \in DOMAIN answers[e]
      BY <2>1, <2>2, <2>5 DEF Types
    <3> QED BY <2>2, <2>4, <2>5, <3>1 DEF Answer
  <2>6. CASE answers[e] # buckets[e]
    <3>1. answers[e] = <<>> /\ DOMAIN answers[e] = {}
      BY <2>1, <2>6 DEF Owed
    <3>2. buckets[e] # <<>>
      BY <2>2
    <3>3. share[e] # "unmade" /\ ~Live(e)
      BY <1>1, <2>1, <3>2 DEF Sending, Out
    <3>4. share[e] \in {"last", "gone"}
      BY <2>1, <3>3 DEF Types, Live
    <3>5. e \notin alive
      BY <2>1, <2>6, <3>4 DEF Owed
    <3> QED BY <2>4, <3>1, <3>5
  <2> QED BY <2>5, <2>6
<1> QED BY <1>2, <1>3

LEMMA CheckInv == IInv /\ Check => IInv'
<1> SUFFICES ASSUME IInv, Check PROVE IInv'
  OBVIOUS
<1> USE GatherAssumption DEF IInv
<1>1. Out' = Out
  BY DEF Out, Live, Check
<1>2. Types' /\ Sending'
  BY DEF Types, Sending, Check
<1>5. Counted' /\ Placed' /\ Owed'
  BY <1>1 DEF Counted, Placed, Owed, Check
<1>3. NoLostWakeup'
  BY DEF NoLostWakeup, Check, StillOut, Types
<1>4. EachItsReply'
  <2>1. CASE remaining # 0
    BY <2>1 DEF EachItsReply, Check, StillOut
  <2>2. CASE remaining = 0
    <3>1. /\ phase = "check" /\ replies' = [c \in Commands |-> ReplyAt(c)]
          /\ alive' = alive
      BY <2>2 DEF Check, StillOut
    <3> QED BY <2>2, <3>1, GatheredReply DEF EachItsReply, Answer
  <2> QED BY <2>1, <2>2
<1> QED BY <1>2, <1>3, <1>4, <1>5

\* The other steps of the caller move its phase, and take a permit kept.
LEMMA CallerInv == IInv /\ (Routed \/ Sent \/ Register \/ Wake) => IInv'
<1> SUFFICES ASSUME IInv, Routed \/ Sent \/ Register \/ Wake PROVE IInv'
  OBVIOUS
<1> USE GatherAssumption DEF IInv
<1>1. Out' = Out
  BY DEF Out, Live, Routed, Sent, Register, Wake
<1>2. Types'
  BY DEF Types, Routed, Sent, Register, Wake
<1>5. Counted'
  BY <1>1 DEF Counted, Routed, Sent, Register, Wake
<1>6. Placed' /\ Owed'
  BY DEF Placed, Owed, Routed, Sent, Register, Wake
<1>3. Sending'
  BY DEF Sending, Types, Routed, Sent, Register, Wake
<1>4. NoLostWakeup' /\ EachItsReply'
  BY DEF NoLostWakeup, EachItsReply, Routed, Sent, Register, Wake
<1> QED BY <1>2, <1>3, <1>4, <1>5, <1>6

LEMMA StutterInv == IInv /\ UNCHANGED vars => IInv'
<1> SUFFICES ASSUME IInv, UNCHANGED vars PROVE IInv'
  OBVIOUS
<1>1. Out' = Out
  BY DEF Out, Live, vars
<1> QED BY <1>1 DEF IInv, Types, Counted, Placed, Sending, Owed, NoLostWakeup, EachItsReply, vars

\* Every step of the chunk preserves the invariant.
LEMMA NextInv == IInv /\ [Next]_vars => IInv'
<1> SUFFICES ASSUME IInv, [Next]_vars PROVE IInv'
  OBVIOUS
<1>1. CASE CallerStep
  BY <1>1, RouteInv, SendInv, CheckInv, CallerInv DEF CallerStep
<1>2. ASSUME NEW e \in Executors, ExecutorStep(e) \/ Die(e) PROVE IInv'
  BY <1>2, DeliverInv, DropInv, NotifyInv, DieInv DEF ExecutorStep
<1>3. CASE UNCHANGED vars
  BY <1>3, StutterInv
<1> QED BY <1>1, <1>2, <1>3 DEF Next

\* For every chunk and every pool: the caller never waits for a notification
\* already spent.
THEOREM WakeupKept == Spec => []NoLostWakeup
<1>1. IInv => NoLostWakeup
  BY DEF IInv
<1> QED BY <1>1, InitInv, NextInv, PTL DEF Spec

\* For every chunk and every pool: each command gets its own reply, at its
\* place, from an executor that lives.
THEOREM RepliesInPlace == Spec => []EachItsReply
<1>1. IInv => EachItsReply
  BY DEF IInv
<1> QED BY <1>1, InitInv, NextInv, PTL DEF Spec

\* Both together: what the runs check of a chunk, for every chunk and pool.
THEOREM GatherIsRight == Spec => []GatherRight
<1>1. NoLostWakeup /\ EachItsReply => GatherRight
  BY DEF GatherRight
<1> QED BY <1>1, WakeupKept, RepliesInPlace, PTL
=============================================================================
