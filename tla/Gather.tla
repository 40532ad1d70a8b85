------------------------------- MODULE Gather -------------------------------
(***************************************************************************)
(* A chunk of commands through the pool: ShardPool::dispatch_many sorts    *)
(* them by executor, sends each executor its bucket with a Share of one    *)
(* ChunkReply cell, and gather waits for the last Share to be dropped and  *)
(* reads the replies back in the order of the commands.                    *)
(*                                                                         *)
(* Executors answer, or die with what is in their inboxes, at any moment,  *)
(* also while the caller is still sending.                                 *)
(***************************************************************************)
EXTENDS Naturals, Sequences, FiniteSets

CONSTANTS Executors,
          NCommands,    \* how many commands the chunk has
          Unaddressed,  \* not an executor: a command no shard can be named for
          Target,       \* each command's executor, or Unaddressed
          Unavailable   \* the reply ShardUnavailable

Commands == 1 .. NCommands

ASSUME GatherAssumption ==
    /\ NCommands \in Nat
    /\ IsFiniteSet(Executors)
    /\ Unaddressed \notin Executors
    /\ Target \in [Commands -> Executors \cup {Unaddressed}]
    /\ Unavailable \notin Commands

VARIABLES phase,      \* the caller: "route", "send", "check", "register",
                      \* "wait", "done"
          routed,     \* how many commands it has sorted
          buckets,    \* per executor, its commands
          positions,  \* per sorted command, where its reply will be
          sent,       \* the executors whose bucket was handed over
          share,      \* per executor, its Share: "unmade", "queued", "dropping",
                      \* "last" once its drop was the last, "gone"
          remaining,  \* ChunkReply.remaining
          permit,     \* ChunkReply.done: a notification not yet taken
          answers,    \* ChunkReply.answers
          alive,      \* the executors still running
          replies     \* what gather returned

vars == <<phase, routed, buckets, positions, sent, share, remaining, permit,
          answers, alive, replies>>

None == <<>>

\* The reply to a command stands for itself: the command's number.
Answer(c) == c

Init ==
    /\ phase = "route" /\ routed = 0
    /\ buckets = [e \in Executors |-> <<>>]
    /\ positions = <<>>
    /\ sent = {} /\ share = [e \in Executors |-> "unmade"]
    /\ remaining = 0 /\ permit = FALSE
    /\ answers = [e \in Executors |-> None]
    /\ alive = Executors /\ replies = <<>>

\* One command into its executor's bucket, its position noted.
Route ==
    /\ phase = "route" /\ routed < NCommands
    /\ routed' = routed + 1
    /\ LET e == Target[routed + 1]
       IN  IF e = Unaddressed
           THEN positions' = Append(positions, None) /\ UNCHANGED buckets
           ELSE /\ positions' = Append(positions, <<e, Len(buckets[e]) + 1>>)
                /\ buckets' = [buckets EXCEPT ![e] = Append(@, routed + 1)]
    /\ UNCHANGED <<phase, sent, share, remaining, permit, answers, alive, replies>>

Routed ==
    /\ phase = "route" /\ routed = NCommands
    /\ phase' = "send"
    /\ UNCHANGED <<routed, buckets, positions, sent, share, remaining, permit, answers, alive, replies>>

KeptShare(e) == "queued"                  \* Planted: a failed send keeps its Share

Handed(e) == IF e \in alive THEN "queued" ELSE "dropping"

\* share, then the send: to a closed inbox it fails, and drops what it carried.
Send(e) ==
    /\ phase = "send" /\ e \notin sent /\ buckets[e] # <<>>
    /\ sent' = sent \cup {e}
    /\ remaining' = remaining + 1
    /\ share' = [share EXCEPT ![e] = Handed(e)]
    /\ UNCHANGED <<phase, routed, buckets, positions, permit, answers, alive, replies>>

Sent ==
    /\ phase = "send" /\ \A e \in Executors : e \in sent \/ buckets[e] = <<>>
    /\ phase' = "check"
    /\ UNCHANGED <<routed, buckets, positions, sent, share, remaining, permit, answers, alive, replies>>

\* Share::deliver: the replies to a bucket, in its order; then the Share drops.
Deliver(e) ==
    /\ e \in alive /\ share[e] = "queued"
    /\ answers' = [answers EXCEPT ![e] = [i \in DOMAIN buckets[e] |-> Answer(buckets[e][i])]]
    /\ share' = [share EXCEPT ![e] = "dropping"]
    /\ UNCHANGED <<phase, routed, buckets, positions, sent, remaining, permit, alive, replies>>

\* An executor ends: its inbox closes and every envelope in it is dropped.
Die(e) ==
    /\ e \in alive
    /\ alive' = alive \ {e}
    /\ share' = [share EXCEPT ![e] = IF @ = "queued" THEN "dropping" ELSE @]
    /\ UNCHANGED <<phase, routed, buckets, positions, sent, remaining, permit, answers, replies>>

\* Drop for Share: count down; the one that was last notifies.
Drop(e) ==
    /\ share[e] = "dropping"
    /\ remaining' = remaining - 1
    /\ share' = [share EXCEPT ![e] = IF remaining = 1 THEN "last" ELSE "gone"]
    /\ UNCHANGED <<phase, routed, buckets, positions, sent, permit, answers, alive, replies>>

WakeOnlyWaiter(p, ph) == p \/ ph = "wait"   \* Planted: no permit is kept for later

\* Notify::notify_one wakes the waiter, or leaves one permit for the next.
Permit(p, ph) == TRUE

NotifyOne(e) ==
    /\ share[e] = "last"
    /\ permit' = Permit(permit, phase)
    /\ share' = [share EXCEPT ![e] = "gone"]
    /\ UNCHANGED <<phase, routed, buckets, positions, sent, remaining, answers, alive, replies>>

\* The reply at a position: the executor's, or ShardUnavailable.
ReplyAt(c) ==
    LET position == positions[c]
    IN  IF position = None THEN Unavailable
        ELSE IF position[2] \in DOMAIN answers[position[1]]
             THEN answers[position[1]][position[2]]
             ELSE Unavailable

\* Whether shares are still out.
StillOut(r, p) == r # 0

\* gather: while the count is not zero, wait; then read the replies in order.
Check ==
    /\ phase = "check"
    /\ IF StillOut(remaining, permit) THEN phase' = "register" /\ UNCHANGED replies
       ELSE phase' = "done" /\ replies' = [c \in Commands |-> ReplyAt(c)]
    /\ UNCHANGED <<routed, buckets, positions, sent, share, remaining, permit, answers, alive>>

\* The count was not zero when it was read; the wait begins only now.
Register ==
    /\ phase = "register"
    /\ phase' = "wait"
    /\ UNCHANGED <<routed, buckets, positions, sent, share, remaining, permit, answers, alive, replies>>

Wake ==
    /\ phase = "wait" /\ permit
    /\ permit' = FALSE /\ phase' = "check"
    /\ UNCHANGED <<routed, buckets, positions, sent, share, remaining, answers, alive, replies>>

CallerStep == Route \/ Routed \/ (\E e \in Executors : Send(e)) \/ Sent \/ Check \/ Register \/ Wake

ExecutorStep(e) == Deliver(e) \/ Drop(e) \/ NotifyOne(e)

Next == CallerStep \/ \E e \in Executors : ExecutorStep(e) \/ Die(e)

\* The caller's task and each executor's keep running (the Share of a dead
\* executor is dropped by whoever closes its inbox).
Fairness == WF_vars(CallerStep) /\ \A e \in Executors : WF_vars(ExecutorStep(e))

Spec == Init /\ [][Next]_vars /\ Fairness

-----------------------------------------------------------------------------
(* Properties.                                                             *)

Live(e) == share[e] \in {"queued", "dropping"}

\* The caller never waits for a notification that was already spent: while it
\* waits on a count of zero, one is kept or about to be given (gather's loop,
\* Share's drop), also when the count touched zero before the last send.
NoLostWakeup ==
    phase \in {"register", "wait"} /\ remaining = 0 => permit \/ \E e \in Executors : share[e] = "last"

\* gather returns each command's own reply, at its place, unless its executor
\* died or no shard could be named for it; a stale notification never makes it
\* return while an executor that lives still owes an answer.
EachItsReply ==
    phase = "done" => \A c \in Commands :
        /\ replies[c] \in {Answer(c), Unavailable}
        /\ Target[c] \in alive => replies[c] = Answer(c)

\* A chunk's caller is woken, and told what its executors said.
GatherRight == NoLostWakeup /\ EachItsReply

\* Every dispatched chunk is answered: no count of shares is left above zero
\* and no notification lost, whoever dies (gather, deliver, drop).
Answered == <>(phase = "done")
=============================================================================
