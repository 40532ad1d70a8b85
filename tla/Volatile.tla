------------------------------ MODULE Volatile -------------------------------
(***************************************************************************)
(* What a simulated client claims of its keys with deadlines.  It knows    *)
(* only when it sent a command and when the reply came, so a deadline is   *)
(* an interval, and a key is claimed dead or alive only outside it; a      *)
(* crash or a reported loss withdraws the claims it may have undone.       *)
(***************************************************************************)
EXTENDS SimNode

CONSTANTS StaleSlack,   \* STALE_SLACK
          LiveSlack     \* LIVE_SLACK

VARIABLES model,        \* the volatile part of Model
          issued        \* commands composed so far

vars == <<nodeVars, model, issued>>

Spans == setup.spans            \* times to live of a SET or an EXPIRE
MaxBurst == setup.burst         \* pipeline_depth
MaxOps == setup.ops             \* ops_per_client

-----------------------------------------------------------------------------

\* The server ran the command between its sending and its reply.
Deadline(asked, since, received) == [earliest |-> asked, latest |-> asked + (received - since)]

Claim(m, s, deadline) ==
    [m EXCEPT !.deadlines[s] = deadline, !.acked[s] = clock, !.kept[s] = None]

Unclaim(m, s) == [m EXCEPT !.deadlines[s] = None, !.acked[s] = None, !.kept[s] = None]

\* A command with no reply, or a refused one, may have moved the deadline.
in_flight(m, op) ==
    IF op.kind = "Get" THEN m
    ELSE [m EXCEPT !.deadlines[op.slots[1]] = None, !.acked[op.slots[1]] = None]

reported_since(since) == since # None /\ truncated >= since

\* A loss a start reported withdraws the claims it may have undone.
open_reported(m) ==
    LET opened == {s \in Slots : m.deadlines[s] # None /\ reported_since(m.kept[s])}
    IN  FoldLeft(Unclaim, m, SetToSeq(opened))

\* A crash keeps the claims whose command was durable.
absorb(m, index) ==
    LET point == crashes[index].durable
        kept == {s \in Slots : m.acked[s] # None /\ point # None /\ m.acked[s] < point.at}
    IN  [FoldLeft(Unclaim, m, SetToSeq(Slots \ kept)) EXCEPT
            !.kept = [s \in Slots |-> IF s \in kept /\ @[s] = None THEN index ELSE @[s]],
            !.seen = index]

absorb_crashes(m) ==
    FoldLeft(absorb, m, [i \in 1..(Len(crashes) - m.seen) |-> m.seen + i])

-----------------------------------------------------------------------------
Accuse(m, charge) == [m EXCEPT !.accused = @ \cup {charge}]

\* Mutant: a ceiling excuses nothing.
check_ignoring_ceiling(m, s, reply) ==
    LET deadline == m.deadlines[s]
    IN  IF deadline # None /\ clock + LiveSlack < deadline.earliest /\ reply[1] # "Bulk"
        THEN Accuse(m, "spurious_death") ELSE m

check_volatile(m, s, reply) ==
    LET deadline == m.deadlines[s]
        present == reply[1] = "Bulk"
    IN  IF deadline = None THEN m
        ELSE IF Evicts /\ ~present /\ clock + LiveSlack < deadline.earliest
        THEN [m EXCEPT !.deadlines[s] = None]
        ELSE IF sent > deadline.latest + StaleSlack
        THEN IF present THEN Accuse(m, "stale_read") ELSE m
        ELSE IF clock + LiveSlack < deadline.earliest /\ ~present
        THEN Accuse(m, "spurious_death")
        ELSE m

observe_one(m, op, reply) ==
    LET s == op.slots[1]
        deadline == Deadline(sent + op.span, sent, clock)
    IN  CASE reply = <<"Refused">> -> in_flight(m, op)
          [] op.kind = "SetEx" -> Claim(m, s, deadline)
          [] op.kind = "Expire" -> Claim(m, s, IF reply = <<"Integer", 1>> THEN deadline ELSE None)
          [] op.kind = "Persist" -> [m EXCEPT !.deadlines[s] = None]
          [] op.kind = "Get" -> check_volatile(m, s, reply)

observe(m, ops, replies) ==
    FoldLeft(LAMBDA acc, i : observe_one(acc, ops[i], replies[i].reply),
             open_reported(m), [i \in DOMAIN ops |-> i])

-----------------------------------------------------------------------------
compose_volatile(seq) ==
    [kind : {"SetEx", "Expire"}, slots : [{1} -> Slots], value : {seq}, span : Spans]
    \cup [kind : {"Get", "Persist"}, slots : [{1} -> Slots]]

Min2(a, b) == IF a < b THEN a ELSE b

Client ==
    /\ phase = "idle" /\ issued < MaxOps
    /\ \E ops \in [1..Min2(MaxBurst, MaxOps - issued) -> UNION {compose_volatile(issued + i) : i \in 1..MaxBurst}] :
          /\ \A i \in DOMAIN ops : ops[i] \in compose_volatile(issued + i)
          /\ Send(ops)
          /\ issued' = issued + Len(ops)
    /\ model' = absorb_crashes(model)

\* Past the last deadline the client reads every key.
settle == /\ phase = "idle" /\ issued = MaxOps
          /\ \A s \in Slots : model.deadlines[s] # None =>
                 clock > model.deadlines[s].earliest + StaleSlack
          /\ Send(LET order == SetToSeq(Slots) IN
                  [i \in DOMAIN order |-> [kind |-> "Get", slots |-> <<order[i]>>]])
          /\ issued' = issued + 1
          /\ model' = absorb_crashes(model)

Receive == /\ Arrived
           /\ model' = absorb_crashes(observe(model, burst, answers))
           /\ HangUp /\ conn' = conn
           /\ UNCHANGED issued

Reconnect == /\ phase = "dead" /\ up
             /\ model' = absorb_crashes(FoldLeft(in_flight, model, burst))
             /\ HangUp /\ conn' = TRUE
             /\ UNCHANGED issued

NewModel == [deadlines |-> [s \in Slots |-> None], acked |-> [s \in Slots |-> None],
             kept |-> [s \in Slots |-> None], seen |-> 0, accused |-> {}]

Init == NodeInit /\ model = NewModel /\ issued = 0

Next == /\ UNCHANGED setup
        /\ \/ Client \/ settle \/ Receive \/ Reconnect
           \/ Node /\ UNCHANGED <<model, issued>>

Spec == Init /\ [][Next]_vars

-----------------------------------------------------------------------------
(* Properties.                                                             *)

\* A node that keeps deadlines is never charged with serving a dead key or
\* losing a live one, however long replies take and whatever crashes, losses
\* and evictions come between (check_volatile; the invariant's stale_reads
\* and spurious_deaths).
NeverMisjudged == model.accused = {}

\* What the client claims is so: with nothing in flight, a key it holds a
\* deadline for is there with a deadline in the interval, or the interval has
\* begun and the key is gone (Deadline::new, absorb_crashes, open_reported).
ClaimsTrue ==
    phase = "idle" /\ up /\ ~Evicts =>
        LET m == open_reported(absorb_crashes(model))
            ks == Keyspace(log)
        IN  \A s \in Slots : m.deadlines[s] # None =>
                IF Present(ks, s)
                THEN ks[s][2] \in m.deadlines[s].earliest..m.deadlines[s].latest
                ELSE clock >= m.deadlines[s].earliest
=============================================================================
