------------------------------- MODULE Oracle --------------------------------
(***************************************************************************)
(* The model each simulated client keeps of its plain keys and of the      *)
(* counters, and the judgement it passes on every reply: what a key may    *)
(* hold after acknowledged writes, writes with no reply, refusals, crashes *)
(* and reported losses.  The node (SimNode) keeps its promises, so a       *)
(* judgement against it is a fault of the judge.                           *)
(***************************************************************************)
EXTENDS SimNode

VARIABLES model,        \* Model: what is known of each slot
          issued        \* commands composed so far

vars == <<nodeVars, model, issued>>

Kinds == setup.kinds            \* the commands composed
MaxBurst == setup.burst         \* pipeline_depth
MaxOps == setup.ops             \* ops_per_client
Deltas == {-1, 2}               \* of an INCRBY

-----------------------------------------------------------------------------
(* Known: what a slot may hold.                                            *)

Nothing == <<"Nothing">>
Absent == <<"Absent">>
Value(v) == <<"Value", v>>
Either(candidates) == <<"Either", candidates>>

flatten(knowns) == UNION {IF k[1] = "Either" THEN k[2] ELSE {k} : k \in knowns}

(* SlotHistory: the writes a crash may still choose among, oldest first.   *)

Write(known, at, acknowledged) == [known |-> known, at |-> at, acknowledged |-> acknowledged]

\* The last acknowledged write that was durable; 0 when none was.
base(writes, durable_at) ==
    LET there == {i \in DOMAIN writes : /\ writes[i].acknowledged
                                        /\ durable_at # None /\ writes[i].at < durable_at}
    IN  IF there = {} THEN 0 ELSE Max(there)

record(writes, known, acked, durable_at) ==
    LET all == Append(writes, Write(known, acked, TRUE))
        from == base(all, durable_at)
    IN  IF from = 0 THEN all ELSE SubSeq(all, from, Len(all))

record_unacknowledged(writes, known, at) == Append(writes, Write(known, at, FALSE))

candidates(writes, durable_at) ==
    LET from == base(writes, durable_at)
    IN  {IF from = 0 THEN Absent ELSE writes[from].known}
            \cup {writes[i].known : i \in (from + 1)..Len(writes)}

keep_only(known, at) == <<Write(known, at, TRUE)>>

\* Whether a write with no reply may yet produce what was observed.
unsettled(writes, known) ==
    \E i \in DOMAIN writes : /\ writes[i].known = known
                             /\ \A j \in i..Len(writes) : ~writes[j].acknowledged

-----------------------------------------------------------------------------
(* Writes, with and without a reply.                                       *)

\* Not for a write a crash not yet absorbed may have undone.
durable_at(m) == IF Len(crashes) > m.seen \/ durable = None THEN None ELSE durable.at

remember(m, s, known) == IF known[1] = "Value" THEN [m EXCEPT !.ever[s] = @ \cup {known}] ELSE m

wrote(m, s, known, acked) ==
    [remember(m, s, known) EXCEPT
        !.history[s] = record(@, known, acked, durable_at(m)),
        !.state[s] = known, !.durable[s] = None, !.since[s] = None]

maybe_wrote(m, s, known) ==
    LET writes == record_unacknowledged(m.history[s], known, clock)
    IN  [remember(m, s, known) EXCEPT
            !.history[s] = writes,
            !.state[s] = Either(flatten(candidates(writes, None))), !.durable[s] = None]

Increment(m, op, acked) ==
    [m EXCEPT !.increments = Append(@, [delta |-> op.delta, acked |-> acked, later |-> m.seen])]

\* An operation that may have taken effect.
in_flight(m, op) ==
    CASE op.kind = "IncrBy" -> Increment(m, op, None)
      [] op.kind \in {"Set", "SetNx", "SetIf", "SetGet"} ->
            maybe_wrote(m, op.slots[1], Value(op.value))
      [] op.kind = "Del" -> FoldLeft(LAMBDA acc, s : maybe_wrote(acc, s, Absent), m, op.slots)
      [] OTHER -> m

-----------------------------------------------------------------------------
(* Crashes, and the losses a start reported.                               *)

absorb(m, index) ==
    LET crash == crashes[index]
        at == IF crash.durable = None THEN None ELSE crash.durable.at
        left(s) == flatten(candidates(m.history[s], at))
        known(s) == IF Cardinality(left(s)) = 1 THEN CHOOSE k \in left(s) : TRUE
                    ELSE Either(left(s))
        first(claim) == IF claim = None THEN index ELSE claim
        touched == {s \in Slots : m.state[s] # Nothing}
    IN  [m EXCEPT
            !.durable = [s \in Slots |-> IF s \notin touched THEN @[s]
                            ELSE IF known(s)[1] # "Either" THEN first(@[s]) ELSE None],
            !.history = [s \in Slots |-> IF s \in touched THEN keep_only(known(s), crash.at) ELSE @[s]],
            !.state = [s \in Slots |-> IF s \in touched THEN known(s) ELSE @[s]],
            !.since = [s \in Slots |-> IF s \in touched THEN first(@[s]) ELSE @[s]],
            !.seen = index]

absorb_crashes(m) ==
    FoldLeft(absorb, m, [i \in 1..(Len(crashes) - m.seen) |-> m.seen + i])

reported_since(since) == since # None /\ truncated >= since

\* A key whose start reported a loss may hold anything it ever held.
open_reported(m) ==
    LET opened == {s \in Slots : m.state[s] # Nothing /\ reported_since(m.since[s])}
        known(s) == Either({Absent} \cup m.ever[s])
    IN  [m EXCEPT
            !.history = [s \in Slots |-> IF s \in opened THEN keep_only(known(s), clock) ELSE @[s]],
            !.state = [s \in Slots |-> IF s \in opened THEN known(s) ELSE @[s]],
            !.durable = [s \in Slots |-> IF s \in opened THEN None ELSE @[s]],
            !.since = [s \in Slots |-> IF s \in opened THEN None ELSE @[s]]]

-----------------------------------------------------------------------------
(* A reply is checked against what is known.                               *)

Accuse(m, charge) == [m EXCEPT !.accused = @ \cup {charge}]

Judge(m, agrees, charge) == IF agrees THEN m ELSE Accuse(m, charge)

Observed(reply) == IF reply[1] = "Null" THEN Absent ELSE Value(reply[2])

check_either(m, s, reply) ==
    LET seen == Observed(reply)
        open == unsettled(m.history[s], seen)
    IN  IF seen \notin m.state[s][2]
        THEN Accuse([m EXCEPT !.state[s] = Nothing], "phantom_write")
        ELSE [m EXCEPT !.state[s] = seen,
                       !.since[s] = IF open THEN @ ELSE None,
                       !.history[s] = IF open THEN @ ELSE keep_only(seen, clock)]

check_durable(m, s, agrees) ==
    IF agrees THEN m
    ELSE LET lost == [m EXCEPT !.state[s] = Nothing, !.durable[s] = None]
         IN  IF reported_since(m.since[s]) THEN lost ELSE Accuse(lost, "lost_durable_write")

check_plain(m, s, reply) ==
    CASE m.state[s] = Nothing -> m
      [] m.state[s][1] = "Either" -> check_either(m, s, reply)
      [] Evicts /\ m.state[s][1] = "Value" /\ reply = <<"Null">> -> [m EXCEPT !.state[s] = Absent]
      [] OTHER -> LET agrees == m.state[s] = Observed(reply)
                  IN  IF m.durable[s] # None THEN check_durable(m, s, agrees)
                      ELSE Judge(m, agrees, "plain_mismatch")

Sure(m, s) == m.state[s][1] \in {"Absent", "Value"}

check_plain_shape(m, s, reply, absent, present) ==
    Judge(m, \/ ~Sure(m, s)
             \/ (m.state[s] = Absent /\ reply = absent)
             \/ m.state[s] # Absent /\ (reply = present \/ (Evicts /\ reply = absent)),
          "plain_mismatch")

check_plain_fan_out(m, slots, reply, removing, acked) ==
    LET counted == {i \in DOMAIN slots : /\ m.state[slots[i]][1] = "Value"
                                         /\ removing => \A j \in 1..(i - 1) : slots[j] # slots[i]}
        n == Cardinality(counted)
        agrees == \/ \E s \in ToSet(slots) : ~Sure(m, s)
                  \/ IF Evicts THEN reply[2] \in 0..n ELSE reply[2] = n
        judged_m == Judge(m, agrees, "plain_mismatch")
    IN  IF removing
        THEN FoldLeft(LAMBDA acc, s : wrote(acc, s, Absent, acked), judged_m, slots)
        ELSE judged_m

check_plain_mget(m, slots, reply) ==
    LET one(acc, i) ==
            LET s == slots[i] IN
            IF Evicts /\ acc.state[s][1] = "Value" /\ reply[2][i] = <<"Null">>
            THEN [acc EXCEPT !.state[s] = Absent]
            ELSE Judge(acc, Sure(acc, s) => acc.state[s] = Observed(reply[2][i]), "plain_mismatch")
    IN  FoldLeft(one, m, [i \in DOMAIN slots |-> i])

observe_set_cond(m, op, xx, took, acked) ==
    LET s == op.slots[1]
        present == m.state[s] # Absent
        told == Judge(m, Sure(m, s) => (took <=> (present <=> xx)), "plain_mismatch")
    IN  IF took THEN wrote(told, s, Value(op.value), acked) ELSE told

observe_one(m, op, reply) ==
    LET s == op.slots[1]
    IN  CASE reply = <<"Refused">> -> in_flight(m, op)
          [] op.kind = "IncrBy" -> Increment(m, op, clock)
          [] op.kind = "Set" -> wrote(m, s, Value(op.value), clock)
          [] op.kind = "SetNx" -> observe_set_cond(m, op, FALSE, reply = <<"Integer", 1>>, clock)
          [] op.kind = "SetIf" -> observe_set_cond(m, op, op.xx, reply = <<"OK">>, clock)
          [] op.kind = "SetGet" -> wrote(check_plain(m, s, reply), s, Value(op.value), clock)
          [] op.kind = "Del" -> check_plain_fan_out(m, op.slots, reply, TRUE, clock)
          [] op.kind = "Exists" -> check_plain_fan_out(m, op.slots, reply, FALSE, clock)
          [] op.kind = "MGet" -> check_plain_mget(m, op.slots, reply)
          [] op.kind = "Get" -> check_plain(m, s, reply)
          [] op.kind = "Type" ->
                check_plain_shape(m, s, reply, <<"Status", "none">>, <<"Status", "string">>)
          [] op.kind = "StrLen" ->
                check_plain_shape(m, s, reply, <<"Integer", 0>>,
                    <<"Integer", IF m.state[s][1] = "Value" THEN m.state[s][2] ELSE 0>>)

observe(m, ops, replies) ==
    FoldLeft(LAMBDA acc, i : observe_one(acc, ops[i], replies[i].reply),
             open_reported(m), [i \in DOMAIN ops |-> i])

-----------------------------------------------------------------------------
(* The client: compose a burst, send it, judge what came back.             *)

\* One to two keys, repeats allowed.
several == UNION {[1..n -> Slots] : n \in 1..2}

\* SET in its spellings; the values written are all different.
compose_plain_set(seq) ==
    [kind : {"Set", "SetNx", "SetGet"}, slots : [{1} -> Slots], value : {seq}]
    \cup [kind : {"SetIf"}, slots : [{1} -> Slots], value : {seq}, xx : BOOLEAN]

compose_plain(seq) ==
    compose_plain_set(seq)
    \cup [kind : {"Get", "Type", "StrLen"}, slots : [{1} -> Slots]]
    \cup [kind : {"Del", "Exists", "MGet"}, slots : several]

\* The commands a roll may choose.
compose(seq) ==
    {op \in compose_plain(seq) \cup [kind : {"IncrBy"}, slots : {<<>>}, delta : Deltas] :
        op.kind \in Kinds}

Min2(a, b) == IF a < b THEN a ELSE b

Client ==
    /\ phase = "idle" /\ issued < MaxOps
    /\ \E ops \in [1..Min2(MaxBurst, MaxOps - issued) -> UNION {compose(issued + i) : i \in 1..MaxBurst}] :
          /\ \A i \in DOMAIN ops : ops[i] \in compose(issued + i)
          /\ Send(ops)
          /\ issued' = issued + Len(ops)
    /\ model' = absorb_crashes(model)

\* Once its commands are done the client reads every key.
settle == /\ phase = "idle" /\ issued = MaxOps
          /\ Send(LET order == SetToSeq(Slots) IN
                  [i \in DOMAIN order |-> [kind |-> "Get", slots |-> <<order[i]>>]])
          /\ issued' = issued + 1
          /\ model' = absorb_crashes(model)

Receive == /\ Arrived
           /\ model' = absorb_crashes(observe(model, burst, answers))
           /\ HangUp /\ conn' = conn
           /\ UNCHANGED issued

\* The connection failed: a new one is opened before the burst is given up.
Reconnect == /\ phase = "dead" /\ up
             /\ model' = absorb_crashes(FoldLeft(in_flight, model, burst))
             /\ HangUp /\ conn' = TRUE
             /\ UNCHANGED issued

NewModel == [state |-> [s \in Slots |-> Nothing], history |-> [s \in Slots |-> <<>>],
             durable |-> [s \in Slots |-> None], since |-> [s \in Slots |-> None],
             ever |-> [s \in Slots |-> {}], seen |-> 0, increments |-> <<>>, accused |-> {}]

Init == NodeInit /\ model = NewModel /\ issued = 0

Next == /\ UNCHANGED setup
        /\ \/ Client \/ settle \/ Receive \/ Reconnect
           \/ Node /\ UNCHANGED <<model, issued>>

Spec == Init /\ [][Next]_vars

-----------------------------------------------------------------------------
(* The verifier's sum over the counters.                                   *)

increment_is_durable(inc) ==
    /\ inc.acked # None
    /\ \A i \in (inc.later + 1)..Len(crashes) :
          crashes[i].durable # None /\ inc.acked < crashes[i].durable.at

Owed(inc) == truncated <= inc.later /\ increment_is_durable(inc)

Floor == FoldLeft(LAMBDA sum, inc : sum + IF Owed(inc) \/ inc.delta < 0 THEN inc.delta ELSE 0,
                  0, model.increments)

Ceiling == FoldLeft(LAMBDA sum, inc : sum + IF Owed(inc) \/ inc.delta > 0 THEN inc.delta ELSE 0,
                    0, model.increments)

-----------------------------------------------------------------------------
(* Properties.                                                             *)

\* A node that keeps its promises is never accused: whatever crashes, lost
\* and late replies, refusals, evictions and reported losses it goes through,
\* no reply is judged a mismatch, a phantom write or the loss of a durable
\* write, and no start an unreported loss (SimOutcome::invariant_holds over
\* observe, in_flight, absorb_crashes and judge_recovery).
NeverAccused == model.accused = {} /\ ~unreported

\* The client has nothing in flight, to a node that serves.
Quiet == phase = "idle" /\ up

\* What the client believes covers what the node holds: when nothing is in
\* flight, absorbing the crashes and the reports leaves the value the node
\* would answer among those allowed (absorb_crashes, open_reported).
BeliefCovers ==
    Quiet /\ ~Evicts =>
        LET m == open_reported(absorb_crashes(model))
            ks == Keyspace(log)
        IN  \A s \in Slots : m.state[s] # Nothing =>
                Observed(Bulk(ks, s)) \in flatten({m.state[s]})

\* The sum of the counters is within what the acknowledged, the lost and the
\* doubtful increments allow (verifier's counter_floor and counter_ceiling).
SumWithinBounds == Quiet /\ ~Evicts => Floor <= Total(log) /\ Total(log) <= Ceiling
=============================================================================
