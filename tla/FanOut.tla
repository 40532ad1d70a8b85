------------------------------- MODULE FanOut -------------------------------
(***************************************************************************)
(* The commands that touch more than one shard, at the edge: fan_out (DEL, *)
(* EXISTS key by key; MGET in slices), broadcast (DBSIZE, FLUSHALL, BGSAVE *)
(* to every shard), keys and scan (walks).  None of them is atomic: other  *)
(* clients write between a call's steps, and executors may die.            *)
(*                                                                         *)
(* A shard is a table of NBuckets buckets walked in order; what resizing   *)
(* does to a walk is module Dict's.  Of a key only its presence matters.   *)
(***************************************************************************)
EXTENDS Integers, FiniteSets, SequencesExt

CONSTANTS Keys, Matching,     \* the keys, and those the pattern matches
          NShards, NExecutors, NBuckets,
          Place,              \* each key's <<shard, bucket>>
          CHUNK_COMMANDS, WALK_STEP_BUCKETS,
          InternalSpan,       \* 2 ^ CURSOR_INTERNAL_BITS
          KeyTarget,          \* SCAN's COUNT
          Ceiling,            \* KEYS_REPLY_BYTES, a key being one byte
          Lists,              \* the key lists DEL and MGET are called with
          Ops,                \* the calls made
          MaxWrites           \* bound on the other clients' writes during a call

VARIABLES keys,      \* the keys present
          alive,       \* the executors running
          saving,      \* the executors with a save under way
          call,        \* the call being served
          through,     \* the keys present ever since it began,
          met,         \* those present at some moment since,
          answered,    \* the shards that answered it,
          writes,      \* and the other clients' writes meanwhile
          reply        \* the last reply

vars == <<keys, alive, saving, call, through, met, answered, writes, reply>>

Shards == 0 .. NShards - 1
Executors == 0 .. NExecutors - 1

shard_of(k) == Place[k][1]
executor_of(s) == (s * NExecutors) \div NShards

Owner(k) == executor_of(shard_of(k))
ShardsOf(e) == {s \in Shards : executor_of(s) = e}

Idle == [op |-> "idle"]
Unavailable == <<"Error", "ShardUnavailable">>
InvalidCursor == <<"Error", "InvalidCursor">>
TooLarge == <<"Error", "TooLarge">>

Begin(c) ==
    /\ call = Idle
    /\ call' = c /\ through' = keys /\ met' = keys /\ answered' = {} /\ writes' = 0
    /\ reply' = <<"None">>
    /\ UNCHANGED <<keys, alive, saving>>

Finish(r) == call' = Idle /\ reply' = r

\* A step of the call that removes the keys of `gone` and hears from `from`.
Serve(gone, from) ==
    /\ keys' = keys \ gone /\ through' = through \ gone
    /\ answered' = answered \cup from
    /\ UNCHANGED <<alive, met, writes>>

-----------------------------------------------------------------------------
(* fan_out.                                                                *)

Del(list) == "del" \in Ops /\ Begin([op |-> "del", todo |-> list, total |-> 0])

\* Fold::Sum: one key at a time; the first reply that is no number ends it.
SumStep ==
    /\ call.op = "del"
    /\ IF call.todo = <<>> THEN
          /\ Finish(<<"Removed", call.total>>)
          /\ UNCHANGED <<keys, alive, through, met, answered, writes>>
       ELSE LET k == Head(call.todo) IN
            IF Owner(k) \notin alive
            THEN Finish(Unavailable) /\ UNCHANGED <<keys, alive, through, met, answered, writes>>
            ELSE /\ Serve({k}, {shard_of(k)})
                 /\ call' = [call EXCEPT !.todo = Tail(@),
                                         !.total = @ + (IF k \in keys THEN 1 ELSE 0)]
                 /\ UNCHANGED reply
    /\ UNCHANGED saving

Slice(list) == SubSeq(list, 1, IF Len(list) < CHUNK_COMMANDS THEN Len(list) ELSE CHUNK_COMMANDS)

\* What dispatch_many sent to executors that run; the rest is unavailable.
Sending(list) ==
    [op |-> "mget", todo |-> list, slice |-> Slice(list), entries |-> <<>>,
     out |-> {Owner(k) : k \in ToSet(Slice(list))} \cap alive, got |-> << >>]

Mget(list) == "mget" \in Ops /\ Begin(Sending(list))

\* One executor answers its part of a slice, at one moment.
SliceServed(e) ==
    /\ call.op = "mget" /\ e \in call.out
    /\ LET mine == {i \in DOMAIN call.slice : Owner(call.slice[i]) = e}
       IN  /\ call' = [call EXCEPT !.out = @ \ {e},
                          !.got = [i \in DOMAIN @ \cup mine |->
                                      IF i \in mine THEN call.slice[i] \in keys ELSE @[i]]]
           /\ Serve({}, {shard_of(call.slice[i]) : i \in mine})
    /\ UNCHANGED <<saving, reply>>

Entries(slice, got) == [i \in DOMAIN slice |-> <<slice[i], got[i]>>]

\* fold_array: the slice's entries, or the first error.
SliceDone ==
    /\ call.op = "mget" /\ call.out = {}
    /\ IF \E i \in DOMAIN call.slice : i \notin DOMAIN call.got THEN Finish(Unavailable)
       ELSE LET entries == call.entries \o Entries(call.slice, call.got)
                rest    == SubSeq(call.todo, Len(call.slice) + 1, Len(call.todo))
            IN  IF rest = <<>> THEN Finish(<<"Array", entries>>)
                ELSE call' = [Sending(rest) EXCEPT !.entries = entries] /\ UNCHANGED reply
    /\ UNCHANGED <<keys, alive, saving, through, met, answered, writes>>

-----------------------------------------------------------------------------
(* broadcast.                                                              *)

Lost == <<"lost">>

\* dispatch_every: a bucket to each executor; a send to a dead one is skipped.
Every(cmd) ==
    /\ cmd \in Ops
    /\ Begin([op |-> "every", cmd |-> cmd, out |-> alive, got |-> << >>])

On(e) == {k \in keys : Owner(k) = e}

\* An executor answers for each of its shards; BGSAVE starts a save or says one
\* is running.
ServeBucket(e) ==
    LET count(s) == Cardinality({k \in keys : shard_of(k) = s})
        one(s)   == CASE call.cmd = "dbsize"   -> <<"Integer", count(s)>>
                      [] call.cmd = "flushall" -> <<"Ok">>
                      [] call.cmd = "bgsave"   -> IF e \in saving THEN <<"Error", "SaveInProgress">>
                                                  ELSE <<"Status">>
        order    == SetToSortSeq(ShardsOf(e), <)
    IN  [i \in DOMAIN order |-> one(order[i])]

EveryServed(e) ==
    /\ call.op = "every" /\ e \in call.out
    /\ call' = [call EXCEPT !.out = @ \ {e},
                   !.got = [x \in DOMAIN @ \cup {e} |-> IF x = e THEN ServeBucket(e) ELSE @[x]]]
    /\ Serve(IF call.cmd = "flushall" THEN On(e) ELSE {}, ShardsOf(e))
    /\ saving' = IF call.cmd = "bgsave" THEN saving \cup {e} ELSE saving
    /\ UNCHANGED reply

NoPadding(replies) == replies            \* Planted: a short answer is taken as it is

\* The replies are padded to one per shard.
Padded(replies) ==
    replies \o [i \in 1 .. NShards - Len(replies) |-> Unavailable]

\* The replies of the executors, in their order; one that died mid-flight
\* leaves a single error.
Gathered(got) ==
    Padded(FoldLeft(LAMBDA all, e : IF e \notin DOMAIN got THEN all
                                    ELSE all \o (IF got[e] = Lost THEN <<Unavailable>> ELSE got[e]),
                    <<>>, [i \in 1 .. NExecutors |-> i - 1]))

\* broadcast: sum, all OK, or any start; the first reply that fits none of it
\* is the answer.
Fold(cmd, replies) ==
    LET fits(r) == \/ r[1] \in {"Integer", "Ok"}
                   \/ cmd = "bgsave" /\ (r[1] = "Status" \/ r = <<"Error", "SaveInProgress">>)
        odd     == {i \in DOMAIN replies : ~fits(replies[i])}
        number(r) == IF r[1] = "Integer" THEN r[2] ELSE 0
    IN  IF odd # {} THEN replies[CHOOSE i \in odd : \A j \in odd : i <= j]
        ELSE CASE cmd = "dbsize"   -> <<"Integer", FoldLeft(LAMBDA n, r : n + number(r), 0, replies)>>
               [] cmd = "flushall" -> <<"Ok">>
               [] cmd = "bgsave"   -> IF <<"Status">> \in ToSet(replies) THEN <<"Status">>
                                      ELSE <<"Error", "SaveInProgress">>

EveryDone ==
    /\ call.op = "every" /\ call.out = {}
    /\ Finish(Fold(call.cmd, Gathered(call.got)))
    /\ UNCHANGED <<keys, alive, saving, through, met, answered, writes>>

-----------------------------------------------------------------------------
(* Walks.                                                                  *)

InBuckets(s, from, to) == {k \in keys \cap Matching : Place[k][1] = s /\ Place[k][2] \in from .. to - 1}

Least(a, b) == IF a < b THEN a ELSE b

\* ScanStep at one shard: up to `count` buckets from `cursor`, and where to go
\* on, zero at the end.
ScanStep(s, cursor, count) ==
    LET to == Least(NBuckets, cursor + count)
    IN  [cursor |-> IF to = NBuckets THEN 0 ELSE to, visited |-> to - cursor,
         keys |-> InBuckets(s, cursor, to)]

Walking == [at |-> "walking", cursor |-> 0, found |-> {}]

KeysCall == "keys" \in Ops /\ Begin([op |-> "keys", gathered |-> 0,
                                     walks |-> [s \in Shards |-> Walking]])

\* One step of one shard's walk; the walks share one count of bytes gathered.
KeysStep(s) ==
    /\ call.op = "keys" /\ call.walks[s].at = "walking"
    /\ LET step  == ScanStep(s, call.walks[s].cursor, WALK_STEP_BUCKETS)
           total == call.gathered + Cardinality(step.keys)
       IN  IF executor_of(s) \notin alive
           THEN /\ call' = [call EXCEPT !.walks[s].at = "shard"]
                /\ UNCHANGED <<keys, alive, through, met, answered, writes>>
           ELSE /\ Serve({}, {s})
                /\ call' = [call EXCEPT !.gathered = total,
                       !.walks[s] = [at |-> IF total > Ceiling THEN "large"
                                            ELSE IF step.cursor = 0 THEN "ok" ELSE "walking",
                                     cursor |-> step.cursor, found |-> @.found \cup step.keys]]
    /\ UNCHANGED <<saving, reply>>

\* The walks that stopped short.
KeysFailed == {s \in Shards : call.walks[s].at # "ok"}

\* join_all: every walk ended; the first that failed, in shard order, answers.
KeysDone ==
    /\ call.op = "keys" /\ \A s \in Shards : call.walks[s].at # "walking"
    /\ LET bad == KeysFailed
       IN  IF bad = {} THEN Finish(<<"Listed", UNION {call.walks[s].found : s \in Shards}>>)
           ELSE LET s == CHOOSE t \in bad : \A u \in bad : t <= u
                IN  Finish(IF call.walks[s].at = "shard" THEN Unavailable ELSE TooLarge)
    /\ UNCHANGED <<keys, alive, saving, through, met, answered, writes>>

pack_cursor(shard, internal) == shard * InternalSpan + (internal % InternalSpan)
unpack_shard(cursor) == cursor \div InternalSpan
unpack_internal(cursor) == cursor % InternalSpan

\* Crossing::begin.
Crossing(cursor) ==
    [shard |-> unpack_shard(cursor), internal |-> unpack_internal(cursor),
     left |-> WALK_STEP_BUCKETS, keys |-> {}, count |-> 0, finished |-> FALSE]

\* A client's whole iteration: SCAN from zero, and again from each cursor it
\* is given, until it is given zero.
ScanCall(cursor) ==
    /\ "scan" \in Ops
    /\ IF unpack_shard(cursor) >= NShards
       THEN /\ call = Idle /\ reply' = InvalidCursor
            /\ UNCHANGED <<keys, alive, saving, call, through, met, answered, writes>>
       ELSE Begin([op |-> "scan", listed |-> {}, crossing |-> Crossing(cursor)])

wants_step(c) == ~c.finished /\ c.count < KeyTarget /\ c.left > 0

\* Past a shard's end the walk goes on at the next shard, or is finished.
NextShard(c) == IF c.shard + 1 < NShards THEN [c EXCEPT !.shard = @ + 1, !.internal = 0]
                ELSE [c EXCEPT !.finished = TRUE]

\* Crossing::feed.
Feed(c, step) ==
    LET taken == [c EXCEPT !.keys = @ \cup step.keys, !.count = @ + Cardinality(step.keys),
                           !.left = IF step.visited > @ THEN 0 ELSE @ - step.visited]
    IN  IF step.cursor # 0 THEN [taken EXCEPT !.internal = step.cursor] ELSE NextShard(taken)

ScanStepOf ==
    /\ call.op = "scan" /\ wants_step(call.crossing)
    /\ LET c == call.crossing
       IN  IF executor_of(c.shard) \notin alive
           THEN Finish(Unavailable) /\ UNCHANGED <<keys, alive, through, met, answered, writes>>
           ELSE /\ Serve({}, {c.shard})
                /\ call' = [call EXCEPT !.crossing = Feed(c, ScanStep(c.shard, c.internal, c.left))]
                /\ UNCHANGED reply
    /\ UNCHANGED saving

\* Crossing::finish: the cursor for the client's next SCAN, or the end.
ScanDone ==
    /\ call.op = "scan" /\ ~wants_step(call.crossing)
    /\ LET c      == call.crossing
           listed == call.listed \cup c.keys
           cursor == IF c.finished THEN 0 ELSE pack_cursor(c.shard, c.internal)
       IN  IF cursor = 0 THEN Finish(<<"Listed", listed>>)
           ELSE call' = [call EXCEPT !.listed = listed, !.crossing = Crossing(cursor)]
                /\ UNCHANGED reply
    /\ UNCHANGED <<keys, alive, saving, through, met, answered, writes>>

-----------------------------------------------------------------------------
(* Everyone else.                                                          *)

Write(k) ==
    /\ call # Idle /\ writes < MaxWrites /\ Owner(k) \in alive
    /\ writes' = writes + 1
    /\ IF k \in keys THEN keys' = keys \ {k} /\ through' = through \ {k} /\ met' = met
       ELSE keys' = keys \cup {k} /\ met' = met \cup {k} /\ through' = through
    /\ UNCHANGED <<alive, saving, call, answered, reply>>

\* An executor ends: what was sent to it and not answered is lost.
Die(e) ==
    /\ e \in alive /\ call # Idle
    /\ alive' = alive \ {e}
    /\ call' = CASE call.op = "mget" -> [call EXCEPT !.out = @ \ {e}]
                 [] call.op = "every" /\ e \in call.out ->
                       [call EXCEPT !.out = @ \ {e},
                           !.got = [x \in DOMAIN @ \cup {e} |-> IF x = e THEN Lost ELSE @[x]]]
                 [] OTHER -> call
    /\ UNCHANGED <<keys, saving, through, met, answered, writes, reply>>

SaveEnds(e) ==
    /\ e \in saving /\ saving' = saving \ {e}
    /\ UNCHANGED <<keys, alive, call, through, met, answered, writes, reply>>

Init ==
    /\ keys \in SUBSET Keys /\ alive = Executors /\ saving = {} /\ call = Idle
    /\ through = keys /\ met = keys /\ answered = {} /\ writes = 0 /\ reply = <<"None">>

Next ==
    \/ \E list \in Lists : Del(list) \/ Mget(list)
    \/ \E cmd \in {"dbsize", "flushall", "bgsave"} : Every(cmd)
    \/ KeysCall \/ (\E cursor \in {0, NShards * InternalSpan} : ScanCall(cursor))
    \/ SumStep \/ SliceDone \/ EveryDone \/ KeysDone \/ ScanStepOf \/ ScanDone
    \/ \E e \in Executors : SliceServed(e) \/ EveryServed(e) \/ Die(e) \/ SaveEnds(e)
    \/ \E s \in Shards : KeysStep(s)
    \/ \E k \in Keys : Write(k)

Spec == Init /\ [][Next]_vars

-----------------------------------------------------------------------------
(* Properties.                                                             *)

\* A walk over every shard lists each matching key that was there all along,
\* and none that was never there, whatever is written between its steps and
\* however often SCAN is called (keys, Crossing).
ListsComplete ==
    reply[1] = "Listed" =>
        through \cap Matching \subseteq reply[2] /\ reply[2] \subseteq met \cap Matching

\* A broadcast that is answered with a count or an OK, and a listing, heard
\* from every shard: a dead executor's are never left out in silence
\* (dispatch_every's padding, broadcast, join_all).
AllShardsHeard ==
    reply[1] \in {"Integer", "Ok", "Listed", "Status"} => answered = Shards

\* A DBSIZE is between the keys there all along and those ever there, and an
\* MGET entry is what its key held at some moment of the call (fold_array).
CountsTrue ==
    /\ reply[1] = "Integer" =>
          Cardinality(through) <= reply[2] /\ reply[2] <= Cardinality(met)
    /\ reply[1] = "Array" => \A i \in DOMAIN reply[2] :
          IF reply[2][i][2] THEN reply[2][i][1] \in met ELSE reply[2][i][1] \notin through

\* After FLUSHALL is answered OK, every key present is one written since the
\* call began (broadcast, Gather::AllOk).
FlushMeansEmpty == reply[1] = "Ok" => through = {}

\* What a command over several shards answers is true of all of them.
AnswersTrue == ListsComplete /\ AllShardsHeard /\ CountsTrue /\ FlushMeansEmpty
=============================================================================
