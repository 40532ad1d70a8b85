-------------------------------- MODULE Shard --------------------------------
(***************************************************************************)
(* One shard answering commands: shard/apply.rs with the checks of         *)
(* Executor::answer around it, the tick's sweep, the memory ceiling, the   *)
(* effects it appends to its log, and replay_into, which rebuilds the      *)
(* shard from them.  The dictionary is the map that module Dict is shown   *)
(* to implement.                                                           *)
(*                                                                         *)
(* The log is kept as what replay makes of it so far (`replica`), with     *)
(* deadlines as the absolute milliseconds the records hold: replay applies *)
(* one record after the other, so this is the log's content up to what     *)
(* replay cannot tell apart.                                               *)
(***************************************************************************)
EXTENDS Integers, FiniteSets, FiniteSetsExt, Functions

CONSTANTS Keys, Values,  \* values are <<kind, number, length>>
          Spans,         \* the spans, in milliseconds, of the SET family
          SignedSpans,   \* the spans of the EXPIRE family
          Deltas, Patterns,
          SetShapes,     \* the option combinations of SET an instance explores
          Second, MaxInstant, I64Min, I64Max,
          Epoch,         \* the wall clock at instant 0
          Mode,          \* the eviction mode: "off", "noeviction", "allkeys-lru"
          Ceiling, EntryOverhead,
          AppendFails,   \* whether the log may refuse a record
          MaxNow         \* bound on the clock

VARIABLES map,           \* dict: key -> [value, at]
          replica,       \* what replay makes of the log
          now, refusing,
          last           \* the last command, its reply and its read outcome

vars == <<map, replica, now, refusing, last>>

None == -1

-----------------------------------------------------------------------------
(* Commands and where they go.                                             *)

Keyed(names) == [name : names, key : Keys]

\* The option combinations of SET that the edge lets through.
Shape == {o \in [span : Spans \cup {None}, cond : {"any", "nx", "xx"},
                 keep_ttl : BOOLEAN, get : BOOLEAN] : o.keep_ttl => o.span = None}

ASSUME ShardAssumption ==
    /\ Second \in Nat \ {0} /\ MaxNow \in Nat /\ MaxInstant \in Nat /\ Epoch \in Nat \ {0}
    /\ MaxNow <= MaxInstant
    /\ I64Min \in Int /\ I64Max \in Int /\ I64Min <= 0 /\ 0 <= I64Max
    /\ Mode \in {"off", "noeviction", "allkeys-lru"}
    /\ AppendFails \in BOOLEAN /\ SetShapes \subseteq Shape

SetCommand == {[name |-> "Set", key |-> k, value |-> v, span |-> o.span, cond |-> o.cond,
                keep_ttl |-> o.keep_ttl, get |-> o.get] :
                  k \in Keys, v \in Values, o \in SetShapes}

\* SETEX and PSETEX are SET with a span and no option; SETNX is SET NX.
SetArgsEx ==
    [name : {"SetEx", "PSetEx"}, key : Keys, value : Values, span : Spans,
     cond : {"any"}, keep_ttl : {FALSE}, get : {FALSE}]

SetArgsNx ==
    [name : {"SetNx"}, key : Keys, value : Values, span : {None},
     cond : {"nx"}, keep_ttl : {FALSE}, get : {FALSE}]

Command ==
    SetCommand \cup SetArgsEx \cup SetArgsNx
    \cup Keyed({"Get", "Exists", "Type", "StrLen", "Ttl", "PTtl", "Del", "Persist"})
    \cup [name : {"IncrBy"}, key : Keys, delta : Deltas]
    \cup [name : {"Expire", "PExpire"}, key : Keys, span : SignedSpans]
    \cup [name : {"FlushDb", "DbSize", "Stats"}]
    \cup [name : {"ScanStep"}, pattern : Patterns]

\* The keys a command routes by: the one it names, or none.
Route(c) == IF "key" \in DOMAIN c THEN {c.key} ELSE {}

\* The commands a full node refuses: those that can add memory.
denied_when_full(c) == c.name \in {"Set", "SetEx", "SetNx", "PSetEx", "IncrBy"}

\* The commands that append to the log when they change something.
writes_the_log(c) == denied_when_full(c)
    \/ c.name \in {"Del", "Expire", "PExpire", "Persist", "FlushDb"}

-----------------------------------------------------------------------------
(* Time.                                                                   *)

\* Deadlines::due_on_read: a key is due from the instant of its deadline on.
Due(at) == at # None /\ at <= now

IsDue(m, k) == k \in DOMAIN m /\ Due(m[k].at)

UnixMillis == Epoch + now

\* Planted: the record carries the span left, not the time it ends
SpanMillis(at) == IF at = None THEN None ELSE IF at > now THEN at - now ELSE 0

\* Now::deadline_millis: an instant as the wall clock the record carries.
DeadlineMillis(at) == IF at = None THEN None ELSE UnixMillis + (IF at > now THEN at - now ELSE 0)

\* Now::replay_deadline, with the instant replay_into gives a past one.
ReplayDeadline(millis) ==
    IF millis = None THEN None
    ELSE IF millis <= UnixMillis THEN now
    ELSE IF now + (millis - UnixMillis) > MaxInstant THEN None
    ELSE now + (millis - UnixMillis)

\* deadline: now.checked_add(span); an overflow leaves the key immortal.
DeadlineOf(span) == IF span = None \/ now + span > MaxInstant THEN None ELSE now + span

Remaining(at) == IF at > now THEN at - now ELSE 0

remaining_seconds(at) == (Remaining(at) + Second \div 2) \div Second

remaining_millis(at) == Remaining(at)

-----------------------------------------------------------------------------
(* The shard as a record [map, replica], and the log's effects on replay.  *)

Put(m, k, value, at) == [x \in DOMAIN m \cup {k} |->
    IF x = k THEN [value |-> value, at |-> at] ELSE m[x]]

Removing(m, ks) == Restrict(m, DOMAIN m \ ks)

\* replay_into, one record: Put, Del, Deadline (of a key that is there), Flush.
Replay(m, effect) ==
    CASE effect.name = "Put"      -> Put(m, effect.key, effect.value, effect.deadline)
      [] effect.name = "Del"      -> Removing(m, {effect.key})
      [] effect.name = "Deadline" -> IF effect.key \in DOMAIN m
                                     THEN Put(m, effect.key, m[effect.key].value, effect.deadline)
                                     ELSE m
      [] effect.name = "Flush"    -> << >>

\* replay_into, its end: deadlines resolved, and the keys found due removed.
ReplayInto(m) ==
    LET resolved == [k \in DOMAIN m |-> [value |-> m[k].value, at |-> ReplayDeadline(m[k].at)]]
    IN  Removing(resolved, {k \in DOMAIN m : Due(resolved[k].at)})

\* An answer with the state it leaves.
Answer(m, r, reply) == [map |-> m, replica |-> r, reply |-> reply]

\* append, then the change; a log that refuses the record leaves all as it was.
Logged(s, ok, effect, after, reply) ==
    IF ok THEN Answer(after, Replay(s.replica, effect), reply)
    ELSE Answer(s.map, s.replica, <<"LogWriteFailed">>)

Unchanging(s, reply) == Answer(s.map, s.replica, reply)

-----------------------------------------------------------------------------
(* The commands of apply, each after the named key was reclaimed if due.   *)

Get(m, k) == IF k \in DOMAIN m THEN <<m[k].value>> ELSE <<>>

Set(s, c, ok) ==
    LET existed == c.key \in DOMAIN s.map
        old     == IF c.get THEN Get(s.map, c.key) ELSE <<>>
        kept    == IF existed THEN s.map[c.key].at ELSE None
        at      == IF c.keep_ttl THEN kept ELSE DeadlineOf(c.span)
        put     == [name |-> "Put", key |-> c.key, value |-> c.value, deadline |-> DeadlineMillis(at)]
    IN  IF c.cond = "nx" /\ existed THEN Unchanging(s, <<"Bulk", old>>)
        ELSE IF c.cond = "xx" /\ ~existed THEN Unchanging(s, <<"Bulk", <<>>>>)
        ELSE Logged(s, ok, put, Put(s.map, c.key, c.value, at),
                    IF c.get THEN <<"Bulk", old>> ELSE <<"Ok">>)

set_nx(s, c, ok) ==
    LET a == Set(s, c, ok)
    IN  [a EXCEPT !.reply = CASE @ = <<"Ok">> -> <<"Integer", 1>>
                              [] @ = <<"Bulk", <<>>>> -> <<"Integer", 0>>
                              [] OTHER -> @]

del(s, k, ok) ==
    IF k \notin DOMAIN s.map THEN Unchanging(s, <<"Removed", FALSE>>)
    ELSE Logged(s, ok, [name |-> "Del", key |-> k], Removing(s.map, {k}), <<"Removed", TRUE>>)

\* to_string of a number: its value, and a sign and a digit for its length.
IntText(n) == <<"int", n, IF n < 0 THEN 2 ELSE 1>>

\* parse_i64 knows the canonical decimal of an i64 and nothing else.
parse_i64(value) == IF value[1] = "int" THEN <<value[2]>> ELSE <<>>

wrapping_add(a, b) ==                               \* Planted: wraps at the top
    <<IF a + b > I64Max THEN a + b - (I64Max - I64Min + 1) ELSE a + b>>

checked_add(a, b) == IF a + b \in I64Min..I64Max THEN <<a + b>> ELSE <<>>

incr_by(s, c, ok) ==
    LET there  == c.key \in DOMAIN s.map
        parsed == IF there THEN parse_i64(s.map[c.key].value) ELSE <<0>>
        at     == IF there THEN s.map[c.key].at ELSE None
        next   == checked_add(parsed[1], c.delta)
    IN  IF parsed = <<>> THEN Unchanging(s, <<"NotAnInteger">>)
        ELSE IF next = <<>> THEN Unchanging(s, <<"WouldOverflow">>)
        ELSE Logged(s, ok,
                    [name |-> "Put", key |-> c.key, value |-> IntText(next[1]),
                     deadline |-> DeadlineMillis(at)],
                    Put(s.map, c.key, IntText(next[1]), at), <<"Integer", next[1]>>)

\* EXPIRE and PEXPIRE: a span that is not positive is a deletion.
set_expiry(s, c, ok) ==
    LET at == DeadlineOf(c.span)
    IN  IF c.key \notin DOMAIN s.map THEN Unchanging(s, <<"Integer", 0>>)
        ELSE IF c.span <= 0
        THEN Logged(s, ok, [name |-> "Del", key |-> c.key],
                    Removing(s.map, {c.key}), <<"Integer", 1>>)
        ELSE Logged(s, ok, [name |-> "Deadline", key |-> c.key, deadline |-> DeadlineMillis(at)],
                    Put(s.map, c.key, s.map[c.key].value, at), <<"Integer", 1>>)

persist(s, k, ok) ==
    IF k \notin DOMAIN s.map \/ s.map[k].at = None
    THEN Unchanging(s, <<"Integer", 0>>)
    ELSE Logged(s, ok, [name |-> "Deadline", key |-> k, deadline |-> None],
                Put(s.map, k, s.map[k].value, None), <<"Integer", 1>>)

flush_db(s, ok) ==
    IF s.map = << >> THEN Unchanging(s, <<"Ok">>)
    ELSE Logged(s, ok, [name |-> "Flush"], << >>, <<"Ok">>)

ttl_reply(s, k, seconds) ==
    <<"Integer", IF k \notin DOMAIN s.map THEN -2
                 ELSE IF s.map[k].at = None THEN -1
                 ELSE IF seconds THEN remaining_seconds(s.map[k].at)
                 ELSE remaining_millis(s.map[k].at)>>

type_name(s, k) == IF k \in DOMAIN s.map THEN "string" ELSE "none"

value_len(s, k) == IF k \in DOMAIN s.map THEN s.map[k].value[3] ELSE 0

\* scan_step over the buckets it visits: what is due is not listed.
scan_step(s, visited, pattern) == {k \in DOMAIN s.map \cap visited \cap pattern : ~IsDue(s.map, k)}

-----------------------------------------------------------------------------
(* apply: the named key is reclaimed if it is due, then the command runs.  *)

ReclaimLogging(s, k, ok) ==                         \* Planted: logs while refusing
    IF ~IsDue(s.map, k) THEN Unchanging(s, <<>>)
    ELSE Logged(s, ok, [name |-> "Del", key |-> k], Removing(s.map, {k}), <<>>)

\* While the log is refused the key goes without a record; else with one.
Reclaim(s, k, ok) ==
    IF ~IsDue(s.map, k) THEN Unchanging(s, <<>>)
    ELSE IF refusing THEN Answer(Removing(s.map, {k}), s.replica, <<>>)
    ELSE Logged(s, ok, [name |-> "Del", key |-> k], Removing(s.map, {k}), <<>>)

Execute(s, c, ok, visited) ==
    CASE c.name = "Get"     -> Unchanging(s, <<"Bulk", Get(s.map, c.key)>>)
      [] c.name \in {"Set", "SetEx", "PSetEx"} -> Set(s, c, ok)
      [] c.name = "SetNx"   -> set_nx(s, c, ok)
      [] c.name = "Del"     -> del(s, c.key, ok)
      [] c.name = "IncrBy"  -> incr_by(s, c, ok)
      [] c.name \in {"Expire", "PExpire"} -> set_expiry(s, c, ok)
      [] c.name = "Ttl"     -> Unchanging(s, ttl_reply(s, c.key, TRUE))
      [] c.name = "PTtl"    -> Unchanging(s, ttl_reply(s, c.key, FALSE))
      [] c.name = "Persist" -> persist(s, c.key, ok)
      [] c.name = "Exists"  -> Unchanging(s, <<"Integer", Cardinality(DOMAIN s.map \cap {c.key})>>)
      [] c.name = "Type"    -> Unchanging(s, <<"Status", type_name(s, c.key)>>)
      [] c.name = "StrLen"  -> Unchanging(s, <<"Integer", value_len(s, c.key)>>)
      [] c.name = "FlushDb" -> flush_db(s, ok)
      [] c.name = "DbSize"  -> Unchanging(s, <<"Integer", Cardinality(DOMAIN s.map)>>)
      [] c.name = "ScanStep" -> Unchanging(s, <<"Scan", scan_step(s, visited, c.pattern)>>)

Apply(s, c, okDel, ok, visited) ==
    LET reclaimed == IF Route(c) = {} THEN Unchanging(s, <<>>) ELSE Reclaim(s, c.key, okDel)
    IN  IF reclaimed.reply # <<>> THEN reclaimed ELSE Execute(reclaimed, c, ok, visited)

-----------------------------------------------------------------------------
(* Executor::answer: the checks before apply, eviction after it.           *)

UsedBytes(m) == MapThenSumSet(LAMBDA k : EntryOverhead + m[k].value[3], DOMAIN m)

Exceeded(m) == UsedBytes(m) > Ceiling

\* The victims evict_until_fits may take, in the order the samples give: it
\* goes on while the ceiling is passed, and stops when nothing is left to
\* take or the log refuses the record.
EvictUntilFits(m, spared) ==
    {gone \in SUBSET (DOMAIN m \ spared) :
        /\ gone # {} => \E final \in gone : Exceeded(Removing(m, gone \ {final}))
        /\ ~Exceeded(Removing(m, gone)) \/ gone = DOMAIN m \ spared \/ AppendFails}

\* STRLEN looks again, for an empty value answers as a missing key does.
StrLenFound(m, c, reply) == reply[2] > 0 \/ c.key \in DOMAIN m

\* Whether a read found its key, told from its reply.
read_outcome(m, c, reply) ==
    LET found(hit) == IF hit THEN "hit" ELSE "miss"
    IN  CASE c.name = "Get" /\ reply[1] = "Bulk"       -> found(reply[2] # <<>>)
          [] c.name = "Exists" /\ reply[1] = "Integer" -> found(reply[2] = 1)
          [] c.name \in {"Ttl", "PTtl"} /\ reply[1] = "Integer" -> found(reply[2] # -2)
          [] c.name = "Type" /\ reply[1] = "Status"    -> found(reply[2] # "none")
          [] c.name = "StrLen" /\ reply[1] = "Integer" -> found(StrLenFound(m, c, reply))
          [] OTHER -> "none"

Answers(c, reply, m) == last' = [cmd |-> c, reply |-> reply, outcome |-> read_outcome(m, c, reply)]

Oks == IF AppendFails THEN BOOLEAN ELSE {TRUE}

\* Stats reads the counts before any other check.
AnswerStats(c) ==
    /\ c.name = "Stats"
    /\ Answers(c, <<"Stats", Cardinality(DOMAIN map), Cardinality({k \in DOMAIN map : map[k].at # None})>>, map)
    /\ UNCHANGED <<map, replica>>

AnswerRefused(c) ==
    /\ c.name # "Stats" /\ refusing /\ writes_the_log(c)
    /\ Answers(c, <<"LogWriteFailed">>, map)
    /\ UNCHANGED <<map, replica>>

Full(c) == Mode = "noeviction" /\ denied_when_full(c) /\ Exceeded(map)

AnswerFull(c) ==
    /\ c.name # "Stats" /\ ~(refusing /\ writes_the_log(c)) /\ Full(c)
    /\ Answers(c, <<"OutOfMemory">>, map)
    /\ UNCHANGED <<map, replica>>

\* What the command may come to: the log takes each record or refuses it.
Outcomes(c) ==
    {Apply([map |-> map, replica |-> replica], c, okDel, ok, visited) :
        okDel \in Oks, ok \in Oks,
        visited \in IF c.name = "ScanStep" THEN SUBSET DOMAIN map ELSE {{}}}

Evicted(m, c) == IF Mode = "allkeys-lru" /\ ~refusing THEN EvictUntilFits(m, Route(c)) ELSE {{}}

AnswerApplied(c) ==
    /\ c.name # "Stats" /\ ~(refusing /\ writes_the_log(c)) /\ ~Full(c)
    /\ \E a \in Outcomes(c) : \E gone \in Evicted(a.map, c) :
          /\ map' = Removing(a.map, gone)
          /\ replica' = Removing(a.replica, gone)
          /\ Answers(c, a.reply, map')

AnswerCommand == /\ \E c \in Command : \/ AnswerStats(c) \/ AnswerRefused(c)
                                        \/ AnswerFull(c)  \/ AnswerApplied(c)
                 /\ UNCHANGED <<now, refusing>>

\* sweep_expired, for the buckets of one tick; not while the log is refused.
SweepExpired == /\ ~refusing
                /\ \E dead \in SUBSET {k \in DOMAIN map : IsDue(map, k)} :
                      /\ dead # {}
                      /\ map' = Removing(map, dead)
                      /\ replica' = Removing(replica, dead)
                /\ UNCHANGED <<now, refusing, last>>

Elapse == now < MaxNow /\ now' = now + 1 /\ UNCHANGED <<map, replica, refusing, last>>

\* The log writer fails, or is back in order: the executor's mode follows.
Refusal == refusing' = ~refusing /\ UNCHANGED <<map, replica, now, last>>

Init == /\ map = << >> /\ replica = << >> /\ now = 0 /\ refusing = FALSE
        /\ last = [cmd |-> [name |-> "none"], reply |-> <<"None">>, outcome |-> "none"]

Next == AnswerCommand \/ SweepExpired \/ Elapse \/ Refusal

Spec == Init /\ [][Next]_vars

-----------------------------------------------------------------------------
(* Properties.                                                             *)

\* The keys a client can still see.
Visible == Removing(map, {k \in DOMAIN map : IsDue(map, k)})

TypeOK ==
    /\ map \in UNION {[ks -> [value : Values \cup {IntText(n) : n \in I64Min..I64Max},
                              at : (0..MaxInstant) \cup {None}]] : ks \in SUBSET Keys}
    /\ now \in 0..MaxNow /\ refusing \in BOOLEAN

\* A restart at any moment gives back the keyspace clients see: replaying the
\* records (executor.rs replay_into) yields every key that is not due, with its
\* value and its deadline, and none that is, though keys lapse in silence while
\* the log is refused and the records hold wall-clock times.
ReplicaAgrees == ReplayInto(replica) = Visible

\* The shard implements module Store: with keys past their deadline hidden,
\* every answer of apply.rs and Executor::answer is the one an instantly
\* expiring map gives, and the only keys lost without being named are evicted.
Client == INSTANCE Store WITH map <- Visible, Evicts <- Mode = "allkeys-lru"
IsStore == Client!Spec

\* A read is counted a hit exactly when the key it names is there for a client
\* (executor.rs count_call, read_outcome): what the reply alone cannot tell
\* apart, an empty value and a missing key, is told apart.
HitsTrue == last'.outcome # "none" /\ last' # last =>
                (last'.outcome = "hit" <=> last'.cmd.key \in DOMAIN Visible)

\* Past the ceiling a node that does not evict never grows: whatever
\* denied_when_full lets through frees memory or leaves it (executor.rs answer).
FullNeverGrows == Mode = "noeviction" /\ Exceeded(map) => UsedBytes(map') <= UsedBytes(map)

\* A node that evicts is back under its ceiling when it has answered, unless
\* the key the command names is all the shard still holds, or the log was
\* refused (executor.rs evict_until_fits).
RoomMade == Mode = "allkeys-lru" /\ ~refusing /\ ~AppendFails /\ last' # last =>
                \/ ~Exceeded(map') \/ last'.cmd.name = "Stats"
                \/ DOMAIN map' \subseteq Route(last'.cmd)

\* While the log is refused nothing more is appended to it (apply.rs refusing):
\* neither a write, nor the removal of a key found due by a read.
RefusalKeepsLog == refusing => replica' = replica
=============================================================================
