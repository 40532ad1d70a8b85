------------------------------- MODULE MCShard -------------------------------
(* A shard on its own under its three memory policies, and the gauge that    *)
(* several executors share. A run picks one of them first; values are        *)
(* <<kind, number, length>>.                                                 *)
EXTENDS Shard

VARIABLES part, held, gauge, doing

gaugeVars == <<held, gauge, doing>>

Empty == <<"text", 0, 0>>
Word  == <<"text", 1, 2>>
One   == <<"int", 1, 1>>

NumberValues == {Word, One}
EveryShape == Shape
ShapeOf(span, cond, keep, get) == [span |-> span, cond |-> cond, keep_ttl |-> keep, get |-> get]
PlainShapes == {ShapeOf(None, "any", FALSE, FALSE)}
ReadingShapes == {ShapeOf(1, "any", FALSE, FALSE), ShapeOf(None, "xx", TRUE, TRUE)}

Lowest == -2
AroundZero == {-1, 2}
Steps == {-1, 1}
EveryPattern == {Keys}

\* Two keys on a node that refuses writes past its ceiling.
Refusing == INSTANCE Shard WITH
    Keys <- {"k1", "k2"}, Values <- {Empty, Word}, Spans <- {}, SignedSpans <- {1},
    Deltas <- {1}, Patterns <- {}, SetShapes <- PlainShapes,
    Mode <- "noeviction", Ceiling <- 3, AppendFails <- FALSE, MaxNow <- 1

\* Two keys on a node that evicts.
Evicting == INSTANCE Shard WITH
    Keys <- {"k1", "k2"}, Values <- {Empty, Word}, Spans <- {1}, SignedSpans <- {},
    Deltas <- {1}, Patterns <- {}, SetShapes <- ReadingShapes,
    Mode <- "allkeys-lru", Ceiling <- 4, AppendFails <- FALSE, MaxNow <- 1

\* The gauge under three executors that refuse, and under two that evict.
RefusingGauge == INSTANCE MemoryGauge WITH
    Executors <- {1, 2, 3}, Keys <- 1..6, Owner <- [k \in 1..6 |-> (k + 1) \div 2],
    Sizes <- {1}, Ceiling <- 1, Mode <- "noeviction", WordSize <- 64, NoKey <- 0

EvictingGauge == INSTANCE MemoryGauge WITH
    Executors <- {1, 2}, Keys <- 1..5, Owner <- [k \in 1..5 |-> (k + 2) \div 3],
    Sizes <- {1, 2}, Ceiling <- 4, Mode <- "allkeys-lru", WordSize <- 64, NoKey <- 0

ShardInit ==
    \/ part \in {"time", "refuse", "evict"} /\ Init
       /\ held = << >> /\ gauge = 0 /\ doing = << >>
    \/ part = "refusing gauge" /\ RefusingGauge!Init /\ Init
    \/ part = "evicting gauge" /\ EvictingGauge!Init /\ Init

ShardNext ==
    \/ part = "time" /\ Next /\ UNCHANGED <<part, gaugeVars>>
    \/ part = "refuse" /\ Refusing!Next /\ UNCHANGED <<part, gaugeVars>>
    \/ part = "evict" /\ Evicting!Next /\ UNCHANGED <<part, gaugeVars>>
    \/ part = "refusing gauge" /\ RefusingGauge!Next /\ UNCHANGED <<part, vars>>
    \/ part = "evicting gauge" /\ EvictingGauge!Next /\ UNCHANGED <<part, vars>>

ShardSpec == ShardInit /\ [][ShardNext]_<<part, vars, gaugeVars>>

-----------------------------------------------------------------------------
(* The properties of Shard and MemoryGauge, each where it is driven;        *)
(* ReplicaAgrees is Shard's own.                                            *)

\* The shard is the instantly expiring map of Store, under no ceiling and
\* under one that evicts (Shard!IsStore).
ShardIsStore ==
    [][/\ part = "time" => Client!Next
       /\ part = "evict" => Evicting!Client!Next]_<<part, Client!storeVars>>

\* What no command may do: append while the log is refused, grow a node past its
\* ceiling that does not evict, leave one that does above it unless the named
\* key is alone there, or count a hit for a key no client finds
\* (Shard!RefusalKeepsLog, FullNeverGrows, RoomMade, HitsTrue).
CommandsKeep ==
    [][/\ RefusalKeepsLog /\ HitsTrue
       /\ part = "refuse" => Refusing!FullNeverGrows
       /\ part = "evict" => Evicting!RoomMade]_<<part, vars>>

\* The gauge is the sum of the dictionaries but for the changes in hand, the
\* ceiling is overshot by one write an executor at most, and at rest a node that
\* evicts is under it, or an executor has one key at most (MemoryGauge!GaugeTrue,
\* OvershootBounded, RoomInTheEnd).
MemoryKept ==
    /\ part = "refusing gauge" => RefusingGauge!GaugeTrue /\ RefusingGauge!OvershootBounded
    /\ part = "evicting gauge" => EvictingGauge!GaugeTrue /\ EvictingGauge!RoomInTheEnd
=============================================================================
