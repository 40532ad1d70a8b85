----------------------------- MODULE MCRecovery ------------------------------
(* What a start makes of the files: the log of several generations after     *)
(* crashes, losses of power and damage, and one segment read past its        *)
(* damage. A run picks one of them first.                                    *)
EXTENDS Integers, Sequences

CONSTANT None

VARIABLES part,
          segs, images, counter, ghosts, node, lineage, earlier, open, durable, harm,
          seg, harmed, cut, zeros, chunk, remaining, buf, at,
          resynchronising, hole_at_tail, hole_at_end, spent, damage, items, done

generations == <<segs, images, counter, ghosts, node, lineage, earlier, open, durable, harm>>
reader == <<seg, harmed, cut, zeros, chunk, remaining, buf, at,
            resynchronising, hole_at_tail, hole_at_end, spent, damage, items, done>>

\* Three generations of one shard, torn and damaged once.
Damage == INSTANCE Generations WITH
    damage <- harm, Shards <- {"a"}, MaxGen <- 3, MaxWrites <- 2, MaxDamage <- 1, Images <- FALSE

\* Two generations of one shard that take images, torn anywhere; and fewer
\* writes, the images damaged too.
Image == INSTANCE Generations WITH
    damage <- harm, Shards <- {"a"}, MaxGen <- 2, MaxWrites <- 2, MaxDamage <- 0, Images <- TRUE

Spoiled == INSTANCE Generations WITH
    damage <- harm, Shards <- {"a"}, MaxGen <- 2, MaxWrites <- 1, MaxDamage <- 1, Images <- TRUE

\* Two generations of two shards, torn and damaged once.
Pair == INSTANCE Generations WITH
    damage <- harm, Shards <- {"a", "b"}, MaxGen <- 2, MaxWrites <- 2, MaxDamage <- 1,
    Images <- FALSE

\* Bodies that hold a record's first byte, an end marker, or neither.
Holes == INSTANCE SegmentReader WITH
    Bodies <- {<<2>>, <<3, 7>>, <<2, 0, 7>>}, MaxRecords <- 2, Harms <- {0, 2, 7}, MaxRun <- 3,
    MaxZeros <- 1, Chunks <- {1, 3, 20}, BODY_FIXED_LEN <- 1, MAX_BODY_LEN <- 3,
    RESYNC_CAP <- 100

\* Bodies that read as the head of a record, and a cap that one of them spends.
Cap == INSTANCE SegmentReader WITH
    Bodies <- {<<2>>, <<7, 2, 9>>}, MaxRecords <- 2, Harms <- {0, 2, 7, 9}, MaxRun <- 2,
    MaxZeros <- 0, Chunks <- {1, 3, 20}, BODY_FIXED_LEN <- 1, MAX_BODY_LEN <- 3,
    RESYNC_CAP <- 1

NoGenerations ==
    /\ segs = << >> /\ images = {} /\ counter = 0 /\ ghosts = {} /\ node = << >>
    /\ lineage = << >> /\ earlier = {} /\ open = {} /\ durable = << >> /\ harm = 0

NoReader ==
    /\ seg = <<>> /\ harmed = FALSE /\ cut = 0 /\ zeros = 0 /\ chunk = 0 /\ remaining = 0
    /\ buf = <<>> /\ at = 0 /\ resynchronising = FALSE /\ hole_at_tail = None
    /\ hole_at_end = None /\ spent = 0 /\ damage = << >> /\ items = <<>> /\ done = TRUE

RecoveryInit ==
    \/ /\ NoReader
       /\ \/ part = "damage" /\ Damage!Init
          \/ part = "image" /\ Image!Init
          \/ part = "spoiled" /\ Spoiled!Init
          \/ part = "pair" /\ Pair!Init
    \/ /\ NoGenerations
       /\ \/ part = "holes" /\ Holes!Init
          \/ part = "cap" /\ Cap!Init

RecoveryNext ==
    \/ part = "damage" /\ Damage!Next /\ UNCHANGED <<part, reader>>
    \/ part = "image" /\ Image!Next /\ UNCHANGED <<part, reader>>
    \/ part = "spoiled" /\ Spoiled!Next /\ UNCHANGED <<part, reader>>
    \/ part = "pair" /\ Pair!Next /\ UNCHANGED <<part, reader>>
    \/ part = "holes" /\ Holes!Next /\ UNCHANGED <<part, generations>>
    \/ part = "cap" /\ Cap!Next /\ UNCHANGED <<part, generations>>

RecoverySpec == RecoveryInit /\ [][RecoveryNext]_<<part, generations, reader>>

-----------------------------------------------------------------------------
(* The properties of Generations and SegmentReader, each where it is driven. *)

\* What a start rebuilds is a state some node served, and while a node is up an
\* undamaged read of its directory gives back its own (Generations!StateWasServed,
\* DiskHoldsState).
StateWasServed == /\ part = "damage" => Damage!StateWasServed
                  /\ part = "image" => Image!StateWasServed
                  /\ part = "spoiled" => Spoiled!StateWasServed
                  /\ part = "pair" => Pair!DiskHoldsState

\* A write a client was told is durable is there at every later start, or its
\* shard is reported lossy (Generations!DurableOrReported).
DurableOrReported == /\ part = "damage" => Damage!DurableOrReported
                     /\ part = "image" => Image!DurableOrReported
                     /\ part = "spoiled" => Spoiled!DurableOrReported
                     /\ part = "pair" => Pair!DurableOrReported

\* Every intact record of a segment is read, in its place, and nothing else is;
\* every byte is a record's, or damage, or the tail's, once; a segment a crash
\* cut short has no damage; and one hole costs no more than the cap and a body
\* (SegmentReader!FindsTheIntact, Accounted, TearIsNoDamage, CapHeld).
ReadsTheIntact ==
    /\ part = "holes" => Holes!FindsTheIntact /\ Holes!Accounted /\ Holes!TearIsNoDamage
    /\ part = "cap" => Cap!FindsTheIntact /\ Cap!CapHeld
=============================================================================
