----------------------------- MODULE MCKeyspace -----------------------------
(* A shard's table, and an image scanned over it, on tables that grow from *)
(* one bucket to four.  A run picks one of four ways to drive them first.  *)
EXTENDS FuzzyImage

VARIABLE part      \* books or walk, of the table; growth or deadlines, of the image

\* Keys 1 and 2 share a bucket until there are four, 3 parts from them at two.
SpreadHash == (1 :> 1) @@ (2 :> 3) @@ (3 :> 2)

Books == INSTANCE Dict WITH Keys <- {1, 3}, Deadlines <- {1}, Walks <- FALSE, MaxNow <- 1

Walking == INSTANCE Dict WITH Values <- {1}, Walks <- TRUE

Growth == INSTANCE FuzzyImage WITH Keys <- {1, 2}

Dated1 == INSTANCE FuzzyImage WITH Keys <- {1}, Deadlines <- {1}, MaxNow <- 1

cycleVars == <<cycle, records, durable, opened>>

KeyspaceInit == part \in {"books", "walk", "growth", "deadlines"} /\ ImageInit

KeyspaceNext ==
    \/ part = "books" /\ Books!Next /\ UNCHANGED <<part, cycleVars>>
    \/ part = "walk" /\ Walking!Next /\ UNCHANGED <<part, cycleVars>>
    \/ part = "growth" /\ Growth!ImageNext /\ UNCHANGED part
    \/ part = "deadlines" /\ Dated1!ImageNext /\ UNCHANGED part

KeyspaceSpec == KeyspaceInit /\ [][KeyspaceNext]_<<part, imageVars>>

-----------------------------------------------------------------------------
(* The properties of Dict and FuzzyImage, each where it is driven.         *)

\* The table is sound: its books agree with what counting would find, no
\* deadline is held with the flag down, every slot is in the one bucket its
\* hash names, and eviction finds a key to take unless the spared key is the
\* only one (Dict!Booked, DeadlinesFlagged, Placed, SampleFinds).
TableSound ==
    /\ part = "books" => Books!Booked /\ Books!DeadlinesFlagged /\ Books!SampleFinds
    /\ part = "walk" => Walking!Placed

\* A key there for the whole of a walk is visited by it (Dict!WalkComplete).
WalkVisitsAll == part = "walk" => Walking!WalkComplete

\* No cursor goes round for ever or past what it is for: each step of a walk
\* moves its reversed cursor up or ends it, and a sweep cycle leaves no key
\* that was due when it began (Dict!WalkAdvances, SweepComplete).
CursorsArrive ==
    [][/\ part = "walk" => Walking!WalkAdvances
       /\ part = "books" => Books!SweepComplete]_<<part, imageVars>>

\* The table, its buckets hidden, is the map of Keyspace (Dict!IsKeyspace).
TableIsKeyspace ==
    /\ Books!Map!Init
    /\ [][part = "books" => Books!Map!Next]_<<part, Books!Map!vars>>

\* A finished image and what a crash leaves of the log give back the shard
\* (FuzzyImage!ImagePlusLog).
ImageAndLog == part \in {"growth", "deadlines"} => ImagePlusLog
=============================================================================
