-------------------------------- MODULE MCSim --------------------------------
(* The simulator's judges, each over the scenarios that try it.  A run picks *)
(* a judge and a scenario first, and then only that judge's variables move.  *)
EXTENDS Oracle

CONSTANTS Judges,       \* the judges a run is about
          s1, s2

VARIABLES judge,        \* the one picked
          lineage, appends, outside, unheld,
          keys, place, wcrashes, wphase, connected, stable, refused, written, attempted, gone,
          maybe, wsent, seen, cursor, last_shard, steps, holds, listed, mismatches

(* A seed that draws no weather at all. *)
Calm == [slots |-> {s1}, hold |-> FALSE, lies |-> FALSE, fails |-> FALSE, evicts |-> FALSE,
         clock |-> 3, crashes |-> 0, starts |-> 0, others |-> 0, burst |-> 1, ops |-> 2]

Plain(weather, kinds) == [f \in DOMAIN weather \cup {"kinds"} |->
                             IF f = "kinds" THEN kinds ELSE weather[f]]

Surface == {"Set", "SetGet", "Get", "Del", "Exists", "MGet", "Type", "StrLen"}

OracleSetups ==
    { \* torn tails: pipelined bursts and two crashes
      Plain([Calm EXCEPT !.clock = 2, !.crashes = 2, !.burst = 2, !.ops = 3], {"Set", "Get"}),
      \* late replies and another client's records in the same rounds
      Plain([Calm EXCEPT !.clock = 2, !.crashes = 1, !.others = 1, !.ops = 3], {"Set"}),
      \* losses reported, by starts that may fail first
      Plain([Calm EXCEPT !.lies = TRUE, !.crashes = 2], {"Set", "Get"}),
      Plain([Calm EXCEPT !.lies = TRUE, !.crashes = 1, !.clock = 2, !.starts = 2], {"Set"}),
      \* replies held for a disk that fails
      Plain([Calm EXCEPT !.hold = TRUE, !.lies = TRUE, !.fails = TRUE, !.clock = 2,
                         !.crashes = 1], {"Set"}),
      \* every plain command
      Plain([Calm EXCEPT !.slots = {s1, s2}, !.clock = 1, !.ops = 2],
            Surface \cup {"SetNx", "SetIf"}),
      Plain([Calm EXCEPT !.slots = {s1, s2}, !.evicts = TRUE, !.clock = 0, !.ops = 2], Surface),
      \* counters
      Plain([Calm EXCEPT !.slots = {}, !.lies = TRUE, !.fails = TRUE, !.clock = 2,
                         !.crashes = 1], {"IncrBy"}) }

Spanned(weather, spans) == [f \in DOMAIN weather \cup {"spans"} |->
                               IF f = "spans" THEN spans ELSE weather[f]]

VolatileSetups ==
    { Spanned([Calm EXCEPT !.burst = 2, !.ops = 3, !.clock = 2], {1, 2}),
      Spanned([Calm EXCEPT !.evicts = TRUE], {2}),
      Spanned([Calm EXCEPT !.lies = TRUE, !.crashes = 2], {2}),
      Spanned([Calm EXCEPT !.hold = TRUE, !.fails = TRUE, !.crashes = 1], {2}) }

LineageSetups ==
    { [Calm EXCEPT !.lies = TRUE, !.clock = 2, !.crashes = 2, !.starts = 1, !.ops = 3] }

WalkSetups ==
    { \* a whole cycle, a key that stays, a crash on the way
      [shards |-> 2, buckets |-> 2, stable |-> 1, bound |-> 5, prefix |-> 2, cycle |-> TRUE,
       evicts |-> FALSE, refuses |-> FALSE, crashes |-> 1, keys |-> 5],
      \* a few steps only, with writes refused
      [shards |-> 2, buckets |-> 2, stable |-> 1, bound |-> 3, prefix |-> 2, cycle |-> FALSE,
       evicts |-> FALSE, refuses |-> TRUE, crashes |-> 1, keys |-> 3],
      \* under a ceiling
      [shards |-> 2, buckets |-> 1, stable |-> 2, bound |-> 3, prefix |-> 2, cycle |-> TRUE,
       evicts |-> TRUE, refuses |-> FALSE, crashes |-> 0, keys |-> 5] }

V == INSTANCE Volatile WITH Setups <- VolatileSetups, StaleSlack <- 0, LiveSlack <- 0
L == INSTANCE Lineage WITH Setups <- LineageSetups
W == INSTANCE Walk WITH Setups <- WalkSetups, crashes <- wcrashes, phase <- wphase, sent <- wsent

clientVars == <<model, issued>>
lineageVars == <<lineage, appends, outside, unheld>>
walkVars == <<keys, place, wcrashes, wphase, connected, stable, refused, written, attempted, gone,
              maybe, wsent, seen, cursor, last_shard, steps, holds, listed, mismatches>>

(* A judge that was not picked knows nothing. *)
NoClient == model = None /\ issued = None
NoLineage == lineage = None /\ appends = None /\ outside = None /\ unheld = None
NoNode ==
    /\ clock = None /\ log = None /\ up = None /\ refusing = None /\ round = None
    /\ cycle = None /\ durable = None /\ crashes = None /\ truncated = None /\ reported = None
    /\ unreported = None /\ failures = None /\ conn = None /\ phase = None /\ burst = None
    /\ answers = None /\ sent = None
NoWalk ==
    /\ keys = None /\ place = None /\ wcrashes = None /\ wphase = None /\ connected = None
    /\ stable = None /\ refused = None /\ written = None /\ attempted = None /\ gone = None
    /\ maybe = None /\ wsent = None /\ seen = None /\ cursor = None /\ last_shard = None
    /\ steps = None /\ holds = None /\ listed = None /\ mismatches = None

SimInit ==
    /\ judge \in Judges
    /\ \/ judge = "oracle" /\ Init /\ NoLineage /\ NoWalk
       \/ judge = "volatile" /\ V!Init /\ NoLineage /\ NoWalk
       \/ judge = "lineage" /\ L!Init /\ NoClient /\ NoWalk
       \/ judge = "walk" /\ W!Init /\ NoNode /\ NoClient /\ NoLineage

SimNext ==
    /\ UNCHANGED judge
    /\ \/ judge = "oracle" /\ Next /\ UNCHANGED <<lineageVars, walkVars>>
       \/ judge = "volatile" /\ V!Next /\ UNCHANGED <<lineageVars, walkVars>>
       \/ judge = "lineage" /\ L!Next /\ UNCHANGED <<clientVars, walkVars>>
       \/ judge = "walk" /\ W!Next /\ UNCHANGED <<nodeVars, clientVars, lineageVars>>

SimSpec == SimInit /\ [][SimNext]_<<judge, vars, lineageVars, walkVars>>

-----------------------------------------------------------------------------
(* The judges' properties, each while its judge is the one picked.         *)


\* No node that keeps its promises is charged with serving a dead key or losing
\* a live one, with recovering a state its shard never held, or with a walk
\* that was right; and what each judge holds to be so of the node is so
\* (Volatile!NeverMisjudged, ClaimsTrue, Lineage!HeldIsFound, InStep,
\* Walk!NeverMismatched, FamilyKnown).
JudgesJust ==
    /\ judge = "volatile" => V!NeverMisjudged /\ V!ClaimsTrue
    /\ judge = "lineage" => L!HeldIsFound /\ L!InStep
    /\ judge = "walk" => W!NeverMismatched /\ W!FamilyKnown
=============================================================================
