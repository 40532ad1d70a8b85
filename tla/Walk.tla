-------------------------------- MODULE Walk ---------------------------------
(***************************************************************************)
(* A simulated client walks a family of keys only it writes, with SCAN,    *)
(* while it adds and deletes others of the family, and then lists it with  *)
(* KEYS; once every client is done a verifier walks the family again.  The *)
(* node promises what SCAN promises - each position is read once, in order *)
(* - and may refuse a write it applied, evict a key, or crash.             *)
(***************************************************************************)
EXTENDS Integers, FiniteSets, Sequences

CONSTANT Setups          \* what a seed may draw: the scenarios, with the bounds on each

VARIABLES setup,             \* what the seed drew
          keys, place,       \* the node: the family's keys, and where each lies
          crashes,
          phase,             \* prepare, walk, list, listed, verify or done
          connected,
          stable, refused,   \* names prepared, and those whose SET was refused
          written, attempted, gone, maybe, sent,
          seen, cursor, last_shard, steps, holds,
          listed,            \* the KEYS reply on its way
          mismatches         \* Tally.walk_mismatches

node == <<setup, keys, place, crashes>>
family == <<stable, refused>>
churn == <<written, attempted, gone, maybe, sent>>
scan == <<seen, cursor, last_shard, steps, holds>>
vars == <<node, phase, connected, family, churn, scan, listed, mismatches>>

Shards == setup.shards
Buckets == setup.buckets           \* the walked positions: Buckets in each shard
StableKeys == setup.stable         \* WALK_KEYS
ChurnDeletes == 1                  \* WALK_CHURN_DELETES
StepBound == setup.bound           \* WALK_CYCLE_STEP_BOUND
PrefixSteps == setup.prefix        \* WALK_PREFIX_STEPS
Cycle == setup.cycle               \* concurrent_scan_cycle
Evictable == setup.evicts
Refuses == setup.refuses
Crashes == setup.crashes           \* bound on crashes
MaxKeys == setup.keys              \* bound on names of the family

Names == 1..MaxKeys
Places == 1..(Shards * Buckets)

-----------------------------------------------------------------------------
(* The node.                                                               *)

ShardOf(position) == (position - 1) \div Buckets

\* A SCAN step from a cursor reads some positions; 0 is both start and end.
ScanStep(present, from, visited) ==
    LET first == IF from = 0 THEN 1 ELSE from
        next == first + visited
    IN  [next |-> IF next > Shards * Buckets THEN 0 ELSE next,
         keys |-> {k \in present : place[k] \in first..(next - 1)}]

\* A write answers OK, or is refused and may have been applied all the same.
Outcomes == IF Refuses THEN {"ok", "applied", "refused"} ELSE {"ok"}

Crash == /\ crashes < Crashes /\ crashes' = crashes + 1
         /\ phase \notin {"verify", "done"}
         /\ keys' \in SUBSET (stable \cup refused \cup sent)
         /\ connected' = FALSE
         /\ UNCHANGED <<setup, place, phase, family, churn, scan, listed, mismatches>>

Evict(k) == /\ Evictable /\ k \in keys
            /\ keys' = keys \ {k}
            /\ UNCHANGED <<setup, place, crashes, phase, connected, family, churn, scan, listed, mismatches>>

-----------------------------------------------------------------------------
(* Model::walk.                                                            *)

\* A list of keys agrees with what is expected, but for keys in doubt; under a
\* ceiling any key may be missing.
agrees_but_for(found, expected, unsure) ==
    IF Evictable THEN found \subseteq expected \cup unsure
    ELSE found \ unsure = expected \ unsure

\* The stable names are set, one by one.
Prepare ==
    /\ phase = "prepare" /\ connected
    /\ \E outcome \in [1..StableKeys -> Outcomes] :
          /\ stable' = {k \in DOMAIN outcome : outcome[k] = "ok"}
          /\ refused' = DOMAIN outcome \ stable'
          /\ keys' = keys \cup {k \in DOMAIN outcome : outcome[k] # "refused"}
    /\ phase' = "walk"
    /\ UNCHANGED <<setup, place, crashes, connected, churn, scan, listed, mismatches>>

\* A burst failed: the walk is given up, and nothing is judged.
Abandon == /\ ~connected /\ phase \in {"prepare", "walk", "list", "listed"}
           /\ phase' = "done"
           /\ UNCHANGED <<node, connected, family, churn, scan, listed, mismatches>>

Min2(a, b) == IF a < b THEN a ELSE b

\* What the reply to a SCAN step says of the walk so far.
StepHolds(reply, known) ==
    /\ reply.keys \subseteq known
    /\ reply.next # 0 => ShardOf(reply.next) \in last_shard..(Shards - 1)

\* A target whose DEL was refused may still be there.
DelDoubtful(target, outcome) == {k \in target : outcome[k] # "ok"}

\* A fresh name whose SET was refused may be there.
SetDoubtful(fresh, outcome) == {k \in fresh : outcome[k] # "ok"}

\* One burst: a name is set, earlier ones deleted, and the walk takes a step.
walk_the_family ==
    /\ phase = "walk" /\ connected
    /\ LET slot == StableKeys + steps + 1
           deleting == Min2(Len(written) - attempted, ChurnDeletes)
           target == {written[i] : i \in (attempted + 1)..(attempted + deleting)}
       IN  /\ slot \in Names
           /\ \E outcome \in [{slot} \cup target -> Outcomes], visited \in 1..Buckets :
                LET after == (keys \cup {k \in {slot} : outcome[k] # "refused"})
                                \ {k \in target : outcome[k] # "refused"}
                    reply == ScanStep(after, cursor, visited)
                    completed == reply.next = 0
                    out_of_steps == ~completed /\
                        IF Cycle THEN steps + 1 >= StepBound ELSE steps + 1 >= PrefixSteps
                IN  /\ keys' = after
                    /\ attempted' = attempted + deleting
                    /\ sent' = sent \cup {slot}
                    /\ written' = IF outcome[slot] = "ok" THEN Append(written, slot) ELSE written
                    /\ gone' = gone \cup {k \in target : outcome[k] = "ok"}
                    /\ maybe' = maybe \cup SetDoubtful({slot}, outcome) \cup DelDoubtful(target, outcome)
                    /\ seen' = seen \cup reply.keys
                    /\ cursor' = reply.next /\ steps' = steps + 1
                    /\ last_shard' = IF completed THEN last_shard ELSE ShardOf(reply.next)
                    /\ holds' = /\ holds
                                /\ StepHolds(reply, stable \cup refused \cup sent')
                                /\ out_of_steps => ~Cycle
                                /\ completed /\ ~Evictable => stable \subseteq seen'
                    /\ phase' = IF completed \/ out_of_steps THEN "list" ELSE "walk"
    /\ UNCHANGED <<setup, place, crashes, connected, family, listed, mismatches>>

\* What the family holds now, but for what is in doubt.
Present == ({written[i] : i \in DOMAIN written} \ gone) \cup stable

Maybe == refused \cup maybe

\* The node answers KEYS.
List == /\ phase = "list" /\ connected
        /\ listed' = keys /\ phase' = "listed"
        /\ UNCHANGED <<node, connected, family, churn, scan, mismatches>>

\* A crash since the walk began leaves nothing to judge.
Judged == crashes = 0

\* The reply comes, perhaps after a crash.
walk == /\ phase = "listed"
        /\ mismatches' = IF ~Judged THEN mismatches
                         ELSE mismatches + (IF holds THEN 0 ELSE 1)
                                         + (IF agrees_but_for(listed, Present, Maybe) THEN 0 ELSE 1)
        /\ phase' = IF crashes = 0 THEN "verify" ELSE "done"
        /\ seen' = {} /\ cursor' = 0 /\ steps' = 0
        /\ UNCHANGED <<node, connected, family, churn, last_shard, holds, listed>>

-----------------------------------------------------------------------------
(* walk_the_whole_family: KEYS, then SCAN until its cursor is back at 0.   *)

Bound == Shards + MaxKeys

KeysAgree == agrees_but_for(keys, Present, Maybe)

Verify ==
    /\ phase = "verify"
    /\ \E visited \in 1..Buckets :
          LET reply == ScanStep(keys, cursor, visited)
              found == seen \cup reply.keys
              ended == reply.next = 0 \/ steps + 1 >= Bound
              scan_agrees == reply.next = 0 /\ agrees_but_for(found, Present, Maybe)
          IN  /\ seen' = found /\ cursor' = reply.next /\ steps' = steps + 1
              /\ phase' = IF ended THEN "done" ELSE "verify"
              /\ mismatches' = mismatches + (IF steps = 0 /\ ~KeysAgree THEN 1 ELSE 0)
                                          + (IF ended /\ ~scan_agrees THEN 1 ELSE 0)
    /\ UNCHANGED <<node, connected, family, churn, last_shard, holds, listed>>

-----------------------------------------------------------------------------
Init == /\ setup \in Setups
        /\ keys = {} /\ place \in [Names -> Places] /\ crashes = 0
        /\ phase = "prepare" /\ connected = TRUE
        /\ stable = {} /\ refused = {}
        /\ written = <<>> /\ attempted = 0 /\ gone = {} /\ maybe = {} /\ sent = {}
        /\ seen = {} /\ cursor = 0 /\ last_shard = 0 /\ steps = 0 /\ holds = TRUE
        /\ listed = {} /\ mismatches = 0

Next == \/ Prepare \/ walk_the_family \/ List \/ walk \/ Abandon \/ Verify \/ Crash
        \/ \E k \in Names : Evict(k)

Spec == Init /\ [][Next]_vars

-----------------------------------------------------------------------------
(* Properties.                                                             *)

\* A walk is never held against a node that walked right: keys set, deleted,
\* refused and evicted while it goes on, and a crash before its last reply is
\* read, leave no mismatch (Model::walk, walk_the_family, agrees_but_for; the
\* invariant's walk_mismatches).
NeverMismatched == mismatches = 0

\* What the walk leaves the verifier to expect is what is there, but for the
\* keys it said may or may not be (walk.present and walk.maybe).
FamilyKnown == phase \in {"list", "verify"} /\ connected /\ ~Evictable =>
                   agrees_but_for(keys, Present, Maybe)
=============================================================================
