----------------------------- MODULE MemoryGauge ----------------------------
(***************************************************************************)
(* One gauge, moved by several executors. Each changes its own dictionary, *)
(* then moves the gauge by the difference, and compares the gauge with the *)
(* ceiling before a write (`noeviction`) or after it (`allkeys-lru`), with *)
(* no lock between a look and the act that follows it: every load and      *)
(* every addition here is a step of its own.                               *)
(*                                                                         *)
(* A key is accounted at a size; a size of 0 is no key. What one command   *)
(* does on one shard is module Shard's.                                    *)
(***************************************************************************)
EXTENDS Integers, FiniteSets, FiniteSetsExt

CONSTANTS Executors, Keys,
          Owner,            \* the executor of each key's shard
          Sizes,            \* what a stored key may be accounted at
          Ceiling, Mode,    \* MemoryLimit
          WordSize,         \* the gauge wraps at this (2^64 in the code)
          NoKey

VARIABLES held,             \* what each key is accounted at
          gauge,
          doing             \* each executor's place in `answer` or `housekeeping`

vars == <<held, gauge, doing>>

Of(e) == {k \in Keys : Owner[k] = e}

used_bytes(e) == MapThenSumSet(LAMBDA k : held[k], Of(e))

Used == MapThenSumSet(LAMBDA k : held[k], Keys)

Idle == [at |-> "idle", key |-> NoKey, size |-> 0, before |-> 0]

Init ==
    /\ held = [k \in Keys |-> 0]
    /\ gauge = 0
    /\ doing = [e \in Executors |-> Idle]

Goes(e, place) == doing' = [doing EXCEPT ![e] = place]

exceeded == gauge > Ceiling

-----------------------------------------------------------------------------
(* A command. *)

\* Planted: the ceiling is compared with the executor's own shards.
AdmitsByOwn(e, size) ==
    Mode = "noeviction" /\ size > 0 => used_bytes(e) <= Ceiling

\* What grows the keyspace is refused past the ceiling; a deletion never is.
Admits(e, size) == Mode = "noeviction" /\ size > 0 => ~exceeded

\* The look at the gauge, where a refused command also ends.
Admit(e) ==
    /\ doing[e].at = "idle"
    /\ \E k \in Of(e), size \in Sizes \cup {0} :
          /\ Admits(e, size)
          /\ Goes(e, [at |-> "admitted", key |-> k, size |-> size, before |-> 0])
    /\ UNCHANGED <<held, gauge>>

Apply(e) ==
    /\ doing[e].at = "admitted"
    /\ held' = [held EXCEPT ![doing[e].key] = doing[e].size]
    /\ Goes(e, [doing[e] EXCEPT !.at = "applied", !.before = used_bytes(e)])
    /\ UNCHANGED gauge

\* MemoryGauge::apply: one addition or one subtraction, which may wrap.
Moved(before, after) == (gauge + (after - before)) % WordSize

\* The gauge is moved; `allkeys-lru` then goes on to make room.
Move(e) ==
    /\ doing[e].at = "applied"
    /\ gauge' = Moved(doing[e].before, used_bytes(e))
    /\ Goes(e, IF Mode = "allkeys-lru" THEN [doing[e] EXCEPT !.at = "fitting"] ELSE Idle)
    /\ UNCHANGED held

-----------------------------------------------------------------------------
(* `evict_until_fits`. *)

Victims(e) == {k \in Of(e) : held[k] > 0 /\ k # doing[e].key}

\* The gauge fits, or this executor has nothing but the command's key to give.
Fits(e) ==
    /\ doing[e].at = "fitting"
    /\ ~exceeded \/ Victims(e) = {}
    /\ Goes(e, Idle)
    /\ UNCHANGED <<held, gauge>>

MustEvict(e) ==
    /\ doing[e].at = "fitting"
    /\ exceeded
    /\ Victims(e) # {}
    /\ Goes(e, [doing[e] EXCEPT !.at = "evicting"])
    /\ UNCHANGED <<held, gauge>>

Evict(e) ==
    /\ doing[e].at = "evicting"
    /\ \E victim \in Victims(e) : held' = [held EXCEPT ![victim] = 0]
    /\ Goes(e, [doing[e] EXCEPT !.at = "evicted", !.before = used_bytes(e)])
    /\ UNCHANGED gauge

\* And the gauge is read again.
ThenAgain(e) == [doing[e] EXCEPT !.at = "fitting"]

MoveEvicted(e) ==
    /\ doing[e].at = "evicted"
    /\ gauge' = Moved(doing[e].before, used_bytes(e))
    /\ Goes(e, ThenAgain(e))
    /\ UNCHANGED held

-----------------------------------------------------------------------------
\* A housekeeping tick: the sweep takes keys, and nothing is evicted after it.
Sweep(e) ==
    /\ doing[e].at = "idle"
    /\ \E dead \in (SUBSET {k \in Of(e) : held[k] > 0}) \ {{}} :
          held' = [k \in Keys |-> IF k \in dead THEN 0 ELSE held[k]]
    /\ Goes(e, [Idle EXCEPT !.at = "swept", !.before = used_bytes(e)])
    /\ UNCHANGED gauge

MoveSwept(e) ==
    /\ doing[e].at = "swept"
    /\ gauge' = Moved(doing[e].before, used_bytes(e))
    /\ Goes(e, Idle)
    /\ UNCHANGED held

Next == \E e \in Executors :
    \/ Admit(e) \/ Apply(e) \/ Move(e)
    \/ Fits(e) \/ MustEvict(e) \/ Evict(e) \/ MoveEvicted(e)
    \/ Sweep(e) \/ MoveSwept(e)

Spec == Init /\ [][Next]_vars

-----------------------------------------------------------------------------
(* Properties. *)

\* What an executor has changed and not yet told the gauge of.
Untold(e) == IF doing[e].at \in {"applied", "evicted", "swept"}
             THEN used_bytes(e) - doing[e].before ELSE 0

\* The gauge is the sum of what the dictionaries account but for the changes in
\* hand, at every interleaving: no executor's difference is lost under
\* another's, and the word never wraps below zero, though one executor's
\* subtraction may land before another's addition.
GaugeTrue == gauge = Used - MapThenSumSet(Untold, Executors)

\* With `noeviction` the ceiling is overshot by at most one write an executor:
\* each may have looked before the others' writes were told, none looks and
\* writes twice.
OvershootBounded ==
    Mode = "noeviction" => Used <= Ceiling + Cardinality(Executors) * Max(Sizes)

\* With `allkeys-lru`, once no command is in hand the node is under its ceiling,
\* unless some executor was left with one key at most: writes that race for the
\* last room do not both leave believing that it fits.
RoomInTheEnd ==
    Mode = "allkeys-lru" /\ (\A e \in Executors : doing[e].at = "idle") =>
        \/ Used <= Ceiling
        \/ \E e \in Executors : Cardinality({k \in Of(e) : held[k] > 0}) <= 1

=============================================================================
