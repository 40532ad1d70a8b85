------------------------------ MODULE Keyspace ------------------------------
(***************************************************************************)
(* What a shard's dictionary promises whatever holds its entries: a finite *)
(* map from keys to a value and a deadline. `op` is the operation asked    *)
(* for last; it, and nothing else, decides what the map becomes. The order *)
(* of the buckets, a move between tables and the access stamps do not show.*)
(***************************************************************************)
EXTENDS Integers

CONSTANTS Keys, Values, Deadlines, NoDeadline

VARIABLES map, now, op

vars == <<map, now, op>>

Entry == [value : Values, expires_at : {NoDeadline} \cup Deadlines]

Init == map = [k \in {} |-> NoDeadline] /\ now = 0 /\ op = <<"none">>

Without(keys) == [k \in DOMAIN map \ keys |-> map[k]]

DueAt(entry) == entry.expires_at # NoDeadline /\ entry.expires_at <= now

\* A key written, overwriting what it held, its deadline with it.
Put(key, entry) ==
    /\ op' = <<"insert", key, entry.value, entry.expires_at>>
    /\ map' = [k \in DOMAIN map \cup {key} |-> IF k = key THEN entry ELSE map[k]]
    /\ UNCHANGED now

Del(key) ==
    /\ op' = <<"remove", key>>
    /\ map' = Without({key})
    /\ UNCHANGED now

SetDeadline(key, at) ==
    /\ op' = <<"set_deadline", key, at>>
    /\ map' = [k \in DOMAIN map |-> IF k = key THEN [map[k] EXCEPT !.expires_at = at] ELSE map[k]]
    /\ UNCHANGED now

Clear ==
    /\ op' = <<"clear">>
    /\ map' = Without(DOMAIN map)
    /\ UNCHANGED now

\* Keys past their deadline may be taken, any number at once, and no others.
Reap(keys) ==
    /\ op' = <<"tick">>
    /\ \A k \in keys : DueAt(map[k])
    /\ map' = Without(keys)
    /\ UNCHANGED now

Idle ==
    /\ op' = <<"none">>
    /\ now' >= now
    /\ UNCHANGED map

Next ==
    \/ \E key \in Keys :
          \/ \E entry \in Entry : Put(key, entry)
          \/ Del(key)
          \/ \E at \in {NoDeadline} \cup Deadlines : SetDeadline(key, at)
    \/ Clear
    \/ \E keys \in SUBSET DOMAIN map : Reap(keys)
    \/ Idle

Spec == Init /\ [][Next]_vars

=============================================================================
