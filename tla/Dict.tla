-------------------------------- MODULE Dict --------------------------------
(***************************************************************************)
(* One shard's hash table: chained buckets, an incremental move to a table *)
(* twice the size, the books kept beside the entries (bytes, deadlines,    *)
(* length), the cursor that walks the buckets while they move, and what    *)
(* runs on that cursor: a client's scan, the sweep of due keys, the sample *)
(* eviction draws from.                                                    *)
(*                                                                         *)
(* A key's hash is given by Hash, HashBits wide (the code's is 64). A      *)
(* value is its length; a deadline an instant, NoDeadline for none.        *)
(***************************************************************************)
EXTENDS Integers, Sequences, SequencesExt, FiniteSetsExt

CONSTANTS Keys, Values, Deadlines, HashBits, Hash, NoKey,
          InitialBuckets,   \* INITIAL_BUCKETS, a power of two
          ClockSize,        \* the access stamp wraps at this (2^32 in the code)
          EntryOverhead, BucketOverhead, KeyBytes,
          RehashBuckets,    \* buckets a tick moves (REHASH_BUCKETS_PER_TICK)
          SweepBudget,      \* buckets a sweep visits per tick
          Samples,          \* candidates eviction looks at
          Walks,            \* bound: whether a client walks the keys at all
          MaxNow            \* bound on the clock deadlines are held against

NoDeadline == 0

Cursors == 0 .. 2^HashBits - 1

ASSUME DictAssumption ==
    /\ Hash \in [Keys -> Cursors]
    /\ Deadlines \subseteq Nat \ {NoDeadline}
    /\ Samples > 0 /\ SweepBudget > 0 /\ InitialBuckets > 0

VARIABLES dict, now, sweep, walk,
          op                \* the operation asked for last

vars == <<dict, now, sweep, walk, op>>

-----------------------------------------------------------------------------
(* Tables. *)

EmptyTable(buckets) == [i \in 0 .. buckets - 1 |-> <<>>]

NoTable == <<>>

Buckets(table) == Cardinality(DOMAIN table)

\* Planted: the bucket is named by the hash's high bits.
BucketIndexHigh(hash, buckets) == (hash * buckets) \div 2^HashBits

BucketIndex(hash, buckets) == hash % buckets

EntryBytes(value) == EntryOverhead + KeyBytes + value

TableBytes(buckets) == buckets * BucketOverhead

Slot(key, entry) == [key |-> key, entry |-> entry]

\* The position of a key in the one bucket its hash names, 0 when it is not there.
Position(table, key) ==
    LET bucket == table[BucketIndex(Hash[key], Buckets(table))]
    IN  IF \E i \in DOMAIN bucket : bucket[i].key = key
          THEN CHOOSE i \in DOMAIN bucket : bucket[i].key = key /\ \A j \in 1 .. i - 1 : bucket[j].key # key
          ELSE 0

Finds(table, key) == table # NoTable /\ Position(table, key) # 0

Find(table, key) == table[BucketIndex(Hash[key], Buckets(table))][Position(table, key)].entry

FindMut(table, key, entry) ==
    [table EXCEPT ![BucketIndex(Hash[key], Buckets(table))] =
        [@ EXCEPT ![Position(table, key)] = Slot(key, entry)]]

RemoveFrom(table, key) ==
    [table EXCEPT ![BucketIndex(Hash[key], Buckets(table))] = RemoveAt(@, Position(table, key))]

PushTo(table, key, entry) ==
    [table EXCEPT ![BucketIndex(Hash[key], Buckets(table))] = Append(@, Slot(key, entry))]

-----------------------------------------------------------------------------
(* The dictionary. *)

WithSeed ==
    [old |-> EmptyTable(InitialBuckets), new |-> NoTable, rehash_index |-> 0, len |-> 0,
     may_hold_deadlines |-> FALSE, used_bytes |-> TableBytes(InitialBuckets),
     with_deadline |-> 0, clock |-> 0]

IsRehashing(d) == d.new # NoTable

Has(d, key) == Finds(d.old, key) \/ Finds(d.new, key)

Get(d, key) == IF Finds(d.old, key) THEN Find(d.old, key) ELSE Find(d.new, key)

\* Write through whichever table holds the key, old probed first.
Replace(d, key, entry) ==
    IF Finds(d.old, key) THEN [d EXCEPT !.old = FindMut(@, key, entry)]
                         ELSE [d EXCEPT !.new = FindMut(@, key, entry)]

Dated(entry) == IF entry.expires_at # NoDeadline THEN 1 ELSE 0

SetDeadline(d, key, at) ==
    LET flagged == [d EXCEPT !.may_hold_deadlines = @ \/ at # NoDeadline]
        entry == [Get(d, key) EXCEPT !.expires_at = at]
    IN  IF Has(d, key)
          THEN Replace([flagged EXCEPT !.with_deadline = @ + Dated(entry) - Dated(Get(d, key))],
                       key, entry)
          ELSE flagged

Touch(d, key) ==
    LET stamp == (d.clock + 1) % ClockSize
        ticked == [d EXCEPT !.clock = stamp]
    IN  IF Has(d, key) THEN Replace(ticked, key, [Get(d, key) EXCEPT !.touched = stamp]) ELSE ticked

\* Planted: the table being moved to is in no books.
StartRehashUnbooked(d) == [d EXCEPT !.new = EmptyTable(2 * Buckets(d.old)), !.rehash_index = 0]

StartRehash(d) ==
    LET buckets == 2 * Buckets(d.old)
    IN  [d EXCEPT !.new = EmptyTable(buckets), !.rehash_index = 0,
                  !.used_bytes = @ + TableBytes(buckets)]

\* The slots of the buckets from..to-1, in the order the move drains them.
Drained(table, from, to) == FlattenSeq([i \in 1 .. to - from |-> table[from + i - 1]])

PushAll(table, slots) == FoldLeft(LAMBDA t, slot : PushTo(t, slot.key, slot.entry), table, slots)

\* The buckets below `end` emptied into the new table, which is the only one
\* once they are all.
MoveTo(d, end) ==
    LET new == PushAll(d.new, Drained(d.old, d.rehash_index, end))
    IN  IF end = Buckets(d.old)
          THEN [d EXCEPT !.old = new, !.new = NoTable, !.rehash_index = 0,
                         !.used_bytes = @ - TableBytes(Buckets(d.old))]
          ELSE [d EXCEPT !.old = [i \in DOMAIN @ |-> IF i \in d.rehash_index .. end - 1 THEN <<>> ELSE @[i]],
                         !.new = new, !.rehash_index = end]

RehashStep(d, buckets) ==
    IF IsRehashing(d) THEN MoveTo(d, Min({d.rehash_index + buckets, Buckets(d.old)})) ELSE d

\* What every insert does first: one bucket of a move under way, or the start
\* of the next one.
Grow(d) ==
    IF IsRehashing(d) THEN RehashStep(d, 1)
    ELSE IF d.len >= Buckets(d.old) THEN StartRehash(d)
    ELSE d

\* A new key goes to the table being moved to, when there is one.
PushNew(d, key, entry) ==
    IF IsRehashing(d) THEN [d EXCEPT !.len = @ + 1, !.new = PushTo(@, key, entry)]
                      ELSE [d EXCEPT !.len = @ + 1, !.old = PushTo(@, key, entry)]

\* The entry counted in, and what it replaces counted out.
Rebooked(d, was, entry) ==
    [d EXCEPT !.used_bytes = @ + EntryBytes(entry.value) - EntryBytes(was.value),
              !.with_deadline = @ + Dated(entry) - Dated(was)]

\* Planted: a key written again keeps the deadline it had.
PutKeepsDeadline(d, key, entry) ==
    LET kept == [entry EXCEPT !.expires_at = Get(d, key).expires_at]
    IN  IF Has(d, key)
          THEN Replace(Rebooked(d, Get(d, key), kept), key, kept)
          ELSE PushNew([d EXCEPT !.used_bytes = @ + EntryBytes(entry.value),
                                 !.with_deadline = @ + Dated(entry)], key, entry)

PutGrown(d, key, entry) ==
    IF Has(d, key)
      THEN Replace(Rebooked(d, Get(d, key), entry), key, entry)
      ELSE PushNew([d EXCEPT !.used_bytes = @ + EntryBytes(entry.value),
                             !.with_deadline = @ + Dated(entry)], key, entry)

Insert(d, key, entry) ==
    PutGrown([Grow(d) EXCEPT !.may_hold_deadlines = @ \/ entry.expires_at # NoDeadline], key, entry)

\* The books without a key's entry; the last key takes the flag with it.
Unbooked(d, was) ==
    [d EXCEPT !.used_bytes = @ - EntryBytes(was.value), !.with_deadline = @ - Dated(was),
              !.len = @ - 1, !.may_hold_deadlines = @ /\ d.len # 1]

RemoveMoved(d, key) ==
    IF ~Has(d, key) THEN d
    ELSE IF Finds(d.old, key) THEN [Unbooked(d, Get(d, key)) EXCEPT !.old = RemoveFrom(@, key)]
    ELSE [Unbooked(d, Get(d, key)) EXCEPT !.new = RemoveFrom(@, key)]

RemoveEntry(d, key) == RemoveMoved(RehashStep(d, 1), key)

Clear(d) == WithSeed

-----------------------------------------------------------------------------
(* The cursor: it counts through the buckets with its bits reversed, so that a
   bucket and the buckets it splits into stay next to each other. *)

ReverseBits ==
    [c \in Cursors |-> MapThenSumSet(LAMBDA i : ((c \div 2^i) % 2) * 2^(HashBits - 1 - i), 0 .. HashBits - 1)]

\* cursor | !mask, for the mask of a table of that many buckets.
Widened(cursor, buckets) == (cursor % buckets) + (2^HashBits - buckets)

ReverseIncrement(cursor, buckets) ==
    ReverseBits[(ReverseBits[Widened(cursor, buckets)] + 1) % 2^HashBits]

VisitBucket(table, cursor) == table[cursor % Buckets(table)]

\* One step of a walk: the slots it visits and the cursor it returns. While the
\* table moves, a step takes the old table's bucket and every bucket of the new
\* table that one splits into.
Scan(d, cursor) ==
    LET Split[v \in Cursors] ==
            LET next == ReverseIncrement(v, Buckets(d.new))
            IN  IF (next % Buckets(d.new)) \div Buckets(d.old) = 0 THEN <<v>>
                ELSE <<v>> \o Split[next]
        Expanded(vs) == [slots |-> VisitBucket(d.old, cursor)
                                     \o FlattenSeq([i \in DOMAIN vs |-> VisitBucket(d.new, vs[i])]),
                         next  |-> ReverseIncrement(Last(vs), Buckets(d.new))]
    IN  IF d.len = 0 THEN [slots |-> <<>>, next |-> 0]
        ELSE IF IsRehashing(d) THEN Expanded(Split[cursor])
        ELSE [slots |-> VisitBucket(d.old, cursor),
              next  |-> ReverseIncrement(cursor, Buckets(d.old))]

\* The walk so far, with one more step.
Further(before, step) == [slots |-> before.slots \o step.slots, next |-> step.next]

\* Up to `budget` steps from a cursor, ending early where a cycle does.
Steps(d, cursor, budget) ==
    LET After[n \in 0 .. budget] ==
            IF n = 0 THEN [slots |-> <<>>, next |-> cursor]
            ELSE LET before == After[n - 1]
                 IN  IF n > 1 /\ before.next = 0 THEN before
                     ELSE Further(before, Scan(d, before.next))
    IN  After[budget]

Due(entry, at) == entry.expires_at # NoDeadline /\ entry.expires_at <= at

DeadOf(slots, at) ==
    LET dead == SelectSeq(slots, LAMBDA s : Due(s.entry, at)) IN [i \in DOMAIN dead |-> dead[i].key]

\* Planted: the cursor a step returns is one bucket past the last it looked at.
ExpiredSkips(d, walked, at) == [next |-> Scan(d, walked.next).next, dead |-> DeadOf(walked.slots, at)]

Expired(d, walked, at) == [next |-> walked.next, dead |-> DeadOf(walked.slots, at)]

ExpireStep(d, cursor, budget, at) ==
    IF ~d.may_hold_deadlines THEN [next |-> cursor, dead |-> <<>>]
    ELSE Expired(d, Steps(d, cursor, budget), at)

\* The keys eviction may take, in the order it meets them: at least Samples of
\* them, or all a whole walk has, the spared key never one.
Sampled(d, cursor, spared) ==
    LET bound == Buckets(d.old) + Buckets(d.new)
        After[n \in 0 .. bound] ==
            IF n = 0 THEN [slots |-> <<>>, next |-> cursor]
            ELSE LET before == After[n - 1]
                     Spare(step) == [step EXCEPT !.slots = SelectSeq(@, LAMBDA s : s.key # spared)]
                 IN  IF Len(before.slots) >= Samples THEN before
                     ELSE Further(before, Spare(Scan(d, before.next)))
    IN  IF d.len = 0 THEN <<>> ELSE After[bound].slots

\* The key with the oldest stamp of those, the first met of equals.
OldestOf(seen) ==
    LET Older(i, j) == seen[i].entry.touched < seen[j].entry.touched
    IN  IF seen = <<>> THEN NoKey
        ELSE seen[CHOOSE i \in DOMAIN seen :
                    /\ \A j \in DOMAIN seen : ~Older(j, i)
                    /\ \A j \in 1 .. i - 1 : Older(i, j)].key

SampleOldest(d, cursor, spared) == OldestOf(Sampled(d, cursor, spared))

-----------------------------------------------------------------------------
(* The dictionary in use: its operations in any order, as commands call them,
   the tick that moves buckets and sweeps, and one client walking the keys. *)

KeysOf(d) == {k \in Keys : Has(d, k)}

Idle == [cursor |-> 0, walking |-> FALSE, stable |-> {}, seen |-> {}]

Init ==
    /\ dict = WithSeed
    /\ now = 0
    /\ sweep = [cursor |-> 0, owed |-> {}]
    /\ walk = Idle
    /\ op = <<"none">>

\* A key that goes, if only for a moment, is no longer one a walk owes its
\* client; a key that goes, or is given time, no longer one the sweep owes.
Keeps(keys) == walk' = [walk EXCEPT !.stable = @ \cap keys]

DueKeys(d) == {k \in KeysOf(d) : Due(Get(d, k), now)}

StillOwed == sweep' = [sweep EXCEPT !.owed = @ \cap {k \in KeysOf(dict') : Due(Get(dict', k), now)}]

InsertKey(key) ==
    /\ \E value \in Values, at \in {NoDeadline} \cup Deadlines :
          /\ dict' = Insert(dict, key, [value |-> value, expires_at |-> at, touched |-> 0])
          /\ op' = <<"insert", key, value, at>>
    /\ StillOwed
    /\ UNCHANGED <<now, walk>>

RemoveKey(key) ==
    /\ dict' = RemoveEntry(dict, key)
    /\ op' = <<"remove", key>>
    /\ Keeps(KeysOf(dict) \ {key})
    /\ StillOwed
    /\ UNCHANGED now

SetKeyDeadline(key) ==
    /\ \E at \in {NoDeadline} \cup Deadlines :
          /\ dict' = SetDeadline(dict, key, at)
          /\ op' = <<"set_deadline", key, at>>
    /\ StillOwed
    /\ UNCHANGED <<now, walk>>

TouchKey(key) ==
    /\ dict' = Touch(dict, key)
    /\ op' = <<"none">>
    /\ UNCHANGED <<now, sweep, walk>>

ClearAll ==
    /\ dict' = Clear(dict)
    /\ op' = <<"clear">>
    /\ Keeps({})
    /\ StillOwed
    /\ UNCHANGED now

RemoveAll(d, keys) == FoldLeft(LAMBDA acc, k : RemoveEntry(acc, k), d, keys)

\* The keys `gone`, of those a sweep step found dead, are removed; the cursor
\* moves on once they are all.  Where a cycle ends the next begins, owing what
\* is due.
Sweep(moved, found, gone, done) ==
    /\ dict' = RemoveAll(moved, gone)
    /\ sweep' = [cursor |-> IF done THEN found.next ELSE sweep.cursor,
                 owed   |-> IF done /\ found.next = 0 THEN DueKeys(dict')
                                                      ELSE sweep.owed \ ToSet(gone)]
    /\ Keeps(KeysOf(dict) \ ToSet(gone))

\* A sweep step: it removes the keys it found due one by one, each once its
\* deletion is logged; where the log takes no more it stops.
SweepStep(moved, found) ==
    \E logged \in 0 .. Len(found.dead) :
        Sweep(moved, found, SubSeq(found.dead, 1, logged), logged = Len(found.dead))

\* A housekeeping tick: buckets of a move under way, then, unless the log
\* refuses, a step of the sweep.
Tick ==
    /\ \E moved \in {RehashStep(dict, RehashBuckets)} :
          \/ SweepStep(moved, ExpireStep(moved, sweep.cursor, SweepBudget, now))
          \/ Sweep(moved, [next |-> sweep.cursor, dead |-> <<>>], <<>>, FALSE)
    /\ op' = <<"tick">>
    /\ UNCHANGED now

Elapse ==
    /\ now < MaxNow
    /\ op' = <<"none">>
    /\ now' = now + 1
    /\ UNCHANGED <<dict, sweep, walk>>

StartWalk ==
    /\ Walks
    /\ ~walk.walking
    /\ op' = <<"none">>
    /\ walk' = [cursor |-> 0, walking |-> TRUE, stable |-> KeysOf(dict), seen |-> {}]
    /\ UNCHANGED <<dict, now, sweep>>

WalkStep ==
    /\ walk.walking
    /\ op' = <<"none">>
    /\ \E step \in {Scan(dict, walk.cursor)} :
          walk' = [walk EXCEPT !.cursor = step.next, !.walking = step.next # 0,
                               !.seen = @ \cup {step.slots[i].key : i \in DOMAIN step.slots}]
    /\ UNCHANGED <<dict, now, sweep>>

Next ==
    \/ \E key \in Keys : InsertKey(key) \/ RemoveKey(key) \/ SetKeyDeadline(key) \/ TouchKey(key)
    \/ ClearAll \/ Tick \/ Elapse
    \/ StartWalk \/ WalkStep

Spec == Init /\ [][Next]_vars

-----------------------------------------------------------------------------
(* Properties. *)

\* The dictionary, its buckets, moves and stamps hidden, is a keyspace: what
\* `get` answers changes by exactly what the commands asked, whatever a move
\* has in hand.
Map == INSTANCE Keyspace WITH
    map <- [k \in KeysOf(dict) |-> [value |-> Get(dict, k).value,
                                    expires_at |-> Get(dict, k).expires_at]]

IsKeyspace == Map!Spec

Slots(d) ==
    LET In(table) == UNION {{<<i, j>> : j \in DOMAIN table[i]} : i \in DOMAIN table}
    IN  [old |-> In(d.old), new |-> In(d.new)]

AllSlots(d) ==
    {[table |-> "old", at |-> p, slot |-> d.old[p[1]][p[2]]] : p \in Slots(d).old}
       \cup {[table |-> "new", at |-> p, slot |-> d.new[p[1]][p[2]]] : p \in Slots(d).new}

\* Every slot is in the bucket its hash names, of a table that still holds it,
\* and no key is held twice: `get` cannot miss a key the move has in hand, nor
\* a removed key come back from the other table.
Placed ==
    /\ \A a, b \in AllSlots(dict) : a.slot.key = b.slot.key => a = b
    /\ \A a \in AllSlots(dict) : Has(dict, a.slot.key) /\ Get(dict, a.slot.key) = a.slot.entry
    /\ \A i \in 0 .. dict.rehash_index - 1 : dict.old[i] = <<>>

\* The books `Dict` keeps instead of counting agree with what counting would
\* find: length, keys with a deadline, and bytes, a table being moved to
\* included (the gauge every memory decision reads is fed from these).
Booked ==
    /\ dict.len = Cardinality(AllSlots(dict))
    /\ dict.with_deadline = Cardinality({a \in AllSlots(dict) : Dated(a.slot.entry) = 1})
    /\ dict.used_bytes =
          TableBytes(Buckets(dict.old) + Buckets(dict.new))
            + MapThenSumSet(LAMBDA a : EntryBytes(a.slot.entry.value), AllSlots(dict))

\* The flag that lets reads and sweeps skip their deadline checks is never
\* down while a key has one.
DeadlinesFlagged == dict.with_deadline > 0 => dict.may_hold_deadlines

\* The promise of the cursor: a key there from a cycle's first step to its last
\* is visited by it, however the table grew, moved or was emptied meanwhile.
WalkComplete == (~walk.walking) => walk.stable \subseteq walk.seen

\* A walk cannot go back or stand still: each step moves the reversed cursor
\* up, or ends the cycle.
WalkAdvances ==
    WalkStep => walk'.cursor = 0 \/ ReverseBits[walk'.cursor] > ReverseBits[walk.cursor]

\* Eviction finds a key to take, from any cursor, unless the spared key is the
\* only one there is: `evict_until_fits` gives up on no other ground.
SampleFinds ==
    \A c \in Cursors, spared \in Keys :
        SampleOldest(dict, c, spared) = NoKey <=> KeysOf(dict) \subseteq {spared}

\* A key past its deadline when a sweep cycle begins is gone when it ends,
\* unless it was given time meanwhile: the sweep's cursor is not outrun by the
\* writes, the moves and its own removals.
SweepComplete ==
    Tick /\ dict.may_hold_deadlines /\ sweep.cursor # 0 /\ sweep'.cursor = 0
        => sweep.owed \cap KeysOf(dict') = {}

=============================================================================
