----------------------------- MODULE FuzzyImage -----------------------------
(***************************************************************************)
(* What a snapshot cycle writes, entry by entry. The scan reads a shard's  *)
(* dictionary some buckets a tick, while commands change it and the table  *)
(* moves: the image is of no one moment. A start lays the image down and   *)
(* replays over it the records after the base, the position the cycle read *)
(* when it opened; that must give the shard back, wherever the log ends.   *)
(*                                                                         *)
(* The dictionary is module Dict's, its client walk left idle. Files,      *)
(* syncs and the batches of several shards are module ShardExecutor's.     *)
(***************************************************************************)
EXTENDS Dict

CONSTANTS EntriesPerTick,   \* bytes_per_tick, in entries: what a tick's scan may write
          MaxRecords        \* bound on the records after a base

VARIABLES cycle,            \* the cycle: its phase, cursor, image, and `sent`
          records,          \* the shard's records from the cycle's base on
          durable,          \* how many of those are durable
          opened            \* the shard when the base was read

imageVars == <<vars, cycle, records, durable, opened>>

NotSent == -1

Holds(d) == [k \in KeysOf(d) |-> [value |-> Get(d, k).value, expires_at |-> Get(d, k).expires_at]]

-----------------------------------------------------------------------------
(* Replay. *)

Put(m, key, entry) == [k \in DOMAIN m \cup {key} |-> IF k = key THEN entry ELSE m[k]]

ReplayRecord(m, record) ==
    CASE record[1] = "insert" -> Put(m, record[2], [value |-> record[3], expires_at |-> record[4]])
      [] record[1] = "remove" -> Restrict(m, DOMAIN m \ {record[2]})
      [] record[1] = "set_deadline" ->
            IF record[2] \in DOMAIN m
              THEN [m EXCEPT ![record[2]].expires_at = record[3]] ELSE m
      [] record[1] = "clear" -> <<>>

replay_into(m, rs) == FoldLeft(ReplayRecord, m, rs)

-----------------------------------------------------------------------------
(* The shard: every change appends its record. *)

Appends(rs) ==
    /\ Len(records) + Len(rs) <= MaxRecords
    /\ records' = records \o rs
    /\ UNCHANGED <<cycle, durable, opened>>

\* A command that finds nothing to change appends nothing and does nothing.
Change ==
    /\ Len(records) < MaxRecords
    /\ \/ \E key \in Keys : InsertKey(key)
       \/ \E key \in KeysOf(dict) : RemoveKey(key) \/ SetKeyDeadline(key)
       \/ dict.len # 0 /\ ClearAll
    /\ Appends(<<op'>>)

\* The tick before the cycle's part: the table moves, and the sweep appends a
\* deletion for each key it takes.
Housekeeping ==
    /\ Tick
    /\ LET swept == SetToSeq(KeysOf(dict) \ KeysOf(dict'))
       IN  Appends([i \in DOMAIN swept |-> <<"remove", swept[i]>>])

TimePasses == Elapse /\ Appends(<<>>)

\* The writer's rounds make a prefix of the records durable, then more.
Sync ==
    /\ durable < Len(records)
    /\ durable' \in durable + 1 .. Len(records)
    /\ UNCHANGED <<vars, cycle, records, opened>>

-----------------------------------------------------------------------------
(* The cycle. *)

Fresh == [phase |-> "scanning", cursor |-> 0, image |-> <<>>, sent |-> NotSent]

\* The base is the shard's position now: what came before is no longer needed.
OpenCycle ==
    /\ cycle.phase \in {"closed", "finished"}
    /\ cycle' = Fresh
    /\ records' = <<>> /\ durable' = 0 /\ opened' = Holds(dict)
    /\ UNCHANGED vars

\* A new file, scanned from the start over the same base.
Restarted == Fresh

\* The file could not be written: the scan starts over.
Restart ==
    /\ cycle.phase \in {"scanning", "waiting"}
    /\ cycle' = Restarted
    /\ UNCHANGED <<vars, records, durable, opened>>

\* The entries a tick scans: buckets until the budget is spent, or the end.
ScanTick ==
    LET Upto[n \in Nat] ==
            IF n = 0 THEN [slots |-> <<>>, next |-> cycle.cursor]
            ELSE LET before == Upto[n - 1]
                 IN  IF Len(before.slots) >= EntriesPerTick \/ (n > 1 /\ before.next = 0)
                       THEN before
                       ELSE Further(before, Scan(dict, before.next))
    IN  Upto[Buckets(dict.old) + Buckets(dict.new)]

\* The file with the entries of `slots` after those it has: read back, the later
\* of two for one key is the one that stays.
encode_entries(image, slots) ==
    LET met == {slots[i].key : i \in DOMAIN slots}
    IN  [k \in DOMAIN image \cup met |-> IF k \in met THEN Holds(dict)[k] ELSE image[k]]

\* Planted (`FinishesBeforeLog`): the footer waits for nothing.
NeverShort(c) == FALSE

\* The log is not yet durable through the last record sent when the scan ended;
\* nothing sent since the base is nothing to wait for.
log_short_of_image(c) == c.sent # 0 /\ durable < c.sent

\* The cycle after a tick's scan: the one that ends it reads how far the log
\* goes.
Scanned(scan) ==
    [phase |-> IF scan.next = 0 THEN "waiting" ELSE "scanning", cursor |-> scan.next,
     image |-> encode_entries(cycle.image, scan.slots),
     sent |-> IF scan.next = 0 /\ cycle.sent = NotSent THEN Len(records) ELSE cycle.sent]

\* The footer is written once the log is durable as far as that.
Footed(c) ==
    IF c.phase = "waiting" /\ ~log_short_of_image(c) THEN [c EXCEPT !.phase = "finished"] ELSE c

Step ==
    /\ \/ /\ cycle.phase = "scanning"
          /\ \E scan \in {ScanTick} : cycle' = Footed(Scanned(scan))
       \/ cycle.phase = "waiting" /\ cycle' = Footed(cycle)
    /\ UNCHANGED <<vars, records, durable, opened>>

ImageInit ==
    /\ Init
    /\ cycle = [Fresh EXCEPT !.phase = "closed"]
    /\ records = <<>> /\ durable = 0 /\ opened = <<>>

ImageNext == Change \/ Housekeeping \/ TimePasses \/ Sync \/ OpenCycle \/ Restart \/ Step

ImageSpec == ImageInit /\ [][ImageNext]_imageVars

-----------------------------------------------------------------------------
(* Properties. *)

\* The shard after the first n records: the one there is, when they are all.
After(n) == IF n = Len(records) THEN Holds(dict)
            ELSE replay_into(opened, SubSeq(records, 1, n))

\* A finished image with whatever a crash leaves of the log, which is at least
\* its durable records, gives back the shard as it was after those records:
\* an entry the scan met twice, met before a change or missed because it came
\* behind the cursor (checkpoint.rs `scan`) is put right by the replay, and a
\* log that ends where it may (`log_short_of_image`) never stops inside what
\* the image already holds.
ImagePlusLog ==
    cycle.phase = "finished" =>
        \A n \in durable .. Len(records) :
            replay_into(cycle.image, SubSeq(records, 1, n)) = After(n)
=============================================================================
