-------------------------------- MODULE Store --------------------------------
(***************************************************************************)
(* What a client may see of one shard: a map from keys to values with      *)
(* deadlines, in which a key is gone at the very instant its deadline      *)
(* comes.  There is no lazy removal, no sweep, no log and no memory gauge  *)
(* here; a command either takes effect in full and answers from the map,   *)
(* or is refused with an error and changes nothing.  Module Shard, which   *)
(* has all of those, is shown to implement this one.                       *)
(***************************************************************************)
EXTENDS Integers, FiniteSets, Functions

CONSTANTS Second,        \* milliseconds in a second
          MaxInstant,    \* the last instant the clock can represent
          I64Min, I64Max,
          None,          \* the deadline of a key that never expires
          Evicts         \* whether a ceiling takes keys to make room

VARIABLES map,           \* the keys that are there: key -> [value, at]
          now,           \* the instant
          last           \* the last command with its reply

storeVars == <<map, now, last>>

\* A key's value, as an optional bulk reply: <<>> for a key that is not there.
Old(k) == IF k \in DOMAIN map THEN <<map[k].value>> ELSE <<>>

Holding(k, value, at) == [x \in DOMAIN map \cup {k} |->
    IF x = k THEN [value |-> value, at |-> at] ELSE map[x]]

Without(k) == Restrict(map, DOMAIN map \ {k})

\* The instant `span` from now; past the clock's end there is none to reach.
After(span) == IF span = None \/ now + span > MaxInstant THEN None ELSE now + span

Left(k) == map[k].at - now

Named(c) == IF "key" \in DOMAIN c THEN {c.key} ELSE {}

\* The command leaves m; keeping below a ceiling may cost other keys, never
\* the one the command names.
Leaves(m) == /\ map' = Restrict(m, DOMAIN map')
             /\ DOMAIN map' \subseteq DOMAIN m
             /\ DOMAIN m \ DOMAIN map' \subseteq
                    IF Evicts THEN DOMAIN m \ Named(last'.cmd) ELSE {}

\* A number as a value: its digits are its length.
IntValue(n) == <<"int", n, IF n < 0 THEN 2 ELSE 1>>

-----------------------------------------------------------------------------
(* One definition per family: the reply, and the map the command leaves.   *)

SetTo(c) ==
    LET wanted == \/ c.cond = "any"
                  \/ c.cond = "nx" /\ c.key \notin DOMAIN map
                  \/ c.cond = "xx" /\ c.key \in DOMAIN map
        kept   == IF c.key \in DOMAIN map THEN map[c.key].at ELSE None
    IN  /\ last'.reply = IF c.get THEN <<"Bulk", Old(c.key)>>
                         ELSE IF wanted THEN <<"Ok">> ELSE <<"Bulk", <<>>>>
        /\ Leaves(IF wanted
                  THEN Holding(c.key, c.value, IF c.keep_ttl THEN kept ELSE After(c.span))
                  ELSE map)

SetNx(c) == IF c.key \in DOMAIN map
            THEN last'.reply = <<"Integer", 0>> /\ Leaves(map)
            ELSE last'.reply = <<"Integer", 1>> /\ Leaves(Holding(c.key, c.value, None))

Delete(c) == /\ last'.reply = <<"Removed", c.key \in DOMAIN map>>
             /\ Leaves(Without(c.key))

IncrBy(c) ==
    LET there == c.key \in DOMAIN map
        n     == IF there THEN map[c.key].value[2] ELSE 0
    IN  IF there /\ map[c.key].value[1] # "int"
        THEN last'.reply = <<"NotAnInteger">> /\ Leaves(map)
        ELSE IF n + c.delta \notin I64Min..I64Max
        THEN last'.reply = <<"WouldOverflow">> /\ Leaves(map)
        ELSE /\ last'.reply = <<"Integer", n + c.delta>>
             /\ Leaves(Holding(c.key, IntValue(n + c.delta),
                              IF there THEN map[c.key].at ELSE None))

ExpireIn(c) ==
    IF c.key \notin DOMAIN map
    THEN last'.reply = <<"Integer", 0>> /\ Leaves(map)
    ELSE /\ last'.reply = <<"Integer", 1>>
         /\ Leaves(IF c.span <= 0 THEN Without(c.key)
                   ELSE Holding(c.key, map[c.key].value, After(c.span)))

Persist(c) ==
    LET dated == c.key \in DOMAIN map /\ map[c.key].at # None
    IN  /\ last'.reply = <<"Integer", IF dated THEN 1 ELSE 0>>
        /\ Leaves(IF dated THEN Holding(c.key, map[c.key].value, None) ELSE map)

\* What a command that only reads answers.
ReadReply(c) ==
    LET there == c.key \in DOMAIN map
        left(unit) == IF ~there THEN -2 ELSE IF map[c.key].at = None THEN -1
                      ELSE (Left(c.key) + unit \div 2) \div unit
    IN  CASE c.name = "Get"    -> <<"Bulk", Old(c.key)>>
          [] c.name = "Exists" -> <<"Integer", IF there THEN 1 ELSE 0>>
          [] c.name = "Type"   -> <<"Status", IF there THEN "string" ELSE "none">>
          [] c.name = "StrLen" -> <<"Integer", IF there THEN map[c.key].value[3] ELSE 0>>
          [] c.name = "Ttl"    -> <<"Integer", left(Second)>>
          [] c.name = "PTtl"   -> <<"Integer", left(1)>>

Flush == last'.reply = <<"Ok">> /\ map' = << >>

\* A count may still include a key that is gone and not yet reclaimed.
Count == /\ last'.reply[1] \in {"Integer", "Stats"} /\ last'.reply[2] >= Cardinality(DOMAIN map)
          /\ Leaves(map)

\* A step of a walk names keys that are there.
Scan(c) == /\ last'.reply[1] = "Scan"
           /\ last'.reply[2] \subseteq DOMAIN map \cap c.pattern
           /\ Leaves(map)

\* A refused command changes nothing.
Refuse == last'.reply \in {<<"LogWriteFailed">>, <<"OutOfMemory">>} /\ map' = map

-----------------------------------------------------------------------------
Obey(c) ==
    \/ c.name \in {"Set", "SetEx", "PSetEx"} /\ SetTo(c)
    \/ c.name = "SetNx" /\ SetNx(c)
    \/ c.name = "Del" /\ Delete(c)
    \/ c.name = "IncrBy" /\ IncrBy(c)
    \/ c.name \in {"Expire", "PExpire"} /\ ExpireIn(c)
    \/ c.name = "Persist" /\ Persist(c)
    \/ c.name = "FlushDb" /\ Flush
    \/ c.name \in {"DbSize", "Stats"} /\ Count
    \/ c.name = "ScanStep" /\ Scan(c)
    \/ /\ c.name \in {"Get", "Exists", "Type", "StrLen", "Ttl", "PTtl"}
       /\ last'.reply = ReadReply(c) /\ Leaves(map)
    \/ Refuse

\* One command, as the client that sent it sees it.
Serve == Obey(last'.cmd) /\ now' = now

\* Time passes, and every key whose deadline has come is gone.
Elapse == /\ now' = now + 1
          /\ map' = Restrict(map, {k \in DOMAIN map : map[k].at = None \/ map[k].at > now'})
          /\ last' = last

Init == map = << >> /\ last.reply = <<"None">>

Next == Serve \/ Elapse

Spec == Init /\ [][Next]_storeVars
=============================================================================
