------------------------------ MODULE Options -------------------------------
(***************************************************************************)
(* The arguments of a command that are more than bytes:                    *)
(*   - how the edge turns the number of a SET EX, SETEX, EXPIRE,           *)
(*     EXPIREAT ... into the span the shards take                          *)
(*     (seedstone-service/src/expiry.rs);                                  *)
(*   - the options after the key and value of SET and after the cursor of  *)
(*     SCAN (seedstone-service/src/options.rs), read left to right as the  *)
(*     code's loops read them.                                             *)
(*                                                                         *)
(* The arithmetic keeps its shape on a small scale: I64Max stands for      *)
(* i64::MAX, Unit for the 1000 milliseconds of a second, and LatestClock   *)
(* for the year 3000, the clock CLOCK_SAFE_SPAN_MILLIS reserves room for.  *)
(* A value is a token; Ints is what parse_i64 reads out of the tokens that *)
(* spell an i64.  An outcome is <<"ok", value>> or <<"err", reason>>.      *)
(***************************************************************************)
EXTENDS Integers, Sequences

CONSTANTS I64Max, Unit, LatestClock, Ints, ScanDefaultCount

MAX_EXPIRE_SECONDS == I64Max \div Unit

MAX_EXPIRE_MILLIS == MAX_EXPIRE_SECONDS * Unit

CLOCK_SAFE_SPAN_MILLIS == I64Max - LatestClock

Ok(value) == <<"ok", value>>
Err(reason) == <<"err", reason>>
IsOk(outcome) == outcome[1] = "ok"

parse_i64(token) ==
    IF token \in DOMAIN Ints THEN Ok(Ints[token]) ELSE Err("not an integer")

FastPathOnly(span, now) == span > I64Max

(***************************************************************************)
(* refuse_past_the_clock: a span short enough for any clock up to the year *)
(* 3000 is taken without reading the clock.                                *)
(***************************************************************************)
PastTheClock(span, now) ==
    /\ span > CLOCK_SAFE_SPAN_MILLIS
    /\ span > I64Max - now

Refused == Err("invalid expire")

(***************************************************************************)
(* set_expire_value: perUnit is 0 for the options that name a deadline,    *)
(* whose value is no span and is not held against the clock.               *)
(***************************************************************************)
set_expire_value(token, ceiling, perUnit, now) ==
    LET value == parse_i64(token) IN
    IF ~IsOk(value) THEN value
    ELSE IF \/ value[2] <= 0
            \/ value[2] > ceiling
            \/ PastTheClock(value[2] * perUnit, now)
         THEN Refused
         ELSE value

expire_seconds(token, now) ==
    LET seconds == parse_i64(token) IN
    IF ~IsOk(seconds) THEN seconds
    ELSE IF \/ seconds[2] \notin (-MAX_EXPIRE_SECONDS)..MAX_EXPIRE_SECONDS
            \/ seconds[2] >= 0 /\ PastTheClock(seconds[2] * Unit, now)
         THEN Refused
         ELSE seconds

expire_millis(token, now) ==
    LET millis == parse_i64(token) IN
    IF ~IsOk(millis) THEN millis
    ELSE IF \/ millis[2] > MAX_EXPIRE_MILLIS
            \/ millis[2] >= 0 /\ PastTheClock(millis[2], now)
         THEN Refused
         ELSE millis

remaining_from(deadline, now) == IF deadline > now THEN deadline - now ELSE 0

(* EXPIREAT and PEXPIREAT: checked_mul refuses a product outside i64. *)
absolute_deadline_span(token, perUnit, now) ==
    LET when == parse_i64(token) IN
    IF ~IsOk(when) THEN when
    ELSE IF when[2] * perUnit \notin (-I64Max - 1)..I64Max THEN Refused
    ELSE Ok(remaining_from(when[2] * perUnit, now))

(***************************************************************************)
(* expiry_unit: the four options of SET that carry a value.                *)
(***************************************************************************)
expiry_unit ==
    [EX   |-> [ceiling |-> MAX_EXPIRE_SECONDS, form |-> "span", millis |-> Unit],
     PX   |-> [ceiling |-> I64Max, form |-> "span", millis |-> 1],
     EXAT |-> [ceiling |-> MAX_EXPIRE_SECONDS, form |-> "deadline", millis |-> Unit],
     PXAT |-> [ceiling |-> I64Max, form |-> "deadline", millis |-> 1]]

(* The span in milliseconds that a SET with this option hands the shard. *)
SetExpiry(option, token, now) ==
    LET unit == expiry_unit[option]
        value == set_expire_value(token, unit.ceiling,
                     IF unit.form = "span" THEN unit.millis ELSE 0, now)
    IN IF ~IsOk(value) THEN value
       ELSE IF unit.form = "span" THEN Ok(value[2] * unit.millis)
       ELSE Ok(remaining_from(value[2] * unit.millis, now))
-----------------------------------------------------------------------------
(* The options of SET and SCAN.                                            *)

SyntaxError == Err("syntax")

None == "none"

(***************************************************************************)
(* The variables of the set_options loop.  pending is the expiry option    *)
(* whose value is the next token.                                          *)
(***************************************************************************)
Blank == [failed |-> FALSE, pending |-> None, named |-> None, arg |-> <<>>,
          cond |-> None, keep_ttl |-> FALSE, get |-> FALSE]

Failed(read) == [read EXCEPT !.failed = TRUE]

(* One expiry option may be given again, never beside another. *)
claim(read, option) ==
    IF read.named \notin {None, option} THEN Failed(read)
    ELSE [read EXCEPT !.named = option]

condition(token) == token \in {"NX", "XX"}

Read(read, token) ==
    CASE read.failed -> read
      [] ~read.failed /\ read.pending # None ->
            [read EXCEPT !.arg = <<read.pending, token>>, !.pending = None]
      [] ~read.failed /\ read.pending = None ->
            CASE token \in DOMAIN expiry_unit -> [claim(read, token) EXCEPT !.pending = token]
              [] token = "KEEPTTL" -> [claim(read, token) EXCEPT !.keep_ttl = TRUE]
              [] condition(token) ->
                    IF read.cond \notin {None, token} THEN Failed(read)
                    ELSE [read EXCEPT !.cond = token]
              [] token = "GET" -> [read EXCEPT !.get = TRUE]
              [] OTHER -> Failed(read)

AfterReading(line) ==
    LET read[i \in 0..Len(line)] ==
            IF i = 0 THEN Blank ELSE Read(read[i - 1], line[i])
    IN read[Len(line)]

(* The value of the expiry option is looked at once the line is known good. *)
set_options(line, now) ==
    LET read == AfterReading(line)
        span == IF read.arg = <<>> THEN Ok(None)
                ELSE SetExpiry(read.arg[1], read.arg[2], now)
    IN IF read.failed \/ read.pending # None THEN SyntaxError
       ELSE IF ~IsOk(span) THEN span
       ELSE Ok([expiry |-> span[2], cond |-> read.cond,
                keep_ttl |-> read.keep_ttl, get |-> read.get])

(***************************************************************************)
(* scan_options: pairs of an option and its value; the first pair that     *)
(* cannot be read ends the reading, so earlier errors win.                 *)
(***************************************************************************)
ReadPair(outcome, option, value) ==
    CASE ~IsOk(outcome) -> outcome
      [] IsOk(outcome) /\ option = "MATCH" -> Ok([outcome[2] EXCEPT !.pattern = value])
      [] IsOk(outcome) /\ option = "COUNT" ->
            IF ~IsOk(parse_i64(value)) THEN parse_i64(value)
            ELSE IF Ints[value] <= 0 THEN SyntaxError
            ELSE Ok([outcome[2] EXCEPT !.count = Ints[value]])
      [] OTHER -> SyntaxError

scan_options(line) ==
    LET read[i \in 0..(Len(line) \div 2)] ==
            IF i = 0 THEN Ok([pattern |-> None, count |-> ScanDefaultCount])
            ELSE ReadPair(read[i - 1], line[2 * i - 1], line[2 * i])
        pairs == read[Len(line) \div 2]
    IN IF IsOk(pairs) /\ Len(line) % 2 = 1 THEN SyntaxError ELSE pairs

(* parse_u64: a cursor in its one spelling.  The cursors asked for are among *)
(* the tokens of Ints; the upper half of u64 is left out.                    *)
parse_u64(token) ==
    IF token \in DOMAIN Ints /\ Ints[token] >= 0 THEN Ok(Ints[token])
    ELSE Err("invalid cursor")
=============================================================================
