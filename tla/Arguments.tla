----------------------------- MODULE Arguments ------------------------------
(***************************************************************************)
(* A client types the options of a SET one after another, or asks for an   *)
(* expiry, while the wall clock runs: the inputs of module Options.        *)
(***************************************************************************)
EXTENDS Options, FiniteSets, SequencesExt

CONSTANTS Junk,        \* tokens that are no option
          MaxOptions   \* bound: options on one line

VARIABLES options,     \* the options typed so far, each with its value
          asked,       \* the last expiry request: <<verb, token>>, or <<>>
          now          \* the node's clock in milliseconds

vars == <<options, asked, now>>

Values == DOMAIN Ints \cup Junk

Plain == {"KEEPTTL", "NX", "XX", "GET"}

(* What a client can type: options, options cut short, and junk. *)
Typed == {<<word>> : word \in Plain \cup DOMAIN expiry_unit \cup Junk}
         \cup {<<unit, value>> : unit \in DOMAIN expiry_unit, value \in Values}

Verbs == {"EX", "PX", "EXAT", "PXAT", "SETEX", "PSETEX", "EXPIRE", "PEXPIRE",
          "EXPIREAT", "PEXPIREAT"}

(* The span in milliseconds each verb hands on, as its handler computes it. *)
Span(verb, token, clock) ==
    LET times(outcome, unit) == IF IsOk(outcome) THEN Ok(outcome[2] * unit) ELSE outcome
    IN CASE verb \in DOMAIN expiry_unit -> SetExpiry(verb, token, clock)
         [] verb = "SETEX" -> times(set_expire_value(token, MAX_EXPIRE_SECONDS, Unit, clock), Unit)
         [] verb = "PSETEX" -> set_expire_value(token, MAX_EXPIRE_MILLIS, 1, clock)
         [] verb = "EXPIRE" -> times(expire_seconds(token, clock), Unit)
         [] verb = "PEXPIRE" -> expire_millis(token, clock)
         [] verb = "EXPIREAT" -> absolute_deadline_span(token, Unit, clock)
         [] verb = "PEXPIREAT" -> absolute_deadline_span(token, 1, clock)

Line == FlattenSeq(options)

-----------------------------------------------------------------------------
(* The clock of a real node is past its first second: I64Max % Unit. *)
Init ==
    /\ options = <<>> /\ asked = <<>>
    /\ now \in (I64Max % Unit)..LatestClock

(* An option cut short can only be the last one. *)
Type(option) ==
    /\ Len(options) < MaxOptions
    /\ options # <<>> => Last(options) \notin {<<unit>> : unit \in DOMAIN expiry_unit}
    /\ asked = <<>>
    /\ options' = Append(options, option)
    /\ UNCHANGED <<asked, now>>

Ask(verb, token) ==
    /\ options = <<>>
    /\ asked' = <<verb, token>>
    /\ UNCHANGED <<options, now>>

Tick ==
    /\ now < LatestClock
    /\ now' = now + 1
    /\ UNCHANGED <<options, asked>>

Next ==
    \/ \E option \in Typed : Type(option)
    \/ \E verb \in Verbs, token \in Values : Ask(verb, token)
    \/ Tick

Spec == Init /\ [][Next]_vars

-----------------------------------------------------------------------------
(* The options of the line, as a set: what the order cannot change. *)
Given == Range(options)

ExpiryNames == {option[1] : option \in {o \in Given : o[1] \in DOMAIN expiry_unit}}
               \cup {option[1] : option \in Given \cap {<<"KEEPTTL">>}}

WellFormed ==
    /\ \A option \in Given :
          \/ option[1] \in Plain
          \/ option[1] \in DOMAIN expiry_unit /\ Len(option) = 2
    /\ Cardinality(ExpiryNames) <= 1
    /\ ~({<<"NX">>, <<"XX">>} \subseteq Given)

(***************************************************************************)
(* set_options accepts a line exactly when it repeats no expiry option     *)
(* under another name, asks for NX or XX and not both, and every option is *)
(* known and complete; whatever their order, the flags it returns are the  *)
(* ones given, the last value of a repeated expiry option counts, and a    *)
(* malformed line is a syntax error even when its number is bad as well.   *)
(***************************************************************************)
OptionsMean ==
    LET outcome == set_options(Line, now)
        timed == SelectSeq(options, LAMBDA o : Len(o) = 2)
        span == SetExpiry(Last(timed)[1], Last(timed)[2], now)
    IN IF ~WellFormed THEN outcome = SyntaxError
       ELSE IF timed # <<>> /\ ~IsOk(span) THEN outcome = span
       ELSE /\ IsOk(outcome)
            /\ outcome[2].get = (<<"GET">> \in Given)
            /\ outcome[2].keep_ttl = (<<"KEEPTTL">> \in Given)
            /\ \A cond \in {"NX", "XX"} : (outcome[2].cond = cond) = (<<cond>> \in Given)
            /\ IF timed = <<>> THEN outcome[2].expiry = None
               ELSE outcome[2].expiry = span[2] /\ ~outcome[2].keep_ttl

(* The moment a client who asks now means, in milliseconds. *)
Meant(verb, value) ==
    CASE verb \in {"EX", "SETEX", "EXPIRE"} -> now + value * Unit
      [] verb \in {"PX", "PSETEX", "PEXPIRE"} -> now + value
      [] verb \in {"EXAT", "EXPIREAT"} -> value * Unit
      [] verb \in {"PXAT", "PEXPIREAT"} -> value

(* SET and its shorthands want a positive number, EXPIRE takes any. *)
Positive(verb) == verb \in {"EX", "PX", "EXAT", "PXAT", "SETEX", "PSETEX"}

(***************************************************************************)
(* A number is refused exactly when the moment it names is no i64 of       *)
(* milliseconds (or SET was given none above zero, or EXPIRE a span whose  *)
(* milliseconds are no i64), and an accepted one always ends at the moment *)
(* meant, or at once when that has passed: the shortcut past the clock     *)
(* never lets a span through that overflows, and no span that fits is      *)
(* turned away.                                                            *)
(***************************************************************************)
MomentKept ==
    asked # <<>> /\ asked[2] \in DOMAIN Ints =>
        LET verb == asked[1]
            value == Ints[asked[2]]
            span == Span(verb, asked[2], now)
            fits == /\ Meant(verb, value) <= I64Max
                    /\ verb = "EXPIRE" => value >= -MAX_EXPIRE_SECONDS
                    /\ verb \in {"EXPIREAT"} => value * Unit >= -I64Max - 1
                    /\ Positive(verb) => value > 0
        IN /\ IsOk(span) = fits
           /\ fits => IF Meant(verb, value) >= now THEN now + span[2] = Meant(verb, value)
                      ELSE span[2] <= 0
=============================================================================
