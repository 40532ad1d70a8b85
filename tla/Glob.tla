-------------------------------- MODULE Glob ---------------------------------
(***************************************************************************)
(* glob::matches: one pass over the subject with one star remembered,      *)
(* checked against what a pattern means.  Bytes are numbers in the order   *)
(* of ASCII.                                                               *)
(***************************************************************************)
EXTENDS Integers, Sequences

CONSTANTS PatternBytes, SubjectBytes, MaxPattern, MaxSubject

VARIABLES pattern, subject,
          p, s,           \* consumed of the pattern and of the subject
          star, resume,   \* the last star, and what it has swallowed up to
          verdict         \* "none" until the pass ends

vars == <<pattern, subject, p, s, star, resume, verdict>>

Star == 42
Dash == 45
One == 63
Open == 91
Escape == 92
Close == 93
Not == 94

NoStar == -1

-----------------------------------------------------------------------------
\* class: from position i of the class's members on, whether byte is one of
\* them, and where the class ends.
Members(pat, byte) ==
    LET n == Len(pat)
        walk[i \in 1..(n + 1)] ==
            IF i = n + 1 THEN [hit |-> FALSE, end |-> i]
            ELSE IF pat[i] = Close THEN [hit |-> FALSE, end |-> i + 1]
            ELSE LET escaped == pat[i] = Escape /\ i < n
                     range   == ~escaped /\ i + 2 <= n /\ pat[i + 1] = Dash
                     next    == walk[i + (IF range THEN 3 ELSE IF escaped THEN 2 ELSE 1)]
                     here    == IF escaped THEN pat[i + 1] = byte
                                ELSE IF range THEN \/ byte \in pat[i]..pat[i + 2]
                                                   \/ byte \in pat[i + 2]..pat[i]
                                ELSE pat[i] = byte
                 IN  [next EXCEPT !.hit = here \/ @]
    IN  walk

class(from, byte) ==
    LET negated == from + 1 <= Len(pattern) /\ pattern[from + 1] = Not
        members == Members(pattern, byte)[from + (IF negated THEN 2 ELSE 1)]
    IN  [hit |-> members.hit # negated, width |-> members.end - from]

\* The attempt is given back to the last star, which swallows one byte more.
backtrack ==
    IF star = NoStar
    THEN verdict' = "no" /\ UNCHANGED <<p, s, star, resume>>
    ELSE /\ p' = star + 1 /\ resume' = resume + 1 /\ s' = resume + 1
         /\ UNCHANGED <<star, verdict>>

Advance(width) == p' = p + width /\ s' = s + 1 /\ UNCHANGED <<star, resume, verdict>>

AtStar == /\ star' = p /\ resume' = s /\ p' = p + 1
          /\ UNCHANGED <<s, verdict>>

\* One turn of the loop.
Turn ==
    /\ verdict = "none" /\ s < Len(subject)
    /\ IF p >= Len(pattern) THEN backtrack
       ELSE LET head == pattern[p + 1]
                byte == subject[s + 1]
            IN  CASE head = Star -> AtStar
                  [] head = One -> Advance(1)
                  [] head = Open ->
                        LET c == class(p + 1, byte)
                        IN  IF c.hit THEN Advance(c.width) ELSE backtrack
                  [] head = Escape /\ p + 1 < Len(pattern) ->
                        IF pattern[p + 2] = byte THEN Advance(2) ELSE backtrack
                  [] OTHER -> IF head = byte THEN Advance(1) ELSE backtrack
    /\ UNCHANGED <<pattern, subject>>

\* The subject is spent: what is left of the pattern must be stars.
End ==
    /\ verdict = "none" /\ s >= Len(subject)
    /\ verdict' = IF \A i \in (p + 1)..Len(pattern) : pattern[i] = Star THEN "yes" ELSE "no"
    /\ UNCHANGED <<pattern, subject, p, s, star, resume>>

Strings(bytes, n) == UNION {[1..k -> bytes] : k \in 0..n}

Init == /\ pattern \in Strings(PatternBytes, MaxPattern)
        /\ subject \in Strings(SubjectBytes, MaxSubject)
        /\ p = 0 /\ s = 0 /\ star = NoStar /\ resume = 0
        /\ verdict = "none"

Next == Turn \/ End

Spec == Init /\ [][Next]_vars /\ WF_vars(Next)

-----------------------------------------------------------------------------
(* Properties.                                                             *)

\* What the pattern from i on means for the subject from j on: a star is any
\* run, every other element one byte.
Meant ==
    LET m == Len(pattern)
        n == Len(subject)
        means[i \in 0..m, j \in 0..n] ==
            IF i = m THEN j = n
            ELSE LET head == pattern[i + 1]
                 IN  IF head = Star THEN means[i + 1, j] \/ (j < n /\ means[i, j + 1])
                     ELSE IF j = n THEN FALSE
                     ELSE LET byte == subject[j + 1]
                          IN  CASE head = One -> means[i + 1, j + 1]
                                [] head = Open ->
                                      LET c == class(i + 1, byte)
                                      IN  c.hit /\ means[i + c.width, j + 1]
                                [] head = Escape /\ i + 1 < m ->
                                      pattern[i + 2] = byte /\ means[i + 2, j + 1]
                                [] OTHER -> head = byte /\ means[i + 1, j + 1]
    IN  means[0, 0]

\* One remembered star is enough: the pass answers what trying every run for
\* every star would (matches, backtrack).
MatchesMeant == verdict # "none" => (verdict = "yes") = Meant
=============================================================================
