------------------------------- MODULE MCText --------------------------------
(* The code that reads what others write: the decoder of the wire, the       *)
(* options and expiries of a command, the patterns of KEYS and SCAN, and the *)
(* command line with the password file. A run picks one of them and its      *)
(* input first.                                                              *)
EXTENDS Integers, Sequences, TLC

CONSTANTS Absent, Rejected, CR, LF, NotUtf8

VARIABLES part,
          wire, sent, limits, fed, buf, state, delivered, status,
          options, asked, now,
          pattern, subject, p, s, star, resume, verdict,
          groups, file, env, outcome

decoderVars == <<wire, sent, limits, fed, buf, state, delivered, status>>
argumentVars == <<options, asked, now>>
globVars == <<pattern, subject, p, s, star, resume, verdict>>
configVars == <<groups, file, env, outcome>>

-----------------------------------------------------------------------------
(* The wire: frames as encode writes them, and the same gone wrong.         *)

E == INSTANCE RespDecoder WITH FrameSize <- 2, I64Max <- 127, MAX_BULK_LEN <- 3,
         MAX_ARRAY_LEN <- 2, MAX_ARRAY_DEPTH <- 2, MaxChunk <- 12, Wires <- {}

X == <<"Bulk", <<"x">>>>

Batches == {
    <<X, <<"Integer", -2>>, <<"Null">>>>,
    <<<<"Array", <<X, <<"Array", <<>>>>>>>>, <<"Simple", <<"x", CR, "x">>>>>>,
    <<<<"Array", <<<<"Array", <<<<"Integer", 1>>>>>>, <<"Bulk", <<CR, LF>>>>>>>>>>,
    <<<<"Error", <<>>>>, <<"Bulk", <<>>>>, <<"Integer", 10>>>>}

Ample == [max_frame_bytes |-> 30, max_in_memory |-> 15]
Tight == [max_frame_bytes |-> 10, max_in_memory |-> 7]

\* A batch as encode writes it, with empty lines before and after it or not.
Sound == {[wire |-> lead \o E!encode(b) \o trail, sent |-> b, limits |-> Ample] :
             b \in Batches, lead \in {<<>>, <<CR, LF>>}, trail \in {<<>>, <<CR, LF>>}}

\* The same with one byte replaced, or cut short.
Broken(w) == {[w EXCEPT ![i] = c] : i \in DOMAIN w, c \in {CR, LF, NotUtf8, "$", "*", "0", "3", "-"}}
             \cup {SubSeq(w, 1, i) : i \in DOMAIN w}

\* Streams at the limits: too deep, too long, too much memory, too many bytes.
Extreme == {
    <<"*", "1", CR, LF, "*", "1", CR, LF, "*", "1", CR, LF, "*", "0", CR, LF>>,
    <<"*", "3", CR, LF>>,
    E!encode(<<<<"Array", <<<<"Array", <<X, X>>>>, <<"Array", <<X, X>>>>>>>>>>),
    <<"+", "x", "x", "x", "x", "x", "x", "x", "x", "x", CR, LF>>,
    <<":", "9", "9", "9", CR, LF>>}

AllWires == Sound \cup {[wire |-> w, sent |-> <<>>, limits |-> Tight] :
                            w \in Extreme \cup UNION {Broken(E!encode(b)) : b \in Batches}}

D == INSTANCE RespDecoder WITH FrameSize <- 2, I64Max <- 127, MAX_BULK_LEN <- 3,
         MAX_ARRAY_LEN <- 2, MAX_ARRAY_DEPTH <- 2, MaxChunk <- 12, Wires <- AllWires

-----------------------------------------------------------------------------
(* Options and expiries: every i64 of a small scale, or a few of them.      *)

Largest == 23

EveryInt == [token \in {ToString(n) : n \in (-Largest - 1)..Largest} |->
                CHOOSE n \in (-Largest - 1)..Largest : ToString(n) = token]

FewInts == ("-1" :> -1) @@ ("0" :> 0) @@ ("2" :> 2) @@ ("max" :> Largest)

Expiries == INSTANCE Arguments WITH I64Max <- Largest, Unit <- 3, LatestClock <- 7,
                Ints <- EveryInt, ScanDefaultCount <- 10, Junk <- {"junk"}, MaxOptions <- 0

Options == INSTANCE Arguments WITH I64Max <- Largest, Unit <- 3, LatestClock <- 4,
               Ints <- FewInts, ScanDefaultCount <- 10, Junk <- {"junk"}, MaxOptions <- 3

-----------------------------------------------------------------------------
(* Patterns: many stars over two letters, and every kind of element.        *)

Stars == INSTANCE Glob WITH PatternBytes <- {42, 97, 98}, SubjectBytes <- {97, 98},
             MaxPattern <- 5, MaxSubject <- 5

Syntax == INSTANCE Glob WITH PatternBytes <- {42, 45, 63, 91, 92, 93, 94, 97, 98},
              SubjectBytes <- {93, 97, 98}, MaxPattern <- 5, MaxSubject <- 2

-----------------------------------------------------------------------------
(* Command lines of up to three flags, and password files of up to six bytes. *)

F(flag) == <<"flag", flag>>

\* Every flag, its values good and bad, and flags that lack theirs.
AllGroups ==
    {<<F("--bind"), <<"addr", a>>>> : a \in {"loopback", "outside"}}
    \cup {<<F("--max-clients"), <<"size", n, <<>>>>>> : n \in {0, 2}}
    \cup {<<F("--maxmemory"), <<"size", n, tail>>>> :
            n \in {0, 3}, tail \in {<<>>, <<"k">>, <<"k", "b">>, <<"b", "k">>}}
    \cup {<<F("--maxmemory-policy"), <<"policy", "noeviction">>>>,
          <<F("--maxmemory-policy"), <<"policy", "allkeys-lru">>>>,
          <<F("--maxmemory-policy"), <<"fsync", "always">>>>,
          <<F("--fsync"), <<"fsync", "always">>>>, <<F("--fsync"), <<"fsync", "never">>>>,
          <<F("--requirepass-file"), <<"path", "f">>>>, <<F("--requirepass-file")>>,
          <<F("--data-dir"), <<"path", "d">>>>, <<F("--data-dir")>>,
          <<F("--bind")>>, <<F("--no-auth")>>, <<F("--unknown")>>}

Flags == INSTANCE Config WITH None <- Absent, Refused <- Rejected, Groups <- AllGroups, MaxGroups <- 3, U64Max <- 10,
             Files <- {Absent, <<"a", "lf">>, <<"lf">>}, Environments <- {Absent, <<"a">>, <<"a", "lf", "a">>}

LineEnds == INSTANCE Config WITH None <- Absent, Refused <- Rejected, Groups <- {<<F("--requirepass-file"), <<"path", "f">>>>},
                MaxGroups <- 1, U64Max <- 10, Environments <- {Absent},
                Files <- UNION {[1..n -> {"a", "sp", "lf", "cr"}] : n \in 0..6}

-----------------------------------------------------------------------------
NoDecoder == wire = Absent /\ sent = Absent /\ limits = Absent /\ fed = Absent /\ buf = Absent
             /\ state = Absent /\ delivered = Absent /\ status = Absent
NoArguments == options = Absent /\ asked = Absent /\ now = Absent
NoGlob == pattern = Absent /\ subject = Absent /\ p = Absent /\ s = Absent /\ star = Absent
          /\ resume = Absent /\ verdict = Absent
NoConfig == groups = Absent /\ file = Absent /\ env = Absent /\ outcome = Absent

TextInit ==
    \/ part = "decoder" /\ D!Init /\ NoArguments /\ NoGlob /\ NoConfig
    \/ part = "expiries" /\ Expiries!Init /\ NoDecoder /\ NoGlob /\ NoConfig
    \/ part = "options" /\ Options!Init /\ NoDecoder /\ NoGlob /\ NoConfig
    \/ part = "stars" /\ Stars!Init /\ NoDecoder /\ NoArguments /\ NoConfig
    \/ part = "syntax" /\ Syntax!Init /\ NoDecoder /\ NoArguments /\ NoConfig
    \/ part = "flags" /\ Flags!Init /\ NoDecoder /\ NoArguments /\ NoGlob
    \/ part = "line ends" /\ LineEnds!Init /\ NoDecoder /\ NoArguments /\ NoGlob

TextNext ==
    \/ part = "decoder" /\ D!Next /\ UNCHANGED <<part, argumentVars, globVars, configVars>>
    \/ part = "expiries" /\ Expiries!Next /\ UNCHANGED <<part, decoderVars, globVars, configVars>>
    \/ part = "options" /\ Options!Next /\ UNCHANGED <<part, decoderVars, globVars, configVars>>
    \/ part = "stars" /\ Stars!Next /\ UNCHANGED <<part, decoderVars, argumentVars, configVars>>
    \/ part = "syntax" /\ Syntax!Next /\ UNCHANGED <<part, decoderVars, argumentVars, configVars>>
    \/ part = "flags" /\ Flags!Next /\ UNCHANGED <<part, decoderVars, argumentVars, globVars>>
    \/ part = "line ends" /\ LineEnds!Next /\ UNCHANGED <<part, decoderVars, argumentVars, globVars>>

TextSpec == TextInit /\ [][TextNext]_<<part, decoderVars, argumentVars, globVars, configVars>>

-----------------------------------------------------------------------------
(* The properties of the readers, each while it is the one picked.         *)

\* The frames do not depend on how the stream was cut, and what encode writes
\* the decoder reads back, within its memory and its buffer
\* (RespDecoder!PiecesDoNotMatter, RoundTrip, MemoryCharged, BufferBounded).
PiecesDoNotMatter ==
    part = "decoder" =>
        D!PiecesDoNotMatter /\ D!RoundTrip /\ D!MemoryCharged /\ D!BufferBounded

\* What a client's words mean: an expiry is refused exactly when its moment is
\* no i64, and kept to the millisecond when it is not; the options of a SET mean
\* the same in any order; and a pattern matches what trying every run for every
\* star would (Arguments!MomentKept, OptionsMean, Glob!MatchesMeant).
WordsMean ==
    /\ part = "expiries" => Expiries!MomentKept
    /\ part = "options" => Options!OptionsMean
    /\ part = "stars" => Stars!MatchesMeant
    /\ part = "syntax" => Syntax!MatchesMeant

\* Each flag means its last group, wherever it stands; no node serves outside
\* loopback without a password unless told to; and a password file reads the
\* same with either line end (Config!MeansItsLast, OpenOnPurpose,
\* LineEndsUnseen).
ConfigMeans ==
    /\ part = "flags" => Flags!MeansItsLast /\ Flags!OpenOnPurpose
    /\ part = "line ends" => LineEnds!LineEndsUnseen
=============================================================================
