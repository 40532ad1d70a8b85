------------------------------- MODULE Config --------------------------------
(***************************************************************************)
(* What the command line, the environment and the password file make of a *)
(* node's configuration: from_args_and_env, password_from and the parsers  *)
(* they call.  An argument is a tuple tagged by what it spells; a file is  *)
(* a sequence of bytes, of which only line ends and blanks matter.         *)
(***************************************************************************)
EXTENDS Integers, Sequences, SequencesExt

CONSTANTS Groups,       \* the flags a command line is made of, with their values
          MaxGroups,
          Files,        \* what the file named by --requirepass-file may hold
          Environments, \* what SEEDSTONE_REQUIREPASS may hold
          None, Refused,
          U64Max        \* u64::MAX, scaled down

VARIABLES groups, file, env, outcome

vars == <<groups, file, env, outcome>>

-----------------------------------------------------------------------------
(* parse_password_file.                                                    *)

EndsWith(bytes, byte) == bytes # <<>> /\ Last(bytes) = byte

StripSuffix(bytes, byte) == IF EndsWith(bytes, byte) THEN Front(bytes) ELSE bytes

\* A line without the CR of a CRLF.
StripCr(line) == StripSuffix(line, "cr")

\* `split`: the runs between line feeds; one more than there are of these.
Lines(bytes) ==
    LET add(lines, byte) == IF byte = "lf" THEN Append(lines, <<>>)
                            ELSE [lines EXCEPT ![Len(lines)] = Append(@, byte)]
    IN  FoldLeft(add, << <<>> >>, bytes)

\* The passwords, or a refusal.
parse_password_file(bytes) ==
    LET trimmed == IF EndsWith(bytes, "lf") THEN StripCr(Front(bytes)) ELSE bytes
        raw     == Lines(trimmed)
        lines   == [i \in DOMAIN raw |-> StripCr(raw[i])]
        blank(line) == \A i \in DOMAIN line : line[i] \in {"sp", "cr"}
    IN  IF Len(lines) > 2 \/ \E i \in DOMAIN lines : blank(lines[i]) THEN Refused
        ELSE <<"Ok", lines>>

\* Where passwords come from: file is None when the flag was not given.
password_from(path_given) ==
    LET from_env  == IF env = None THEN Refused ELSE parse_password_file(env)
        from_file == IF file = None THEN Refused ELSE parse_password_file(file)
    IN  CASE ~path_given /\ env = None -> <<"Ok", None, "None">>
          [] ~path_given /\ env # None ->
                IF from_env = Refused \/ Len(from_env[2]) # 1 THEN Refused
                ELSE <<"Ok", from_env[2], "Env">>
          [] path_given /\ env # None -> Refused
          [] OTHER -> IF from_file = Refused THEN Refused ELSE <<"Ok", from_file[2], "File">>

-----------------------------------------------------------------------------
(* parse_bytes.                                                            *)

\* Longest first; k and kb stand for every pair, their scales scaled down.
SUFFIXES == << <<<<"k", "b">>, 4>>, <<<<"k">>, 3>>, <<<<"b">>, 1>> >>

\* A size is its digits and the letters after them; a sign, a fraction or a
\* letter that is left once the suffix is stripped is no size.
parse_bytes(n, tail) ==
    LET found    == SelectInSeq(SUFFIXES, LAMBDA s : IsSuffix(s[1], tail))
        left     == IF found = 0 THEN tail ELSE SubSeq(tail, 1, Len(tail) - Len(SUFFIXES[found][1]))
        scale    == IF found = 0 THEN 1 ELSE SUFFIXES[found][2]
    IN  IF left # <<>> \/ n * scale > U64Max THEN None ELSE n * scale

-----------------------------------------------------------------------------
(* from_args_and_env.                                                      *)

Default == [bind |-> "loopback", max_clients |-> 1, ceiling |-> None, policy |-> None,
            password_file |-> FALSE, no_auth |-> FALSE, data_dir |-> None,
            fsync |-> "interval", fsync_given |-> FALSE]

TakesValue == {"--bind", "--max-clients", "--maxmemory", "--maxmemory-policy",
               "--requirepass-file", "--data-dir", "--fsync"}

\* A value that does not read as what its flag wants is refused.
Assign(cfg, flag, value) ==
    LET kind == value[1]
        size == IF kind = "size" THEN parse_bytes(value[2], value[3]) ELSE None
    IN  CASE flag = "--bind" /\ kind = "addr" -> [cfg EXCEPT !.bind = value[2]]
          [] flag = "--max-clients" /\ kind = "size" /\ value[3] = <<>> /\ value[2] > 0 ->
                [cfg EXCEPT !.max_clients = value[2]]
          [] flag = "--maxmemory" /\ size # None /\ size # 0 -> [cfg EXCEPT !.ceiling = size]
          [] flag = "--maxmemory-policy" /\ kind = "policy" -> [cfg EXCEPT !.policy = value[2]]
          [] flag = "--requirepass-file" -> [cfg EXCEPT !.password_file = TRUE]
          [] flag = "--data-dir" -> [cfg EXCEPT !.data_dir = value]
          [] flag = "--fsync" /\ kind = "fsync" ->
                [cfg EXCEPT !.fsync = value[2], !.fsync_given = TRUE]
          [] OTHER -> Refused

\* One turn of the loop, or the value the last one waits for: whatever argument
\* comes next is the value, a flag's name too.
Take(acc, arg) ==
    CASE acc.cfg = Refused -> acc
      [] acc.cfg # Refused /\ acc.flag # None ->
            [cfg |-> Assign(acc.cfg, acc.flag, arg), flag |-> None]
      [] acc.cfg # Refused /\ acc.flag = None /\ arg[1] = "flag" /\ arg[2] \in TakesValue ->
            [acc EXCEPT !.flag = arg[2]]
      [] acc.cfg # Refused /\ acc.flag = None /\ arg = <<"flag", "--no-auth">> ->
            [acc EXCEPT !.cfg.no_auth = TRUE]
      [] OTHER -> [acc EXCEPT !.cfg = Refused]

\* The flags, or a refusal; a flag may not be last without its value.
Read(args) == LET end == FoldLeft(Take, [cfg |-> Default, flag |-> None], args)
              IN  IF end.flag # None THEN Refused ELSE end.cfg

\* A bind outside loopback with neither a password nor --no-auth.
Open(cfg, passwords) == cfg.bind # "loopback" /\ passwords = None /\ ~cfg.no_auth

\* Mutant: a policy without a ceiling is let go.
ModeAnyway(cfg) == IF cfg.policy = None \/ cfg.ceiling = None THEN "allkeys-lru" ELSE cfg.policy

\* The policy is settled once every flag is read, so that it may come first.
Mode(cfg) == IF cfg.policy = None THEN "allkeys-lru"
             ELSE IF cfg.ceiling = None THEN Refused ELSE cfg.policy

from_args_and_env(args) ==
    LET cfg == Read(args)
        password == IF cfg = Refused THEN Refused ELSE password_from(cfg.password_file)
    IN  CASE cfg = Refused \/ password = Refused -> Refused
          [] OTHER ->
             IF \/ cfg.no_auth /\ password[2] # None
                \/ Open(cfg, password[2])
                \/ Mode(cfg) = Refused
             THEN Refused
             ELSE <<"Ok", [bind |-> cfg.bind, max_clients |-> cfg.max_clients,
                           ceiling |-> cfg.ceiling, mode |-> Mode(cfg),
                           passwords |-> password[2], source |-> password[3],
                           no_auth |-> cfg.no_auth, data_dir |-> cfg.data_dir,
                           fsync |-> cfg.fsync, fsync_given |-> cfg.fsync_given]>>

-----------------------------------------------------------------------------
Init == /\ groups \in UNION {[1..n -> Groups] : n \in 0..MaxGroups}
        /\ file \in Files /\ env \in Environments
        /\ outcome = None

main == /\ outcome = None
        /\ outcome' = from_args_and_env(FlattenSeq(groups))
        /\ UNCHANGED <<groups, file, env>>

Next == main

Spec == Init /\ [][Next]_vars

-----------------------------------------------------------------------------
(* Properties.                                                             *)

Flag(group) == group[1][2]

\* A group that says what its flag wants, taken alone.
WellFormed(group) ==
    LET value == group[2]
    IN  CASE Flag(group) = "--no-auth" -> Len(group) = 1
          [] Len(group) = 1 -> FALSE
          [] Flag(group) = "--bind" -> value[1] = "addr"
          [] Flag(group) \in {"--max-clients", "--maxmemory"} ->
                /\ value[1] = "size" /\ value[2] > 0
                /\ IF Flag(group) = "--max-clients" THEN value[3] = <<>>
                   ELSE /\ value[3] \in {<<>>, <<"b">>, <<"k">>, <<"k", "b">>}
                        /\ value[2] * (CASE value[3] = <<"k">> -> 3
                                         [] value[3] = <<"k", "b">> -> 4
                                         [] OTHER -> 1) <= U64Max
          [] Flag(group) = "--maxmemory-policy" -> value[1] = "policy"
          [] Flag(group) = "--fsync" -> value[1] = "fsync"
          [] OTHER -> TRUE

Complete == \A i \in DOMAIN groups : Flag(groups[i]) = "--no-auth" \/ Len(groups[i]) = 2

Given(flag) == {i \in DOMAIN groups : Flag(groups[i]) = flag}

\* The value the last group of a flag gives, whatever stands between.
LastOf(flag, default) ==
    IF Given(flag) = {} THEN default
    ELSE groups[CHOOSE i \in Given(flag) : \A j \in Given(flag) : j <= i][2][2]

\* Each flag means its last group, wherever it stands among the others: the
\* policy may come before the ceiling it needs, a password from two places is
\* refused, and nothing else is (from_args_and_env, password_from).
MeansItsLast ==
    outcome # None /\ Complete =>
        LET defended == Given("--requirepass-file") # {} \/ env # None
            one_source == /\ ~(Given("--requirepass-file") # {} /\ env # None)
                          /\ ~(Given("--no-auth") # {} /\ defended)
            readable == /\ Given("--requirepass-file") # {} =>
                               file # None /\ parse_password_file(file) # Refused
                        /\ env # None => /\ parse_password_file(env) # Refused
                                         /\ Len(parse_password_file(env)[2]) = 1
        IN  /\ outcome # Refused <=>
                   /\ \A i \in DOMAIN groups : WellFormed(groups[i])
                   /\ one_source /\ readable
                   /\ LastOf("--bind", "loopback") = "loopback" \/ defended \/ Given("--no-auth") # {}
                   /\ Given("--maxmemory-policy") # {} => Given("--maxmemory") # {}
            /\ outcome # Refused =>
                   /\ outcome[2].bind = LastOf("--bind", "loopback")
                   /\ outcome[2].mode = LastOf("--maxmemory-policy", "allkeys-lru")
                   /\ outcome[2].max_clients = LastOf("--max-clients", 1)
                   /\ outcome[2].fsync = LastOf("--fsync", "interval")

\* A node that starts on an address outside loopback has a password, or was
\* told --no-auth, however the line is garbled by flags without their values
\* (from_args_and_env).
OpenOnPurpose ==
    outcome # None /\ outcome # Refused /\ outcome[2].bind # "loopback" =>
        outcome[2].passwords # None \/ (outcome[2].no_auth /\ Given("--no-auth") # {})

Dos(bytes) == FlattenSeq([i \in DOMAIN bytes |->
                  IF bytes[i] = "lf" THEN <<"cr", "lf">> ELSE <<bytes[i]>>])

\* A file reads the same with either line end and with or without one at its
\* end, and what it says is its lines, spaces and all (parse_password_file).
LineEndsUnseen ==
    file # None /\ "cr" \notin Range(file) =>
        LET said == parse_password_file(file)
        IN  /\ said = parse_password_file(Dos(file))
            /\ ~EndsWith(file, "lf") => said = parse_password_file(Append(file, "lf"))
            /\ said # Refused => said[2] = Lines(StripSuffix(file, "lf"))
=============================================================================
