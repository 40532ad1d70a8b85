------------------------------ MODULE Dispatch ------------------------------
(***************************************************************************)
(* From a request to what the connection does with it: the command table   *)
(* and its handlers (seedstone-service/src/dispatch.rs), the ones for      *)
(* HELLO, AUTH and the container commands (hello.rs, auth.rs,              *)
(* containers.rs), and the gate an unauthenticated connection stands       *)
(* behind.                                                                 *)
(*                                                                         *)
(* A request is the sequence of its bulk strings, each a token, with       *)
(* command and option names in capitals.  A node is a record of what the   *)
(* handlers read of it: passwords, persistence, last_save and now.  An     *)
(* action and a frame are tuples headed by their variant's name, and so is *)
(* a command.                                                              *)
(***************************************************************************)
EXTENDS Options, Functions, FiniteSets

CONSTANTS Bytes,        \* the bytes a token spells, where they matter
          CHUNK_COMMANDS

Simple(text) == <<"Simple", text>>
Bulk(bytes) == <<"Bulk", bytes>>
Integer(n) == <<"Integer", n>>
Array(entries) == <<"Array", entries>>
safe_error(message) == <<"Error", message>>

OkFrame == Simple("OK")

Failure(message) == <<"Reply", safe_error(message)>>

Reply(frame) == <<"Reply", frame>>

wrong_arity == Failure("arity")

(* A handler's `?`: the message of an Err is the reply. *)
OrFailure(outcome, action) == IF IsOk(outcome) THEN action ELSE Failure(outcome[2])

Command(cmd) == <<"Dispatch", cmd>>

-----------------------------------------------------------------------------
PrefixMatches(secret, candidate) ==
    \A i \in DOMAIN candidate : i \in DOMAIN secret /\ secret[i] = candidate[i]

(* Secret::matches: every byte is looked at; a missing one never matches. *)
SecretMatches(secret, candidate) ==
    LET Max(m, n) == IF m > n THEN m ELSE n
        At(bytes, i, missing) == IF i \in DOMAIN bytes THEN bytes[i] ELSE missing
    IN /\ Len(secret) = Len(candidate)
       /\ \A i \in 1..Max(Len(secret), Len(candidate)) :
              At(secret, i, 0) = At(candidate, i, 1)

(* Passwords::matches: the current password, or the next one if there is one. *)
PasswordsMatch(passwords, candidate) ==
    \E i \in DOMAIN passwords : SecretMatches(Bytes[passwords[i]], Bytes[candidate])

Credentials(node, userOk, pass, frame) ==
    IF node.passwords = <<>> THEN Failure("not configured")
    ELSE IF userOk /\ PasswordsMatch(node.passwords, pass)
    THEN <<"Authenticate", TRUE, frame>>
    ELSE <<"Authenticate", FALSE, safe_error("WRONGPASS")>>

Auth(args, node) ==
    CASE Len(args) = 1 -> Credentials(node, TRUE, args[1], OkFrame)
      [] Len(args) = 2 -> Credentials(node, args[1] = "default", args[2], OkFrame)
      [] OTHER -> wrong_arity

hello_frame == Array(<<Bulk("server"), Bulk("version"), Integer(2), Bulk("mode"), Bulk("master")>>)

Refuse(message) == <<"Refuse", safe_error(message)>>

(* hello_auth: no options, or AUTH with a user and a password. *)
hello_auth(options, node) ==
    CASE options = <<>> -> <<"Hello", hello_frame>>
      [] Len(options) = 3 /\ options[1] = "AUTH" ->
            Credentials(node, options[2] = "default", options[3], hello_frame)
      [] OTHER -> Refuse("syntax")

hello(args, node) ==
    IF args = <<>> THEN <<"Hello", hello_frame>>
    ELSE IF ~IsOk(parse_i64(args[1])) THEN Refuse("not an integer")
    ELSE IF Ints[args[1]] # 2 THEN Refuse("NOPROTO")
    ELSE hello_auth(Tail(args), node)

-----------------------------------------------------------------------------
(* The container commands. *)
unknown_subcommand == Failure("subcommand")

command(args, known) ==
    CASE args = <<>> -> Reply(Array(<<>>))
      [] args # <<>> /\ args[1] = "COUNT" ->
            IF Len(args) = 1 THEN Reply(Integer(known)) ELSE wrong_arity
      [] args # <<>> /\ args[1] = "DOCS" -> Reply(Array(<<>>))
      [] OTHER -> unknown_subcommand

client(args) ==
    LET arity == [SETNAME |-> 1, SETINFO |-> 2] IN
    CASE args = <<>> -> wrong_arity
      [] args # <<>> /\ args[1] \in DOMAIN arity ->
            IF Len(args) = 1 + arity[args[1]] THEN Reply(OkFrame) ELSE wrong_arity
      [] OTHER -> unknown_subcommand

CONFIG_PARAMETERS ==
    <<"maxmemory", "maxmemory-policy", "maxclients", "databases", "requirepass",
      "slowlog-log-slower-than", "slowlog-max-len", "latency-monitor-threshold", "bind", "port">>

(* Each parameter any of the globs matches, in table order; the value beside *)
(* it is left out, and the globs asked for here are names and the star.      *)
config(args) ==
    CASE args = <<>> -> wrong_arity
      [] args # <<>> /\ args[1] # "GET" -> unknown_subcommand
      [] args = <<"GET">> -> wrong_arity
      [] OTHER -> Reply(Array(SelectSeq(CONFIG_PARAMETERS,
                     LAMBDA name : Range(Tail(args)) \cap {name, "*"} # {})))

slowlog(args) ==
    CASE args = <<>> -> wrong_arity
      [] args # <<>> /\ args[1] = "GET" ->
            CASE Len(args) = 1 -> Reply(Array(<<>>))
              [] Len(args) = 2 -> OrFailure(parse_i64(args[2]), Reply(Array(<<>>)))
              [] OTHER -> wrong_arity
      [] args # <<>> /\ args[1] \in {"LEN", "RESET"} ->
            IF Len(args) > 1 THEN wrong_arity
            ELSE Reply(IF args[1] = "LEN" THEN Integer(0) ELSE OkFrame)
      [] OTHER -> unknown_subcommand

latency(args) ==
    LET arity == [LATEST |-> {1}, HISTORY |-> {2}, RESET |-> Nat, HISTOGRAM |-> Nat] IN
    CASE args = <<>> -> wrong_arity
      [] args # <<>> /\ args[1] \in DOMAIN arity ->
            IF Len(args) \notin arity[args[1]] THEN wrong_arity
            ELSE Reply(IF args[1] = "RESET" THEN Integer(0) ELSE Array(<<>>))
      [] OTHER -> unknown_subcommand

-----------------------------------------------------------------------------
(* The commands of the keyspace, each with the argument shapes it takes. *)
OneKey(args, cmd) == IF Len(args) = 1 THEN Command(<<cmd, args[1]>>) ELSE wrong_arity

Get(args) == OneKey(args, "Get")

Set(args, node) ==
    IF Len(args) < 2 THEN wrong_arity
    ELSE LET options == set_options(SubSeq(args, 3, Len(args)), node.now)
         IN OrFailure(options, Command(<<"Set", args[1], args[2], options[2]>>))

(* per_key: a sum over one key is that key's reply; an array never is. *)
per_key(args, name, fold, cmd) ==
    CASE args = <<>> -> wrong_arity
      [] Len(args) = 1 /\ fold = "Sum" -> Command(<<cmd, args[1]>>)
      [] OTHER -> <<"FanOut", [i \in DOMAIN args |-> <<cmd, args[i]>>], name, fold>>

SeveralKeys(name, args) ==
    CASE name = "MGET" -> per_key(args, "mget", "Array", "Get")
      [] name = "DEL" -> per_key(args, "del", "Sum", "Del")
      [] name = "EXISTS" -> per_key(args, "exists", "Sum", "Exists")

(* A key and a number the edge resolves before the shard sees it. *)
KeyAndSpan(args, cmd, span) ==
    IF Len(args) # 2 THEN wrong_arity
    ELSE OrFailure(span, Command(<<cmd, args[1], span[2]>>))

Deadlines(name, args, node) ==
    LET value == IF Len(args) = 2 THEN args[2] ELSE None IN
    CASE name = "EXPIRE" -> KeyAndSpan(args, "Expire", expire_seconds(value, node.now))
      [] name = "PEXPIRE" -> KeyAndSpan(args, "PExpire", expire_millis(value, node.now))
      [] name = "EXPIREAT" ->
            KeyAndSpan(args, "ExpireAt", absolute_deadline_span(value, Unit, node.now))
      [] name = "PEXPIREAT" ->
            KeyAndSpan(args, "PExpireAt", absolute_deadline_span(value, 1, node.now))
      [] name = "TTL" -> OneKey(args, "Ttl")
      [] name = "PTTL" -> OneKey(args, "PTtl")
      [] name = "PERSIST" -> OneKey(args, "Persist")

IncrBy(args) ==
    KeyAndSpan(args, "IncrBy", parse_i64(IF Len(args) = 2 THEN args[2] ELSE None))

TypeAndLength(name, args) == OneKey(args, IF name = "TYPE" THEN "Type" ELSE "StrLen")

(* SETEX and PSETEX: key, span, value. *)
TimedSet(args, cmd, ceiling, unit, node) ==
    IF Len(args) # 3 THEN wrong_arity
    ELSE LET span == set_expire_value(args[2], ceiling, unit, node.now)
         IN OrFailure(span, Command(<<cmd, args[1], span[2], args[3]>>))

SetEx(args, node) == TimedSet(args, "SetEx", MAX_EXPIRE_SECONDS, Unit, node)

PSetEx(args, node) == TimedSet(args, "PSetEx", MAX_EXPIRE_MILLIS, 1, node)

SetNx(args) == IF Len(args) = 2 THEN Command(<<"SetNx", args[1], args[2]>>) ELSE wrong_arity

Scan(args) ==
    IF args = <<>> THEN wrong_arity
    ELSE LET cursor == parse_u64(args[1])
             options == scan_options(Tail(args))
         IN OrFailure(cursor, OrFailure(options, <<"Scan", cursor[2], options[2]>>))

WholeKeyspace(name, args) ==
    CASE name = "DBSIZE" ->
            IF args = <<>> THEN <<"Every", <<"DbSize">>, "Sum">> ELSE wrong_arity
      [] name = "FLUSHDB" ->
            IF args = <<>> THEN <<"Every", <<"FlushDb">>, "AllOk">> ELSE wrong_arity
      [] name = "KEYS" -> IF Len(args) = 1 THEN <<"Keys", args[1]>> ELSE wrong_arity
      [] name = "SCAN" -> Scan(args)

(* snapshot: refused where nothing is persisted. *)
snapshot(node, wait) ==
    IF ~node.persistence THEN Failure("persistence off")
    ELSE <<"Every", <<"Snapshot", wait>>, IF wait THEN "AllOk" ELSE "Started">>

Saves(name, args, node) ==
    CASE name = "BGSAVE" ->
            IF args \in {<<>>, <<"SCHEDULE">>} THEN snapshot(node, FALSE) ELSE Failure("syntax")
      [] name = "SAVE" -> IF args = <<>> THEN snapshot(node, TRUE) ELSE wrong_arity
      [] name = "SHUTDOWN" ->
            IF args \in {<<>>, <<"NOSAVE">>, <<"SAVE">>} THEN <<"Shutdown">> ELSE Failure("syntax")
      [] name = "LASTSAVE" ->
            IF args # <<>> THEN wrong_arity
            ELSE IF ~node.persistence THEN Failure("persistence off")
            ELSE Reply(Integer(node.last_save))

PingEcho(name, args) ==
    CASE name = "PING" /\ args = <<>> -> Reply(Simple("PONG"))
      [] Len(args) = 1 -> Reply(Bulk(args[1]))
      [] OTHER -> wrong_arity

Containers(name, args, known) ==
    CASE name = "INFO" -> <<"Info", args>>
      [] name = "COMMAND" -> command(args, known)
      [] name = "CLIENT" -> client(args)
      [] name = "CONFIG" -> config(args)
      [] name = "SLOWLOG" -> slowlog(args)
      [] name = "LATENCY" -> latency(args)
      [] name = "QUIT" -> IF args = <<>> THEN <<"ReplyThenClose", OkFrame>> ELSE wrong_arity

COMMANDS ==
    {"GET", "SET", "MGET", "DEL", "EXISTS", "EXPIRE", "TTL", "PEXPIRE", "PERSIST", "PTTL",
     "EXPIREAT", "PEXPIREAT", "INCRBY", "TYPE", "STRLEN", "SETEX", "SETNX", "PSETEX", "DBSIZE",
     "KEYS", "SCAN", "FLUSHDB", "BGSAVE", "SAVE", "SHUTDOWN", "LASTSAVE", "PING", "ECHO", "AUTH",
     "HELLO", "INFO", "COMMAND", "CLIENT", "CONFIG", "SLOWLOG", "LATENCY", "QUIT"}

(***************************************************************************)
(* action_for: an empty array is an error, an unknown name is one, and a   *)
(* known one goes to its handler.                                          *)
(***************************************************************************)
frame_to_action(request, node) ==
    LET name == request[1]
        args == Tail(request)
    IN CASE request = <<>> -> Failure("empty command")
         [] request # <<>> /\ name \notin COMMANDS -> Failure("unknown command")
         [] name = "GET" -> Get(args)
         [] name = "SET" -> Set(args, node)
         [] name \in {"MGET", "DEL", "EXISTS"} -> SeveralKeys(name, args)
         [] name \in {"EXPIRE", "PEXPIRE", "EXPIREAT", "PEXPIREAT", "TTL", "PTTL", "PERSIST"} ->
               Deadlines(name, args, node)
         [] name = "INCRBY" -> IncrBy(args)
         [] name \in {"TYPE", "STRLEN"} -> TypeAndLength(name, args)
         [] name = "SETEX" -> SetEx(args, node)
         [] name = "PSETEX" -> PSetEx(args, node)
         [] name = "SETNX" -> SetNx(args)
         [] name \in {"DBSIZE", "FLUSHDB", "KEYS", "SCAN"} -> WholeKeyspace(name, args)
         [] name \in {"BGSAVE", "SAVE", "SHUTDOWN", "LASTSAVE"} -> Saves(name, args, node)
         [] name \in {"PING", "ECHO"} -> PingEcho(name, args)
         [] name = "AUTH" -> Auth(args, node)
         [] name = "HELLO" -> hello(args, node)
         [] OTHER -> Containers(name, args, Cardinality(COMMANDS))

(***************************************************************************)
(* gated: before AUTH, only AUTH itself, a refusal that tells nothing of   *)
(* the node, and QUIT get through.                                         *)
(***************************************************************************)
gated(action, authenticated) ==
    CASE authenticated -> action
      [] ~authenticated /\ action[1] \in {"Authenticate", "ReplyThenClose", "Refuse"} -> action
      [] ~authenticated /\ action[1] = "Hello" -> Failure("NOAUTH HELLO")
      [] OTHER -> Failure("NOAUTH")
=============================================================================
