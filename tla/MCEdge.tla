------------------------------- MODULE MCEdge --------------------------------
(* The edge: a client's connection, the commands that touch several shards,  *)
(* and the buffers a connection holds. A run picks one of them first.        *)
EXTENDS ReadBuffer, TLC

VARIABLES part,
          inbox, undecoded, slots, batch, held, pc, waiting, replies, rendered, wire,
          authenticated, ran, lost, stop, errors, passwords, reloads, there, seen,
          keys, alive, saving, call, through, met, answered, writes, reply

connection == <<inbox, undecoded, slots, batch, held, pc, waiting, replies, rendered, wire,
                authenticated, ran, lost, stop, errors, passwords, reloads, there, seen>>
fanOut == <<keys, alive, saving, call, through, met, answered, writes, reply>>

-----------------------------------------------------------------------------
(* Connections.                                                             *)

Largest == 23

\* What the tokens of requests spell as numbers.
Ints == ("1" :> 1) @@ ("2" :> 2) @@ ("3" :> 3) @@ ("-1" :> -1) @@ ("max" :> Largest)

\* Three passwords, one the beginning of another.
Bytes == ("p" :> <<1, 2>>) @@ ("q" :> <<1>>) @@ ("r" :> <<1, 3>>)

Garbled == <<"garbled">>

\* Keyed commands, wide reads and sums, edge replies, closing ones.
PipelineRequests ==
    {<<"SET", "k1", "v">>, <<"MGET", "k1", "k2", "k1", "k2">>, <<"DEL", "k2", "k1">>, <<"DBSIZE">>,
     <<"QUIT">>, <<"SHUTDOWN">>, Garbled}

\* Every spelling of a login, and commands that must wait for one.
AuthRequests ==
    {<<"AUTH", "p">>, <<"AUTH", "default", "q">>, <<"AUTH", "other", "p">>,
     <<"HELLO", "2", "AUTH", "default", "r">>, <<"SET", "k1", "v">>, <<"SHUTDOWN">>}

\* Every command, in a shape it takes and in one it refuses.
SurfaceRequests ==
    {<<"GET", "k1">>, <<"GET">>, <<"SET", "k1", "v", "EX", "2", "NX">>, <<"SET", "k1", "v", "NX", "XX">>,
     <<"MGET", "k1">>, <<"MGET">>, <<"DEL", "k1">>, <<"EXISTS", "k1", "k2">>, <<"EXISTS">>,
     <<"EXPIRE", "k1", "-1">>, <<"EXPIRE", "k1", "max">>, <<"PEXPIRE", "k1", "3">>, <<"PEXPIRE", "k1">>,
     <<"EXPIREAT", "k1", "2">>, <<"EXPIREAT", "k1", "max">>, <<"PEXPIREAT", "k1", "max">>,
     <<"TTL", "k1">>, <<"PTTL", "k1">>, <<"PERSIST", "k1">>, <<"PERSIST">>,
     <<"INCRBY", "k1", "3">>, <<"INCRBY", "k1", "k1">>, <<"TYPE", "k1">>, <<"STRLEN", "k1">>,
     <<"SETEX", "k1", "1", "v">>, <<"SETEX", "k1", "-1", "v">>, <<"PSETEX", "k1", "max", "v">>,
     <<"SETNX", "k1", "v">>, <<"SETNX">>, <<"FLUSHDB">>, <<"FLUSHDB", "k1">>, <<"KEYS", "*">>,
     <<"SCAN", "1", "MATCH", "*", "COUNT", "2">>, <<"SCAN", "1", "COUNT", "-1">>, <<"SCAN", "-1">>,
     <<"BGSAVE">>, <<"BGSAVE", "SCHEDULE">>, <<"SAVE">>, <<"LASTSAVE">>, <<"SHUTDOWN", "NOSAVE">>,
     <<"SHUTDOWN", "k1">>, <<"ECHO", "v">>, <<"PING", "v", "v">>, <<"AUTH", "p">>, <<"HELLO">>,
     <<"HELLO", "k1">>, <<"HELLO", "2", "SETNAME">>, <<"INFO">>, <<"COMMAND", "COUNT">>,
     <<"COMMAND", "DOCS">>, <<"COMMAND", "k1">>, <<"CLIENT", "SETNAME", "v">>, <<"CLIENT", "SETINFO">>,
     <<"CLIENT">>, <<"CONFIG", "GET", "*">>, <<"CONFIG", "SET">>, <<"CONFIG">>, <<"SLOWLOG", "GET", "3">>,
     <<"SLOWLOG", "LEN">>, <<"SLOWLOG", "RESET">>, <<"LATENCY", "RESET">>, <<"LATENCY", "LATEST", "v">>,
     <<"LATENCY", "HISTORY", "v">>, <<>>, <<"NOSUCH">>}

\* Pipelines of three requests, cut into reads anywhere.
Pipeline == INSTANCE Connection WITH
    decoder <- undecoded, out <- rendered, I64Max <- Largest, Unit <- 3, LatestClock <- 4,
    ScanDefaultCount <- 10, CHUNK_COMMANDS <- 3, Persistence <- TRUE, REPLY_HIGH_WATER <- 2,
    Requests <- PipelineRequests, Files <- {<<>>}, MaxRequests <- 3, MaxReloads <- 0

\* Every command, on a node with a password and on one without.
Surface == INSTANCE Connection WITH
    decoder <- undecoded, out <- rendered, I64Max <- Largest, Unit <- 3, LatestClock <- 4,
    ScanDefaultCount <- 10, CHUNK_COMMANDS <- 3, Persistence <- TRUE, REPLY_HIGH_WATER <- 2,
    Requests <- SurfaceRequests, Files <- {<<>>, <<"p">>}, MaxRequests <- 1, MaxReloads <- 0

\* Logins while the password file is rotated from one password to two others.
Gate == INSTANCE Connection WITH
    decoder <- undecoded, out <- rendered, I64Max <- Largest, Unit <- 3, LatestClock <- 4,
    ScanDefaultCount <- 10, CHUNK_COMMANDS <- 3, Persistence <- TRUE, REPLY_HIGH_WATER <- 2,
    Requests <- AuthRequests, Files <- {<<"p">>, <<"q", "r">>}, MaxRequests <- 2, MaxReloads <- 1

-----------------------------------------------------------------------------
(* Three shards on two executors; two keys share a bucket.                  *)

Place == "a" :> <<0, 0>> @@ "b" :> <<1, 1>> @@ "c" :> <<2, 1>> @@ "d" :> <<2, 1>>

Lists == {<<"c", "a", "b">>, <<"b", "b">>}

Calls == INSTANCE FanOut WITH
    Keys <- {"a", "b", "c", "d"}, Matching <- {"a", "b", "c"}, NShards <- 3, NExecutors <- 2,
    NBuckets <- 2, CHUNK_COMMANDS <- 2, WALK_STEP_BUCKETS <- 1, InternalSpan <- 4,
    KeyTarget <- 2, Ceiling <- 2, MaxWrites <- 1,
    Ops <- {"del", "mget", "dbsize", "flushall", "bgsave"}

Walks == INSTANCE FanOut WITH
    Keys <- {"a", "b", "c", "d"}, Matching <- {"a", "b", "c"}, NShards <- 3, NExecutors <- 2,
    NBuckets <- 2, CHUNK_COMMANDS <- 2, WALK_STEP_BUCKETS <- 1, InternalSpan <- 4,
    KeyTarget <- 2, Ceiling <- 2, MaxWrites <- 2, Ops <- {"keys", "scan"}

-----------------------------------------------------------------------------
NoConnection ==
    /\ inbox = <<>> /\ undecoded = <<>> /\ slots = <<>> /\ batch = <<>> /\ held = <<>>
    /\ pc = "closed" /\ waiting = {} /\ replies = <<>> /\ rendered = <<>> /\ wire = <<>>
    /\ authenticated = FALSE /\ ran = <<>> /\ lost = {} /\ stop = FALSE /\ errors = 0
    /\ passwords = <<>> /\ reloads = 0 /\ there = FALSE /\ seen = <<>>

NoFanOut ==
    /\ keys = {} /\ alive = {} /\ saving = {} /\ call = <<>> /\ through = {} /\ met = {}
    /\ answered = {} /\ writes = 0 /\ reply = <<"None">>

EdgeInit ==
    /\ Init
    /\ \/ part = "pipeline" /\ Pipeline!Init /\ NoFanOut
       \/ part = "surface" /\ Surface!Init /\ NoFanOut
       \/ part = "gate" /\ Gate!Init /\ NoFanOut
       \/ part = "calls" /\ Calls!Init /\ NoConnection
       \/ part = "walks" /\ Walks!Init /\ NoConnection
       \/ part = "buffers" /\ NoConnection /\ NoFanOut

EdgeNext ==
    \/ part = "pipeline" /\ Pipeline!Next /\ UNCHANGED <<part, fanOut, vars>>
    \/ part = "surface" /\ Surface!Next /\ UNCHANGED <<part, fanOut, vars>>
    \/ part = "gate" /\ Gate!Next /\ UNCHANGED <<part, fanOut, vars>>
    \/ part = "calls" /\ Calls!Next /\ UNCHANGED <<part, connection, vars>>
    \/ part = "walks" /\ Walks!Next /\ UNCHANGED <<part, connection, vars>>
    \/ part = "buffers" /\ Next /\ UNCHANGED <<part, connection, fanOut>>

EdgeSpec == EdgeInit /\ [][EdgeNext]_<<part, vars, connection, fanOut>>

-----------------------------------------------------------------------------
(* The properties of Connection and FanOut, each where it is driven; those   *)
(* of ReadBuffer are its own.                                               *)

\* A client that pipelines is sent what it would be sent one request at a time,
\* and SHUTDOWN stops the node after every command before it has run
\* (Connection!PipelineUnseen).
PipelineUnseen ==
    /\ part = "pipeline" => Pipeline!PipelineUnseen
    /\ part = "surface" => Surface!PipelineUnseen

\* Behind a password nothing runs before a login that was good when decoded
\* (Connection!GateHolds).
GateHolds ==
    /\ part = "gate" => Gate!GateHolds
    /\ part = "surface" => Surface!GateHolds

\* What a command over several shards answers is true of all of them
\* (FanOut!AnswersTrue).
AnswersTrue ==
    /\ part = "calls" => Calls!AnswersTrue
    /\ part = "walks" => Walks!AnswersTrue
=============================================================================
