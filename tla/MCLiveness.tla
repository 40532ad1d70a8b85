----------------------------- MODULE MCLiveness ------------------------------
(* What must in the end happen at the edge and in the pool: a chunk of       *)
(* commands is answered, a connection attends to what it was sent, a node    *)
(* reloads its passwords and stops. A run picks one of them first.           *)
EXTENDS Gather, TLC

CONSTANTS e1, e2, e3

VARIABLES part,
          inbox, decoder, slots, batch, held, pc, waiting, collected, out, wire,
          authenticated, ran, lost, asked, errors, passwords, rotations, there, seen,
          peer, permits, total, rejected, connected, loop, file, store, reloads, hup, stop,
          ended, told, awaited, synced, expired, verdict, edits, signals

connection == <<inbox, decoder, slots, batch, held, pc, waiting, collected, out, wire,
                authenticated, ran, lost, asked, errors, passwords, rotations, there, seen>>
server == <<peer, permits, total, rejected, connected, loop, file, store, reloads, hup, stop,
            ended, told, awaited, synced, expired, verdict, edits, signals>>

\* Five commands over three executors, one of them addressed to no shard.
Spread == 1 :> e1 @@ 2 :> e2 @@ 3 :> e1 @@ 4 :> Unaddressed @@ 5 :> e3

\* What the tokens of requests spell as numbers, and the bytes of passwords.
Ints == ("1" :> 1) @@ ("2" :> 2)

Bytes == ("p" :> <<1, 2>>)

\* Keyed commands, wide reads and sums, edge replies, closing ones.
PipelineRequests ==
    {<<"SET", "k1", "v">>, <<"GET", "k2">>, <<"MGET", "k1", "k2">>, <<"MGET", "k1", "k2", "k1", "k2">>,
     <<"DEL", "k2", "k1">>, <<"DBSIZE">>, <<"PING">>, <<"QUIT">>, <<"SHUTDOWN">>, <<"garbled">>}

\* Pipelines of two requests, cut into reads anywhere.
Conn == INSTANCE Connection WITH
    replies <- collected, stop <- asked, reloads <- rotations,
    I64Max <- 23, Unit <- 3, LatestClock <- 4,
    ScanDefaultCount <- 10, CHUNK_COMMANDS <- 3, Persistence <- TRUE, REPLY_HIGH_WATER <- 2,
    Requests <- PipelineRequests, Files <- {<<>>}, MaxRequests <- 2, MaxReloads <- 0

\* A node whose password file is edited and reloaded while a peer comes and goes;
\* and one that takes one of two peers.
Files == INSTANCE Server WITH
    Peers <- {"a"}, MaxClients <- 1, Executors <- 1, Contents <- {"old", "new"},
    Bad <- {"torn"}, FromFile <- TRUE, MaxEdits <- 2, MaxSignals <- 2

Full == INSTANCE Server WITH
    Peers <- {"a", "b"}, MaxClients <- 1, Executors <- 1, Contents <- {"old", "new"},
    Bad <- {"torn"}, FromFile <- TRUE, MaxEdits <- 1, MaxSignals <- 1

\* A chunk whose executors are all gone, and its caller told so.
NoChunk ==
    /\ phase = "done" /\ routed = NCommands /\ buckets = [e \in Executors |-> <<>>]
    /\ positions = <<>> /\ sent = Executors /\ share = [e \in Executors |-> "gone"]
    /\ remaining = 0 /\ permit = FALSE /\ answers = [e \in Executors |-> None]
    /\ alive = {} /\ replies = [c \in Commands |-> Unavailable]

NoConnection ==
    /\ inbox = <<>> /\ decoder = <<>> /\ slots = <<>> /\ batch = <<>> /\ held = <<"Drain">>
    /\ pc = "closed" /\ waiting = {} /\ collected = <<>> /\ out = <<>> /\ wire = <<>>
    /\ authenticated = FALSE /\ ran = << >> /\ lost = {} /\ asked = FALSE /\ errors = 0
    /\ passwords = <<>> /\ rotations = 0 /\ there = FALSE /\ seen = <<>>

NoServer ==
    /\ peer = << >> /\ permits = 0 /\ total = 0 /\ rejected = 0 /\ connected = 0
    /\ loop = "returned" /\ file = "old" /\ store = "old"
    /\ reloads = [at |-> "old", kept |-> "old"] /\ hup = FALSE /\ stop = FALSE
    /\ ended = << >> /\ told = FALSE /\ awaited = 0 /\ synced = FALSE
    /\ expired = FALSE /\ verdict = "none" /\ edits = 0 /\ signals = 0

LivenessInit ==
    \/ part = "chunk" /\ Init /\ NoConnection /\ NoServer
    \/ part = "connection" /\ Conn!Init /\ NoChunk /\ NoServer
    \/ part = "files" /\ Files!Init /\ NoChunk /\ NoConnection
    \/ part = "full" /\ Full!Init /\ NoChunk /\ NoConnection

LivenessNext ==
    \/ part = "chunk" /\ Next /\ UNCHANGED <<part, connection, server>>
    \/ part = "connection" /\ Conn!Next /\ UNCHANGED <<part, vars, server>>
    \/ part = "files" /\ Files!Next /\ UNCHANGED <<part, vars, connection>>
    \/ part = "full" /\ Full!Next /\ UNCHANGED <<part, vars, connection>>

all == <<part, vars, connection, server>>

\* A step of the node, whichever of the two runs.
ServerStep(files, full) ==
    /\ \/ part = "files" /\ files
       \/ part = "full" /\ full
    /\ UNCHANGED <<part, vars, connection>>

\* The fairness of each part, once it is the one that runs.
LivenessFairness ==
    /\ WF_all(\/ part = "chunk" /\ CallerStep /\ UNCHANGED <<part, connection, server>>
              \/ part = "connection" /\ Conn!Step /\ UNCHANGED <<part, vars, server>>)
    /\ \A e \in Executors :
          WF_all(part = "chunk" /\ ExecutorStep(e) /\ UNCHANGED <<part, connection, server>>)
    /\ WF_all(ServerStep(Files!BreakOnStop, Full!BreakOnStop))
    /\ WF_all(ServerStep(Files!OnHangup, Full!OnHangup))
    /\ WF_all(ServerStep(Files!Expire, Full!Expire))
    /\ WF_all(ServerStep(Files!Await, Full!Await))
    /\ WF_all(ServerStep(Files!Return, Full!Return))
    /\ \A p \in {"a", "b"} :
          /\ WF_all(ServerStep(p = "a" /\ Files!Accept(p), Full!Accept(p)))
          /\ WF_all(ServerStep(p = "a" /\ Files!refuse(p), Full!refuse(p)))

LivenessSpec == LivenessInit /\ [][LivenessNext]_all /\ LivenessFairness

-----------------------------------------------------------------------------
(* The properties of Connection and Server; GatherRight is Gather's own.    *)

\* Every chunk dispatched is answered, whoever dies (Gather!Answered), and every
\* request that reaches the server is attended to, or its connection closed
\* (Connection!Attended); a connection that never began is closed.
Attended == Answered /\ Conn!Attended

\* The node does what it is told from outside: a SIGHUP sent after the password
\* file was written brings its passwords in (Server!ReloadSeen), one that finds
\* no readable file changes nothing (Server!FailedReloadKeeps), and a node asked
\* to stop does (Server!StopEnds).
Obeyed ==
    /\ Files!ReloadSeen /\ Full!StopEnds
    /\ [](part = "files" => Files!FailedReloadKeeps)
=============================================================================
