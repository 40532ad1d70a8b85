------------------------------ MODULE MCProcess ------------------------------
(* The life of the process: starts one over the other on one data directory, *)
(* the accept loop and the stop of one node, and what its executors tell of  *)
(* their persistence. A run picks one of them first.                         *)
EXTENDS Startup, TLC

VARIABLES part,
          peer, permits, total, rejected, connected, loop, file, store, reloads, hup, stop,
          ended, told, awaited, synced, expired, verdict, edits, signals,
          clock, written, image, lossy, cycle, changes_at_open, mode, writer_lost, forced,
          cell, refusing, lossy_shards, heard, report, served, faults

server == <<peer, permits, total, rejected, connected, loop, file, store, reloads, hup, stop,
            ended, told, awaited, synced, expired, verdict, edits, signals>>
counters == <<clock, written, image, lossy, cycle, changes_at_open, mode, writer_lost, forced,
              cell, refusing, lossy_shards, heard, report, served, faults>>

\* Three peers at a node that takes two, and a stop of two executors.
Node == INSTANCE Server WITH
    Peers <- {"a", "b", "c"}, MaxClients <- 2, Executors <- 2, Contents <- {"old", "new"},
    Bad <- {"torn"}, FromFile <- FALSE, MaxEdits <- 0, MaxSignals <- 1

\* Two executors of a shard each, whose cells INFO reads one after the other.
Saves == INSTANCE Counters WITH
    Executors <- {1, 2}, Shards <- {1, 2}, Owner <- (1 :> 1) @@ (2 :> 2), Second <- 2,
    Start <- 3, MayBeLossy <- {}, Evicted <- {0}, MaxClock <- 4, MaxRecords <- 1,
    MaxCycles <- 1, MaxTicks <- 1, MaxFaults <- 0

\* One executor of two shards, one of them lossy or not, through two faults.
Gauges == INSTANCE Counters WITH
    Executors <- {1}, Shards <- {1, 2}, Owner <- (1 :> 1) @@ (2 :> 1), Second <- 2,
    Start <- 3, MayBeLossy <- {1}, Evicted <- {0, 1}, MaxClock <- 3, MaxRecords <- 2,
    MaxCycles <- 2, MaxTicks <- 2, MaxFaults <- 2

NoServer ==
    /\ peer = << >> /\ permits = 0 /\ total = 0 /\ rejected = 0 /\ connected = 0
    /\ loop = "returned" /\ file = {} /\ store = {} /\ reloads = << >> /\ hup = FALSE
    /\ stop = FALSE /\ ended = << >> /\ told = FALSE /\ awaited = 0 /\ synced = FALSE
    /\ expired = FALSE /\ verdict = "none" /\ edits = 0 /\ signals = 0

NoCounters ==
    /\ clock = 0 /\ written = << >> /\ image = << >> /\ lossy = {} /\ cycle = << >>
    /\ changes_at_open = << >> /\ mode = << >> /\ writer_lost = {} /\ forced = {}
    /\ cell = << >> /\ refusing = 0 /\ lossy_shards = 0 /\ heard = << >> /\ report = << >>
    /\ served = << >> /\ faults = << >>

ProcessInit ==
    /\ Init
    /\ \/ part = "starts" /\ NoServer /\ NoCounters
       \/ part = "node" /\ Node!Init /\ NoCounters
       \/ part = "saves" /\ Saves!Init /\ NoServer
       \/ part = "gauges" /\ Gauges!Init /\ NoServer

ProcessNext ==
    \/ part = "starts" /\ Next /\ UNCHANGED <<part, server, counters>>
    \/ part = "node" /\ Node!Next /\ UNCHANGED <<part, vars, counters>>
    \/ part = "saves" /\ Saves!Next /\ UNCHANGED <<part, vars, server>>
    \/ part = "gauges" /\ Gauges!Next /\ UNCHANGED <<part, vars, server>>

ProcessSpec == ProcessInit /\ [][ProcessNext]_<<part, vars, server, counters>>

-----------------------------------------------------------------------------
(* The properties of Server and Counters, each where it is driven; those of *)
(* Startup are its own.                                                     *)

\* No permit is lost or made, every connection is counted once and for as long
\* as it lasts, and a stop that answers Clean had every executor synced
\* (Server!PermitsKept, CountersTrue, CleanIsSynced).
NodeAccounts ==
    part = "node" => Node!PermitsKept /\ Node!CountersTrue /\ Node!CleanIsSynced

=============================================================================
