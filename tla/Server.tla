------------------------------- MODULE Server --------------------------------
(***************************************************************************)
(* Server::run: one loop that stops, reloads the passwords or accepts, in   *)
(* that order of preference; a task per connection, each holding a permit; *)
(* and ShardPool::shutdown, which waits for the executors no longer than   *)
(* its grace.  The file of passwords is edited while all this goes on.     *)
(***************************************************************************)
EXTENDS Integers, FiniteSets

CONSTANTS Peers,        \* connections that may come
          MaxClients,   \* max_clients
          Executors,    \* a pool's executors, awaited in their order: 1..n
          Contents,     \* what the file may hold: password sets
          Bad,          \* contents parse_password_file refuses
          FromFile,     \* whether the passwords came from a file
          MaxEdits, MaxSignals

VARIABLES peer,         \* peer[p]: where the connection stands
          permits,      \* the semaphore
          total, rejected, connected,    \* INFO's counters
          loop,         \* select, refusing, awaiting an executor, or returned
          file, store, reloads,
          hup, stop,    \* a pending SIGHUP; a stop that was asked for
          ended,        \* ended[e]: how executor e's task ended, or "running"
          told,         \* the executors were told to stop
          awaited, synced, expired, verdict,
          edits, signals

clients == <<peer, permits, total, rejected, connected>>
passwords == <<file, store, reloads, edits>>
stopping == <<ended, told, awaited, synced, expired, verdict>>
vars == <<clients, passwords, stopping, loop, hup, stop, signals>>

Holding == {p \in Peers : peer[p] \in {"spawned", "open", "closing"}}
Counted == {p \in Peers : peer[p] \in {"open", "closing", "released"}}

-----------------------------------------------------------------------------
(* The world: peers, signals, and whoever edits the file.                  *)

Connect(p) == /\ peer[p] = "away" /\ peer' = [peer EXCEPT ![p] = "queued"]
              /\ UNCHANGED <<permits, total, rejected, connected, passwords, stopping, loop, hup, stop, signals>>

Disconnect(p) == /\ peer[p] = "open" /\ peer' = [peer EXCEPT ![p] = "closing"]
                 /\ UNCHANGED <<permits, total, rejected, connected, passwords, stopping, loop, hup, stop, signals>>

\* Not atomic: a reader may find it half written.
Edit(c) == /\ FromFile /\ edits < MaxEdits
           /\ file # c /\ file' = c
           /\ edits' = edits + 1
           /\ UNCHANGED <<clients, store, reloads, stopping, loop, hup, stop, signals>>

\* Signals that find one pending are the same signal.
Hangup == /\ signals < MaxSignals /\ signals' = signals + 1
          /\ hup' = TRUE
          /\ UNCHANGED <<clients, passwords, stopping, loop, stop>>

shutdown_requested == /\ ~stop /\ stop' = TRUE
                      /\ UNCHANGED <<clients, passwords, stopping, loop, hup, signals>>

-----------------------------------------------------------------------------
(* The tasks of connections.                                               *)

\* Attached::count.
Count(p) == /\ peer[p] = "spawned"
            /\ peer' = [peer EXCEPT ![p] = "open"]
            /\ connected' = connected + 1
            /\ UNCHANGED <<permits, total, rejected, passwords, stopping, loop, hup, stop, signals>>

\* Mutant: the permit is forgotten.
ReleaseForgetting(p) ==
    /\ peer[p] = "closing"
    /\ peer' = [peer EXCEPT ![p] = "released"]
    /\ UNCHANGED <<permits, total, rejected, connected, passwords, stopping, loop, hup, stop, signals>>

\* drop(permit): the connection is served, and still counted.
Release(p) == /\ peer[p] = "closing"
              /\ peer' = [peer EXCEPT ![p] = "released"]
              /\ permits' = permits + 1
              /\ UNCHANGED <<total, rejected, connected, passwords, stopping, loop, hup, stop, signals>>

\* Attached's drop.
Uncount(p) == /\ peer[p] = "released"
              /\ peer' = [peer EXCEPT ![p] = "gone"]
              /\ connected' = connected - 1
              /\ UNCHANGED <<permits, total, rejected, passwords, stopping, loop, hup, stop, signals>>

-----------------------------------------------------------------------------
(* Server::run's loop.                                                     *)

BreakOnStop ==
    /\ loop = "select" /\ stop
    /\ loop' = "awaiting" /\ told' = TRUE
    /\ UNCHANGED <<clients, passwords, ended, awaited, synced, expired, verdict, hup, stop, signals>>

\* Mutant: after one failure nothing is read again.
ReloadGivingUp == IF FromFile /\ {file, reloads.at} \subseteq Contents THEN file ELSE store

\* reload_passwords: what the store holds after it.
reload_passwords == IF FromFile /\ file \in Contents THEN file ELSE store

OnHangup ==
    /\ loop = "select" /\ ~stop /\ hup
    /\ hup' = FALSE
    /\ store' = reload_passwords
    /\ reloads' = [at |-> file, kept |-> store]
    /\ UNCHANGED <<clients, file, edits, stopping, loop, stop, signals>>

Accept(p) ==
    /\ loop = "select" /\ ~stop /\ ~hup /\ peer[p] = "queued"
    /\ total' = total + 1
    /\ IF permits > 0
       THEN /\ permits' = permits - 1 /\ peer' = [peer EXCEPT ![p] = "spawned"]
            /\ UNCHANGED <<rejected, loop>>
       ELSE /\ rejected' = rejected + 1 /\ peer' = [peer EXCEPT ![p] = "refusing"]
            /\ loop' = "refusing" /\ UNCHANGED permits
    /\ UNCHANGED <<connected, passwords, stopping, hup, stop, signals>>

\* The refusal is written, or fails to be; the loop waits for either.
refuse(p) == /\ loop = "refusing" /\ peer[p] = "refusing"
             /\ peer' = [peer EXCEPT ![p] = "gone"] /\ loop' = "select"
             /\ UNCHANGED <<permits, total, rejected, connected, passwords, stopping, hup, stop, signals>>

-----------------------------------------------------------------------------
(* ShardPool::shutdown.                                                    *)

\* An executor ends with its log intact, with its log failed, or panics; it
\* may panic before it is told to stop, and with a hung disk it never ends.
EndExecutor(e) ==
    /\ ended[e] = "running"
    /\ \E how \in {"synced", "failed", "panicked"} :
          /\ told \/ how = "panicked"
          /\ ended' = [ended EXCEPT ![e] = how]
    /\ UNCHANGED <<clients, passwords, told, awaited, synced, expired, verdict, loop, hup, stop, signals>>

Expire == /\ told /\ ~expired /\ expired' = TRUE
          /\ UNCHANGED <<clients, passwords, ended, told, awaited, synced, verdict, loop, hup, stop, signals>>

\* What one join adds to the verdict.
Join(how) == how = "synced"

\* timeout_at: an executor that has ended is heard, deadline or not.
Await ==
    /\ loop = "awaiting" /\ awaited < Executors
    /\ LET e == awaited + 1
       IN  IF ended[e] = "running"
           THEN /\ expired /\ verdict' = "TimedOut" /\ loop' = "returned"
                /\ UNCHANGED <<awaited, synced>>
           ELSE /\ awaited' = e /\ synced' = (synced /\ Join(ended[e]))
                /\ UNCHANGED <<verdict, loop>>
    /\ UNCHANGED <<clients, passwords, ended, told, expired, hup, stop, signals>>

Return ==
    /\ loop = "awaiting" /\ awaited = Executors
    /\ verdict' = IF synced THEN "Clean" ELSE "Unsynced"
    /\ loop' = "returned"
    /\ UNCHANGED <<clients, passwords, ended, told, awaited, synced, expired, hup, stop, signals>>

-----------------------------------------------------------------------------
Init ==
    /\ peer = [p \in Peers |-> "away"] /\ permits = MaxClients
    /\ total = 0 /\ rejected = 0 /\ connected = 0
    /\ loop = "select"
    /\ file \in Contents /\ store = file /\ reloads = [at |-> file, kept |-> file]
    /\ hup = FALSE /\ stop = FALSE
    /\ ended = [e \in 1..Executors |-> "running"] /\ told = FALSE
    /\ awaited = 0 /\ synced = TRUE /\ expired = FALSE /\ verdict = "none"
    /\ edits = 0 /\ signals = 0

Next ==
    \/ \E p \in Peers : \/ Connect(p) \/ Disconnect(p) \/ Count(p) \/ Release(p)
                        \/ Uncount(p) \/ Accept(p) \/ refuse(p)
    \/ \E c \in Contents \cup Bad : Edit(c)
    \/ \E e \in 1..Executors : EndExecutor(e)
    \/ Hangup \/ shutdown_requested \/ BreakOnStop \/ OnHangup
    \/ Expire \/ Await \/ Return

\* The loop's task is polled when an arm is ready, a refusal fits a socket's
\* buffer, tasks run, and the clock reaches the deadline; nobody owes a signal,
\* an edit or an executor's end.
Fairness ==
    /\ WF_vars(BreakOnStop) /\ WF_vars(OnHangup) /\ WF_vars(Expire)
    /\ WF_vars(Await) /\ WF_vars(Return)
    /\ \A p \in Peers : WF_vars(Accept(p)) /\ WF_vars(refuse(p))

Spec == Init /\ [][Next]_vars

LiveSpec == Spec /\ Fairness

-----------------------------------------------------------------------------
(* Properties.                                                             *)

TypeOK ==
    /\ permits \in 0..MaxClients /\ connected \in 0..Cardinality(Peers)
    /\ loop \in {"select", "refusing", "awaiting", "returned"}
    /\ store \in Contents /\ file \in Contents \cup Bad
    /\ verdict \in {"none", "Clean", "Unsynced", "TimedOut"}

\* No permit is lost or made: those out are the connections being served, and
\* there are never more of these than max_clients (Server::run).
PermitsKept == permits + Cardinality(Holding) = MaxClients

\* Every accepted connection is counted once in total_connections, the refused
\* in rejected_connections too, and connected_clients counts a connection from
\* its task's first step to its last: past max_clients it may go by those whose
\* permit is returned already, and no further.
CountersTrue ==
    /\ total = Cardinality({p \in Peers : peer[p] \notin {"away", "queued"}})
    /\ connected = Cardinality(Counted)
    /\ connected <= MaxClients + Cardinality({p \in Peers : peer[p] = "released"})

\* A stop that answers Clean had every executor end with its log synced: no
\* panic and no timeout is taken for one (ShardPool::shutdown).
CleanIsSynced ==
    /\ verdict = "Clean" => \A e \in 1..Executors : ended[e] = "synced"
    /\ verdict = "Unsynced" => \A e \in 1..Executors : ended[e] # "running"

\* A reload that cannot read the file keeps the passwords there were
\* (reload_passwords).
FailedReloadKeeps == reloads.at \in Contents \/ store = reloads.kept

\* A SIGHUP sent after the file was written brings its passwords in, however
\* many signals came before and whatever the loop was at - unless the file is
\* edited again or the node stops.
ReloadSeen == \A c \in Contents : (FromFile /\ hup /\ file = c) ~> (store = c \/ file # c \/ stop)

\* A node asked to stop does, whether its executors end or hang.
StopEnds == stop ~> loop = "returned"
=============================================================================
