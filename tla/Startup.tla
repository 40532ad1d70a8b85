------------------------------- MODULE Startup -------------------------------
(***************************************************************************)
(* Processes started one over the other on one data directory: main,       *)
(* Server::bind and spawn_pool take the lock, read the log, take a         *)
(* generation, open its segment and only then the address; a stop gives    *)
(* everything back.  Any of them may be killed, or fail, at any step.      *)
(***************************************************************************)
EXTENDS Integers, FiniteSets, FiniteSetsExt

CONSTANTS Procs,        \* process lives
          WithDir,      \* those given --data-dir
          Nobody,
          MaxRecords    \* bound on the records of a generation

ASSUME ProcsAssumption == WithDir \subseteq Procs /\ Nobody \notin Procs

VARIABLES pc,           \* pc[p]: how far the process is
          lock,         \* who holds wal/LOCK
          address,      \* who holds the address
          live,         \* live[p]: its executors and its writer run
          gen, read,    \* its generation, and the log as it read it
          recorded,     \* the generation counter's file
          log,          \* the segments on disk: generation -> records
          overrun       \* processes whose lock went before their writer

vars == <<pc, lock, address, live, gen, read, recorded, log, overrun>>

Starting == {"locked", "recovered", "synced", "numbered", "opened"}

Go(p, from, to) == pc[p] = from /\ pc' = [pc EXCEPT ![p] = to]

-----------------------------------------------------------------------------
(* spawn_pool.                                                             *)

\* Without a directory there is nothing to take or to read.
spawn_limited(p) ==
    /\ p \notin WithDir /\ Go(p, "off", "pooled")
    /\ live' = [live EXCEPT ![p] = TRUE]
    /\ UNCHANGED <<lock, address, gen, read, recorded, log, overrun>>

\* Mutant: a lock that is held is no reason to stop.
lock_ignored(p) ==
    /\ p \in WithDir /\ pc[p] = "off"
    /\ lock' = p /\ pc' = [pc EXCEPT ![p] = "locked"]
    /\ UNCHANGED <<address, live, gen, read, recorded, log, overrun>>

\* The directory is made and its LOCK taken, or another process has it.
lock_data_dir(p) ==
    /\ p \in WithDir /\ pc[p] = "off"
    /\ IF lock = Nobody
       THEN lock' = p /\ pc' = [pc EXCEPT ![p] = "locked"]
       ELSE lock' = lock /\ pc' = [pc EXCEPT ![p] = "failed"]
    /\ UNCHANGED <<address, live, gen, read, recorded, log, overrun>>

recover(p) == /\ Go(p, "locked", "recovered")
              /\ read' = [read EXCEPT ![p] = log]
              /\ UNCHANGED <<lock, address, live, gen, recorded, log, overrun>>

sync_recovered(p) == /\ Go(p, "recovered", "synced")
                     /\ UNCHANGED <<lock, address, live, gen, read, recorded, log, overrun>>

\* Mutant: only the files tell which generation was last.
NextOnDisk == Max(DOMAIN log \cup {0}) + 1

\* One past both the counter and every file's generation.
NextNumber == Max(DOMAIN log \cup {recorded}) + 1

\* The counter is replaced by a rename: a kill leaves the old or the new.
next_generation(p) ==
    /\ Go(p, "synced", "numbered")
    /\ gen' = [gen EXCEPT ![p] = NextNumber] /\ recorded' = NextNumber
    /\ UNCHANGED <<lock, address, live, read, log, overrun>>

\* Writer::open creates the segment; the rebases of cut shards go first.
Open(p) ==
    /\ Go(p, "numbered", "opened")
    /\ \E rebases \in 0..1 :
          log' = [g \in DOMAIN log \cup {gen[p]} |-> IF g = gen[p] THEN rebases ELSE log[g]]
    /\ UNCHANGED <<lock, address, live, gen, read, recorded, overrun>>

\* Any of these may fail: what was opened and the lock are dropped on the way
\* out, and the process exits as one that could not recover.
Fail(p) == /\ pc[p] \in Starting
           /\ pc' = [pc EXCEPT ![p] = "failed"]
           /\ lock' = Nobody
           /\ UNCHANGED <<address, live, gen, read, recorded, log, overrun>>

\* The executors and the writer are spawned.
spawn_spec(p) ==
    /\ Go(p, "opened", "pooled")
    /\ live' = [live EXCEPT ![p] = TRUE]
    /\ UNCHANGED <<lock, address, gen, read, recorded, log, overrun>>

-----------------------------------------------------------------------------
(* Server::bind, Server::run and main.                                     *)

Unlocked(p) == IF lock = p THEN Nobody ELSE lock

\* The address is taken last; when it cannot be, the lock is dropped while the
\* tasks just spawned still run.
bind(p) ==
    /\ pc[p] = "pooled"
    /\ \/ /\ address = Nobody /\ address' = p
          /\ pc' = [pc EXCEPT ![p] = "serving"]
          /\ UNCHANGED <<lock, overrun>>
       \/ /\ pc' = [pc EXCEPT ![p] = "failed"]
          /\ lock' = Unlocked(p) /\ overrun' = overrun \cup {p}
          /\ UNCHANGED address
    /\ UNCHANGED <<live, gen, read, recorded, log>>

\* A record reaches the log: a client's write, or a key the sweep removed.
Write(p) ==
    /\ live[p] /\ p \in WithDir /\ log[gen[p]] < MaxRecords
    /\ log' = [log EXCEPT ![gen[p]] = @ + 1]
    /\ UNCHANGED <<pc, lock, address, live, gen, read, recorded, overrun>>

\* The stop was asked for, and the pool is told.
Stop(p) == /\ Go(p, "serving", "stopped")
           /\ UNCHANGED <<lock, address, live, gen, read, recorded, log, overrun>>

\* Every executor ended, after the writer's last sync, or the grace is over;
\* then the server is dropped, and with it the listener and the lock.
run(p) ==
    /\ Go(p, "stopped", "left")
    /\ \/ live' = [live EXCEPT ![p] = FALSE] /\ UNCHANGED overrun
       \/ overrun' = overrun \cup {p} /\ UNCHANGED live
    /\ address' = Nobody /\ lock' = Unlocked(p)
    /\ UNCHANGED <<gen, read, recorded, log>>

\* `leave` waits for no thread, and neither does an exit.
main(p) == /\ pc[p] \in {"left", "failed"}
           /\ pc' = [pc EXCEPT ![p] = "exited"]
           /\ live' = [live EXCEPT ![p] = FALSE]
           /\ UNCHANGED <<lock, address, gen, read, recorded, log, overrun>>

\* A kill ends every thread, and the kernel takes back lock and address.
Kill(p) ==
    /\ pc[p] \notin {"off", "exited"}
    /\ pc' = [pc EXCEPT ![p] = "exited"]
    /\ live' = [live EXCEPT ![p] = FALSE]
    /\ lock' = Unlocked(p)
    /\ address' = IF address = p THEN Nobody ELSE address
    /\ UNCHANGED <<gen, read, recorded, log, overrun>>

-----------------------------------------------------------------------------
Init == /\ pc = [p \in Procs |-> "off"]
        /\ lock = Nobody /\ address = Nobody
        /\ live = [p \in Procs |-> FALSE]
        /\ gen = [p \in Procs |-> 0] /\ read = [p \in Procs |-> << >>]
        /\ recorded = 0 /\ log = << >>
        /\ overrun = {}

Next == \E p \in Procs :
    \/ spawn_limited(p) \/ lock_data_dir(p) \/ recover(p) \/ sync_recovered(p)
    \/ next_generation(p) \/ Open(p) \/ Fail(p) \/ spawn_spec(p)
    \/ bind(p) \/ Write(p) \/ Stop(p) \/ run(p) \/ main(p) \/ Kill(p)

Spec == Init /\ [][Next]_vars

-----------------------------------------------------------------------------
(* Properties.                                                             *)

\* Nothing is written behind a process that has read the log: as long as it
\* runs, the older generations are as it read them.  Only two ends of another
\* process can break this, because they drop the lock with its tasks running:
\* a stop that timed out, and an address that could not be taken
\* (lock_data_dir, Server::bind, Server::run, leave).
NothingBehind ==
    \A p \in WithDir :
        pc[p] \in {"recovered", "synced", "numbered", "opened", "pooled", "serving", "stopped"} =>
            \/ overrun \ {p} # {}
            \/ \A g \in DOMAIN log : (gen[p] = 0 \/ g # gen[p]) =>
                   g \in DOMAIN read[p] /\ read[p][g] = log[g]

\* A generation is taken once, though a start may die between taking it and
\* making its first file (next_generation).
GenerationsFresh ==
    \A p, q \in Procs : p # q /\ gen[p] # 0 => gen[p] # gen[q]

\* A client reaches a node only once its log is read, its generation open and
\* its directory locked (Server::bind).
ServesOwned == \A p \in WithDir : address = p => lock = p /\ gen[p] \in DOMAIN log
=============================================================================
