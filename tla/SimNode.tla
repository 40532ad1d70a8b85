------------------------------- MODULE SimNode -------------------------------
(***************************************************************************)
(* The node the simulator runs, as its clients and its judges see it: one  *)
(* shard, its log, the point the log is known durable to, crashes and the  *)
(* starts after them, and one client's connection.  What the node itself   *)
(* does is external here (the modules Shard, DurableLog and Generations    *)
(* are about that); what the simulator keeps of it - the durable points,   *)
(* the crash records, the reported losses - is translated.                 *)
(***************************************************************************)
EXTENDS Integers, FiniteSets, SequencesExt

CONSTANTS Setups,       \* what a seed may draw: the scenarios, with the bounds on each
          None

VARIABLES setup,        \* what the seed drew
          clock,        \* world_now
          log,          \* records of the shard, with when each was appended
          up,           \* whether the node serves
          refusing,     \* whether it refuses writes until an image completes
          round,        \* the sync in flight: what it covers, when it was issued
          cycle,        \* the image being written: the records below its base
          durable,      \* Shared.durable: the durable point
          crashes,      \* Shared.crashes
          truncated,    \* Shared.truncated: the last crash with a reported loss
          reported,     \* Shared.reported_lossy
          unreported,   \* Tally.unreported_losses # 0
          failures,     \* starts that failed
          conn,         \* whether the client's connection is to the node that is up
          phase,        \* of the client's burst: idle, sent, wire or dead
          burst,        \* the operations sent
          answers,      \* their replies so far
          sent          \* when the burst was sent

disk == <<refusing, round, cycle>>
judged == <<crashes, truncated, reported, unreported, failures>>
network == <<conn, phase, burst, answers, sent>>
nodeVars == <<setup, clock, log, up, disk, durable, judged, network>>

Slots == setup.slots            \* keys of the client, all on one shard
HoldAcks == setup.hold          \* the policy keeps a reply until its record is durable
DiskLies == setup.lies          \* the disk may damage what it holds, and starts may fail
DiskFails == setup.fails        \* writes and syncs may fail
Evicts == setup.evicts          \* the node runs under a ceiling
MaxClock == setup.clock         \* bound on simulated time
MaxCrashes == setup.crashes     \* bound on crashes
MaxStarts == setup.starts       \* bound on starts that fail
MaxOthers == setup.others       \* bound on records of the shard's other keys

-----------------------------------------------------------------------------
(* What the records hold, and what a command answers.                      *)

Rebase == [op |-> "Rebase", time |-> 0]

ApplyEffect(ks, rec) ==
    CASE rec.op = "Put" -> [ks EXCEPT ![rec.slot] = <<rec.value, rec.at>>]
      [] rec.op = "Del" -> [ks EXCEPT ![rec.slot] = <<>>]
      [] rec.op = "Deadline" -> [ks EXCEPT ![rec.slot][2] = rec.at]
      [] OTHER -> ks

Keyspace(l) == FoldLeft(ApplyEffect, [s \in Slots |-> <<>>], l)

AddDelta(sum, rec) == IF rec.op = "Add" THEN sum + rec.delta ELSE sum

Total(l) == FoldLeft(AddDelta, 0, l)

Present(ks, s) == ks[s] # <<>> /\ ks[s][2] \notin 0..clock

Bulk(ks, s) == IF Present(ks, s) THEN <<"Bulk", ks[s][1]>> ELSE <<"Null">>

PutRecord(op, at) == [op |-> "Put", slot |-> op.slots[1], value |-> op.value,
                      at |-> at, time |-> clock]

\* The slots a multi-key DEL removes, each once.
Removed(ks, slots) == {s \in ToSet(slots) : Present(ks, s)}

DelRecords(gone) == LET order == SetToSeq(gone) IN
    [i \in DOMAIN order |-> [op |-> "Del", slot |-> order[i], time |-> clock]]

DeadlineRecord(s, at) == <<[op |-> "Deadline", slot |-> s, at |-> at, time |-> clock]>>

Writes(op) == op.kind \notin {"Get", "Exists", "MGet", "Type", "StrLen"}

\* The reply to a command and the records it appends.
Answer(ks, op) ==
    LET s == op.slots[1]
        there == Present(ks, s)
        put == <<PutRecord(op, None)>>
    IN  CASE op.kind = "Set" -> <<<<"OK">>, put>>
          [] op.kind = "SetNx" -> IF there THEN <<<<"Integer", 0>>, <<>>>>
                                  ELSE <<<<"Integer", 1>>, put>>
          [] op.kind = "SetIf" -> IF there = op.xx THEN <<<<"OK">>, put>>
                                  ELSE <<<<"Null">>, <<>>>>
          [] op.kind = "SetGet" -> <<Bulk(ks, s), put>>
          [] op.kind = "Get" -> <<Bulk(ks, s), <<>>>>
          [] op.kind = "Del" -> <<<<"Integer", Cardinality(Removed(ks, op.slots))>>,
                                  DelRecords(Removed(ks, op.slots))>>
          [] op.kind = "Exists" ->
                <<<<"Integer", Cardinality({i \in DOMAIN op.slots : Present(ks, op.slots[i])})>>, <<>>>>
          [] op.kind = "MGet" ->
                <<<<"Array", [i \in DOMAIN op.slots |-> Bulk(ks, op.slots[i])]>>, <<>>>>
          [] op.kind = "Type" -> <<<<"Status", IF there THEN "string" ELSE "none">>, <<>>>>
          [] op.kind = "StrLen" -> <<<<"Integer", IF there THEN ks[s][1] ELSE 0>>, <<>>>>
          [] op.kind = "IncrBy" -> <<<<"Integer", Total(log) + op.delta>>,
                                     <<[op |-> "Add", delta |-> op.delta, time |-> clock]>>>>
          [] op.kind = "SetEx" -> <<<<"OK">>, <<PutRecord(op, clock + op.span)>>>>
          [] op.kind = "Expire" -> IF there THEN <<<<"Integer", 1>>, DeadlineRecord(s, clock + op.span)>>
                                   ELSE <<<<"Integer", 0>>, <<>>>>
          [] op.kind = "Persist" -> IF there /\ ks[s][2] # None
                                    THEN <<<<"Integer", 1>>, DeadlineRecord(s, None)>>
                                    ELSE <<<<"Integer", 0>>, <<>>>>

-----------------------------------------------------------------------------
(* The log's durable point.                                                *)

\* How many records are known durable.
Durable == IF durable = None THEN 0 ELSE durable.count

Raised(count, at) == IF durable = None \/ Durable < count
                     THEN [count |-> count, at |-> at] ELSE durable

Tick == /\ clock < MaxClock /\ clock' = clock + 1
        /\ UNCHANGED <<log, up, disk, durable, judged, network>>

sync_issued == /\ up /\ ~refusing /\ round = None
               /\ Len(log) > Durable
               /\ round' = [through |-> Len(log), at |-> clock]
               /\ UNCHANGED <<clock, log, up, refusing, cycle, durable, judged, network>>

\* The point, dated at the instant the round was issued.
sync_completed == /\ up /\ round # None
                  /\ durable' = Raised(round.through, round.at)
                  /\ round' = None
                  /\ UNCHANGED <<clock, log, up, refusing, cycle, judged, network>>

OpenImage == /\ up /\ cycle = None /\ (Len(log) > Durable \/ refusing)
             /\ cycle' = Len(log)
             /\ UNCHANGED <<clock, log, up, refusing, round, durable, judged, network>>

\* The point, dated when the first record above the image was appended, or now.
covered == /\ up /\ cycle # None
           /\ durable' = Raised(cycle, IF cycle < Len(log) THEN log[cycle + 1].time ELSE clock)
           /\ cycle' = None /\ refusing' = FALSE
           /\ UNCHANGED <<clock, log, up, round, judged, network>>

\* A failed write: what is held is refused, though it was applied.
Fault == /\ DiskFails /\ up /\ ~refusing
         /\ refusing' = TRUE /\ round' = None /\ cycle' = None
         /\ answers' = [i \in DOMAIN answers |->
                IF HoldAcks /\ answers[i].upto > Durable
                THEN [reply |-> <<"Refused">>, upto |-> 0] ELSE answers[i]]
         /\ UNCHANGED <<clock, log, up, durable, judged, conn, phase, burst, sent>>

-----------------------------------------------------------------------------
(* The connection.                                                         *)

\* A burst goes out; on a connection to a node that crashed it goes nowhere.
Send(ops) == /\ phase = "idle"
             /\ phase' = IF conn THEN "sent" ELSE "dead"
             /\ burst' = ops /\ answers' = <<>> /\ sent' = clock
             /\ UNCHANGED <<conn, clock, log, up, disk, durable, judged>>

Serve == /\ up /\ phase = "sent" /\ Len(answers) < Len(burst)
         /\ LET op == burst[Len(answers) + 1]
                result == Answer(Keyspace(log), op)
            IN  IF refusing /\ Writes(op)
                THEN /\ answers' = Append(answers, [reply |-> <<"Refused">>, upto |-> 0])
                     /\ log' = log
                ELSE /\ log' = log \o result[2]
                     /\ answers' = Append(answers, [reply |-> result[1],
                            upto |-> IF result[2] = <<>> THEN 0 ELSE Len(log')])
         /\ UNCHANGED <<clock, up, disk, durable, judged, conn, phase, burst, sent>>

\* Every reply of the burst has left the node.
Released == /\ Len(answers) = Len(burst)
            /\ HoldAcks => \A i \in DOMAIN answers : answers[i].upto <= Durable

Arrived == phase = "wire" \/ (phase = "sent" /\ Released)

\* The client has its replies, or gave up and connected again.
HangUp == /\ phase' = "idle" /\ burst' = <<>> /\ answers' = <<>> /\ sent' = 0
          /\ UNCHANGED <<clock, log, up, disk, durable, judged>>

\* Another client writes a key of the shard.
Other == /\ up /\ ~refusing
         /\ Cardinality({i \in DOMAIN log : log[i].op = "Other"}) < MaxOthers
         /\ log' = Append(log, [op |-> "Other", time |-> clock])
         /\ UNCHANGED <<clock, up, disk, durable, judged, network>>

Evict(s) == /\ Evicts /\ up /\ Present(Keyspace(log), s)
            /\ log' = log \o DelRecords({s})
            /\ UNCHANGED <<clock, up, disk, durable, judged, network>>

-----------------------------------------------------------------------------
(* A crash, and the starts after it.                                       *)

crash_and_restart ==
    /\ Len(crashes) < MaxCrashes
    /\ crashes' = Append(crashes, [at |-> clock,
           durable |-> IF HoldAcks /\ durable # None THEN [durable EXCEPT !.at = clock]
                       ELSE durable])
    /\ up' = FALSE /\ round' = None /\ cycle' = None
    /\ conn' = FALSE
    \* Replies that left the node may still arrive.
    /\ phase' \in CASE phase = "sent" -> IF Released THEN {"wire", "dead"} ELSE {"dead"}
                    [] OTHER -> {phase}
    /\ UNCHANGED <<clock, log, refusing, durable, truncated, reported, unreported, failures,
                   burst, answers, sent>>

Reached == {"Read", "Synced", "Rebasing", "Serving"}

Stands(reached) == reached \in {"Rebasing", "Serving"}


\* What is kept of a start that resumed `resumed` records and has next_seq next.
judge_recovery(resumed, next_seq, lossy, reached) ==
    LET crash == Len(crashes)
        point == crashes[crash].durable
        earlier == reported # None /\ reported.crash = crash /\ resumed >= reported.from
        from == IF reported # None /\ reported.crash = crash /\ reported.from < resumed
                THEN reported.from ELSE resumed
    IN  /\ refusing' = FALSE
        /\ truncated' = IF Stands(reached) /\ lossy /\ DiskLies THEN crash ELSE truncated
        /\ reported' = IF Stands(reached) /\ lossy THEN [crash |-> crash, from |-> from]
                       ELSE reported
        /\ unreported' = (unreported \/ /\ point # None /\ resumed < point.count
                                        /\ ~lossy /\ ~earlier)
        /\ durable' = IF reached = "Read" THEN durable
                      ELSE IF durable # None
                      THEN IF Stands(reached) \/ next_seq > durable.count
                           THEN [durable EXCEPT !.count = next_seq] ELSE durable
                      ELSE IF next_seq > 0 THEN [count |-> next_seq, at |-> 0] ELSE None

\* A start reads a prefix of the log: all that is durable, unless it reports
\* that the disk lost some.
Resumes(n, lossy) == /\ ~up /\ clock > Last(crashes).at
                     /\ n \in (IF lossy THEN 0 ELSE Durable)..Len(log)
                     /\ lossy => DiskLies

recovered(n, lossy, cut) ==
    /\ Resumes(n, lossy) /\ (lossy => cut)
    /\ log' = IF cut THEN Append(SubSeq(log, 1, n), Rebase) ELSE SubSeq(log, 1, n)
    /\ judge_recovery(n, Len(log'), lossy, "Serving")
    /\ up' = TRUE
    /\ UNCHANGED <<clock, round, cycle, crashes, failures, network>>

\* A start that failed; past the sync what it read is on the disk, and while
\* rebasing the cut may be too.
failed_start(n, lossy, reached, rebased) ==
    /\ Resumes(n, lossy) /\ reached # "Serving" /\ DiskLies
    /\ failures < MaxStarts /\ failures' = failures + 1
    /\ (rebased => reached = "Rebasing")
    /\ log' = IF rebased THEN Append(SubSeq(log, 1, n), Rebase) ELSE log
    /\ judge_recovery(n, n, lossy, reached)
    /\ UNCHANGED <<clock, up, round, cycle, crashes, network>>

-----------------------------------------------------------------------------
NodeInit ==
    /\ setup \in Setups
    /\ clock = 0 /\ log = <<>> /\ up = TRUE
    /\ refusing = FALSE /\ round = None /\ cycle = None /\ durable = None
    /\ crashes = <<>> /\ truncated = 0 /\ reported = None /\ unreported = FALSE /\ failures = 0
    /\ conn = TRUE /\ phase = "idle" /\ burst = <<>> /\ answers = <<>> /\ sent = 0

Node == \/ Tick \/ sync_issued \/ sync_completed \/ OpenImage \/ covered \/ Fault \/ Serve \/ Other
        \/ \E s \in Slots : Evict(s)
        \/ crash_and_restart
        \/ \E n \in 0..Len(log), lossy, cut \in BOOLEAN : recovered(n, lossy, cut)
        \/ \E n \in 0..Len(log), lossy, rebased \in BOOLEAN, reached \in Reached :
               failed_start(n, lossy, reached, rebased)
=============================================================================
