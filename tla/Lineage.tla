------------------------------- MODULE Lineage -------------------------------
(***************************************************************************)
(* The simulator's other judge: it keeps every effect a shard logged, and  *)
(* when a start recovers a state asks whether folding some prefix of them  *)
(* gives it.  A start may lose a tail, be cut, fail and be tried again,    *)
(* and the sequence numbers go on from where the start says.               *)
(***************************************************************************)
EXTENDS SimNode

VARIABLES lineage,      \* Lineage: base, effects, seq_base, index_base
          appends,      \* records appended so far
          outside,      \* a record was appended outside the lineage
          unheld        \* Tally.unheld_states # 0

vars == <<nodeVars, lineage, appends, outside, unheld>>

MaxAppends == setup.ops         \* bound on records appended
Values == {1}                   \* values written: with one, a state occurs again

-----------------------------------------------------------------------------
\* Where in the effects the record `seq` goes.
position(l, seq) == l.index_base + (seq - l.seq_base)

appended(l, seq, effect) ==
    [l EXCEPT !.effects = Append(SubSeq(@, 1, position(l, seq)), effect)]

\* The positions after which the fold of the effects is the recovered state.
Positions(l, recovered_ks) ==
    {n \in 0..Len(l.effects) :
        FoldLeft(ApplyEffect, l.base, SubSeq(l.effects, 1, n)) = recovered_ks}

Never == -1

\* The last position that fits.
judge(l, recovered_ks) ==
    LET held == Positions(l, recovered_ks) IN IF held = {} THEN Never ELSE Max(held)

\* The lineage from a start on: what it resumed, and the next number.
served(l, recovered_ks, next_seq, held) ==
    [base |-> IF held = Never THEN recovered_ks ELSE l.base,
     effects |-> IF held = Never THEN <<>> ELSE SubSeq(l.effects, 1, held),
     seq_base |-> next_seq,
     index_base |-> IF held = Never THEN 0 ELSE held]

-----------------------------------------------------------------------------
(* The shard logs a write, or a start serves.                              *)

Log(effect) ==
    /\ up /\ appends < MaxAppends /\ appends' = appends + 1
    /\ log' = Append(log, effect)
    /\ LET at == position(lineage, Len(log))
       IN  /\ outside' = (outside \/ at \notin 0..Len(lineage.effects))
           /\ lineage' = IF outside' THEN lineage ELSE appended(lineage, Len(log), effect)
    /\ UNCHANGED <<clock, up, disk, durable, judged, network, unheld>>

Put(s, v) == Log([op |-> "Put", slot |-> s, value |-> v, at |-> None, time |-> clock])

Del(s) == /\ Present(Keyspace(log), s)
          /\ Log([op |-> "Del", slot |-> s, time |-> clock])

\* A start that gets as far as serving is judged, and the lineage follows it.
Start(n, lossy, cut) ==
    /\ recovered(n, lossy, cut)
    /\ LET held == judge(lineage, Keyspace(SubSeq(log, 1, n)))
       IN  /\ lineage' = served(lineage, Keyspace(SubSeq(log, 1, n)), Len(log'), held)
           /\ unheld' = (unheld \/ held = Never)
    /\ UNCHANGED <<appends, outside>>

Init == /\ NodeInit
        /\ lineage = [base |-> [s \in Slots |-> <<>>], effects |-> <<>>, seq_base |-> 0, index_base |-> 0]
        /\ appends = 0 /\ outside = FALSE /\ unheld = FALSE

Next == /\ UNCHANGED setup
        /\ \/ \E s \in Slots, v \in Values : Put(s, v)
           \/ \E s \in Slots : Del(s)
           \/ \E n \in 0..Len(log), lossy, cut \in BOOLEAN : Start(n, lossy, cut)
           \/ /\ \/ Tick \/ sync_issued \/ sync_completed \/ OpenImage \/ covered
                 \/ crash_and_restart
                 \/ \E n \in 0..Len(log), lossy, rebased \in BOOLEAN, reached \in Reached :
                        failed_start(n, lossy, reached, rebased)
              /\ UNCHANGED <<lineage, appends, outside, unheld>>

Spec == Init /\ [][Next]_vars

-----------------------------------------------------------------------------
(* Properties.                                                             *)

\* A start that recovers a state the shard held is judged to have: after any
\* cuts, lost tails, failed starts and states that occur more than once, a
\* recovered prefix is always found (Lineage::judge, served; the invariant's
\* unheld_states and unreported_unheld).
HeldIsFound == ~unheld

\* The lineage keeps step with the log: the next record has a place in it, and
\* folding it gives what the shard holds (Lineage::appended's panic).
InStep == /\ ~outside
          /\ up => FoldLeft(ApplyEffect, lineage.base, lineage.effects) = Keyspace(log)
=============================================================================
