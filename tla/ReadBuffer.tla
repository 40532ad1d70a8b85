----------------------------- MODULE ReadBuffer -----------------------------
(***************************************************************************)
(* The three buffers a connection holds between requests, and how it gives *)
(* them back: by the shape of its reads while the peer talks, by a timer   *)
(* once it does not. Time is counted in ticks of the runtime's clock.      *)
(*                                                                         *)
(* Sizes are in units of which the floor is several. What a drain decodes  *)
(* and answers is module Connection's; here it is the sizes it leaves.     *)
(***************************************************************************)
EXTENDS Integers, Sequences

CONSTANTS READ_FLOOR, READ_CEILING,
          READ_QUIET_READS,
          REPLY_SHED,       \* also DecoderLimits::SHED
          MaxRequest,       \* max_request_bytes: past it the connection is closed
          IdleShed,         \* idle_shed, in ticks
          Gots,             \* how much a read that does not fill the buffer gets
          Replies           \* sizes of what a drain answers

ASSUME ReadBufferAssumption ==
    /\ 0 < READ_FLOOR /\ READ_FLOOR <= READ_CEILING /\ READ_CEILING <= REPLY_SHED
    /\ READ_QUIET_READS > 0 /\ IdleShed > 0

VARIABLES at,               \* where the task is: "drain" or "select"
          read_buf,         \* its length
          decoder,          \* bytes of an unfinished frame, and the capacity held
          out,              \* the reply buffer's capacity
          quiet_reads,
          armed, left,      \* the timer: whether polled, and ticks until it is due
          fresh,            \* reads # reads_when_armed
          silent,           \* ticks since the last read
          parked,           \* those of them spent waiting for another
          recent            \* of the last reads, whether each used a quarter or less

vars == <<at, read_buf, decoder, out, quiet_reads, armed, left, fresh, silent, parked, recent>>

buffers == <<read_buf, decoder, out>>

Larger(a, b) == IF a > b THEN a ELSE b

Smaller(a, b) == IF a < b THEN a ELSE b

\* Vec::shrink_to: down to cap, never below what it holds.
shrink_to(capacity, len, cap) == Smaller(capacity, Larger(len, cap))

-----------------------------------------------------------------------------
Init ==
    /\ at = "drain"
    /\ read_buf = READ_FLOOR
    /\ decoder = [held |-> 0, capacity |-> 0]
    /\ out = 0
    /\ quiet_reads = 0
    /\ armed = FALSE /\ left = IdleShed /\ fresh = FALSE
    /\ silent = 0 /\ parked = 0
    /\ recent = <<>>

\* What was read is decoded, as far as it makes whole frames, and answered; the
\* replies are written and their buffer shed to its own floor. Or no frame is
\* whole yet, and nothing is answered.
Drain ==
    /\ at = "drain"
    /\ at' = "select"
    /\ \/ /\ decoder.held > 0
          /\ \E held \in {0, 1}, size \in Replies :
                /\ held < decoder.held
                /\ decoder' = [held |-> held,
                               capacity |-> shrink_to(decoder.capacity, held, REPLY_SHED)]
                /\ out' = shrink_to(Larger(out, size), 0, REPLY_SHED)
       \/ UNCHANGED <<decoder, out>>
    /\ UNCHANGED <<read_buf, quiet_reads, armed, left, fresh, silent, parked, recent>>

\* shed_connection_buffers: all three, down to the read buffer's floor.
shed_connection_buffers(d) ==
    /\ read_buf' = READ_FLOOR
    /\ decoder' = [d EXCEPT !.capacity = shrink_to(@, d.held, READ_FLOOR)]
    /\ out' = shrink_to(out, 0, READ_FLOOR)

\* Planted: a read that is neither full nor small leaves the count.
ResizeCountingOn(d, got) ==
    \/ /\ got = read_buf
       /\ quiet_reads' = 0
       /\ read_buf' = Smaller(2 * read_buf, READ_CEILING)
       /\ decoder' = d /\ UNCHANGED out
    \/ /\ got # read_buf /\ (read_buf = READ_FLOOR \/ got * 4 > read_buf)
       /\ decoder' = d /\ UNCHANGED <<read_buf, out, quiet_reads>>
    \/ /\ got # read_buf /\ read_buf # READ_FLOOR /\ got * 4 <= read_buf
       /\ IF quiet_reads + 1 >= READ_QUIET_READS
            THEN quiet_reads' = 0 /\ shed_connection_buffers(d)
            ELSE quiet_reads' = quiet_reads + 1 /\ decoder' = d /\ UNCHANGED <<read_buf, out>>

\* resize_connection_buffers: a full read doubles the buffer, a run of small
\* ones sheds it, anything else starts the run over.
resize_connection_buffers(d, got) ==
    \/ /\ got = read_buf
       /\ quiet_reads' = 0
       /\ read_buf' = Smaller(2 * read_buf, READ_CEILING)
       /\ decoder' = d /\ UNCHANGED out
    \/ /\ got # read_buf /\ (read_buf = READ_FLOOR \/ got * 4 > read_buf)
       /\ quiet_reads' = 0
       /\ decoder' = d /\ UNCHANGED <<read_buf, out>>
    \/ /\ got # read_buf /\ read_buf # READ_FLOOR /\ got * 4 <= read_buf
       /\ IF quiet_reads + 1 >= READ_QUIET_READS
            THEN quiet_reads' = 0 /\ shed_connection_buffers(d)
            ELSE quiet_reads' = quiet_reads + 1 /\ decoder' = d /\ UNCHANGED <<read_buf, out>>

\* The timer is armed while the read buffer stands above its floor.
Arm ==
    IF ~armed /\ read_buf' > READ_FLOOR
      THEN armed' = TRUE /\ left' = IdleShed /\ fresh' = FALSE
      ELSE armed' = (armed /\ read_buf' > READ_FLOOR) /\ fresh' = armed /\ UNCHANGED left

Latest(seq) == SubSeq(seq, 1, Smaller(Len(seq), READ_QUIET_READS))

\* The read arm: bytes are fed to the decoder, and the buffers resized.
Read ==
    /\ at = "select"
    /\ at' = "drain"
    /\ \E got \in {n \in Gots : n < read_buf} \cup {read_buf} :
          LET held == decoder.held + got
          IN  /\ held <= MaxRequest
              /\ resize_connection_buffers(
                    [held |-> held, capacity |-> Larger(decoder.capacity, held)], got)
              /\ recent' = Latest(<<4 * got <= read_buf>> \o recent)
    /\ Arm
    /\ silent' = 0 /\ parked' = 0

\* Planted: a firing that finds reads re-arms against the count it had.
FireRemembering ==
    /\ at = "select" /\ armed /\ left = 0
    /\ IF ~fresh
         THEN /\ shed_connection_buffers(decoder)
              /\ quiet_reads' = 0 /\ armed' = FALSE
              /\ UNCHANGED <<left, fresh>>
         ELSE /\ left' = IdleShed
              /\ UNCHANGED <<buffers, quiet_reads, armed, fresh>>
    /\ UNCHANGED <<at, silent, parked, recent>>

\* The idle arm: sheds when nothing was read since it was armed, else re-arms.
\* The drain it goes back to has nothing to decode and comes straight back.
Fire ==
    /\ at = "select" /\ armed /\ left = 0
    /\ IF ~fresh
         THEN /\ shed_connection_buffers(decoder)
              /\ quiet_reads' = 0 /\ armed' = FALSE
              /\ UNCHANGED <<left, fresh>>
         ELSE /\ left' = IdleShed /\ fresh' = FALSE
              /\ UNCHANGED <<buffers, quiet_reads, armed>>
    /\ UNCHANGED <<at, silent, parked, recent>>

\* A tick of the clock. A task that waits is woken when its timer is due, before
\* the next one.
Tick ==
    /\ at = "drain" \/ ~armed \/ left > 0
    /\ left' = Larger(left - 1, 0)
    /\ silent' = Smaller(silent + 1, 2 * IdleShed + 1)
    /\ parked' = IF at = "select" THEN Smaller(parked + 1, 2 * IdleShed + 1) ELSE parked
    /\ UNCHANGED <<at, buffers, quiet_reads, armed, fresh, recent>>

Next == Drain \/ Read \/ Fire \/ Tick

Spec == Init /\ [][Next]_vars

-----------------------------------------------------------------------------
(* Properties. *)

\* Sizes and counts stay in range, and no shedding drops a byte the decoder
\* still needs: a frame half arrived survives it (Decoder::shed_to).
TypeOK ==
    /\ at \in {"drain", "select"}
    /\ read_buf \in READ_FLOOR .. READ_CEILING
    /\ decoder.held \in 0 .. MaxRequest /\ decoder.capacity >= decoder.held
    /\ out \in 0 .. REPLY_SHED
    /\ quiet_reads \in 0 .. READ_QUIET_READS - 1
    /\ armed \in BOOLEAN /\ fresh \in BOOLEAN /\ left \in 0 .. IdleShed

\* A connection waiting on a silent peer gives a grown read buffer back within
\* two intervals of waiting (IDLE_SHED_AFTER), however the reads before fell
\* around the arming of the timer and however long the drain took.
GivenBackInTime == at = "select" /\ read_buf > READ_FLOOR => parked <= 2 * IdleShed

\* Buffers are taken only from the quiet: the timer takes a grown buffer only
\* from a peer silent for a whole interval at least, and reads shed it only when
\* a whole window of them, one after the other, used a quarter of it or less
\* (resize_connection_buffers).  A conversation with shorter pauses, or with
\* one busy read among the small ones, keeps its buffers.
ShedOnlyQuiet ==
    [][/\ read_buf' < read_buf /\ at' = "select" => silent >= IdleShed
       /\ read_buf' < read_buf /\ at' = "drain" =>
             Len(recent') = READ_QUIET_READS /\ \A i \in DOMAIN recent' : recent'[i]]_vars

\* A timer runs for exactly the connections with a read buffer above the floor,
\* also for one its reads have emptied and that then grew again.
TimerWhileGrown == armed <=> read_buf > READ_FLOOR
=============================================================================
