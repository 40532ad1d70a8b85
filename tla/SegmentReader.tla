---------------------------- MODULE SegmentReader ----------------------------
(***************************************************************************)
(* Reader::next_record over one segment: records read in chunks, damage    *)
(* stepped over a byte at a time, an end trusted only when nothing intact  *)
(* follows it.  A byte is a small number; a length and a checksum take one *)
(* each, and the checksum never collides.  The segment is what a writer    *)
(* wrote, cut short, zero-filled or overwritten somewhere.                 *)
(***************************************************************************)
EXTENDS Integers, Sequences, SequencesExt, FiniteSets

CONSTANTS Bodies,         \* bodies of records
          MaxRecords,
          Harms,          \* bytes damage may put in place of others
          MaxRun,         \* bound on the length of a damaged run
          MaxZeros,       \* bound on the zeros after the last record
          Chunks,         \* sizes of a read
          BODY_FIXED_LEN, MAX_BODY_LEN, RESYNC_CAP,
          None

VARIABLES seg, harmed, cut, zeros,      \* the segment, and what befell it
          chunk, remaining, buf, at,
          resynchronising, hole_at_tail, hole_at_end, spent, damage,
          items, done

segment == <<seg, harmed, cut, zeros, chunk>>
window == <<remaining, buf, at>>
hole == <<resynchronising, hole_at_tail, hole_at_end, spent>>
vars == <<segment, window, hole, damage, items, done>>

-----------------------------------------------------------------------------
(* Records.                                                                *)

END_OF_LOG == 0
MAGIC == 7
HEADER_LEN == 3

crc32(body) == 1000 + FoldLeft(LAMBDA sum, byte : 10 * sum + byte, 1, body)

encode_record(body) == <<MAGIC, Len(body), crc32(body)>> \o body

\* What the bytes at the head of w are.
decode_record(w) ==
    CASE w = <<>> -> "NeedMore"
      [] w # <<>> /\ w[1] = END_OF_LOG -> "EndOfLog"
      [] w # <<>> /\ w[1] \notin {END_OF_LOG, MAGIC} -> "Corrupt"
      [] OTHER ->
         IF Len(w) < HEADER_LEN THEN "NeedMore"
         ELSE IF w[2] \notin BODY_FIXED_LEN..MAX_BODY_LEN THEN "Corrupt"
         ELSE IF Len(w) < HEADER_LEN + w[2] THEN "NeedMore"
         ELSE IF w[3] # crc32(SubSeq(w, HEADER_LEN + 1, HEADER_LEN + w[2])) THEN "Corrupt"
         ELSE "Record"

\* The bytes decode_record checksums to say Corrupt, if it gets that far.
checksummed_len(w) ==
    IF w[1] = MAGIC /\ Len(w) >= HEADER_LEN /\ w[2] \in BODY_FIXED_LEN..MAX_BODY_LEN
          /\ Len(w) >= HEADER_LEN + w[2]
    THEN w[2] ELSE None

-----------------------------------------------------------------------------
(* The reader.                                                             *)

Cmin(a, b) == IF a < b THEN a ELSE b

\* `compact`, which every turn of the loop begins with.
Compacts == at > 0 /\ at >= Len(buf) \div 2
Buf == IF Compacts THEN SubSeq(buf, at + 1, Len(buf)) ELSE buf
At == IF Compacts THEN 0 ELSE at
Window == SubSeq(buf, at + 1, Len(buf))

offset == Len(seg) - remaining - Len(Window)

Reading == ~done /\ (at < Len(buf) \/ remaining > 0)

\* The bytes `fill(want)` brings.
Filled(want) == Cmin(want, remaining)

fill(want) == /\ buf' = Buf \o SubSeq(seg, Len(seg) - remaining + 1,
                                      Len(seg) - remaining + Filled(want))
              /\ remaining' = remaining - Filled(want)
              /\ at' = At

\* `step(1)`: bytes is the damage it adds to.
Stepped(d) == [d EXCEPT !.bytes = @ + 1]
step == at' = At + 1 /\ buf' = Buf /\ UNCHANGED remaining

enter_hole(d) == IF resynchronising THEN d ELSE [d EXCEPT !.holes = @ + 1]

overdrawn == spent > RESYNC_CAP

TakeRecord ==
    /\ Reading /\ decode_record(Window) = "Record"
    /\ LET consumed == HEADER_LEN + Window[2]
       IN  /\ items' = Append(items, [at |-> offset, end |-> offset + consumed])
           /\ at' = At + consumed /\ buf' = Buf
    /\ resynchronising' = FALSE /\ hole_at_tail' = None /\ hole_at_end' = None /\ spent' = 0
    /\ UNCHANGED <<segment, remaining, damage, done>>

\* A zero: the end, or a zeroed range.
AtEndMarker ==
    /\ Reading /\ decode_record(Window) = "EndOfLog"
    /\ hole_at_end' = IF resynchronising THEN hole_at_end ELSE damage
    /\ damage' = Stepped(enter_hole(damage))
    /\ resynchronising' = TRUE
    /\ step
    /\ UNCHANGED <<segment, hole_at_tail, spent, items, done>>

\* Short of a record at a boundary: more is read, and when there is no more the
\* candidate was cut short, or its length was made up.
ShortAtBoundary ==
    /\ Reading /\ decode_record(Window) = "NeedMore" /\ ~resynchronising
    /\ IF Filled(chunk) > 0
       THEN fill(chunk) /\ UNCHANGED <<hole, damage>>
       ELSE /\ damage' = Stepped(enter_hole(damage))
            /\ hole_at_tail' = damage.bytes
            /\ resynchronising' = TRUE
            /\ step /\ UNCHANGED <<hole_at_end, spent>>
    /\ UNCHANGED <<segment, items, done>>

\* Mutant: a candidate that does not fit the window is not waited for.
short_read_hasty ==
    /\ Reading /\ decode_record(Window) = "NeedMore" /\ resynchronising
    /\ IF Len(Window) < HEADER_LEN /\ remaining > 0
       THEN fill(chunk) /\ UNCHANGED <<damage, done>>
       ELSE damage' = Stepped(damage) /\ step /\ UNCHANGED done
    /\ UNCHANGED <<segment, hole, items>>

\* Short of a record inside a hole: the candidate is pulled in whole when it
\* fits the segment and the cap is not spent.
resync_short_read ==
    /\ Reading /\ decode_record(Window) = "NeedMore" /\ resynchronising
    /\ IF Len(Window) < HEADER_LEN
       THEN IF remaining = 0 THEN damage' = Stepped(damage) /\ step /\ UNCHANGED done
            ELSE fill(chunk) /\ UNCHANGED <<damage, done>>
       ELSE LET total == HEADER_LEN + Window[2]
            IN  IF total > Len(Window) + remaining
                THEN damage' = Stepped(damage) /\ step /\ UNCHANGED done
                ELSE IF overdrawn
                THEN damage' = [damage EXCEPT !.abandoned = TRUE] /\ done' = TRUE /\ UNCHANGED window
                ELSE fill(total - Len(Window)) /\ UNCHANGED <<damage, done>>
    /\ UNCHANGED <<segment, hole, items>>

\* What the hole has spent once this candidate is checksummed.
charge(declared) == IF declared = None \/ overdrawn THEN spent ELSE spent + declared

AtCorrupt ==
    /\ Reading /\ decode_record(Window) = "Corrupt"
    /\ LET declared == checksummed_len(Window)
           gives_up == declared # None /\ overdrawn
       IN  /\ damage' = [Stepped(enter_hole(damage)) EXCEPT !.abandoned = gives_up]
           /\ spent' = charge(declared)
           /\ done' = gives_up
    /\ resynchronising' = TRUE
    /\ step
    /\ UNCHANGED <<segment, hole_at_tail, hole_at_end, items>>

\* The damage as it stands once the segment has run out.
end_of_segment ==
    IF hole_at_end # None THEN hole_at_end
    ELSE IF hole_at_tail = None THEN damage
    ELSE [damage EXCEPT !.bytes = hole_at_tail, !.holes = @ - 1,
                        !.truncated_tail = @ + (damage.bytes - hole_at_tail)]

Finish ==
    /\ ~done /\ at >= Len(buf) /\ remaining = 0
    /\ damage' = end_of_segment
    /\ hole_at_end' = None /\ hole_at_tail' = None
    /\ done' = TRUE
    /\ UNCHANGED <<segment, window, resynchronising, spent, items>>

-----------------------------------------------------------------------------
\* What was written, then cut at c or followed by zeros, then overwritten from
\* `first` for `run` bytes.
Segment(bodies, c, z, first, run, byte) ==
    LET whole == FlattenSeq([i \in DOMAIN bodies |-> encode_record(bodies[i])])
        kept  == SubSeq(whole, 1, Len(whole) - c) \o [i \in 1..z |-> END_OF_LOG]
    IN  [i \in DOMAIN kept |-> IF i \in first..(first + run - 1) THEN byte ELSE kept[i]]

Init ==
    /\ \E n \in 1..MaxRecords, run \in 0..MaxRun, z \in 0..MaxZeros :
       \E bodies \in [1..n -> Bodies], byte \in Harms :
       \E c \in 0..(HEADER_LEN + MAX_BODY_LEN), first \in 1..(n * (HEADER_LEN + MAX_BODY_LEN)) :
          /\ run = 0 => first = 1 /\ byte = END_OF_LOG
          /\ c > 0 => z = 0
          /\ c < Len(encode_record(bodies[n]))
          /\ seg = Segment(bodies, c, z, first, run, byte)
          /\ harmed = (run > 0) /\ cut = c /\ zeros = z
    /\ chunk \in Chunks
    /\ remaining = Len(seg) /\ buf = <<>> /\ at = 0
    /\ resynchronising = FALSE /\ hole_at_tail = None /\ hole_at_end = None /\ spent = 0
    /\ damage = [bytes |-> 0, holes |-> 0, truncated_tail |-> 0, abandoned |-> FALSE]
    /\ items = <<>> /\ done = FALSE

Next == \/ TakeRecord \/ AtEndMarker \/ ShortAtBoundary \/ resync_short_read
        \/ AtCorrupt \/ Finish

Spec == Init /\ [][Next]_vars

-----------------------------------------------------------------------------
(* Properties.                                                             *)

\* The records of a segment read whole, from offset i on: one that is there is
\* taken, any other byte is stepped over.
Whole == [i \in 0..Len(seg) |->
             LET w == SubSeq(seg, i + 1, Len(seg))
             IN  IF decode_record(w) = "Record" THEN i + HEADER_LEN + w[2] ELSE 0]

Records ==
    LET taken[i \in 0..Len(seg)] ==
            IF i = Len(seg) THEN <<>>
            ELSE IF Whole[i] # 0 THEN << [at |-> i, end |-> Whole[i]] >> \o taken[Whole[i]]
            ELSE taken[i + 1]
    IN  taken[0]

\* Every intact record is read, in its place, and nothing else is: neither the
\* size of a read nor the damage before it makes a difference, as long as the
\* resynchronisation was not given up (next_record, resync_short_read).
FindsTheIntact ==
    IF done /\ ~damage.abandoned THEN items = Records
    ELSE IsPrefix(items, Records)

ItemBytes == FoldLeft(LAMBDA sum, item : sum + (item.end - item.at), 0, items)

EndOfItems == IF items = <<>> THEN 0 ELSE Last(items).end

\* Every byte of a segment that was read to its end is a record's, or damage,
\* or the tail's, once - but for what follows an end marker that was the end.
Accounted ==
    done /\ ~damage.abandoned =>
        LET said == ItemBytes + damage.bytes + damage.truncated_tail
        IN  \/ said = Len(seg)
            \/ /\ said = Len(seg) - (Len(seg) - EndOfItems)
               /\ seg[EndOfItems + 1] = END_OF_LOG

\* A segment a crash cut short, or left zeros behind, has no damage: the cut
\* record is a tail, the zeros are nothing (end_of_segment).
TearIsNoDamage ==
    done /\ ~harmed => /\ damage.bytes = 0 /\ damage.holes = 0 /\ ~damage.abandoned
                       /\ damage.truncated_tail = IF cut = 0 THEN 0
                                                  ELSE Len(seg) - EndOfItems

\* One hole checksums no more than the cap and a body, and is given up only
\* once it is past the cap (charge, overdrawn).
CapHeld == /\ spent <= RESYNC_CAP + MAX_BODY_LEN
           /\ damage.abandoned => spent > RESYNC_CAP
=============================================================================
