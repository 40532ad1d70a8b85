----------------------------- MODULE RespDecoder -----------------------------
(***************************************************************************)
(* The RESP2 decoder of seedstone-resp: bytes arrive in pieces of any      *)
(* size, and frames come out.  The decoder keeps what it read of a frame   *)
(* across pieces (a line scanned so far, a bulk's length, the arrays still *)
(* being filled) and drops the bytes of frames it delivered.               *)
(*                                                                         *)
(* Offsets count from zero, as in the code.  A frame costs FrameSize bytes *)
(* of memory (the size of the Frame type) besides its text.                *)
(***************************************************************************)
EXTENDS Integers, Sequences, SequencesExt

CONSTANTS CR, LF,             \* the bytes of a line end
          NotUtf8,            \* a byte no UTF-8 text holds
          FrameSize, I64Max,
          MAX_BULK_LEN, MAX_ARRAY_LEN, MAX_ARRAY_DEPTH,
          Wires,              \* the streams a peer may send: [wire, sent, limits]
          MaxChunk            \* bound on the bytes of one feed

VARIABLES wire,     \* the stream this peer sends, and
          sent,       \* the frames it encodes, when it is well formed
          limits,     \* Decoder.limits: DecoderLimits
          fed,        \* how many of its bytes have been fed
          buf,        \* Decoder.buf
          state,      \* Decoding
          delivered,  \* the frames try_next returned
          status      \* "some", "none" or "error": what it returned last

vars == <<wire, sent, limits, fed, buf, state, delivered, status>>

Digit == <<"0", "1", "2", "3", "4", "5", "6", "7", "8", "9">>

Crlf == <<CR, LF>>

-----------------------------------------------------------------------------
(* Encoding.                                                               *)

RECURSIVE Decimal(_)
Decimal(n) == IF n < 0 THEN <<"-">> \o Decimal(-n)
              ELSE IF n < 10 THEN <<Digit[n + 1]>>
              ELSE Append(Decimal(n \div 10), Digit[(n % 10) + 1])

Line(type, text) == <<type>> \o text \o Crlf

\* encode_one: a frame's own bytes; an array's elements follow its header.
encode_one(frame) ==
    CASE frame[1] = "Simple"  -> Line("+", frame[2])
      [] frame[1] = "Error"   -> Line("-", frame[2])
      [] frame[1] = "Integer" -> Line(":", Decimal(frame[2]))
      [] frame[1] = "Bulk"    -> Line("$", Decimal(Len(frame[2]))) \o frame[2] \o Crlf
      [] frame[1] = "Null"    -> Line("$", <<"-", "1">>)
      [] frame[1] = "Array"   -> Line("*", Decimal(Len(frame[2])))

\* encode: a stack of frames still to emit, an array's children pushed first.
RECURSIVE encode(_)
encode(pending) ==
    IF pending = <<>> THEN <<>>
    ELSE LET frame == Head(pending)
             inner == IF frame[1] = "Array" THEN frame[2] ELSE <<>>
         IN  encode_one(frame) \o encode(inner \o Tail(pending))

-----------------------------------------------------------------------------
(* Decoding one element.                                                   *)

Start == [at |-> "Start"]
LineFrom(i) == [at |-> "Line", scanned |-> i]
BulkBody(header, len) == [at |-> "BulkBody", header |-> header, len |-> len]

Fresh == [frame_start |-> 0, scan |-> 0, partial |-> Start, stack |-> <<>>, in_memory |-> 0]

Byte(b, i) == b[i + 1]
Between(b, i, j) == SubSeq(b, i + 1, j)

Nothing == <<"none">>
Failed == <<"error">>
Value(frame) == <<"value", frame>>
ArrayHeader(n) == <<"header", n>>

Outcome(st, result) == [st |-> st, result |-> result]

\* The value of a run of digits.
Digits(digits) ==
    FoldLeft(LAMBDA n, c : 10 * n + (CHOOSE d \in 0 .. 9 : c = Digit[d + 1]), 0, digits)

Signed(minus, value) ==
    IF value > I64Max + (IF minus THEN 1 ELSE 0) THEN Failed
    ELSE <<"ok", IF minus THEN -value ELSE value>>

\* parse_i64: a sign, digits, and a value a signed 64-bit integer holds.
parse_i64(field) ==
    LET minus  == field # <<>> /\ field[1] = "-"
        digits == IF minus THEN Tail(field) ELSE field
    IN  IF digits = <<>> \/ (\E i \in DOMAIN digits : digits[i] \notin ToSet(Digit)) THEN Failed
        ELSE Signed(minus, Digits(digits))

headroom(st) == IF limits.max_in_memory > st.in_memory THEN limits.max_in_memory - st.in_memory ELSE 0

payload_bytes(frame) == IF frame[1] \in {"Simple", "Error", "Bulk"} THEN Len(frame[2]) ELSE 0

ResumeAfter(b, st, start) ==               \* Planted: resumes past a lone CR
    IF st.partial.at = "Line" /\ st.partial.scanned > start THEN st.partial.scanned + 1 ELSE start

Resume(b, st, start) ==
    IF st.partial.at = "Line" /\ st.partial.scanned > start THEN st.partial.scanned ELSE start

\* find_crlf: the line's end, looked for from where the last call stopped.
find_crlf(b, st, resume) ==
    LET ends == {i \in resume .. Len(b) - 2 : Byte(b, i) = CR /\ Byte(b, i + 1) = LF}
    IN  IF ends = {}
        THEN [found |-> FALSE,
              st |-> [st EXCEPT !.partial =
                         LineFrom(IF Len(b) - 1 > resume THEN Len(b) - 1 ELSE resume)]]
        ELSE [found |-> TRUE, end |-> CHOOSE i \in ends : \A j \in ends : i <= j,
              st |-> [st EXCEPT !.partial = Start]]

\* finish_bulk: the body, once it and its line end are in the buffer.
finish_bulk(b, st, header, len) ==
    LET start == st.scan + header
        end   == start + len + 2
    IN  IF end > Len(b) THEN Outcome(st, Nothing)
        ELSE IF Between(b, start + len, end) # Crlf THEN Outcome(st, Failed)
        ELSE Outcome([st EXCEPT !.scan = end, !.partial = Start],
                     Value(<<"Bulk", Between(b, start, start + len)>>))

\* array_header: how many elements, if the limits allow that many.
array_header(st, count) ==
    IF \/ count = Failed
       \/ count[2] < 0
       \/ Len(st.stack) + 1 > MAX_ARRAY_DEPTH
       \/ count[2] > MAX_ARRAY_LEN
       \/ count[2] * FrameSize > headroom(st)
    THEN Failed ELSE ArrayHeader(count[2])

Text(type, field) == IF \E i \in DOMAIN field : field[i] = NotUtf8 THEN Failed
                     ELSE Value(<<type, field>>)

Integer(n) == IF n = Failed THEN Failed ELSE Value(<<"Integer", n[2]>>)

\* A bulk's length is checked, and its memory afforded, before its body is
\* waited for.
Bulk(b, st, next, len) ==
    CASE len = Failed -> Outcome(st, Failed)
      [] len # Failed /\ len[2] = -1 -> Outcome([st EXCEPT !.scan = next], Value(<<"Null">>))
      [] len # Failed /\ (len[2] < -1 \/ len[2] > MAX_BULK_LEN
                          \/ FrameSize + len[2] > headroom(st)) -> Outcome(st, Failed)
      [] OTHER -> finish_bulk(b, [st EXCEPT !.partial = BulkBody(next - st.scan, len[2])],
                              next - st.scan, len[2])

\* Empty lines between frames are skipped.
RECURSIVE SkipLines(_, _)
SkipLines(b, st) ==
    IF st.scan + 1 < Len(b) /\ Between(b, st.scan, st.scan + 2) = Crlf
    THEN SkipLines(b, [st EXCEPT !.scan = @ + 2, !.frame_start = st.scan + 2])
    ELSE st

\* What the line makes of the element: past it when it is good.
AfterLine(st, next, result) ==
    IF result = Failed THEN Outcome(st, Failed) ELSE Outcome([st EXCEPT !.scan = next], result)

\* An element whose header line ends at `end`.
ElementOf(b, st, type, field, end) ==
    CASE type = "+" -> AfterLine(st, end + 2, Text("Simple", field))
      [] type = "-" -> AfterLine(st, end + 2, Text("Error", field))
      [] type = ":" -> AfterLine(st, end + 2, Integer(parse_i64(field)))
      [] type = "$" -> Bulk(b, st, end + 2, parse_i64(field))
      [] type = "*" -> AfterLine(st, end + 2, array_header(st, parse_i64(field)))

LineElement(b, st, line) ==
    IF ~line.found THEN Outcome(line.st, Nothing)
    ELSE ElementOf(b, line.st, Byte(b, st.scan), Between(b, st.scan + 1, line.end), line.end)

ElementFrom(b, st) ==
    IF st.scan >= Len(b) THEN Outcome(st, Nothing)
    ELSE IF /\ st.stack = <<>> /\ st.partial = Start
            /\ Byte(b, st.scan) = CR /\ st.scan + 1 = Len(b) THEN Outcome(st, Nothing)
    ELSE IF Byte(b, st.scan) \notin {"+", "-", ":", "$", "*"} THEN Outcome(st, Failed)
    ELSE LineElement(b, st, find_crlf(b, st, Resume(b, st, st.scan + 1)))

\* read_element: the next value or array header.
read_element(b, st) ==
    IF st.partial.at = "BulkBody" THEN finish_bulk(b, st, st.partial.header, st.partial.len)
    ELSE ElementFrom(b, IF st.stack = <<>> /\ st.partial = Start THEN SkipLines(b, st) ELSE st)

-----------------------------------------------------------------------------
(* Frames.                                                                 *)

Cost(frame) == FrameSize + payload_bytes(frame)

\* charge, then into the innermost array still being filled; an array that is
\* full is itself such a value.
RECURSIVE Settle(_, _)
Settle(st, frame) ==
    LET Into(top, charged) ==
            IF top.remaining = 0
            THEN Settle([charged EXCEPT !.stack = Front(@)], <<"Array", top.elements>>)
            ELSE Outcome([charged EXCEPT !.stack = Append(Front(@), top)], Nothing)
    IN  IF Cost(frame) > headroom(st) THEN Outcome(st, Failed)
        ELSE IF st.stack = <<>> THEN Outcome([st EXCEPT !.in_memory = 0], Value(frame))
        ELSE Into([Last(st.stack) EXCEPT !.remaining = @ - 1, !.elements = Append(@, frame)],
                  [st EXCEPT !.in_memory = @ + Cost(frame)])

\* place: one element into the arrays being filled.
place(st, element) ==
    IF element[1] = "value" THEN Settle(st, element[2])
    ELSE IF element[2] = 0 THEN Settle(st, <<"Array", <<>>>>)
    ELSE Outcome([st EXCEPT !.stack = Append(@, [remaining |-> element[2], elements |-> <<>>])],
                 Nothing)

check_frame_bytes(wire_bytes) == wire_bytes <= limits.max_frame_bytes

\* step: elements until a frame is whole, the bytes end, or one is refused.
RECURSIVE step(_, _)
step(b, st) ==
    LET Placed(placed) ==
            IF placed.result = Nothing THEN step(b, placed.st)
            ELSE IF placed.result = Failed
                    \/ check_frame_bytes(placed.st.scan - placed.st.frame_start) THEN placed
            ELSE Outcome(placed.st, Failed)
        Read(read) ==
            IF read.result = Failed THEN read
            ELSE IF read.result = Nothing
            THEN IF check_frame_bytes(Len(b) - read.st.frame_start) THEN read
                 ELSE Outcome(read.st, Failed)
            ELSE Placed(place(read.st, read.result))
    IN  Read(read_element(b, st))

finish_frame(st) == [st EXCEPT !.frame_start = st.scan, !.partial = Start, !.in_memory = 0]

-----------------------------------------------------------------------------
(* The decoder.                                                            *)

shift_back(st, cut) ==
    [st EXCEPT !.frame_start = @ - cut, !.scan = @ - cut,
               !.partial = IF @.at = "Line" THEN LineFrom(@.scanned - cut) ELSE @]

\* compact: the bytes of delivered frames go.
Compacted(b, st) == SubSeq(b, st.frame_start + 1, Len(b))

feed(n) ==
    /\ status # "error" /\ n <= Len(wire) - fed
    /\ buf' = Compacted(buf, state) \o SubSeq(wire, fed + 1, fed + n)
    /\ state' = shift_back(state, state.frame_start)
    /\ fed' = fed + n /\ status' = "some"
    /\ UNCHANGED <<wire, sent, limits, delivered>>

try_next ==
    /\ status = "some"
    /\ \E out \in {step(buf, state)} :
          \/ /\ out.result = Failed
             /\ status' = "error" /\ state' = out.st
             /\ UNCHANGED <<buf, delivered>>
          \/ /\ out.result = Nothing
             /\ status' = "none"
             /\ buf' = Compacted(buf, out.st)
             /\ state' = shift_back(out.st, out.st.frame_start)
             /\ UNCHANGED delivered
          \/ /\ out.result \notin {Failed, Nothing}
             /\ status' = "some" /\ state' = finish_frame(out.st)
             /\ delivered' = Append(delivered, out.result[2])
             /\ UNCHANGED buf
    /\ UNCHANGED <<wire, sent, limits, fed>>

\* shed_to: the same compaction; how much capacity stays is not modelled.
shed_to ==
    /\ status # "error" /\ state.frame_start > 0
    /\ buf' = Compacted(buf, state)
    /\ state' = shift_back(state, state.frame_start)
    /\ UNCHANGED <<wire, sent, limits, fed, delivered, status>>

Init ==
    /\ \E w \in Wires : wire = w.wire /\ sent = w.sent /\ limits = w.limits
    /\ fed = 0 /\ buf = <<>> /\ state = Fresh /\ delivered = <<>> /\ status = "none"

Next == (\E n \in 1 .. MaxChunk : feed(n)) \/ try_next \/ shed_to

Spec == Init /\ [][Next]_vars

-----------------------------------------------------------------------------
(* Properties.                                                             *)

\* What one pass over a whole stream gives: the frames, and whether it fails.
RECURSIVE Whole(_, _)
Whole(b, st) ==
    LET Rest(out) ==
            IF out.result \in {Failed, Nothing}
            THEN [frames |-> <<>>, failed |-> out.result = Failed]
            ELSE [Whole(b, finish_frame(out.st)) EXCEPT !.frames = <<out.result[2]>> \o @]
    IN  Rest(step(b, st))

\* However the stream is cut into pieces, the frames that come out are those
\* one pass over the whole stream finds, and it fails exactly when that pass
\* does (lib.rs Partial: what is kept of a frame across feeds).
PiecesDoNotMatter ==
    \A whole \in {Whole(wire, Fresh)} :
        /\ IsPrefix(delivered, whole.frames)
        /\ status = "none" /\ fed = Len(wire) => delivered = whole.frames /\ ~whole.failed
        /\ status = "error" => delivered = whole.frames /\ whole.failed

\* What encode writes, the decoder reads back: every frame of a well-formed
\* stream within the limits, in order, and no other (encode_one, step, place).
RoundTrip == sent # <<>> =>
    /\ IsPrefix(delivered, sent)
    /\ status # "error"
    /\ status = "none" /\ fed = Len(wire) => delivered = sent /\ buf = <<>>

RECURSIVE Weight(_)
Weight(frame) ==
    FrameSize + payload_bytes(frame) + (IF frame[1] # "Array" THEN 0
                   ELSE FoldLeft(LAMBDA n, f : n + Weight(f), 0, frame[2]))

\* The memory charged to the frame being built is what its finished parts
\* cost, and never passes the limit (charge, afford, place, finish_frame).
MemoryCharged == status # "error" =>
    /\ state.in_memory = FoldLeft(LAMBDA n, a : n + Weight(<<"Array", a.elements>>) - FrameSize,
                                  0, state.stack)
    /\ state.in_memory <= limits.max_in_memory

\* Once the bytes at hand are used up, what stays buffered is one unfinished
\* frame no longer than the limit on its bytes (check_frame_bytes, compact).
BufferBounded ==
    status = "none" => Len(buf) <= limits.max_frame_bytes /\ state.frame_start = 0
=============================================================================
