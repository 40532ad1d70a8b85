----------------------------- MODULE Connection -----------------------------
(***************************************************************************)
(* One client's connection (seedstone-service/src/connection.rs): requests *)
(* are decoded one after another, the ones for a shard gathered into a     *)
(* chunk that travels together, the others answered at the edge, and every *)
(* reply kept in the place of its request.                                 *)
(*                                                                         *)
(* The decoder hands over whole requests here (RespDecoder has the bytes), *)
(* and the shards are external: each key's executor runs the commands it   *)
(* is sent in order and its replies tell how many it ran before, so that   *)
(* any two orders of execution are told apart (Gather and FanOut have the  *)
(* channels).  Passwords are reloaded from their file at any moment, as    *)
(* server.rs does on a hangup signal.                                      *)
(***************************************************************************)
EXTENDS Dispatch, SequencesExt

CONSTANTS Requests,          \* what the client may send
          Files,             \* what the password file may hold: sequences of tokens
          Persistence,       \* whether the node has a data directory
          REPLY_HIGH_WATER,  \* frames held before they are written out
          MaxRequests,       \* bound: requests of one client
          MaxReloads         \* bound: password reloads

Keys == {"k1", "k2"}

(* Bytes no request can begin with: the decoder's error. *)
Garbled == <<"garbled">>

VARIABLES inbox,         \* requests the client sent and the server has not read
          decoder,       \* requests read and not yet decoded
          slots, batch,  \* Chunk
          held,          \* what the connection does once its chunk is emitted
          pc,            \* where the connection's task is
          waiting,       \* indices of batch whose reply has not come
          replies,       \* the replies of the batch
          out,           \* frames rendered and not yet written
          wire,          \* frames the client was sent
          authenticated,
          ran,           \* external: commands each key's executor has run
          lost,          \* external: keys whose executor is gone
          stop,          \* NodeInfo.stop was notified
          errors,        \* NodeInfo.error_replies
          passwords,     \* PasswordStore
          reloads,
          there,         \* the client has not hung up
          seen           \* history: each request decoded, with the passwords then

task == <<slots, batch, held, waiting, replies>>
shards == <<ran, lost>>
counted == <<stop, errors>>
store == <<passwords, reloads>>
peer == <<inbox, there>>
vars == <<inbox, decoder, slots, batch, held, pc, waiting, replies, out, wire, authenticated,
          ran, lost, stop, errors, passwords, reloads, there, seen>>

Node(secrets) == [passwords |-> secrets, persistence |-> Persistence, last_save |-> 0, now |-> 0]

(* After the chunk is out: read on, push or answer an action, and so on. *)
Drain == <<"Drain">>
Flush(hangUp) == <<"Flush", hangUp>>

-----------------------------------------------------------------------------
(* External: what an executor answers a command that is the n-th of its key. *)
Served(cmd, n) ==
    CASE cmd[1] = "Get" -> IF n = 0 THEN <<"Bulk">> ELSE <<"Bulk", n>>
      [] cmd[1] \in {"Set", "SetEx", "PSetEx"} -> <<"Ok">>
      [] cmd[1] = "Type" -> <<"Status", n>>
      [] cmd[1] = "Del" -> <<"Removed", n % 2>>
      [] OTHER -> <<"Integer", n>>

ReplyOf(cmd, counts) ==
    IF cmd[2] \in lost THEN <<"Error", "unavailable">> ELSE Served(cmd, counts[cmd[2]])

Run(cmd, counts) ==
    IF cmd[2] \in lost THEN counts ELSE [counts EXCEPT ![cmd[2]] = @ + 1]

reply_to_frame(reply) ==
    CASE reply[1] = "Ok" -> OkFrame
      [] reply[1] = "Status" -> Simple(reply[2])
      [] reply[1] = "Bulk" -> IF Len(reply) = 1 THEN <<"Null">> ELSE Bulk(reply[2])
      [] reply[1] \in {"Removed", "Integer"} -> Integer(reply[2])
      [] reply[1] = "Error" -> safe_error(reply[2])

(* fold_array: the first reply that is an error is the whole answer. *)
fold_array(run) ==
    LET bad == {i \in DOMAIN run : run[i][1] = "Error"} IN
    IF bad # {} THEN reply_to_frame(run[CHOOSE i \in bad : \A j \in bad : i <= j])
    ELSE Array([i \in DOMAIN run |-> reply_to_frame(run[i])])

(* External: a command for every shard, a walk, or INFO, at one moment. *)
Whole(action, counts) ==
    IF lost # {} THEN safe_error("unavailable")
    ELSE Integer(FoldFunction(LAMBDA n, sum : n + sum, 0, counts))

RunWhole(action, counts) ==
    IF action[1] # "Every" THEN counts
    ELSE [key \in Keys |-> IF key \in lost THEN counts[key] ELSE counts[key] + 1]

(* The replies and the effect of several commands, one after another. *)
RunAll(cmds, counts) ==
    LET after[i \in 0..Len(cmds)] ==
            IF i = 0 THEN counts ELSE Run(cmds[i], after[i - 1])
    IN [counts |-> after[Len(cmds)],
        replies |-> [i \in DOMAIN cmds |-> ReplyOf(cmds[i], after[i - 1])]]

(* fan_out by Sum stops at the first reply that is no number. *)
SumOf(run) ==
    LET bad == {i \in DOMAIN run : run[i][1] \notin {"Removed", "Integer"}} IN
    IF bad # {} THEN reply_to_frame(run[CHOOSE i \in bad : \A j \in bad : i <= j])
    ELSE Integer(FoldFunction(LAMBDA r, sum : r[2] + sum, 0, run))

SumRuns(cmds, counts) ==
    LET run == RunAll(cmds, counts)
        bad == {i \in DOMAIN cmds : run.replies[i][1] \notin {"Removed", "Integer"}}
    IN IF bad = {} THEN cmds
       ELSE SubSeq(cmds, 1, CHOOSE i \in bad : \A j \in bad : i <= j)

(* Unbatched::answer, as one step: the frame and what the shards ran. *)
Answered(action, counts) ==
    IF action[1] # "FanOut"
    THEN [frame |-> Whole(action, counts), counts |-> RunWhole(action, counts)]
    ELSE LET cmds == IF action[4] = "Sum" THEN SumRuns(action[2], counts) ELSE action[2]
             run == RunAll(cmds, counts)
         IN [frame |-> IF action[4] = "Sum" THEN SumOf(run.replies) ELSE fold_array(run.replies),
             counts |-> run.counts]

-----------------------------------------------------------------------------
Init ==
    /\ inbox = <<>> /\ decoder = <<>> /\ slots = <<>> /\ batch = <<>>
    /\ held = Drain /\ pc = "drain" /\ waiting = {} /\ replies = <<>>
    /\ out = <<>> /\ wire = <<>> /\ seen = <<>>
    /\ passwords \in Files
    /\ authenticated = (passwords = <<>>)
    /\ ran = [key \in Keys |-> 0]
    /\ lost \in {{}, {"k2"}}
    /\ stop = FALSE /\ errors = 0 /\ reloads = 0 /\ there = TRUE

(* The client sends a request, or hangs up. *)
Send(request) ==
    /\ there
    /\ Len(seen) + Len(decoder) + Len(inbox) < MaxRequests
    /\ inbox' = Append(inbox, request)
    /\ UNCHANGED <<decoder, task, pc, out, wire, authenticated, shards, counted, store, there, seen>>

HangUp ==
    /\ there
    /\ there' = FALSE
    /\ UNCHANGED <<inbox, decoder, task, pc, out, wire, authenticated, shards, counted, store, seen>>

(* server.rs reload_passwords: only a file is read again, and one that cannot *)
(* be parsed leaves the store as it is; a store is never emptied.             *)
Reload(file) ==
    /\ reloads < MaxReloads
    /\ passwords # <<>> /\ file # <<>>
    /\ passwords' = file
    /\ reloads' = reloads + 1
    /\ UNCHANGED <<peer, decoder, task, pc, out, wire, authenticated, shards, counted, seen>>

-----------------------------------------------------------------------------
(* Pushing a dispatched command, or the keys of a small MGET, to the chunk. *)
Pushed(action) ==
    IF action[1] = "Dispatch"
    THEN /\ slots' = Append(slots, <<"Pending", Len(batch) + 1>>)
         /\ batch' = Append(batch, action[2])
    ELSE /\ slots' = Append(slots, <<"Spanned", Len(batch) + 1, Len(action[2])>>)
         /\ batch' = batch \o action[2]

Push(action) ==
    /\ Pushed(action)
    /\ pc' = IF Len(batch') >= CHUNK_COMMANDS THEN "emit" ELSE "drain"
    /\ held' = Drain
    /\ UNCHANGED <<waiting, replies, authenticated>>

Emitting(next) ==
    /\ pc' = "emit" /\ held' = next
    /\ UNCHANGED <<slots, batch, waiting, replies, authenticated>>

Ready(frame, next) ==
    /\ slots' = Append(slots, <<"Ready", frame>>)
    /\ pc' = next[1] /\ held' = next[2]
    /\ UNCHANGED <<batch, waiting, replies>>

OnDrain == <<"drain", Drain>>

(* An MGET joins the chunk only if all its keys fit. *)
NoRoom(action) == Len(batch) + Len(action[2]) > CHUNK_COMMANDS

AnswerAtOnce(action) ==
    /\ pc' = "resume" /\ held' = <<"Answer", action>>
    /\ UNCHANGED <<slots, batch, waiting, replies, authenticated>>

(* What reaches the shards on its own goes after the chunk before it. *)
AnswerAfter(action) == Emitting(<<"Answer", action>>)

ShutdownAfter == Emitting(<<"Stop">>)

(***************************************************************************)
(* drain_decoder's match, for one action: a command joins the chunk, a     *)
(* small MGET joins it whole, anything else that reaches the shards waits  *)
(* for the chunk before it to be answered, and the rest has its reply.     *)
(***************************************************************************)
Act(action) ==
    \/ action[1] = "Dispatch" /\ Push(action)
    \/ /\ action[1] = "FanOut" /\ action[4] = "Array" /\ Len(action[2]) <= CHUNK_COMMANDS
       /\ IF NoRoom(action) THEN Emitting(<<"Push", action>>) ELSE Push(action)
    \/ /\ action[1] \in {"FanOut", "Every", "Keys", "Scan", "Info"}
       /\ action[1] = "FanOut" => action[4] = "Sum" \/ Len(action[2]) > CHUNK_COMMANDS
       /\ AnswerAfter(action)
    \/ /\ action[1] \in {"Reply", "Hello", "Refuse"}
       /\ Ready(action[2], OnDrain)
       /\ UNCHANGED authenticated
    \/ /\ action[1] = "Authenticate"
       /\ Ready(action[3], OnDrain)
       /\ authenticated' = (authenticated \/ action[2])
    \/ /\ action[1] = "ReplyThenClose"
       /\ Ready(action[2], <<"emit", Flush(TRUE)>>)
       /\ UNCHANGED authenticated
    \/ action[1] = "Shutdown" /\ ShutdownAfter

Decode ==
    /\ pc = "drain" /\ decoder # <<>>
    /\ decoder' = Tail(decoder)
    /\ seen' = Append(seen, [request |-> Head(decoder), passwords |-> passwords])
    /\ IF Head(decoder) = Garbled THEN Emitting(<<"ProtocolError">>)
       ELSE Act(gated(frame_to_action(Head(decoder), Node(passwords)), authenticated))
    /\ UNCHANGED <<peer, out, wire, shards, counted, store>>

Dry ==
    /\ pc = "drain" /\ decoder = <<>>
    /\ Emitting(Flush(FALSE))
    /\ UNCHANGED <<peer, decoder, out, wire, shards, counted, store, seen>>

-----------------------------------------------------------------------------
(* emit_chunk: the batch is dispatched, then every slot rendered in order. *)
Emit ==
    /\ pc = "emit"
    /\ pc' = CASE slots = <<>> -> "resume"
               [] slots # <<>> /\ batch = <<>> -> "render"
               [] OTHER -> "await"
    /\ waiting' = DOMAIN batch
    /\ replies' = batch
    /\ UNCHANGED <<peer, decoder, slots, batch, held, out, wire, authenticated, shards, counted,
                   store, seen>>

(* External: an executor runs the next command of its key. *)
Execute(i) ==
    /\ pc = "await" /\ i \in waiting
    /\ \A j \in waiting : batch[j][2] = batch[i][2] => i <= j
    /\ replies' = [replies EXCEPT ![i] = ReplyOf(batch[i], ran)]
    /\ ran' = Run(batch[i], ran)
    /\ waiting' = waiting \ {i}
    /\ UNCHANGED <<peer, decoder, slots, batch, held, pc, out, wire, authenticated, lost, counted,
                   store, seen>>

Collect ==
    /\ pc = "await" /\ waiting = {}
    /\ pc' = "render" /\ batch' = <<>>
    /\ UNCHANGED <<peer, decoder, slots, held, waiting, replies, out, wire, authenticated, shards,
                   counted, store, seen>>

Rendered(slot) ==
    CASE slot[1] = "Ready" -> slot[2]
      [] slot[1] = "Pending" -> reply_to_frame(replies[slot[2]])
      [] slot[1] = "Spanned" -> fold_array(SubSeq(replies, slot[2], slot[2] + slot[3] - 1))

count_error_reply(frame) == IF frame[1] = "Error" THEN 1 ELSE 0

(* flush_replies: what the client gets; one that is gone gets nothing. *)
Flushed(frames) ==
    /\ out' = <<>>
    /\ wire' = IF there THEN wire \o frames ELSE wire

Render ==
    /\ pc = "render" /\ slots # <<>>
    /\ slots' = Tail(slots)
    /\ LET frames == Append(out, Rendered(Head(slots))) IN
       IF Len(frames) >= REPLY_HIGH_WATER THEN Flushed(frames)
       ELSE out' = frames /\ wire' = wire
    /\ errors' = errors + count_error_reply(Rendered(Head(slots)))
    /\ UNCHANGED <<peer, decoder, batch, held, pc, waiting, replies, authenticated, shards, stop,
                   store, seen>>

(* A write fails half way through the slots.  SHUTDOWN goes on regardless. *)
RenderFails ==
    /\ pc = "render" /\ slots # <<>> /\ ~there
    /\ Len(out) + 1 >= REPLY_HIGH_WATER
    /\ slots' = <<>> /\ out' = <<>> /\ replies' = <<>>
    /\ pc' = IF held = <<"Stop">> THEN "resume" ELSE "closed"
    /\ errors' = errors + count_error_reply(Rendered(Head(slots)))
    /\ UNCHANGED <<peer, decoder, batch, held, waiting, wire, authenticated, shards, stop, store,
                   seen>>

Emitted ==
    /\ pc = "render" /\ slots = <<>>
    /\ pc' = "resume" /\ replies' = <<>>
    /\ UNCHANGED <<peer, decoder, slots, batch, held, waiting, out, wire, authenticated, shards,
                   counted, store, seen>>

-----------------------------------------------------------------------------
(* The chunk is out: what the connection was about to do. *)
ResumeDrain ==
    /\ pc = "resume" /\ held = Drain
    /\ pc' = "drain"
    /\ UNCHANGED <<peer, decoder, task, out, wire, authenticated, shards, counted, store, seen>>

ResumePush ==
    /\ pc = "resume" /\ held[1] = "Push"
    /\ Push(held[2])
    /\ UNCHANGED <<peer, decoder, out, wire, shards, counted, store, seen>>

ResumeAnswer ==
    /\ pc = "resume" /\ held[1] = "Answer"
    /\ LET answer == Answered(held[2], ran) IN
          Ready(answer.frame, OnDrain) /\ ran' = answer.counts
    /\ UNCHANGED <<peer, decoder, out, wire, authenticated, lost, counted, store, seen>>

ResumeStop ==
    /\ pc = "resume" /\ held = <<"Stop">>
    /\ stop' = TRUE
    /\ held' = Flush(TRUE)
    /\ UNCHANGED <<peer, decoder, slots, batch, pc, waiting, replies, out, wire, authenticated,
                   shards, errors, store, seen>>

ResumeProtocolError ==
    /\ pc = "resume" /\ held = <<"ProtocolError">>
    /\ Flushed(Append(out, safe_error("protocol")))
    /\ pc' = "closed"
    /\ UNCHANGED <<peer, decoder, task, authenticated, shards, counted, store, seen>>

ResumeFlush ==
    /\ pc = "resume" /\ held[1] = "Flush"
    /\ Flushed(out)
    /\ pc' \in (IF held[2] THEN {} ELSE {"read"})
               \cup (IF held[2] \/ (~there /\ out # <<>>) THEN {"closed"} ELSE {})
    /\ UNCHANGED <<peer, decoder, task, authenticated, shards, counted, store, seen>>

(* A read takes any of what has arrived; at the end of the stream it is over. *)
ReadSome(n) ==
    /\ pc = "read" /\ n <= Len(inbox)
    /\ decoder' = SubSeq(inbox, 1, n)
    /\ inbox' = SubSeq(inbox, n + 1, Len(inbox))
    /\ pc' = "drain"
    /\ UNCHANGED <<task, out, wire, authenticated, shards, counted, store, there, seen>>

ReadEnd ==
    /\ pc = "read" /\ ~there
    /\ pc' = "closed"
    /\ UNCHANGED <<peer, decoder, task, out, wire, authenticated, shards, counted, store, seen>>

Step ==
    \/ Decode \/ Dry \/ Emit \/ Collect \/ Render \/ RenderFails \/ Emitted
    \/ ResumeDrain \/ ResumePush \/ ResumeAnswer \/ ResumeStop \/ ResumeProtocolError
    \/ ResumeFlush \/ ReadEnd
    \/ \E n \in 1..MaxRequests : ReadSome(n)
    \/ \E i \in 1..CHUNK_COMMANDS : Execute(i)

Next ==
    \/ \E request \in Requests : Send(request)
    \/ HangUp
    \/ \E file \in Files : Reload(file)
    \/ Step

Spec == Init /\ [][Next]_vars

(* The connection's task is scheduled whenever it can run, and so are the *)
(* executors it waits for; the client owes nothing.                       *)
FairSpec == Spec /\ WF_vars(Step)

-----------------------------------------------------------------------------
(* The same requests taken one at a time, each answered before the next. *)
OneAtATime(state, entry) ==
    LET action == gated(frame_to_action(entry.request, Node(entry.passwords)), state.authenticated)
        said(frame) == [state EXCEPT !.frames = Append(@, frame)]
        after(answer) == [said(answer.frame) EXCEPT !.counts = answer.counts]
    IN CASE ~state.open -> state
         [] entry.request = Garbled -> [said(safe_error("protocol")) EXCEPT !.open = FALSE]
         [] action[1] = "Dispatch" ->
               after([frame |-> reply_to_frame(ReplyOf(action[2], state.counts)),
                      counts |-> Run(action[2], state.counts)])
         [] action[1] \in {"FanOut", "Every", "Keys", "Scan", "Info"} ->
               after(Answered(action, state.counts))
         [] action[1] \in {"Reply", "Hello", "Refuse"} -> said(action[2])
         [] action[1] = "Authenticate" ->
               [said(action[3]) EXCEPT !.authenticated = @ \/ action[2]]
         [] action[1] = "ReplyThenClose" -> [said(action[2]) EXCEPT !.open = FALSE]
         [] action[1] = "Shutdown" -> [state EXCEPT !.open = FALSE]

Sequential ==
    FoldLeft(OneAtATime,
             [frames |-> <<>>, counts |-> [key \in Keys |-> 0], open |-> TRUE,
              authenticated |-> (passwords = <<>>)],
             seen)

(***************************************************************************)
(* A client that pipelines cannot tell: whatever the chunks and wherever   *)
(* their boundaries fall, it is sent what it would be sent one request at  *)
(* a time, reply by reply and in order, and nothing is held back while the *)
(* connection waits for more or once it is closed.  Nor can SHUTDOWN tell: *)
(* it stops the node only after every command sent before it on its        *)
(* connection has run, even when the client has gone.                      *)
(***************************************************************************)
PipelineUnseen ==
    /\ IsPrefix(wire, Sequential.frames)
    /\ pc \in {"read", "closed"} /\ there => wire = Sequential.frames
    /\ stop => ran = Sequential.counts

(* Requests that carry one of the passwords, in each of their spellings. *)
Logins(secrets) ==
    UNION {{<<"AUTH", p>>, <<"AUTH", "default", p>>, <<"HELLO", "2", "AUTH", "default", p>>} :
              p \in Range(secrets)}

(***************************************************************************)
(* On a node with a password, no command of this connection runs and       *)
(* nothing but errors and QUIT's OK is sent before a request carried a     *)
(* password that was good when it was decoded, whatever reloads came       *)
(* before or after.                                                        *)
(***************************************************************************)
GateHolds ==
    \/ passwords = <<>>
    \/ \E i \in DOMAIN seen : seen[i].request \in Logins(seen[i].passwords)
    \/ /\ \A key \in Keys : ran[key] = 0
       /\ ~stop
       /\ \A i \in DOMAIN wire : wire[i][1] = "Error" \/ wire[i] = OkFrame

(***************************************************************************)
(* Every request that reaches the server is decoded and all it asked for   *)
(* done, or the connection is closed: no path through the chunk waits for  *)
(* a reply that nobody is to send.                                         *)
(***************************************************************************)
Attended ==
    \A n \in 1..MaxRequests :
        Len(seen) + Len(decoder) + Len(inbox) >= n
            ~> (Len(seen) >= n /\ pc = "read") \/ pc = "closed"
=============================================================================
