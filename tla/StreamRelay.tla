---------------------------- MODULE StreamRelay ----------------------------
(***************************************************************************)
(* A streamed request from the first upstream call to the last byte the    *)
(* client receives: ProviderInvoker and upstream.Call open the stream, one *)
(* of the provider handlers relays or translates it, a failed attempt may  *)
(* be retried, and the tail of Engine.HandleRequest tells the client how   *)
(* it ended.                                                               *)
(*                                                                         *)
(* path     the handler that serves the request                            *)
(* phase    "call", "reading", "returned" (the attempt is over), "ended"   *)
(* batch    frames the transport holds until the next Read                 *)
(* tr       the translator of the attempt                                  *)
(* status   the status line the client has received, "" while it has none  *)
(* client   the events the client has received                             *)
(* g        the fields of GatewayContext the relay depends on              *)
(* up       what the upstream has sent in this attempt (observer)          *)
(***************************************************************************)
EXTENDS StreamEvents, TLC

CONSTANTS
    Paths,         \* the handlers the instance explores
    MaxFrames,     \* bound, by handler: frames one upstream stream carries
    MaxAttempts,   \* RetryPolicy.MaxAttempts
    MaxUnlawful    \* bound: frames outside the upstream's own protocol

C2M == INSTANCE ChatToMessages
C2R == INSTANCE ChatToResponses
M2R == INSTANCE MessagesToResponses
M2C == INSTANCE MessagesToChat

VARIABLES path, rewrites, phase, batch, tr, status, client, g, up, attempts
vars == <<path, rewrites, phase, batch, tr, status, client, g, up, attempts>>

\* What the client asked for, by the handler that serves it.
RequestType(p) ==
    CASE p \in {"openai_chat", "gemini", "messages_to_chat"}                 -> "chat"
      [] p \in {"anthropic", "chat_to_messages", "probe"}                    -> "messages"
      [] p \in {"openai_responses", "chat_to_responses", "messages_to_responses"} -> "responses"

\* The handlers that translate the request body before the call.
Translating == {"chat_to_messages", "chat_to_responses", "messages_to_responses"}

\* The handlers that send the status line and the SSE headers before they have
\* read anything; the first byte is triggered by what they read.
EarlyHeaders == {"chat_to_messages", "messages_to_responses", "messages_to_chat"}

\* What the upstream speaks.
Dialect(p) ==
    CASE p \in {"openai_chat", "chat_to_messages", "chat_to_responses", "gemini"} -> "chat"
      [] p \in {"anthropic", "messages_to_chat", "messages_to_responses", "probe"} -> "messages"
      [] p = "openai_responses"                                                   -> "responses"

-----------------------------------------------------------------------------
\* The upstream.

ChatFrames ==
    {Whole("delta", "thinking"), Whole("delta", "text"),
     Ev("call", 0, "function_call"), Ev("call", 0, "args"),
     Ev("call", 1, "custom_tool_call"), Ev("call", 1, "args"),
     Counted("finish", "stop", 3), Counted("usage", "", 5),
     Whole("[DONE]", ""), Whole("error", ""), Whole("noise", ""), Whole("body", "")}

MessagesFrames ==
    {Counted("message_start", "", 1), Counted("message_delta", "end_turn", 3),
     Counted("message_delta", "max_tokens", 0), Whole("message_stop", ""),
     Whole("error", ""), Whole("[DONE]", "")}
    \cup {Ev("content_block_start", i, k) :
              i \in 0..1, k \in {"thinking", "text", "tool_use", "server_tool_use"}}
    \cup {Ev("content_block_delta", i, k) :
              i \in 0..1, k \in {"thinking_delta", "text_delta", "input_json_delta"}}
    \cup {Ev("content_block_stop", i, "") : i \in 0..1}

ResponsesFrames ==
    {Whole("response.created", ""), Ev("delta", 0, "message"),
     Counted("response.completed", "completed", 4), Whole("error", ""), Whole("body", "")}

Frames(p) == CASE Dialect(p) = "chat"      -> ChatFrames
               [] Dialect(p) = "messages"  -> MessagesFrames
               [] Dialect(p) = "responses" -> ResponsesFrames

\* blocks: the kind of each block or call begun; open: those not stopped.
NewUpstream == [sent |-> 0, blocks |-> <<>>, open |-> {}, started |-> FALSE,
                finished |-> FALSE, over |-> FALSE, complete |-> FALSE, tokens |-> 0,
                strays |-> 0]

DeltaFits(delta, kind) ==
    \/ kind = "thinking" /\ delta = "thinking_delta"
    \/ kind = "text" /\ delta = "text_delta"
    \/ kind \in {"tool_use", "server_tool_use"} /\ delta = "input_json_delta"

\* Whether the upstream's own protocol allows f after what it has sent.
Lawful(u, f) ==
    /\ ~u.over \/ f.ev = "error"
    /\ CASE f.ev = "delta"               -> ~u.finished
         [] f.ev = "call"                -> ~u.finished /\ (f.what = "args" <=> f.idx \in u.open)
         [] f.ev = "finish"              -> ~u.finished
         [] f.ev \in {"usage", "[DONE]"} -> u.finished
         [] f.ev = "body"                -> u.sent = 0
         [] f.ev \in {"message_start", "response.created"} -> ~u.started
         [] f.ev = "content_block_start" -> u.started /\ ~u.finished /\ u.open = {}
                                            /\ f.idx = Cardinality(DOMAIN u.blocks)
         [] f.ev = "content_block_delta" -> f.idx \in u.open /\ DeltaFits(f.what, u.blocks[f.idx])
         [] f.ev = "content_block_stop"  -> f.idx \in u.open
         [] f.ev = "message_delta"       -> u.started /\ ~u.finished /\ u.open = {}
         [] f.ev \in {"message_stop", "response.completed"} -> u.started /\ u.open = {}
         [] OTHER                        -> TRUE

\* The observer after frame f.
Sent(u, f) ==
    LET begins == f.ev \in {"call", "content_block_start"} /\ f.idx \notin u.open
    IN  [u EXCEPT
            !.sent = @ + 1,
            !.blocks = IF begins THEN (f.idx :> f.what) @@ @ ELSE @,
            !.open = IF begins THEN @ \cup {f.idx}
                     ELSE IF f.ev = "content_block_stop" THEN @ \ {f.idx} ELSE @,
            !.started = @ \/ f.ev \in {"message_start", "response.created"},
            !.finished = @ \/ f.ev \in {"finish", "message_delta"},
            !.over = @ \/ f.ev \in {"[DONE]", "message_stop", "response.completed", "error", "body"},
            !.complete = @ \/ f.ev \in {"finish", "message_stop", "response.completed"}
                           \/ (f.ev = "[DONE]" /\ ~u.started),
            !.tokens = IF f.n > 0 THEN f.n ELSE @,
            !.strays = IF Lawful(u, f) THEN @ ELSE @ + 1]

-----------------------------------------------------------------------------
\* The gateway.  A handler maps r, the attempt it works on, to its successor.

NewTranslator(p) == CASE p = "chat_to_messages"      -> C2M!NewStream
                      [] p = "chat_to_responses"     -> C2R!NewStream
                      [] p = "messages_to_responses" -> M2R!NewStream
                      [] p = "messages_to_chat"      -> M2C!NewStream
                      [] OTHER                       -> [out |-> <<>>]

Attempt == [p |-> path, tr |-> tr, status |-> status, client |-> client, g |-> g,
            phase |-> phase]

Become(r) == /\ tr' = r.tr /\ status' = r.status /\ client' = r.client
             /\ g' = r.g /\ phase' = r.phase

\* http.ResponseWriter: only the first status line is sent, an event goes out
\* under status 200 when there is none, and nothing reaches a client that has
\* gone away.
WriteHeader(r, code) == IF r.status = "" THEN [r EXCEPT !.status = code] ELSE r

Write(r, events) ==
    IF r.g.gone \/ events = <<>> THEN r
    ELSE [WriteHeader(r, "200") EXCEPT !.client = @ \o events]

TriggerFirstByte(r) == [r EXCEPT !.g.ttft = TRUE]

ApplyUsage(r, n) == [r EXCEPT !.g.tokens = IF n > 0 THEN n ELSE @]

\* The provider returned; err is "" for success.  ProviderInvoker puts the
\* request body back only when it had rewritten the model in it.
Return(r, err) ==
    [r EXCEPT !.phase = "returned", !.g.err = err,
              !.g.translations = IF rewrites THEN 0 ELSE @]

\* The provider has translated a frame: usage first, then the events.
Relayed(r, s, frame) ==
    Write([ApplyUsage(r, frame.n) EXCEPT !.tr = [s EXCEPT !.out = <<>>]], s.out)

MarkCompleted(r) == [r EXCEPT !.g.completed = TRUE]

\* handleMessagesStream: an HTML page instead of a stream is refused; every
\* frame is fed, completion signals included.
handleMessagesStream(r, frames) ==
    IF Head(frames).ev = "body" THEN Return(r, "error")
    ELSE FoldLeft(LAMBDA q, f : Relayed(q, C2M!FeedJSON(q.tr, f), f),
                  TriggerFirstByte(r), frames)

\* Its end of stream: without a completion signal the open blocks are closed
\* and the attempt fails.
FinishMessages(r) ==
    LET s == C2M!Finish(r.tr, r.g.tokens)
        told == Write([r EXCEPT !.tr = [s EXCEPT !.out = <<>>]], s.out)
    IN  IF C2M!Completed(r.tr) THEN Return(MarkCompleted(told), "") ELSE Return(told, "error")

\* openAIStreamEventError and openAIJSONStreamError: an error event, or a JSON
\* document where the stream should begin.
IsStreamError(f) == f.ev \in {"error", "body"}

\* handleOpenAIStream: the whole batch is searched for an error before any of
\* it is written; the completion tag is set during the search.
handleOpenAIStream(r, frames) ==
    LET errors == {i \in DOMAIN frames : IsStreamError(frames[i])}
        searched == IF errors = {} THEN frames
                    ELSE SubSeq(frames, 1, (CHOOSE i \in errors : \A j \in errors : i <= j))
        done == /\ RequestType(r.p) = "responses"
                /\ \E i \in DOMAIN searched :
                       searched[i].ev \in {"response.done", "response.completed"}
        tagged == IF done THEN MarkCompleted(r) ELSE r
    IN  IF errors # {} THEN Return(tagged, "error")
        ELSE Write(FoldLeft(LAMBDA q, f : ApplyUsage(q, f.n), TriggerFirstByte(tagged), frames),
                   frames)

\* handleResponsesStream after the read loop.
FinishResponses(r) ==
    LET s == C2R!Finish(r.tr, r.g.tokens)
        told == Write([r EXCEPT !.tr = [s EXCEPT !.out = <<>>]], s.out)
    IN  IF C2R!Completed(s)
        THEN Return(Write(MarkCompleted(told), <<Whole("[DONE]", "")>>), "")
        ELSE Return(told, "")

\* Mutant: the finish reason ends the read loop.
handleResponsesStreamHasty(r, frames) ==
    LET before == SelectInSeq(frames, LAMBDA f : f.ev \in {"[DONE]", "finish"})
        fed == IF before = 0 THEN frames ELSE SubSeq(frames, 1, before)
        next == FoldLeft(LAMBDA q, f : Relayed(q, C2R!FeedJSON(q.tr, f), f),
                         TriggerFirstByte(r), fed)
    IN  IF before = 0 THEN next ELSE FinishResponses(next)

\* handleResponsesStream: an error frame fails the attempt, and with it the
\* whole batch, unless a finish reason came before it; [DONE] ends the read
\* loop at once.
handleResponsesStream(r, frames) ==
    LET finished(i) == r.g.turnCompleted \/ \E j \in 1..i : frames[j].ev = "finish"
        fails == \E i \in DOMAIN frames :
                     frames[i].ev = "body" \/ (frames[i].ev = "error" /\ ~finished(i))
        before == SelectInSeq(frames, LAMBDA f : f.ev = "[DONE]")
        fed == IF before = 0 THEN frames ELSE SubSeq(frames, 1, before - 1)
        next == FoldLeft(LAMBDA q, f : Relayed(q, C2R!FeedJSON(q.tr, f), f),
                         TriggerFirstByte(WriteHeader(
                             [r EXCEPT !.g.turnCompleted = finished(Len(frames))], "200")),
                         fed)
    IN  CASE fails      -> Return(r, "error")
          [] before = 0 -> next
          [] OTHER      -> FinishResponses(next)

\* handleAnthropicResponsesStream: the translator's terminal event ends it.
handleAnthropicResponsesStream(r, frame) ==
    LET s == M2R!FeedJSON(r.tr, frame)
        next == Relayed(TriggerFirstByte(r), s, frame)
    IN  CASE frame.ev = "[DONE]" -> TriggerFirstByte(r)
          [] s.emitDone -> Return(Write(MarkCompleted(next), <<Whole("[DONE]", "")>>), "")
          [] OTHER -> next

\* Mutant: what it relays does not count as the first byte.
handleAnthropicStreamToOpenAIUntimed(r, frame) ==
    LET s == M2C!FeedJSON(r.tr, frame)
        next == Relayed(r, s, frame)
    IN  IF frame.ev = "[DONE]" \/ s.emitDone
        THEN Return(Write(next, <<Whole("[DONE]", "")>>), "")
        ELSE next

\* JoyCodeProvider.handleAnthropicStreamToOpenAI.
handleAnthropicStreamToOpenAI(r, frame) ==
    LET s == M2C!FeedJSON(r.tr, frame)
        next == Relayed(TriggerFirstByte(r), s, frame)
    IN  IF frame.ev = "[DONE]" \/ s.emitDone
        THEN Return(Write(next, <<Whole("[DONE]", "")>>), "")
        ELSE next

\* isAnthropicMessageStop, looked for in Messages requests only.
isAnthropicMessageStop(r, frame) ==
    RequestType(r.p) = "messages" /\ frame.ev = "message_stop"

\* Mutant: message_stop passes unnoticed.
PassthroughStreamUntagged(r, frame) ==
    Write(ApplyUsage(TriggerFirstByte(r), frame.n), <<frame>>)

\* PassthroughStream through an SSEInterceptWriter.
PassthroughStream(r, frame) ==
    LET seen == ApplyUsage(TriggerFirstByte(r), frame.n)
    IN  Write(IF isAnthropicMessageStop(r, frame) THEN MarkCompleted(seen) ELSE seen, <<frame>>)

Handle(r, frames) ==
    CASE r.p = "chat_to_messages"                     -> handleMessagesStream(r, frames)
      [] r.p \in {"openai_chat", "openai_responses"}  -> handleOpenAIStream(r, frames)
      [] r.p = "chat_to_responses"                    -> handleResponsesStream(r, frames)
      [] r.p = "messages_to_responses" -> handleAnthropicResponsesStream(r, Head(frames))
      [] r.p = "messages_to_chat"      -> handleAnthropicStreamToOpenAI(r, Head(frames))
      [] r.p \in {"anthropic", "gemini"}              -> PassthroughStream(r, Head(frames))

\* The upstream closed the stream, perhaps inside a frame.
HandleEOF(r, partial) ==
    CASE r.p = "chat_to_messages" -> FinishMessages(IF partial THEN TriggerFirstByte(r) ELSE r)
      [] r.p \in {"openai_chat", "openai_responses"} ->
             Return(r, IF partial \/ ~r.g.ttft THEN "error" ELSE "")
      [] r.p = "chat_to_responses" ->
             IF partial \/ r.g.ttft THEN FinishResponses(TriggerFirstByte(WriteHeader(r, "200")))
             ELSE Return(r, "error")
      [] r.p \in {"anthropic", "gemini"} /\ partial ->
             Return(Write(TriggerFirstByte(r), <<Whole("partial", "")>>), "")
      [] r.p = "messages_to_responses" /\ partial -> Return(TriggerFirstByte(r), "")
      [] OTHER -> Return(r, "")

\* The read failed: the connection broke, the idle or the first byte timeout
\* cancelled it (the timer looks at TTFT before it cancels, so the first byte
\* may have passed), or the client went away.
HandleReadError(r) ==
    CASE r.g.gone /\ r.p \in {"openai_chat", "openai_responses"} ->
             Return(r, IF r.g.completed THEN "" ELSE "client")
      [] r.g.gone /\ r.p = "chat_to_responses" ->
             IF r.g.turnCompleted THEN FinishResponses(r) ELSE Return(r, "client")
      [] OTHER -> Return(r, "error")
-----------------------------------------------------------------------------

NewContext == [ttft |-> FALSE, err |-> "", completed |-> FALSE, tokens |-> 0,
               turnCompleted |-> FALSE, gone |-> FALSE, translations |-> 0]

Init ==
    /\ path \in Paths
    /\ rewrites \in IF path \in Translating THEN BOOLEAN ELSE {FALSE}
    /\ phase = "call" /\ batch = <<>> /\ tr = NewTranslator(path)
    /\ status = "" /\ client = <<>>
    /\ g = NewContext /\ up = NewUpstream /\ attempts = 1

\* What every attempt does first: a translating provider replaces the body.
Translated(r) ==
    IF r.p \in Translating THEN [r EXCEPT !.g.translations = @ + 1] ELSE r

\* upstream.Call returned a stream and the handler has been entered.
CallOpens ==
    /\ phase = "call" /\ path # "probe"
    /\ LET called == [Translated(Attempt) EXCEPT !.phase = "reading"]
       IN  Become(IF path \in EarlyHeaders THEN WriteHeader(called, "200") ELSE called)
    /\ UNCHANGED <<path, rewrites, batch, up, attempts>>

\* upstream.Call failed: no connection, an error status, no first byte in
\* time, or a body that is no event stream; a request the upstream finds too
\* large is not retryable.
CallFails(err) ==
    /\ phase = "call" /\ path # "probe"
    /\ Become(Return(Translated(Attempt), err))
    /\ UNCHANGED <<path, rewrites, batch, up, attempts>>

\* handleMessagesStream answers a status between 201 and 399 itself and still
\* reports an error.
AnswersOddStatus ==
    /\ phase = "call" /\ path = "chat_to_messages"
    /\ Become(Return(Write(WriteHeader(Translated(Attempt), "odd"),
                           <<Whole("json_error", "provider")>>), "error"))
    /\ UNCHANGED <<path, rewrites, batch, up, attempts>>

ProbeAnswer ==
    <<Counted("message_start", "", 1), Ev("content_block_start", 0, "text"),
      Ev("content_block_delta", 0, "text"), Ev("content_block_stop", 0, ""),
      Counted("message_delta", "max_tokens", 1), Whole("message_stop", "")>>

\* TryMockMessagesProbe answers a connectivity probe without an upstream.  The
\* whole answer is written before the first byte is triggered; a client that
\* leaves after n events makes the next write fail.
TryMockMessagesProbe(n) ==
    /\ phase = "call" /\ path = "probe"
    /\ g.gone => n = 0
    /\ LET told == Write(WriteHeader(Attempt, "200"), SubSeq(ProbeAnswer, 1, n))
       IN  Become(IF n = Len(ProbeAnswer) THEN Return(TriggerFirstByte(ApplyUsage(told, 1)), "")
                  ELSE Return([told EXCEPT !.g.gone = TRUE], "error"))
    /\ UNCHANGED <<path, rewrites, batch, up, attempts>>

\* One Read returns at most this many frames; where the handler treats them
\* one by one more would make no difference.
Coalesced == IF path \in {"openai_chat", "openai_responses", "chat_to_responses"} THEN 2 ELSE 1

FrameArrives(f) ==
    /\ phase = "reading" /\ ~g.gone
    /\ up.sent < MaxFrames[path] /\ Len(batch) < Coalesced
    /\ Lawful(up, f) \/ up.strays < MaxUnlawful
    /\ f.ev = "body" => up.sent = 0
    /\ batch' = Append(batch, f) /\ up' = Sent(up, f)
    /\ UNCHANGED <<path, rewrites, phase, tr, status, client, g, attempts>>

ReadFrames ==
    /\ phase = "reading" /\ batch # <<>>
    /\ Become(Handle(Attempt, batch)) /\ batch' = <<>>
    /\ UNCHANGED <<path, rewrites, up, attempts>>

ReadEOF(partial) ==
    /\ phase = "reading" /\ batch = <<>> /\ ~g.gone
    /\ Become(HandleEOF(Attempt, partial))
    /\ UNCHANGED <<path, rewrites, batch, up, attempts>>

ReadFails ==
    /\ phase = "reading" /\ batch = <<>>
    /\ Become(HandleReadError(Attempt))
    /\ UNCHANGED <<path, rewrites, batch, up, attempts>>

ClientLeaves ==
    /\ phase = "reading" /\ batch = <<>> /\ ~g.gone
    /\ g' = [g EXCEPT !.gone = TRUE]
    /\ UNCHANGED <<path, rewrites, phase, batch, tr, status, client, up, attempts>>

\* Mutant: the per-attempt tags survive.
RetryKeepsTags ==
    /\ phase = "returned" /\ g.err = "error" /\ ~g.ttft /\ attempts < MaxAttempts
    /\ attempts' = attempts + 1
    /\ phase' = "call" /\ tr' = NewTranslator(path) /\ up' = NewUpstream
    /\ g' = [g EXCEPT !.err = ""]
    /\ UNCHANGED <<path, rewrites, batch, status, client>>

\* ClusterInvoker tries again when the first byte has not been triggered;
\* ResetAttempt clears what the failed attempt left in the context, the first
\* byte and the request body excepted.
Retry ==
    /\ phase = "returned" /\ g.err = "error" /\ ~g.ttft /\ attempts < MaxAttempts
    /\ attempts' = attempts + 1
    /\ phase' = "call" /\ tr' = NewTranslator(path) /\ up' = NewUpstream
    /\ g' = [NewContext EXCEPT !.ttft = g.ttft, !.gone = g.gone,
                               !.translations = g.translations]
    /\ UNCHANGED <<path, rewrites, batch, status, client>>

Premature ==
    /\ g.err = "" /\ g.ttft /\ RequestType(path) \in {"messages", "responses"}
    /\ ~g.completed

FailureEvents ==
    IF RequestType(path) = "responses"
    THEN <<Whole("response.done", "failed"), Whole("response.completed", "failed")>>
    ELSE <<Whole("error", "gateway")>>

\* The tail of HandleRequest; writeError sends a status of its own.
EngineTail ==
    /\ phase = "returned"
    /\ LET failed == g.err \notin {"", "client"} \/ Premature
           told == CASE ~failed -> Attempt
                     [] g.ttft  -> Write(Attempt, FailureEvents)
                     [] OTHER   -> Write(WriteHeader(Attempt, "error"),
                                         <<Whole("json_error", "engine")>>)
       IN  Become([told EXCEPT !.phase = "ended"])
    /\ UNCHANGED <<path, rewrites, batch, up, attempts>>

Next ==
    \/ CallOpens
    \/ \E err \in {"error", "fatal"} : CallFails(err)
    \/ AnswersOddStatus
    \/ \E n \in 0..Len(ProbeAnswer) : TryMockMessagesProbe(n)
    \/ \E f \in Frames(path) : FrameArrives(f)
    \/ ReadFrames
    \/ \E partial \in BOOLEAN : ReadEOF(partial)
    \/ ReadFails
    \/ ClientLeaves
    \/ Retry
    \/ EngineTail

Spec == Init /\ [][Next]_vars
-----------------------------------------------------------------------------
\* Properties.

\* Positions of client at which an event of one of these names stands.
At(names) == {j \in DOMAIN client : client[j].ev \in names}

\* handleMessagesStream has answered an odd status itself.
Answered == \E j \in DOMAIN client : client[j] = Whole("json_error", "provider")

Success(e) == e.ev = "message_stop" \/ (e.ev = "response.completed" /\ e.what # "failed")
Failure(e) == \/ e.ev \in {"error", "json_error"}
              \/ e.ev = "response.completed" /\ e.what = "failed"

\* The Messages events the gateway makes up from Chat chunks form one message
\* whatever the upstream sends: it starts once and first, blocks are numbered
\* from zero, take deltas and their one stop only while open, and are all
\* stopped before the closing pair, which is last.
MessagesWellFormed ==
    path = "chat_to_messages" /\ ~Answered =>
        LET starts == At({"content_block_start"})
            stops == At({"content_block_stop"})
        IN  /\ \A j \in At({"message_start"}) : j = 1
            /\ \A j \in DOMAIN client :
                   client[j].ev \in {"message_start", "error", "json_error"} \/ client[1].ev = "message_start"
            /\ \A j \in starts : client[j].idx = Cardinality({i \in starts : i < j})
            /\ \A j \in At({"content_block_delta"}) \cup stops :
                   /\ \E i \in starts : i < j /\ client[i].idx = client[j].idx
                   /\ ~\E i \in stops : i < j /\ client[i].idx = client[j].idx
            /\ \A j \in At({"message_delta"}) :
                   /\ starts # {} /\ Cardinality(stops) = Cardinality(starts)
                   /\ \A i \in stops : i < j
            /\ \A j \in At({"message_stop"}) : j = Len(client) /\ client[j - 1].ev = "message_delta"

\* The Responses events the gateway makes up, for an upstream that follows its
\* own protocol: created first, output indexes announced from zero without a
\* gap, parts and deltas only between the announcement and the completion of
\* an item of their kind, each item completed once.
ResponsesWellFormed ==
    path \in {"chat_to_responses", "messages_to_responses"} /\ up.strays = 0 =>
        LET added == At({"response.output_item.added"})
            done == At({"response.output_item.done"})
        IN  /\ \A j \in At({"response.created"}) : j = 1
            /\ \A j \in added : client[1].ev = "response.created"
                                /\ client[j].idx = Cardinality({i \in added : i < j})
            /\ \A j \in done \cup At({"part.added", "delta", "text.done", "part.done"}) :
                   /\ \E i \in added : /\ i < j /\ client[i].idx = client[j].idx
                                       /\ client[i].what = client[j].what
                   /\ ~\E i \in done : i < j /\ client[i].idx = client[j].idx

\* The final response lists every announced item once, and all of them have
\* been completed before it; translated from Messages it lists them by output
\* index.
FinalOutputComplete ==
    path \in {"chat_to_responses", "messages_to_responses"} /\ up.strays = 0 =>
        \A j \in At({"response.done", "response.completed"}) :
            client[j].what # "failed" =>
                LET listed == client[j].list
                    added == {client[i].idx : i \in At({"response.output_item.added"})}
                    done == {client[i].idx : i \in {i \in At({"response.output_item.done"}) : i < j}}
                IN  /\ ToSet(listed) = added /\ done = added
                    /\ Len(listed) = Cardinality(added)
                    /\ path = "messages_to_responses" =>
                           \A i \in DOMAIN listed : listed[i] = i - 1

\* Translated to Chat, the fragments of a tool call carry the number of the
\* call that was last announced, and calls are numbered from zero (server
\* tools excepted, which the translator does not announce).
ToolCallsKeepTheirIndex ==
    path = "messages_to_chat" /\ up.strays = 0
    /\ "server_tool_use" \notin {up.blocks[i] : i \in DOMAIN up.blocks} =>
        LET calls == {j \in At({"call"}) : client[j].what = "function_call"}
        IN  \A j \in At({"call"}) :
                client[j].idx = Cardinality({i \in calls : i <= j}) - 1

\* Whatever protocol the gateway translates into, the events it makes up are a
\* well-formed answer of that protocol (the translators of pkg/llm/translate).
WellFormed ==
    /\ MessagesWellFormed /\ ResponsesWellFormed /\ FinalOutputComplete /\ ToolCallsKeepTheirIndex

\* An answer ends once.  Translated, nothing but [DONE] follows the success or
\* failure terminal, even for an upstream that goes on talking; and the engine's
\* tail ("Detect streams that started (TTFT>0) but never emitted a protocol
\* completion frame") reports no failure after the success terminal of a real
\* upstream.
EndsOnce ==
    /\ path \in Translating /\ ~Answered =>
         \A j \in DOMAIN client : Success(client[j]) \/ Failure(client[j]) =>
             \A i \in (j + 1)..Len(client) : client[i].ev = "[DONE]"
    /\ path # "probe" /\ phase = "ended" /\ g.err = "" =>
         ~\E i, j \in DOMAIN client : i < j /\ Success(client[i]) /\ client[j] \in ToSet(FailureEvents)

\* A client that is still there learns how its request ended: a request that
\* failed, and a Messages or Responses stream that began, leaves a terminal.
EndIsTold ==
    /\ phase = "ended" /\ ~g.gone
    /\ g.err # "" \/ (g.ttft /\ RequestType(path) # "chat")
    => \E j \in DOMAIN client : Success(client[j]) \/ Failure(client[j])

\* A truncated upstream stream is not presented as a complete message: the
\* translated success terminal follows a completion signal of the upstream.
\* handleResponsesStream is the exception, it completes any response it began.
CompletionIsGenuine ==
    path # "chat_to_responses" /\ path # "probe" =>
        \A j \in DOMAIN client : Success(client[j]) => up.complete

\* The output tokens told to the client in the final event are the ones the
\* gateway accounts for, which are the last ones the upstream reported, also
\* when they come after the finish reason.
TokensTold ==
    path \in Translating /\ up.strays = 0 =>
        \A j \in At({"message_delta", "response.completed"}) :
            client[j].what # "failed" => client[j].n = g.tokens /\ g.tokens = up.tokens

\* A retried attempt translates the body the client sent, not the result of an
\* earlier translation ("ResetAttempt clears per-attempt fields and token stats
\* to prevent stale values on retry").
TranslatesClientBody == g.translations <= 1

\* What a failed attempt may leave behind.  An attempt begins only while a client
\* that is still there has received no event: every handler triggers the first
\* byte, which forbids the next attempt (cluster.go, "Stream already sent first
\* byte: no retry"), before the events it relays, the probe excepted, whose
\* unfinished answer means that the client has left.  A JSON error is therefore
\* never appended to events.  The status line is another matter: three handlers
\* send 200 before they read, so with them, and only with them, a JSON error can
\* follow a 200.  The body is the client's again when ProviderInvoker rewrote
\* the model.  Left out is a request whose odd upstream status
\* handleMessagesStream has answered itself.
RetryInvisible ==
    /\ ~Answered =>
         /\ phase = "call" => client = <<>> \/ g.gone
         /\ At({"json_error"}) # {} =>
              Len(client) = 1 /\ (status = "200" => path \in EarlyHeaders)
    /\ rewrites => TranslatesClientBody
=============================================================================
