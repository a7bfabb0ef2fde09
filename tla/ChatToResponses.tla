-------------------------- MODULE ChatToResponses --------------------------
(***************************************************************************)
(* translate.ChatToResponsesStream: OpenAI Chat chunks in, Responses       *)
(* events out.  Items are announced as their first delta arrives and are   *)
(* completed by Finish, reasoning first, then the message, then the tool   *)
(* calls by the upstream's index.                                          *)
(***************************************************************************)
LOCAL INSTANCE StreamEvents

NewStream ==
    [started |-> FALSE, finished |-> FALSE, usage |-> 0, reasoningOutputIndex |-> NoIndex,
     textOutputIndex |-> NoIndex, currentOutputIndex |-> 0, localToolCalls |-> <<>>,
     out |-> <<>>]

Opening == <<Whole("response.created", ""), Whole("response.in_progress", "")>>

\* A reasoning or text delta opens its item on demand.
sendDelta(s, kind) ==
    LET reasoning == kind = "thinking"
        known == IF reasoning THEN s.reasoningOutputIndex ELSE s.textOutputIndex
        idx == IF known # NoIndex THEN known ELSE s.currentOutputIndex
        item == IF reasoning THEN "reasoning" ELSE "message"
        opened ==
            IF known # NoIndex THEN s
            ELSE Emit([s EXCEPT
                          !.reasoningOutputIndex = IF reasoning THEN idx ELSE @,
                          !.textOutputIndex = IF reasoning THEN @ ELSE idx,
                          !.currentOutputIndex = @ + 1],
                      <<Ev("response.output_item.added", idx, item),
                        Ev("part.added", idx, item)>>)
    IN  Emit(opened, <<Ev("delta", idx, item)>>)

\* A fragment of the tool call frame.idx.  The first one reserves the output
\* index; the item is announced by the first one that names the tool.
FeedToolCall(s, frame) ==
    LET k == frame.idx
        exists == k \in DOMAIN s.localToolCalls
        old == IF exists THEN s.localToolCalls[k]
               ELSE [outputIndex |-> s.currentOutputIndex, name |-> "", added |-> FALSE]
        named == IF old.name = "" /\ frame.what \in {"function_call", "custom_tool_call"}
                 THEN [old EXCEPT !.name = frame.what] ELSE old
        tc == [named EXCEPT !.added = named.name # ""]
        kept == [s EXCEPT !.localToolCalls = (k :> tc) @@ @,
                          !.currentOutputIndex = IF exists THEN @ ELSE @ + 1]
        announced == IF tc.added /\ ~old.added
                     THEN Emit(kept, <<Ev("response.output_item.added", tc.outputIndex, tc.name)>>)
                     ELSE kept
    IN  IF tc.name = "custom_tool_call" THEN announced
        ELSE Emit(announced, <<Ev("delta", tc.outputIndex, "function_call")>>)

applyUsage(s, n) == [s EXCEPT !.usage = IF n > 0 THEN n ELSE @]

\* One Chat frame.  Every frame that parses opens the response.
FeedJSON(s0, frame) ==
    LET s == [s0 EXCEPT !.out = <<>>]
        begun == IF s.started THEN s ELSE Emit([s EXCEPT !.started = TRUE], Opening)
    IN  CASE s.finished \/ frame.ev \in {"[DONE]", "noise"} -> s
          [] frame.ev = "delta" -> sendDelta(begun, frame.what)
          [] frame.ev = "call"  -> FeedToolCall(begun, frame)
          [] OTHER              -> applyUsage(begun, frame.n)

\* The closing events of a reasoning item or of the message.
CloseText(idx, item) ==
    <<Ev("text.done", idx, item), Ev("part.done", idx, item),
      Ev("response.output_item.done", idx, item)>>

\* The closing events of a tool call.  A call that was never named counts as
\* a function call.
CloseCall(tc) ==
    IF tc.name = "custom_tool_call"
    THEN <<Ev("response.output_item.done", tc.outputIndex, tc.name)>>
    ELSE <<Ev("text.done", tc.outputIndex, "function_call"),
           Ev("response.output_item.done", tc.outputIndex, "function_call")>>

\* The upstream body ended, or Done was reported to the caller.  A response
\* that was opened is always completed.
Finish(s0, latestUsage) ==
    LET s == applyUsage([s0 EXCEPT !.out = <<>>, !.finished = TRUE], latestUsage)
        reasoning == IF s.reasoningOutputIndex = NoIndex THEN <<>>
                     ELSE CloseText(s.reasoningOutputIndex, "reasoning")
        message == IF s.textOutputIndex = NoIndex THEN <<>>
                   ELSE CloseText(s.textOutputIndex, "message")
        order == SetToSortSeq(DOMAIN s.localToolCalls, <)
        calls == FlattenSeq([i \in DOMAIN order |-> CloseCall(s.localToolCalls[order[i]])])
        closing == reasoning \o message \o calls
        done == SelectSeq(closing, LAMBDA e : e.ev = "response.output_item.done")
        final(name) == [Counted(name, "completed", s.usage)
                            EXCEPT !.list = [i \in DOMAIN done |-> done[i].idx]]
    IN  CASE s0.finished  -> [s0 EXCEPT !.out = <<>>]
          [] ~s0.started  -> s
          [] OTHER -> Emit(s, closing \o <<final("response.done"), final("response.completed")>>)

\* Finish reports Completed exactly when it emitted the final events.
Completed(s) == s.finished /\ s.started
=============================================================================
