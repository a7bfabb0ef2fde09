--------------------------- MODULE MessagesToChat ---------------------------
(***************************************************************************)
(* translate.MessagesToChatStream: Anthropic Messages events in, OpenAI    *)
(* Chat chunks out.  Tool blocks are numbered in the order they appear.    *)
(***************************************************************************)
LOCAL INSTANCE StreamEvents

NewStream ==
    [toolIndex |-> <<>>, nextTool |-> 0, sawToolUse |-> FALSE, finishSent |-> FALSE,
     emitDone |-> FALSE, out |-> <<>>]

\* The tool call number of a block: assigned by its start, or by its first
\* fragment when the start was not seen.
AssignTool(s, idx) ==
    [s EXCEPT !.toolIndex = (idx :> s.nextTool) @@ @, !.nextTool = @ + 1, !.sawToolUse = TRUE]

mapStopReasonToFinish(reason, sawTool) ==
    CASE reason = "max_tokens"              -> "length"
      [] reason = "tool_use" \/ sawTool     -> "tool_calls"
      [] OTHER                              -> "stop"

\* The finish chunk is sent once, by message_delta or else by message_stop.
SendFinish(s, reason) ==
    IF s.finishSent THEN s
    ELSE Emit([s EXCEPT !.finishSent = TRUE], <<Whole("finish", reason)>>)

StartTool(s, idx) ==
    LET known == AssignTool(s, idx)
    IN  Emit(known, <<Ev("call", known.toolIndex[idx], "function_call")>>)

FeedToolDelta(s, idx) ==
    LET known == IF idx \in DOMAIN s.toolIndex THEN s ELSE AssignTool(s, idx)
    IN  Emit(known, <<Ev("call", known.toolIndex[idx], "args")>>)

FeedJSON(s0, frame) ==
    LET s == [s0 EXCEPT !.out = <<>>]
    IN  CASE frame.ev = "content_block_start" ->
                 IF frame.what = "tool_use" THEN StartTool(s, frame.idx) ELSE s
          [] frame.ev = "content_block_delta" ->
                 CASE frame.what = "thinking_delta"   -> Emit(s, <<Whole("delta", "thinking")>>)
                   [] frame.what = "text_delta"       -> Emit(s, <<Whole("delta", "text")>>)
                   [] frame.what = "input_json_delta" -> FeedToolDelta(s, frame.idx)
                   [] OTHER                           -> s
          [] frame.ev = "message_delta" ->
                 SendFinish(s, mapStopReasonToFinish(frame.what, s.sawToolUse))
          [] frame.ev = "message_stop" ->
                 [SendFinish(s, IF s.sawToolUse THEN "tool_calls" ELSE "stop")
                      EXCEPT !.emitDone = TRUE]
          [] frame.ev = "error" -> Emit(s, <<Whole("error", "")>>)
          [] OTHER -> s
=============================================================================
