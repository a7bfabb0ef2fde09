--------------------------- MODULE ChatToMessages ---------------------------
(***************************************************************************)
(* translate.ChatToMessagesStream: OpenAI Chat chunks in, Anthropic        *)
(* Messages events out.  Blocks stay open until Finish, which the caller   *)
(* invokes at the end of the upstream body.                                *)
(***************************************************************************)
LOCAL INSTANCE StreamEvents

\* The zero value NewChatToMessagesStream returns, usage aside.
NewStream ==
    [started |-> FALSE, finished |-> FALSE, sawDone |-> FALSE, finishReason |-> "",
     activeBlocks |-> {}, oaiToAnthropicIndex |-> <<>>, nextBlockIndex |-> 0,
     thinkingBlockIndex |-> NoIndex, textBlockIndex |-> NoIndex, out |-> <<>>]

startMessage(s) ==
    IF s.started THEN s
    ELSE Emit([s EXCEPT !.started = TRUE], <<Whole("message_start", "")>>)

BlockOf(s, kind) == IF kind = "thinking" THEN s.thinkingBlockIndex ELSE s.textBlockIndex

\* The thinking block and the text block are opened once each.
ensureBlock(s, kind) ==
    LET idx == s.nextBlockIndex
        opened == [s EXCEPT !.nextBlockIndex = @ + 1, !.activeBlocks = @ \cup {idx}]
    IN  IF BlockOf(s, kind) # NoIndex THEN s
        ELSE Emit(IF kind = "thinking" THEN [opened EXCEPT !.thinkingBlockIndex = idx]
                                       ELSE [opened EXCEPT !.textBlockIndex = idx],
                  <<Ev("content_block_start", idx, kind)>>)

\* A thinking or text delta: the message and the block are opened on demand.
emitDelta(s, kind) ==
    LET open == ensureBlock(startMessage(s), kind)
    IN  Emit(open, <<Ev("content_block_delta", BlockOf(open, kind), kind)>>)

\* A fragment of the tool call with the upstream's index frame.idx.
FeedToolCall(s, frame) ==
    LET begun == startMessage(s)
        known == frame.idx \in DOMAIN begun.oaiToAnthropicIndex
        idx == IF known THEN begun.oaiToAnthropicIndex[frame.idx] ELSE begun.nextBlockIndex
        mapped == IF known THEN begun
                  ELSE [begun EXCEPT !.nextBlockIndex = @ + 1,
                                     !.oaiToAnthropicIndex = (frame.idx :> idx) @@ @]
        opened == IF idx \in mapped.activeBlocks THEN mapped
                  ELSE Emit([mapped EXCEPT !.activeBlocks = @ \cup {idx}],
                            <<Ev("content_block_start", idx, "tool_use")>>)
    IN  IF frame.what = "args"
        THEN Emit(opened, <<Ev("content_block_delta", idx, "tool_use")>>)
        ELSE opened

\* One Chat frame.  Completion signals are only recorded.
FeedJSON(s0, frame) ==
    LET s == [s0 EXCEPT !.out = <<>>]
    IN  CASE s.finished                        -> s
          [] frame.ev = "[DONE]"               -> [s EXCEPT !.sawDone = TRUE]
          [] frame.ev = "delta"                -> emitDelta(s, frame.what)
          [] frame.ev = "call"                 -> FeedToolCall(s, frame)
          [] frame.ev = "finish"               -> [s EXCEPT !.finishReason = frame.what]
          [] OTHER                             -> s

\* Every open block is stopped, lowest index first.
closeOpenBlocks(s) ==
    LET order == SetToSortSeq(s.activeBlocks, <)
    IN  Emit([s EXCEPT !.activeBlocks = {}],
             [i \in DOMAIN order |-> Ev("content_block_stop", order[i], "")])

mapOpenAIFinishReason(reason) ==
    CASE reason = "length"                          -> "max_tokens"
      [] reason \in {"tool_calls", "function_call"} -> "tool_use"
      [] OTHER                                      -> "end_turn"

\* A message ends with at least one block, all of them stopped.
finalizeSuccess(s, tokens) ==
    LET begun == startMessage(s)
        shown == IF begun.activeBlocks = {} THEN ensureBlock(begun, "text") ELSE begun
    IN  Emit(closeOpenBlocks(shown),
             <<Counted("message_delta", mapOpenAIFinishReason(s.finishReason), tokens),
               Whole("message_stop", "")>>)

\* Mutant: a stream that began counts as complete.
CompletedIfStarted(s) == s.started

Completed(s) == s.finishReason # "" \/ s.sawDone

\* The upstream body ended.  Without a completion signal the caller gets an
\* error, after the stops of the blocks that were open.
Finish(s0, tokens) ==
    LET s == [s0 EXCEPT !.out = <<>>, !.finished = TRUE]
    IN  CASE s0.finished  -> [s0 EXCEPT !.out = <<>>]
          [] Completed(s) -> finalizeSuccess(s, tokens)
          [] s.started    -> closeOpenBlocks(s)
          [] OTHER        -> s
=============================================================================
