------------------------ MODULE MessagesToResponses ------------------------
(***************************************************************************)
(* translate.MessagesToResponsesStream: Anthropic Messages events in,      *)
(* Responses events out.  One output item per convertible content block.   *)
(***************************************************************************)
LOCAL INSTANCE StreamEvents

NewStream ==
    [started |-> FALSE, items |-> <<>>, nextOutput |-> 0, completed |-> <<>>,
     stopReason |-> "", usageOutput |-> 0, emitDone |-> FALSE, out |-> <<>>]

emitStarted(s) ==
    IF s.started THEN s
    ELSE Emit([s EXCEPT !.started = TRUE],
              <<Whole("response.created", ""), Whole("response.in_progress", "")>>)

ItemKind(kind) == CASE kind \in {"thinking", "redacted_thinking"} -> "reasoning"
                    [] kind = "text"                              -> "message"
                    [] kind = "tool_use"                          -> "function_call"

Convertible == {"thinking", "redacted_thinking", "text", "tool_use"}

\* A convertible block becomes the next output item.  The item replaces the
\* one an earlier block of the same index had.
emitItemAdded(s, frame) ==
    LET item == [kind |-> frame.what, outputIndex |-> s.nextOutput, closed |-> FALSE]
        kept == [s EXCEPT !.nextOutput = @ + 1, !.items = (frame.idx :> item) @@ @]
        part == IF frame.what \in {"thinking", "text"}
                THEN <<Ev("part.added", item.outputIndex, ItemKind(frame.what))>> ELSE <<>>
    IN  Emit(emitStarted(kept),
             <<Ev("response.output_item.added", item.outputIndex, ItemKind(frame.what))>> \o part)

\* What a delta announces: the item kind its event belongs to.
DeltaKind(what) == CASE what = "thinking_delta"   -> "reasoning"
                     [] what = "text_delta"       -> "message"
                     [] what = "input_json_delta" -> "function_call"

\* A delta is attached to whatever item its block index has, also a closed one.
FeedDelta(s, frame) ==
    IF frame.idx \notin DOMAIN s.items \/ frame.what = "signature_delta" THEN s
    ELSE Emit(s, <<Ev("delta", s.items[frame.idx].outputIndex, DeltaKind(frame.what))>>)

\* Mutant: a completed item is left out of the final response.
closeItemUnlisted(s, idx) ==
    IF s.items[idx].closed THEN s
    ELSE Emit([s EXCEPT !.items[idx].closed = TRUE],
              <<Ev("response.output_item.done", s.items[idx].outputIndex,
                   ItemKind(s.items[idx].kind))>>)

\* The closing events of the item of block idx, once.
closeItem(s, idx) ==
    LET item == s.items[idx]
        o == item.outputIndex
        kind == ItemKind(item.kind)
        body == CASE item.kind = "redacted_thinking" -> <<>>
                  [] item.kind = "tool_use" -> <<Ev("text.done", o, kind)>>
                  [] OTHER -> <<Ev("text.done", o, kind), Ev("part.done", o, kind)>>
    IN  IF item.closed THEN s
        ELSE Emit([s EXCEPT !.items[idx].closed = TRUE, !.completed = Append(@, o)],
                  body \o <<Ev("response.output_item.done", o, kind)>>)

\* The blocks whose stop never arrived, in the order of their output indexes.
sortedOpenItems(s) ==
    SetToSortSeq({i \in DOMAIN s.items : ~s.items[i].closed},
                 LAMBDA i, j : s.items[i].outputIndex < s.items[j].outputIndex)

\* The final response under the two names clients wait for.
finalEvents(s, first, status) ==
    LET shown == IF status = "completed" /\ s.stopReason = "max_tokens" THEN "incomplete"
                 ELSE status
        final(name) == [Counted(name, shown, s.usageOutput) EXCEPT !.list = s.completed]
    IN  Emit([s EXCEPT !.emitDone = TRUE], <<final(first), final("response.completed")>>)

applyUsage(s, n) == [s EXCEPT !.usageOutput = IF n > 0 THEN n ELSE @]

\* One Anthropic frame; [DONE] is dropped by the caller.
FeedJSON(s0, frame) ==
    LET s == [s0 EXCEPT !.out = <<>>]
    IN  CASE frame.ev = "message_start" -> emitStarted(applyUsage(s, frame.n))
          [] frame.ev = "content_block_start" ->
                 IF frame.what \in Convertible THEN emitItemAdded(s, frame) ELSE s
          [] frame.ev = "content_block_delta" -> FeedDelta(s, frame)
          [] frame.ev = "content_block_stop" ->
                 IF frame.idx \in DOMAIN s.items THEN closeItem(s, frame.idx) ELSE s
          [] frame.ev = "message_delta" ->
                 [applyUsage(s, frame.n) EXCEPT !.stopReason = frame.what]
          [] frame.ev = "message_stop" ->
                 finalEvents(FoldLeft(closeItem, s, sortedOpenItems(s)),
                             "response.done", "completed")
          [] frame.ev = "error" -> finalEvents(s, "response.failed", "failed")
          [] OTHER -> s
=============================================================================
