------------------------------ MODULE Hedging ------------------------------
(***************************************************************************)
(* HedgingInvoker: the same request goes to endpoint A and, when A has not *)
(* answered within the hedge delay or has failed, to endpoint B.  The      *)
(* first child to write, or to succeed, wins; its bytes are the client's.  *)
(* Invoke and the two children are goroutines; every action is one         *)
(* critical section, channel operation or call of theirs.                  *)
(***************************************************************************)
EXTENDS Integers

CONSTANTS A, B,       \* the two endpoints selectTwoEndpoints chose
          MaxChunks   \* bound: writes of one provider

Children == {A, B}
None == "none"

\* The endpoints differ, and neither is named like no endpoint at all.
ASSUME Endpoints == A # B /\ None \notin Children
ASSUME Chunks == MaxChunks \in Nat

VARIABLES
    stream,       \* gctx.IsStream
    sensitive,    \* gctx.Sensitive, a smart-routing child: never streamed
    main,         \* where Invoke is
    failures,     \* its failuresCount
    result,       \* what Invoke returned
    winnerID,     \* session.winnerID
    winnerChan, failuresChan,    \* the session's channels, by length
    terminal,     \* session.terminalFailure is set
    pc,           \* where each child is
    cancelled,    \* children whose context is cancelled
    parentDone,   \* the caller's context is done
    chunks,       \* writes each child has attempted
    client,       \* how many writes of each child the client has received
    headed,       \* children that have set the status of the client's writer
    lease,        \* attempt lease of each child: "none", "held", "free"
    outcome       \* what each child reported to its circuit breaker

sessionVars == <<winnerID, winnerChan, failuresChan, terminal>>
childVars == <<pc, chunks, client, headed, lease, outcome>>
vars == <<stream, sensitive, main, failures, result, sessionVars, childVars, cancelled,
          parentDone>>

Init ==
    /\ stream \in BOOLEAN /\ sensitive \in BOOLEAN /\ ~(stream /\ sensitive)
    /\ main = "first" /\ failures = 0 /\ result = None
    /\ winnerID = None /\ winnerChan = 0 /\ failuresChan = 0 /\ terminal = FALSE
    /\ pc = [c \in Children |-> IF c = A THEN "begin" ELSE "idle"]
    /\ cancelled = {} /\ parentDone = FALSE
    /\ chunks = [c \in Children |-> 0] /\ client = [c \in Children |-> 0] /\ headed = {}
    /\ lease = [c \in Children |-> "none"] /\ outcome = [c \in Children |-> None]

-----------------------------------------------------------------------------
\* The children.

\* A send that a full channel would drop; both channels hold two.
Send(chan) == IF chan < 2 THEN chan + 1 ELSE chan

Goto(c, where) == pc' = [pc EXCEPT ![c] = where]

\* hedgedOutcome: the breaker is told how the attempt ended, whoever won, and
\* the lease is given back.
hedgedOutcome(c, how) ==
    /\ outcome' = [outcome EXCEPT ![c] = how]
    /\ lease' = [lease EXCEPT ![c] = "free"]

\* The attempt lease is granted.
Begin(c) ==
    /\ pc[c] = "begin"
    /\ lease' = [lease EXCEPT ![c] = "held"] /\ Goto(c, "run")
    /\ UNCHANGED <<stream, sensitive, main, failures, result, sessionVars, chunks, client, headed,
                   outcome, cancelled, parentDone>>

\* The circuit breaker refuses the attempt: a failure without an outcome.
BeginRefused(c) ==
    /\ pc[c] = "begin"
    /\ failuresChan' = Send(failuresChan) /\ cancelled' = cancelled \cup {c} /\ Goto(c, "done")
    /\ UNCHANGED <<stream, sensitive, main, failures, result, winnerID, winnerChan, terminal,
                   chunks, client, headed, lease, outcome, parentDone>>

\* Mutant: every child forwards what it writes.
WriteAny(c) ==
    /\ pc[c] = "run" /\ stream /\ chunks[c] < MaxChunks
    /\ chunks' = [chunks EXCEPT ![c] = @ + 1]
    /\ Goto(c, IF winnerID = None THEN "signal" ELSE "write")
    /\ winnerID' = IF winnerID = None THEN c ELSE winnerID
    /\ UNCHANGED <<stream, sensitive, main, failures, result, winnerChan, failuresChan, terminal,
                   client, headed, lease, outcome, cancelled, parentDone>>

\* hedgingWriter.Write up to the call of the client's writer: a cancelled
\* child gets an error, a loser's bytes are dropped, the first to come wins.
Write(c) ==
    /\ pc[c] = "run" /\ stream /\ chunks[c] < MaxChunks
    /\ chunks' = [chunks EXCEPT ![c] = @ + 1]
    /\ \/ /\ c \in cancelled
          /\ Goto(c, "failed") /\ UNCHANGED winnerID
       \/ /\ c \notin cancelled /\ winnerID \notin {c, None}
          /\ UNCHANGED <<pc, winnerID>>
       \/ /\ c \notin cancelled /\ winnerID = c
          /\ Goto(c, "write") /\ UNCHANGED winnerID
       \/ /\ c \notin cancelled /\ winnerID = None
          /\ Goto(c, "signal") /\ winnerID' = c
    /\ UNCHANGED <<stream, sensitive, main, failures, result, winnerChan, failuresChan, terminal,
                   client, headed, lease, outcome, cancelled, parentDone>>

\* The first write of the winner: the headers, and the news to Invoke.
Signal(c) ==
    /\ pc[c] = "signal"
    /\ headed' = headed \cup {c}
    /\ winnerChan' = Send(winnerChan) /\ Goto(c, "write")
    /\ UNCHANGED <<stream, sensitive, main, failures, result, winnerID, failuresChan, terminal,
                   chunks, client, lease, outcome, cancelled, parentDone>>

\* The rest of Write.
Forward(c) ==
    /\ pc[c] = "write"
    /\ client' = [client EXCEPT ![c] = @ + 1] /\ Goto(c, "run")
    /\ UNCHANGED <<stream, sensitive, main, failures, result, sessionVars, chunks, headed, lease,
                   outcome, cancelled, parentDone>>

\* A handler sets the headers and the status before it writes.  hedgingWriter
\* intercepts Write and Flush only: Header and WriteHeader are those of the client's
\* writer, whoever has won and whether or not Invoke has returned.
WriteHeader(c) ==
    /\ pc[c] = "run" /\ stream /\ c \notin headed
    /\ headed' = headed \cup {c}
    /\ UNCHANGED <<stream, sensitive, main, failures, result, sessionVars, pc, chunks, client,
                   lease, outcome, cancelled, parentDone>>

\* The provider returns.
ProviderReturns(c, how) ==
    /\ pc[c] = "run" /\ Goto(c, how)
    /\ UNCHANGED <<stream, sensitive, main, failures, result, sessionVars, chunks, client, headed,
                   lease, outcome, cancelled, parentDone>>

\* Mutant: a failed attempt keeps its lease.
FailKeepsLease(c, fatal) ==
    /\ pc[c] = "failed"
    /\ terminal' = (terminal \/ fatal) /\ (fatal => sensitive)
    /\ outcome' = [outcome EXCEPT ![c] = "failure"] /\ UNCHANGED lease
    /\ Goto(c, "report")
    /\ UNCHANGED <<stream, sensitive, main, failures, result, winnerID, winnerChan,
                   failuresChan, chunks, client, headed, cancelled, parentDone>>

\* The failure is noted in the session and by the circuit breaker; fatal is a
\* rejection that a sensitive request must not work around.
Fail(c, fatal) ==
    /\ pc[c] = "failed"
    /\ terminal' = (terminal \/ fatal) /\ (fatal => sensitive)
    /\ hedgedOutcome(c, "failure") /\ Goto(c, "report")
    /\ UNCHANGED <<stream, sensitive, main, failures, result, winnerID, winnerChan,
                   failuresChan, chunks, client, headed, cancelled, parentDone>>

\* It is sent to Invoke, and the child cancels its own context.
Report(c) ==
    /\ pc[c] = "report"
    /\ failuresChan' = Send(failuresChan) /\ cancelled' = cancelled \cup {c} /\ Goto(c, "done")
    /\ UNCHANGED <<stream, sensitive, main, failures, result, winnerID, winnerChan, terminal,
                   chunks, client, headed, lease, outcome, parentDone>>

\* Success is recorded before the win is claimed.
Succeed(c) ==
    /\ pc[c] = "succeeded"
    /\ hedgedOutcome(c, "success") /\ Goto(c, "claim")
    /\ UNCHANGED <<stream, sensitive, main, failures, result, sessionVars, chunks, client, headed,
                   cancelled, parentDone>>

\* claimWinner; returning closes completed.
claimWinner(c) ==
    /\ pc[c] = "claim" /\ Goto(c, "done")
    /\ IF winnerID = None THEN winnerID' = c /\ winnerChan' = Send(winnerChan)
       ELSE UNCHANGED <<winnerID, winnerChan>>
    /\ UNCHANGED <<stream, sensitive, main, failures, result, failuresChan, terminal, chunks,
                   client, headed, lease, outcome, cancelled, parentDone>>

-----------------------------------------------------------------------------
\* Invoke.

\* Returning cancels the session and with it both children.
ReturnResult(r) == /\ main' = "returned" /\ result' = r /\ cancelled' = Children

StartB == pc' = [pc EXCEPT ![B] = "begin"]

\* The hedge delay is over.
DelayOver ==
    /\ main = "first"
    /\ StartB /\ main' = "loop"
    /\ UNCHANGED <<stream, sensitive, failures, result, sessionVars, chunks, client, headed, lease,
                   outcome, cancelled, parentDone>>

\* A has won before the delay was over.
FastWin ==
    /\ main = "first" /\ winnerChan > 0
    /\ winnerChan' = winnerChan - 1 /\ main' = "loop"
    /\ UNCHANGED <<stream, sensitive, failures, result, winnerID, failuresChan, terminal,
                   childVars, cancelled, parentDone>>

\* A has failed before the delay was over.
EarlyFailure ==
    /\ main = "first" /\ failuresChan > 0
    /\ failuresChan' = failuresChan - 1 /\ failures' = failures + 1
    /\ IF terminal THEN ReturnResult("rejected") /\ UNCHANGED pc
       ELSE StartB /\ main' = "loop" /\ UNCHANGED <<result, cancelled>>
    /\ UNCHANGED <<stream, sensitive, winnerID, winnerChan, terminal, chunks, client, headed, lease,
                   outcome, parentDone>>

\* The caller went away or ran out of time, wherever Invoke waits.
ContextDone ==
    /\ main \in {"first", "select", "await"} /\ parentDone
    /\ ReturnResult("cancelled")
    /\ UNCHANGED <<stream, sensitive, failures, sessionVars, childVars, parentDone>>

\* The head of the loop: a rejection counts before a winner.  The loser is
\* cancelled as soon as there is a winner.
LoopHead ==
    /\ main = "loop"
    /\ \/ /\ terminal /\ ReturnResult("rejected")
       \/ /\ ~terminal /\ winnerID = None
          /\ main' = "select" /\ UNCHANGED <<result, cancelled>>
       \/ /\ ~terminal /\ winnerID # None
          /\ main' = "await" /\ cancelled' = cancelled \cup (Children \ {winnerID})
          /\ UNCHANGED result
    /\ UNCHANGED <<stream, sensitive, failures, sessionVars, childVars, parentDone>>

WinnerSignalled ==
    /\ main = "select" /\ winnerChan > 0
    /\ winnerChan' = winnerChan - 1 /\ main' = "loop"
    /\ UNCHANGED <<stream, sensitive, failures, result, winnerID, failuresChan, terminal,
                   childVars, cancelled, parentDone>>

\* Mutant: one failure is enough.
ChildFailedOnce ==
    /\ main = "select" /\ failuresChan > 0
    /\ failuresChan' = failuresChan - 1 /\ failures' = failures + 1
    /\ ReturnResult("failed")
    /\ UNCHANGED <<stream, sensitive, winnerID, winnerChan, terminal, childVars, parentDone>>

\* A child failed: two failures are the end, unless somebody has won.
ChildFailed ==
    /\ main = "select" /\ failuresChan > 0
    /\ failuresChan' = failuresChan - 1
    /\ \/ /\ terminal /\ ReturnResult("rejected") /\ UNCHANGED failures
       \/ /\ ~terminal /\ winnerID # None
          /\ main' = "loop" /\ UNCHANGED <<failures, result, cancelled>>
       \/ /\ ~terminal /\ winnerID = None
          /\ failures' = failures + 1
          /\ IF failures + 1 >= 2 THEN ReturnResult("failed")
             ELSE main' = "loop" /\ UNCHANGED <<result, cancelled>>
    /\ UNCHANGED <<stream, sensitive, winnerID, winnerChan, terminal, childVars, parentDone>>

\* Mutant: the winner is not awaited.
AwaitNobody ==
    /\ main = "await"
    /\ ReturnResult(IF outcome[winnerID] = "failure" THEN "winner failed" ELSE "ok")
    /\ UNCHANGED <<stream, sensitive, failures, sessionVars, childVars, parentDone>>

\* Mutant: the winner's error is not returned.
AwaitForgetsError ==
    /\ main = "await" /\ pc[winnerID] = "done"
    /\ ReturnResult("ok")
    /\ UNCHANGED <<stream, sensitive, failures, sessionVars, childVars, parentDone>>

\* The winner has finished; its fields are copied and its error returned.
AwaitWinner ==
    /\ main = "await" /\ pc[winnerID] = "done"
    /\ ReturnResult(IF outcome[winnerID] = "failure" THEN "winner failed" ELSE "ok")
    /\ UNCHANGED <<stream, sensitive, failures, sessionVars, childVars, parentDone>>

\* The caller's context ends: the client leaves or the total timeout expires.
ParentCancels ==
    /\ ~parentDone /\ main # "returned"
    /\ parentDone' = TRUE /\ cancelled' = Children
    /\ UNCHANGED <<stream, sensitive, main, failures, result, sessionVars, childVars>>

InvokeStep == \/ DelayOver \/ FastWin \/ EarlyFailure \/ ContextDone \/ LoopHead
              \/ WinnerSignalled \/ ChildFailed \/ AwaitWinner

ChildStep(c) ==
    \/ Begin(c) \/ BeginRefused(c) \/ WriteHeader(c) \/ Write(c) \/ Signal(c) \/ Forward(c)
    \/ \E how \in {"succeeded", "failed"} : ProviderReturns(c, how)
    \/ \E fatal \in BOOLEAN : Fail(c, fatal)
    \/ Report(c) \/ Succeed(c) \/ claimWinner(c)

Finished == main = "returned" /\ \A c \in Children : pc[c] \in {"idle", "done"}

Next == \/ InvokeStep
        \/ \E c \in Children : ChildStep(c)
        \/ ParentCancels
        \/ Finished /\ UNCHANGED vars

\* The goroutines run, and providers return: a cancelled child's call is aborted, and
\* with an idle_timeout (the shipped configurations set one, the code's default is
\* none) upstream.Call bounds the wait for the first byte and between reads.
Spec == /\ Init /\ [][Next]_vars
        /\ WF_vars(InvokeStep)
        /\ \A c \in Children : WF_vars(ChildStep(c))

-----------------------------------------------------------------------------
\* Properties.

\* The client hears one voice: whatever the order of the two streams, all the
\* bytes it gets are the winner's (hedgingWriter.Write).
OneVoice == \A c \in Children : client[c] > 0 => winnerID = c

\* A request is reported as served only when the winner has served it to the
\* end: its attempt succeeded and the client has every byte it wrote
\* ("Let the winner finish before reading it").
ServedMeansServed ==
    result = "ok" => /\ outcome[winnerID] = "success"
                     /\ client[winnerID] = chunks[winnerID]

\* "All hedging channels failed" is said only when both children gave up and
\* the client has been given no byte of a body; a status may be out (WriteHeader).
\* A winner that broke off is reported as the winner's own error instead.
TotalFailureIsTotal ==
    result = "failed" => /\ winnerID = None
                         /\ \A c \in Children : /\ client[c] = 0 /\ pc[c] = "done"
                                                /\ outcome[c] # "success"

\* Once Invoke has returned, other than because its caller's context ended, no
\* child has bytes on their way to the client's writer, which the server reuses by
\* then, and the only child that can still touch the writer is a loser beside a
\* winner, by WriteHeader; after a total failure nobody can.
QuietAfterReturn ==
    main = "returned" /\ result # "cancelled" =>
        \A c \in Children : /\ pc[c] \notin {"signal", "write"}
                            /\ pc[c] = "run" /\ stream => winnerID \notin {c, None}

\* Whatever happens, Invoke returns, both children finish, losers included, and
\* every attempt lease of the circuit breaker is given back.
EverythingSettles == <>[](Finished /\ \A c \in Children : lease[c] # "held")
=============================================================================
