--------------------------- MODULE HedgingProofs ---------------------------
(***************************************************************************)
(* The safety of hedged invocation, for any number of writes.              *)
(***************************************************************************)
EXTENDS Hedging, TLAPS

\* A child that has bytes for the client in its hands.
InFlight(c) == pc[c] \in {"signal", "write"}

\* A child whose failure Invoke has been told of.
GaveUp(c) == pc[c] = "done" /\ outcome[c] # "success"

Bools == /\ stream \in BOOLEAN /\ sensitive \in BOOLEAN
         /\ terminal \in BOOLEAN /\ parentDone \in BOOLEAN

Counters == /\ failures \in Nat /\ winnerChan \in Nat /\ failuresChan \in Nat
            /\ chunks \in [Children -> Nat] /\ client \in [Children -> Nat]

Shapes ==
    /\ main \in {"first", "loop", "select", "await", "returned"}
    /\ result \in {None, "ok", "winner failed", "failed", "rejected", "cancelled"}
    /\ winnerID \in Children \cup {None}
    /\ pc \in [Children -> {"idle", "begin", "run", "signal", "write", "failed", "report",
                            "succeeded", "claim", "done"}]
    /\ cancelled \subseteq Children
    /\ lease \in [Children -> {"none", "held", "free"}]
    /\ outcome \in [Children -> {None, "success", "failure"}]

\* Where a child is says what it has reported, and only a streamed winner has
\* bytes in its hands.
ChildSound ==
    \A c \in Children :
        /\ InFlight(c) => winnerID = c /\ stream
        /\ pc[c] \in {"idle", "begin", "run", "signal", "write", "succeeded", "failed"}
               => outcome[c] = None
        /\ pc[c] = "report" => outcome[c] = "failure"
        /\ pc[c] = "claim" => outcome[c] = "success"
        /\ pc[c] \in {"idle", "begin"} => chunks[c] = 0

\* B is not started before Invoke leaves its first select; Invoke awaits a
\* winner; a rejection is a sensitive request's; a returned Invoke has
\* cancelled everybody.
MainSound ==
    /\ main = "first" => pc[B] = "idle"
    /\ main = "await" => winnerID # None
    /\ main = "returned" <=> result # None
    /\ main = "returned" => \A c \in Children : c \in cancelled
    /\ terminal => sensitive
    /\ ~(stream /\ sensitive)
    /\ result = "rejected" => terminal

\* Failures are counted at most once.
CountSound ==
    /\ failures + failuresChan <= 2
    /\ failures + failuresChan >= 1 => GaveUp(A) \/ GaveUp(B)
    /\ failures + failuresChan = 2 => GaveUp(A) /\ GaveUp(B)

\* A total failure is final.
FailedSound == result = "failed" => winnerID = None /\ GaveUp(A) /\ GaveUp(B)

\* What is returned of a winner is what it reported when it was done.
ServedSound ==
    /\ result \in {"ok", "winner failed"} => winnerID # None /\ pc[winnerID] = "done"
    /\ result = "ok" => outcome[winnerID] # "failure"

\* The client has every byte of a winner that has not failed, but for the ones
\* in its hands; nobody has written anything while there is no winner.
BytesSound ==
    \A c \in Children :
        winnerID \in {c, None} /\ pc[c] # "failed" /\ outcome[c] # "failure" =>
            /\ InFlight(c) => chunks[c] = client[c] + 1
            /\ ~InFlight(c) => chunks[c] = client[c]

\* A winner that is done has an outcome: the breaker's refusal never wins.
WinnerSound ==
    \A c \in Children : winnerID = c => pc[c] \notin {"idle", "begin"}
                                        /\ (pc[c] = "done" => outcome[c] # None)

IInv == /\ Bools /\ Counters /\ Shapes /\ OneVoice /\ ChildSound /\ MainSound
        /\ CountSound /\ FailedSound /\ ServedSound /\ BytesSound /\ WinnerSound
-----------------------------------------------------------------------------
\* The proofs: one lemma for Invoke's steps, one for a child's, and the theorem.

\* What the proofs use of the endpoints' names.
LEMMA Names == /\ A \in Children /\ B \in Children /\ A # B /\ None \notin Children
               /\ \A c \in Children : c = A \/ c = B
BY Endpoints DEF Children, None

\* A step of Invoke keeps the inductive invariant.
LEMMA InvokeKeeps == IInv /\ InvokeStep => IInv'
<1>. SUFFICES ASSUME IInv, InvokeStep PROVE IInv' OBVIOUS
<1>. USE DEF IInv
<1>1. CASE DelayOver
  <2>1. Bools' /\ Counters' /\ OneVoice'
    BY <1>1 DEF Bools, Counters, OneVoice, DelayOver, StartB, sessionVars, childVars
  <2>2. Shapes'
    BY <1>1, Names, Zenon DEF Shapes, DelayOver, StartB, sessionVars, childVars, None
  <2>3. ChildSound' /\ MainSound'
    BY <1>1, Names DEF ChildSound, Shapes, Counters, MainSound, InFlight, DelayOver, StartB,
       sessionVars, childVars, None
  <2>4. CountSound'
    BY <1>1, Names DEF CountSound, Shapes, Counters, ChildSound, MainSound, GaveUp, DelayOver,
       StartB, sessionVars, childVars, None
  <2>5. FailedSound' /\ ServedSound' /\ WinnerSound'
    BY <1>1, Names DEF FailedSound, CountSound, Shapes, Counters, ChildSound, MainSound, GaveUp,
       InFlight, ServedSound, WinnerSound, DelayOver, StartB, sessionVars, childVars, None
  <2>6. BytesSound'
    BY <1>1, Names DEF BytesSound, OneVoice, Shapes, Counters, ChildSound, MainSound, InFlight,
       DelayOver, StartB, sessionVars, childVars, None
  <2>. QED BY <2>1, <2>2, <2>3, <2>4, <2>5, <2>6 DEF IInv
<1>2. CASE FastWin
  <2>1. Bools' /\ OneVoice' /\ ChildSound' /\ CountSound' /\ FailedSound' /\ ServedSound' /\ BytesSound' /\ WinnerSound'
    BY <1>2, Zenon DEF Bools, OneVoice, ChildSound, CountSound, FailedSound, ServedSound,
       BytesSound,
       WinnerSound, InFlight, GaveUp, FastWin, sessionVars, childVars
  <2>2. Counters'
    BY <1>2, Names DEF Counters, FastWin, sessionVars, childVars, None
  <2>3. Shapes'
    BY <1>2, Names, Zenon DEF Shapes, FastWin, sessionVars, childVars, None
  <2>4. MainSound'
    BY <1>2, Names DEF MainSound, Shapes, ChildSound, InFlight, FastWin, sessionVars, childVars,
       None
  <2>. QED BY <2>1, <2>2, <2>3, <2>4 DEF IInv
<1>3. CASE EarlyFailure
  <2>1. CASE terminal
    <3>0. /\ main = "first" /\ failuresChan > 0 /\ failuresChan' = failuresChan - 1
          /\ failures' = failures + 1
          /\ main' = "returned" /\ result' = "rejected" /\ cancelled' = Children /\ pc' = pc
          /\ UNCHANGED <<stream, sensitive, winnerID, winnerChan, terminal, chunks, client, lease,
                      outcome, parentDone>>
      BY <1>3, <2>1, Names DEF EarlyFailure, StartB, ReturnResult, sessionVars, childVars,
         Counters, Bools
    <3>1. Bools' /\ OneVoice'
      BY <2>1, <3>0 DEF Bools, OneVoice
    <3>2. Counters'
      BY <2>1, <3>0, Names DEF Counters, None
    <3>3. Shapes'
      BY <2>1, <3>0, Names, Zenon DEF Shapes, None
    <3>4. ChildSound' /\ MainSound'
      BY <2>1, <3>0, Names DEF ChildSound, Shapes, Counters, MainSound, InFlight, None
    <3>5. CountSound'
      BY <2>1, <3>0, Names DEF CountSound, Shapes, Counters, ChildSound, MainSound, GaveUp, None
    <3>6. FailedSound' /\ ServedSound' /\ WinnerSound'
      BY <2>1, <3>0, Names DEF FailedSound, CountSound, Shapes, Counters, ChildSound, MainSound,
         GaveUp, InFlight, ServedSound, WinnerSound, None
    <3>7. BytesSound'
      BY <2>1, <3>0, Names DEF BytesSound, OneVoice, Shapes, Counters, ChildSound, MainSound,
         InFlight, None
    <3>. QED BY <3>1, <3>2, <3>3, <3>4, <3>5, <3>6, <3>7 DEF IInv
  <2>2. CASE ~terminal
    <3>0. /\ main = "first" /\ failuresChan > 0 /\ failuresChan' = failuresChan - 1
          /\ failures' = failures + 1
          /\ pc' = [pc EXCEPT ![B] = "begin"]
          /\ main' = "loop" /\ result' = result /\ cancelled' = cancelled
          /\ UNCHANGED <<stream, sensitive, winnerID, winnerChan, terminal, chunks, client, lease,
                      outcome, parentDone>>
      BY <1>3, <2>2, Names DEF EarlyFailure, StartB, ReturnResult, sessionVars, childVars,
         Counters, Bools
    <3>1. Bools' /\ OneVoice'
      BY <2>2, <3>0 DEF Bools, OneVoice
    <3>2. Counters'
      BY <2>2, <3>0, Names DEF Counters, None
    <3>3. Shapes'
      BY <2>2, <3>0, Names, Zenon DEF Shapes, None
    <3>4. ChildSound' /\ MainSound'
      BY <2>2, <3>0, Names DEF ChildSound, Shapes, Counters, MainSound, InFlight, None
    <3>5. CountSound'
      BY <2>2, <3>0, Names DEF CountSound, Shapes, Counters, ChildSound, MainSound, GaveUp, None
    <3>6. FailedSound' /\ ServedSound' /\ WinnerSound'
      BY <2>2, <3>0, Names DEF FailedSound, CountSound, Shapes, Counters, ChildSound, MainSound,
         GaveUp, InFlight, ServedSound, WinnerSound, None
    <3>7. BytesSound'
      BY <2>2, <3>0, Names DEF BytesSound, OneVoice, Shapes, Counters, ChildSound, MainSound,
         InFlight, None
    <3>. QED BY <3>1, <3>2, <3>3, <3>4, <3>5, <3>6, <3>7 DEF IInv
  <2>. QED BY <1>3, <2>1, <2>2 DEF Bools
<1>4. CASE ContextDone
  <2>1. Bools' /\ Counters' /\ OneVoice' /\ ChildSound' /\ CountSound' /\ BytesSound' /\ WinnerSound'
    BY <1>4 DEF Bools, Counters, OneVoice, ChildSound, CountSound, BytesSound, WinnerSound,
       InFlight, GaveUp, ContextDone, ReturnResult, sessionVars, childVars
  <2>2. Shapes'
    BY <1>4, Names, Zenon DEF Shapes, ContextDone, ReturnResult, sessionVars, childVars, None
  <2>3. MainSound'
    BY <1>4, Names, Zenon DEF MainSound, Shapes, ChildSound, InFlight, ContextDone, ReturnResult,
       sessionVars, childVars, None
  <2>4. FailedSound' /\ ServedSound'
    BY <1>4, Names, Zenon DEF FailedSound, CountSound, Shapes, Counters, ChildSound, MainSound,
       GaveUp,
       InFlight, ServedSound, ContextDone, ReturnResult, sessionVars, childVars, None
  <2>. QED BY <2>1, <2>2, <2>3, <2>4 DEF IInv
<1>5. CASE LoopHead
  <2>1. Bools' /\ Counters' /\ OneVoice' /\ ChildSound' /\ CountSound' /\ BytesSound' /\ WinnerSound'
    BY <1>5 DEF Bools, Counters, OneVoice, ChildSound, CountSound, BytesSound, WinnerSound,
       InFlight, GaveUp, LoopHead, ReturnResult, sessionVars, childVars
  <2>2. Shapes'
    BY <1>5, Names, Zenon DEF Shapes, LoopHead, ReturnResult, sessionVars, childVars, None
  <2>3. MainSound'
    BY <1>5, Names DEF MainSound, Shapes, ChildSound, InFlight, LoopHead, ReturnResult,
       sessionVars, childVars, None
  <2>4. FailedSound' /\ ServedSound'
    BY <1>5, Names, Zenon DEF FailedSound, CountSound, Shapes, Counters, ChildSound, MainSound,
       GaveUp,
       InFlight, ServedSound, LoopHead, ReturnResult, sessionVars, childVars, None
  <2>. QED BY <2>1, <2>2, <2>3, <2>4 DEF IInv
<1>6. CASE WinnerSignalled
  <2>1. Bools' /\ OneVoice' /\ ChildSound' /\ CountSound' /\ FailedSound' /\ ServedSound' /\ BytesSound' /\ WinnerSound'
    BY <1>6, Zenon DEF Bools, OneVoice, ChildSound, CountSound, FailedSound, ServedSound,
       BytesSound,
       WinnerSound, InFlight, GaveUp, WinnerSignalled, sessionVars, childVars
  <2>2. Counters'
    BY <1>6, Names DEF Counters, WinnerSignalled, sessionVars, childVars, None
  <2>3. Shapes'
    BY <1>6, Names, Zenon DEF Shapes, WinnerSignalled, sessionVars, childVars, None
  <2>4. MainSound'
    BY <1>6, Names DEF MainSound, Shapes, ChildSound, InFlight, WinnerSignalled, sessionVars,
       childVars, None
  <2>. QED BY <2>1, <2>2, <2>3, <2>4 DEF IInv
<1>7. CASE ChildFailed
  <2>1. CASE terminal
    <3>0. /\ failuresChan > 0 /\ failuresChan' = failuresChan - 1
          /\ failures' = failures
          /\ main' = "returned" /\ result' = "rejected" /\ cancelled' = Children
          /\ UNCHANGED <<stream, sensitive, winnerID, winnerChan, terminal, pc, chunks, client, lease,
                      outcome, parentDone>>
      BY <1>7, <2>1, Names DEF ChildFailed, ReturnResult, sessionVars, childVars, Counters,
         Bools
    <3>1. Bools' /\ OneVoice' /\ ChildSound' /\ BytesSound' /\ WinnerSound'
      BY <2>1, <3>0 DEF Bools, OneVoice, ChildSound, BytesSound, WinnerSound, InFlight
    <3>2. Counters'
      BY <2>1, <3>0, Names DEF Counters, None
    <3>3. Shapes'
      BY <2>1, <3>0, Names, Zenon DEF Shapes, None
    <3>4. MainSound'
      BY <2>1, <3>0, Names, Zenon DEF MainSound, Shapes, ChildSound, InFlight, None
    <3>5. CountSound'
      <4>1. pc' = pc /\ outcome' = outcome BY <2>1, <3>0
      <4>2. (GaveUp(A)' <=> GaveUp(A)) /\ (GaveUp(B)' <=> GaveUp(B)) BY <4>1 DEF GaveUp
      <4>3. /\ failures + failuresChan <= 2 => failures' + failuresChan' <= 2
            /\ failures' + failuresChan' >= 1 => failures + failuresChan >= 1
            /\ failures' + failuresChan' = 2 /\ failures + failuresChan <= 2 => failures + failuresChan = 2
        BY <3>0 DEF Counters
      <4>. QED BY <4>2, <4>3, <2>1, <3>0 DEF CountSound, Counters
    <3>6. FailedSound'
      <4>1. pc' = pc /\ outcome' = outcome BY <2>1, <3>0
      <4>2. (GaveUp(A)' <=> GaveUp(A)) /\ (GaveUp(B)' <=> GaveUp(B)) BY <4>1 DEF GaveUp
      <4>3. failures + failuresChan <= 2 BY DEF CountSound
      <4>4. failures + 1 >= 2 => failures + failuresChan = 2 BY <4>3, <3>0 DEF Counters
      <4>5. failures + 1 >= 2 => GaveUp(A) /\ GaveUp(B) BY <4>4, Zenon DEF CountSound
      <4>. QED BY <4>2, <4>5, <2>1, <3>0, Zenon DEF FailedSound
    <3>7. ServedSound'
      BY <2>1, <3>0, Names, Zenon DEF ServedSound, Shapes, ChildSound, MainSound, InFlight, None
    <3>. QED BY <3>1, <3>2, <3>3, <3>4, <3>5, <3>6, <3>7 DEF IInv
  <2>2. CASE ~terminal /\ winnerID # None
    <3>0. /\ failuresChan > 0 /\ failuresChan' = failuresChan - 1
          /\ failures' = failures
          /\ main' = "loop" /\ main # "returned" /\ result' = result /\ cancelled' = cancelled
          /\ UNCHANGED <<stream, sensitive, winnerID, winnerChan, terminal, pc, chunks, client, lease,
                      outcome, parentDone>>
      BY <1>7, <2>2, Names DEF ChildFailed, ReturnResult, sessionVars, childVars, Counters,
         Bools
    <3>1. Bools' /\ OneVoice' /\ ChildSound' /\ BytesSound' /\ WinnerSound'
      BY <2>2, <3>0 DEF Bools, OneVoice, ChildSound, BytesSound, WinnerSound, InFlight
    <3>2. Counters'
      BY <2>2, <3>0, Names DEF Counters, None
    <3>3. Shapes'
      BY <2>2, <3>0, Names, Zenon DEF Shapes, None
    <3>4. MainSound'
      BY <2>2, <3>0, Names, Zenon DEF MainSound, Shapes, ChildSound, InFlight, None
    <3>5. CountSound'
      <4>1. pc' = pc /\ outcome' = outcome BY <2>2, <3>0
      <4>2. (GaveUp(A)' <=> GaveUp(A)) /\ (GaveUp(B)' <=> GaveUp(B)) BY <4>1 DEF GaveUp
      <4>3. /\ failures + failuresChan <= 2 => failures' + failuresChan' <= 2
            /\ failures' + failuresChan' >= 1 => failures + failuresChan >= 1
            /\ failures' + failuresChan' = 2 /\ failures + failuresChan <= 2 => failures + failuresChan = 2
        BY <3>0 DEF Counters
      <4>. QED BY <4>2, <4>3, <2>2, <3>0 DEF CountSound, Counters
    <3>6. FailedSound'
      <4>1. pc' = pc /\ outcome' = outcome BY <2>2, <3>0
      <4>2. (GaveUp(A)' <=> GaveUp(A)) /\ (GaveUp(B)' <=> GaveUp(B)) BY <4>1 DEF GaveUp
      <4>3. failures + failuresChan <= 2 BY DEF CountSound
      <4>4. failures + 1 >= 2 => failures + failuresChan = 2 BY <4>3, <3>0 DEF Counters
      <4>5. failures + 1 >= 2 => GaveUp(A) /\ GaveUp(B) BY <4>4, Zenon DEF CountSound
      <4>. QED BY <4>2, <4>5, <2>2, <3>0, Zenon DEF FailedSound
    <3>7. ServedSound'
      BY <2>2, <3>0, Names, Zenon DEF ServedSound, Shapes, ChildSound, MainSound, InFlight, None
    <3>. QED BY <3>1, <3>2, <3>3, <3>4, <3>5, <3>6, <3>7 DEF IInv
  <2>3. CASE ~terminal /\ winnerID = None /\ failures + 1 >= 2
    <3>0. /\ failuresChan > 0 /\ failuresChan' = failuresChan - 1
          /\ failures' = failures + 1
          /\ main' = "returned" /\ result' = "failed" /\ cancelled' = Children
          /\ UNCHANGED <<stream, sensitive, winnerID, winnerChan, terminal, pc, chunks, client, lease,
                      outcome, parentDone>>
      BY <1>7, <2>3, Names DEF ChildFailed, ReturnResult, sessionVars, childVars, Counters,
         Bools
    <3>1. Bools' /\ OneVoice' /\ ChildSound' /\ BytesSound' /\ WinnerSound'
      BY <2>3, <3>0 DEF Bools, OneVoice, ChildSound, BytesSound, WinnerSound, InFlight
    <3>2. Counters'
      BY <2>3, <3>0, Names DEF Counters, None
    <3>3. Shapes'
      BY <2>3, <3>0, Names, Zenon DEF Shapes, None
    <3>4. MainSound'
      BY <2>3, <3>0, Names, Zenon DEF MainSound, Shapes, ChildSound, InFlight, None
    <3>5. CountSound'
      <4>1. pc' = pc /\ outcome' = outcome BY <2>3, <3>0
      <4>2. (GaveUp(A)' <=> GaveUp(A)) /\ (GaveUp(B)' <=> GaveUp(B)) BY <4>1 DEF GaveUp
      <4>3. /\ failures + failuresChan <= 2 => failures' + failuresChan' <= 2
            /\ failures' + failuresChan' >= 1 => failures + failuresChan >= 1
            /\ failures' + failuresChan' = 2 /\ failures + failuresChan <= 2 => failures + failuresChan = 2
        BY <3>0 DEF Counters
      <4>. QED BY <4>2, <4>3, <2>3, <3>0 DEF CountSound, Counters
    <3>6. FailedSound'
      <4>1. pc' = pc /\ outcome' = outcome BY <2>3, <3>0
      <4>2. (GaveUp(A)' <=> GaveUp(A)) /\ (GaveUp(B)' <=> GaveUp(B)) BY <4>1 DEF GaveUp
      <4>3. failures + failuresChan <= 2 BY DEF CountSound
      <4>4. failures + 1 >= 2 => failures + failuresChan = 2 BY <4>3, <3>0 DEF Counters
      <4>5. failures + 1 >= 2 => GaveUp(A) /\ GaveUp(B) BY <4>4, Zenon DEF CountSound
      <4>. QED BY <4>2, <4>5, <2>3, <3>0, Zenon DEF FailedSound
    <3>7. ServedSound'
      BY <2>3, <3>0, Names, Zenon DEF ServedSound, Shapes, ChildSound, MainSound, InFlight, None
    <3>. QED BY <3>1, <3>2, <3>3, <3>4, <3>5, <3>6, <3>7 DEF IInv
  <2>4. CASE ~terminal /\ winnerID = None /\ ~(failures + 1 >= 2)
    <3>0. /\ failuresChan > 0 /\ failuresChan' = failuresChan - 1
          /\ failures' = failures + 1
          /\ main' = "loop" /\ main # "returned" /\ result' = result /\ cancelled' = cancelled
          /\ UNCHANGED <<stream, sensitive, winnerID, winnerChan, terminal, pc, chunks, client, lease,
                      outcome, parentDone>>
      BY <1>7, <2>4, Names DEF ChildFailed, ReturnResult, sessionVars, childVars, Counters,
         Bools
    <3>1. Bools' /\ OneVoice' /\ ChildSound' /\ BytesSound' /\ WinnerSound'
      BY <2>4, <3>0 DEF Bools, OneVoice, ChildSound, BytesSound, WinnerSound, InFlight
    <3>2. Counters'
      BY <2>4, <3>0, Names DEF Counters, None
    <3>3. Shapes'
      BY <2>4, <3>0, Names, Zenon DEF Shapes, None
    <3>4. MainSound'
      BY <2>4, <3>0, Names, Zenon DEF MainSound, Shapes, ChildSound, InFlight, None
    <3>5. CountSound'
      <4>1. pc' = pc /\ outcome' = outcome BY <2>4, <3>0
      <4>2. (GaveUp(A)' <=> GaveUp(A)) /\ (GaveUp(B)' <=> GaveUp(B)) BY <4>1 DEF GaveUp
      <4>3. /\ failures + failuresChan <= 2 => failures' + failuresChan' <= 2
            /\ failures' + failuresChan' >= 1 => failures + failuresChan >= 1
            /\ failures' + failuresChan' = 2 /\ failures + failuresChan <= 2 => failures + failuresChan = 2
        BY <3>0 DEF Counters
      <4>. QED BY <4>2, <4>3, <2>4, <3>0 DEF CountSound, Counters
    <3>6. FailedSound'
      <4>1. pc' = pc /\ outcome' = outcome BY <2>4, <3>0
      <4>2. (GaveUp(A)' <=> GaveUp(A)) /\ (GaveUp(B)' <=> GaveUp(B)) BY <4>1 DEF GaveUp
      <4>3. failures + failuresChan <= 2 BY DEF CountSound
      <4>4. failures + 1 >= 2 => failures + failuresChan = 2 BY <4>3, <3>0 DEF Counters
      <4>5. failures + 1 >= 2 => GaveUp(A) /\ GaveUp(B) BY <4>4, Zenon DEF CountSound
      <4>. QED BY <4>2, <4>5, <2>4, <3>0, Zenon DEF FailedSound
    <3>7. ServedSound'
      BY <2>4, <3>0, Names, Zenon DEF ServedSound, Shapes, ChildSound, MainSound, InFlight, None
    <3>. QED BY <3>1, <3>2, <3>3, <3>4, <3>5, <3>6, <3>7 DEF IInv
  <2>. QED BY <1>7, <2>1, <2>2, <2>3, <2>4 DEF Bools
<1>8. CASE AwaitWinner
  <2>1. Bools' /\ Counters' /\ OneVoice' /\ ChildSound' /\ CountSound' /\ BytesSound' /\ WinnerSound'
    BY <1>8, Zenon DEF Bools, Counters, OneVoice, ChildSound, CountSound, BytesSound, WinnerSound,
       InFlight, GaveUp, AwaitWinner, ReturnResult, sessionVars, childVars
  <2>2. Shapes'
    BY <1>8, Names, Zenon DEF Shapes, AwaitWinner, ReturnResult, sessionVars, childVars, None
  <2>3. MainSound'
    BY <1>8, Names, Zenon DEF MainSound, Shapes, ChildSound, InFlight, AwaitWinner, ReturnResult,
       sessionVars, childVars, None
  <2>4. FailedSound' /\ ServedSound'
    BY <1>8, Names, Zenon DEF FailedSound, CountSound, Shapes, Counters, ChildSound, MainSound,
       GaveUp,
       InFlight, ServedSound, AwaitWinner, ReturnResult, sessionVars, childVars, None
  <2>. QED BY <2>1, <2>2, <2>3, <2>4 DEF IInv
<1>. QED BY <1>1, <1>2, <1>3, <1>4, <1>5, <1>6, <1>7, <1>8 DEF InvokeStep

\* A step of a child keeps the inductive invariant.
LEMMA ChildKeeps == ASSUME NEW c \in Children, IInv, ChildStep(c) PROVE IInv'
<1>. USE DEF IInv
<1>1. CASE Begin(c)
  <2>1. Bools' /\ Counters' /\ OneVoice'
    BY <1>1 DEF Bools, Counters, OneVoice, Begin, Goto, sessionVars, childVars
  <2>2. Shapes'
    BY <1>1, Names, Zenon DEF Shapes, Begin, Goto, sessionVars, childVars, None
  <2>3. ChildSound' /\ MainSound'
    BY <1>1, Names, Zenon DEF ChildSound, Shapes, Counters, MainSound, InFlight, Begin, Goto,
       sessionVars, childVars, None
  <2>4. CountSound'
    BY <1>1, Names, Zenon DEF CountSound, Shapes, Counters, ChildSound, MainSound, GaveUp,
       Begin, Goto,
       sessionVars, childVars, None
  <2>5. FailedSound' /\ ServedSound' /\ WinnerSound'
    BY <1>1, Names, Zenon DEF FailedSound, CountSound, Shapes, Counters, ChildSound, MainSound,
       GaveUp,
       InFlight, ServedSound, WinnerSound, Begin, Goto, sessionVars, childVars, None
  <2>6. BytesSound'
    BY <1>1, Names, Zenon DEF BytesSound, OneVoice, Shapes, Counters, ChildSound, MainSound,
       InFlight,
       Begin, Goto, sessionVars, childVars, None
  <2>. QED BY <2>1, <2>2, <2>3, <2>4, <2>5, <2>6 DEF IInv
<1>2. CASE BeginRefused(c)
  <2>1. Bools' /\ OneVoice'
    BY <1>2 DEF Bools, OneVoice, BeginRefused, Goto, Send, sessionVars, childVars
  <2>2. Counters'
    BY <1>2, Names DEF Counters, BeginRefused, Goto, Send, sessionVars, childVars, None
  <2>3. Shapes'
    BY <1>2, Names, Zenon DEF Shapes, BeginRefused, Goto, Send, sessionVars, childVars, None
  <2>4. ChildSound' /\ MainSound'
    BY <1>2, Names, Zenon DEF ChildSound, Shapes, Counters, MainSound, InFlight, BeginRefused,
       Goto,
       Send, sessionVars, childVars, None
  <2>5. CountSound'
    <3>1. /\ ~GaveUp(c) /\ GaveUp(c)'
          /\ \A d \in Children \ {c} : GaveUp(d)' <=> GaveUp(d)
      BY <1>2, Zenon DEF GaveUp, ChildSound, Shapes, BeginRefused, Goto, Send, sessionVars,
         childVars,
         None
    <3>2. failures + failuresChan # 2
      BY <3>1, Names, Zenon DEF CountSound
    <3>3. failures + failuresChan <= 2 BY DEF CountSound
    <3>4. /\ failures' + failuresChan' <= 2
          /\ failures' + failuresChan' = 2 => failures + failuresChan >= 1
      BY <3>2, <3>3, <1>2 DEF Counters, BeginRefused, Goto, Send, sessionVars, childVars
    <3>5. failures + failuresChan >= 1 => GaveUp(A) \/ GaveUp(B) BY Zenon DEF CountSound
    <3>6. (GaveUp(A)' \/ GaveUp(B)') /\ (GaveUp(A) \/ GaveUp(B) => GaveUp(A)' /\ GaveUp(B)')
      BY <3>1, Names, Zenon
    <3>7. failures' + failuresChan' >= 1 => GaveUp(A)' \/ GaveUp(B)' BY <3>6, Zenon
    <3>8. failures' + failuresChan' = 2 => GaveUp(A)' /\ GaveUp(B)' BY <3>4, <3>5, <3>6, Zenon
    <3>9. failures' + failuresChan' <= 2 BY <3>4, Zenon
    <3>. QED BY <3>7, <3>8, <3>9, Zenon DEF CountSound
  <2>6. FailedSound' /\ ServedSound' /\ WinnerSound'
    BY <1>2, Names, Zenon DEF FailedSound, CountSound, Shapes, Counters, ChildSound, MainSound,
       GaveUp,
       InFlight, ServedSound, WinnerSound, BeginRefused, Goto, Send, sessionVars, childVars, None
  <2>7. BytesSound'
    BY <1>2, Names, Zenon DEF BytesSound, OneVoice, Shapes, Counters, ChildSound, MainSound,
       InFlight,
       BeginRefused, Goto, Send, sessionVars, childVars, None
  <2>. QED BY <2>1, <2>2, <2>3, <2>4, <2>5, <2>6, <2>7 DEF IInv
<1>3. CASE Write(c)
  <2>1. CASE c \in cancelled
    <3>0. /\ pc[c] = "run" /\ stream /\ chunks' = [chunks EXCEPT ![c] = @ + 1]
          /\ pc' = [pc EXCEPT ![c] = "failed"] /\ winnerID' = winnerID
          /\ UNCHANGED <<stream, sensitive, main, failures, result, winnerChan, failuresChan,
                      terminal, client, lease, outcome, cancelled, parentDone>>
      BY <1>3, <2>1, Names DEF Write, Goto, sessionVars, childVars, Counters, Bools
    <3>1. Bools'
      BY <2>1, <3>0 DEF Bools
    <3>2. Counters'
      BY <2>1, <3>0, Names DEF Counters, None
    <3>3. Shapes'
      BY <2>1, <3>0, Names, Zenon DEF Shapes, None
    <3>4. OneVoice' /\ ChildSound' /\ MainSound'
      BY <2>1, <3>0, Names, ZenonT(60) DEF OneVoice, Counters, Shapes, ChildSound, InFlight,
         MainSound, None
    <3>5. CountSound'
      BY <2>1, <3>0, Names, ZenonT(60) DEF CountSound, Shapes, Counters, ChildSound, MainSound,
         GaveUp, None
    <3>6. FailedSound' /\ ServedSound' /\ WinnerSound'
      BY <2>1, <3>0, Names, ZenonT(60) DEF FailedSound, CountSound, Shapes, Counters, ChildSound,
         MainSound,
         GaveUp, InFlight, ServedSound, WinnerSound, None
    <3>7. BytesSound'
      BY <2>1, <3>0, Names, Zenon DEF BytesSound, OneVoice, Shapes, Counters, ChildSound,
         MainSound,
         InFlight, None
    <3>. QED BY <3>1, <3>2, <3>3, <3>4, <3>5, <3>6, <3>7 DEF IInv
  <2>2. CASE c \notin cancelled /\ winnerID \notin {c, None}
    <3>0. /\ pc[c] = "run" /\ stream /\ chunks' = [chunks EXCEPT ![c] = @ + 1]
          /\ pc' = pc /\ winnerID' = winnerID
          /\ UNCHANGED <<stream, sensitive, main, failures, result, winnerChan, failuresChan,
                      terminal, client, lease, outcome, cancelled, parentDone>>
      BY <1>3, <2>2, Names DEF Write, Goto, sessionVars, childVars, Counters, Bools
    <3>1. Bools'
      BY <2>2, <3>0 DEF Bools
    <3>2. Counters'
      BY <2>2, <3>0, Names DEF Counters, None
    <3>3. Shapes'
      BY <2>2, <3>0, Names, Zenon DEF Shapes, None
    <3>4. OneVoice' /\ ChildSound' /\ MainSound'
      BY <2>2, <3>0, Names, Zenon DEF OneVoice, Counters, Shapes, ChildSound, InFlight,
         MainSound, None
    <3>5. CountSound'
      BY <2>2, <3>0, Names, Zenon DEF CountSound, Shapes, Counters, ChildSound, MainSound,
         GaveUp, None
    <3>6. FailedSound' /\ ServedSound' /\ WinnerSound'
      BY <2>2, <3>0, Names, Zenon DEF FailedSound, CountSound, Shapes, Counters, ChildSound,
         MainSound,
         GaveUp, InFlight, ServedSound, WinnerSound, None
    <3>7. BytesSound'
      BY <2>2, <3>0, Names, Zenon DEF BytesSound, OneVoice, Shapes, Counters, ChildSound,
         MainSound,
         InFlight, None
    <3>. QED BY <3>1, <3>2, <3>3, <3>4, <3>5, <3>6, <3>7 DEF IInv
  <2>3. CASE c \notin cancelled /\ winnerID = c
    <3>0. /\ pc[c] = "run" /\ stream /\ chunks' = [chunks EXCEPT ![c] = @ + 1]
          /\ pc' = [pc EXCEPT ![c] = "write"] /\ winnerID' = winnerID
          /\ UNCHANGED <<stream, sensitive, main, failures, result, winnerChan, failuresChan,
                      terminal, client, lease, outcome, cancelled, parentDone>>
      BY <1>3, <2>3, Names DEF Write, Goto, sessionVars, childVars, Counters, Bools
    <3>1. Bools'
      BY <2>3, <3>0 DEF Bools
    <3>2. Counters'
      BY <2>3, <3>0, Names DEF Counters, None
    <3>3. Shapes'
      BY <2>3, <3>0, Names, Zenon DEF Shapes, None
    <3>4. OneVoice' /\ ChildSound' /\ MainSound'
      BY <2>3, <3>0, Names, ZenonT(60) DEF OneVoice, Counters, Shapes, ChildSound, InFlight,
         MainSound, None
    <3>5. CountSound'
      BY <2>3, <3>0, Names, Zenon DEF CountSound, Shapes, Counters, ChildSound, MainSound,
         GaveUp, None
    <3>6. FailedSound' /\ ServedSound' /\ WinnerSound'
      BY <2>3, <3>0, Names, Zenon DEF FailedSound, CountSound, Shapes, Counters, ChildSound,
         MainSound,
         GaveUp, InFlight, ServedSound, WinnerSound, None
    <3>7. BytesSound'
      BY <2>3, <3>0, Names, ZenonT(60) DEF BytesSound, OneVoice, Shapes, Counters, ChildSound,
         MainSound,
         InFlight, None
    <3>. QED BY <3>1, <3>2, <3>3, <3>4, <3>5, <3>6, <3>7 DEF IInv
  <2>4. CASE c \notin cancelled /\ winnerID = None
    <3>0. /\ pc[c] = "run" /\ stream /\ chunks' = [chunks EXCEPT ![c] = @ + 1]
          /\ pc' = [pc EXCEPT ![c] = "signal"] /\ winnerID' = c
          /\ UNCHANGED <<stream, sensitive, main, failures, result, winnerChan, failuresChan,
                      terminal, client, lease, outcome, cancelled, parentDone>>
      BY <1>3, <2>4, Names DEF Write, Goto, sessionVars, childVars, Counters, Bools
    <3>1. Bools'
      BY <2>4, <3>0 DEF Bools
    <3>2. Counters'
      BY <2>4, <3>0, Names DEF Counters
    <3>3. Shapes'
      BY <2>4, <3>0, Names, Zenon DEF Shapes
    <3>4. OneVoice'
      BY <2>4, <3>0, Names, Zenon DEF OneVoice, Counters, Shapes, ChildSound, InFlight
    <3>5. ChildSound'
      BY <2>4, <3>0, Names, ZenonT(60) DEF ChildSound, Shapes, Counters, MainSound, InFlight
    <3>6. MainSound'
      BY <2>4, <3>0, Names, Zenon DEF MainSound, Shapes, ChildSound, InFlight
    <3>7. CountSound'
      BY <2>4, <3>0, Names, Zenon DEF CountSound, Shapes, Counters, ChildSound, MainSound, GaveUp
    <3>8. FailedSound'
      BY <2>4, <3>0, Names DEF FailedSound, CountSound, Shapes, Counters, ChildSound, MainSound,
         GaveUp, InFlight
    <3>9. ServedSound'
      BY <2>4, <3>0, Names, Zenon DEF ServedSound, Shapes, ChildSound, MainSound, InFlight
    <3>10. BytesSound'
      BY <2>4, <3>0, Names, Zenon DEF BytesSound, OneVoice, Shapes, Counters, ChildSound,
         MainSound,
         InFlight
    <3>11. WinnerSound'
      BY <2>4, <3>0, Names, Zenon DEF WinnerSound, Shapes, ChildSound, MainSound, InFlight
    <3>. QED BY <3>1, <3>2, <3>3, <3>4, <3>5, <3>6, <3>7, <3>8, <3>9, <3>10, <3>11 DEF IInv
  <2>. QED BY <1>3, <2>1, <2>2, <2>3, <2>4 DEF Bools
<1>4. CASE Signal(c)
  <2>1. Bools' /\ OneVoice'
    BY <1>4 DEF Bools, OneVoice, Signal, Goto, Send, sessionVars, childVars
  <2>2. Counters'
    BY <1>4, Names DEF Counters, Signal, Goto, Send, sessionVars, childVars, None
  <2>3. Shapes'
    BY <1>4, Names, Zenon DEF Shapes, Signal, Goto, Send, sessionVars, childVars, None
  <2>4. ChildSound' /\ MainSound'
    BY <1>4, Names, ZenonT(60) DEF ChildSound, Shapes, Counters, MainSound, InFlight, Signal, Goto,
       Send,
       sessionVars, childVars, None
  <2>5. CountSound'
    BY <1>4, Names, Zenon DEF CountSound, Shapes, Counters, ChildSound, MainSound, GaveUp, Signal,
       Goto, Send, sessionVars, childVars, None
  <2>6. FailedSound' /\ ServedSound' /\ WinnerSound'
    BY <1>4, Names, ZenonT(60) DEF FailedSound, CountSound, Shapes, Counters, ChildSound, MainSound,
       GaveUp,
       InFlight, ServedSound, WinnerSound, Signal, Goto, Send, sessionVars, childVars, None
  <2>7. BytesSound'
    <3>1. \A d \in Children : (InFlight(d)' <=> InFlight(d)) /\ (pc'[d] = "failed" <=> pc[d] = "failed")
      BY <1>4 DEF InFlight, Shapes, Signal, Goto
    <3>2. UNCHANGED <<winnerID, outcome, chunks, client>>
      BY <1>4 DEF Signal
    <3>. QED BY <3>1, <3>2, Zenon DEF BytesSound
  <2>. QED BY <2>1, <2>2, <2>3, <2>4, <2>5, <2>6, <2>7 DEF IInv
<1>5. CASE Forward(c)
  <2>1. Bools'
    BY <1>5 DEF Bools, Forward, Goto, sessionVars, childVars
  <2>2. Counters'
    BY <1>5, Names DEF Counters, Forward, Goto, sessionVars, childVars, None
  <2>3. Shapes'
    BY <1>5, Names, Zenon DEF Shapes, Forward, Goto, sessionVars, childVars, None
  <2>4. OneVoice' /\ ChildSound' /\ MainSound'
    BY <1>5, Names, ZenonT(60) DEF OneVoice, Counters, Shapes, ChildSound, InFlight, MainSound,
       Forward,
       Goto, sessionVars, childVars, None
  <2>5. CountSound'
    BY <1>5, Names, Zenon DEF CountSound, Shapes, Counters, ChildSound, MainSound, GaveUp,
       Forward,
       Goto, sessionVars, childVars, None
  <2>6. FailedSound' /\ ServedSound' /\ WinnerSound'
    BY <1>5, Names, ZenonT(60) DEF FailedSound, CountSound, Shapes, Counters, ChildSound, MainSound,
       GaveUp,
       InFlight, ServedSound, WinnerSound, Forward, Goto, sessionVars, childVars, None
  <2>7. BytesSound'
    BY <1>5, Names, ZenonT(60) DEF BytesSound, OneVoice, Shapes, Counters, ChildSound, MainSound,
       InFlight,
       Forward, Goto, sessionVars, childVars, None
  <2>. QED BY <2>1, <2>2, <2>3, <2>4, <2>5, <2>6, <2>7 DEF IInv
<1>6. CASE \E how \in {"succeeded", "failed"} : ProviderReturns(c, how)
  <2>0. PICK how \in {"succeeded", "failed"} : ProviderReturns(c, how) BY <1>6
  <2>1. Bools' /\ Counters' /\ OneVoice'
    BY <2>0 DEF Bools, Counters, OneVoice, ProviderReturns, Goto, sessionVars, childVars
  <2>2. Shapes'
    BY <2>0, Names, Zenon DEF Shapes, ProviderReturns, Goto, sessionVars, childVars, None
  <2>3. ChildSound' /\ MainSound'
    BY <2>0, Names, Zenon DEF ChildSound, Shapes, Counters, MainSound, InFlight,
       ProviderReturns, Goto,
       sessionVars, childVars, None
  <2>4. CountSound'
    BY <2>0, Names, Zenon DEF CountSound, Shapes, Counters, ChildSound, MainSound, GaveUp,
       ProviderReturns, Goto, sessionVars, childVars, None
  <2>5. FailedSound' /\ ServedSound' /\ WinnerSound'
    BY <2>0, Names, Zenon DEF FailedSound, CountSound, Shapes, Counters, ChildSound, MainSound,
       GaveUp,
       InFlight, ServedSound, WinnerSound, ProviderReturns, Goto, sessionVars, childVars, None
  <2>6. BytesSound'
    BY <2>0, Names, Zenon DEF BytesSound, OneVoice, Shapes, Counters, ChildSound, MainSound,
       InFlight,
       ProviderReturns, Goto, sessionVars, childVars, None
  <2>. QED BY <2>1, <2>2, <2>3, <2>4, <2>5, <2>6 DEF IInv
<1>7. CASE \E fatal \in BOOLEAN : Fail(c, fatal)
  <2>0. PICK fatal \in BOOLEAN : Fail(c, fatal) BY <1>7
  <2>1. Counters' /\ OneVoice'
    BY <2>0 DEF Counters, OneVoice, Fail, Goto, hedgedOutcome, sessionVars, childVars
  <2>2. Bools'
    BY <2>0, Names DEF Bools, Fail, Goto, hedgedOutcome, sessionVars, childVars, None
  <2>3. Shapes'
    BY <2>0, Names, Zenon DEF Shapes, Fail, Goto, hedgedOutcome, sessionVars, childVars, None
  <2>4. ChildSound' /\ MainSound'
    BY <2>0, Names, Zenon DEF ChildSound, Shapes, Counters, MainSound, InFlight, Fail, Goto,
       hedgedOutcome, sessionVars, childVars, None
  <2>5. CountSound'
    BY <2>0, Names, Zenon DEF CountSound, Shapes, Counters, ChildSound, MainSound, GaveUp, Fail,
       Goto,
       hedgedOutcome, sessionVars, childVars, None
  <2>6. FailedSound' /\ ServedSound' /\ WinnerSound'
    BY <2>0, Names, Zenon DEF FailedSound, CountSound, Shapes, Counters, ChildSound, MainSound,
       GaveUp,
       InFlight, ServedSound, WinnerSound, Fail, Goto, hedgedOutcome, sessionVars, childVars, None
  <2>7. BytesSound'
    BY <2>0, Names, Zenon DEF BytesSound, OneVoice, Shapes, Counters, ChildSound, MainSound,
       InFlight,
       Fail, Goto, hedgedOutcome, sessionVars, childVars, None
  <2>. QED BY <2>1, <2>2, <2>3, <2>4, <2>5, <2>6, <2>7 DEF IInv
<1>8. CASE Report(c)
  <2>1. Bools' /\ OneVoice'
    BY <1>8 DEF Bools, OneVoice, Report, Goto, Send, sessionVars, childVars
  <2>2. Counters'
    BY <1>8, Names DEF Counters, Report, Goto, Send, sessionVars, childVars, None
  <2>3. Shapes'
    BY <1>8, Names, Zenon DEF Shapes, Report, Goto, Send, sessionVars, childVars, None
  <2>4. ChildSound' /\ MainSound'
    BY <1>8, Names, Zenon DEF ChildSound, Shapes, Counters, MainSound, InFlight, Report, Goto,
       Send,
       sessionVars, childVars, None
  <2>5. CountSound'
    <3>1. /\ ~GaveUp(c) /\ GaveUp(c)'
          /\ \A d \in Children \ {c} : GaveUp(d)' <=> GaveUp(d)
      BY <1>8, Zenon DEF GaveUp, ChildSound, Shapes, Report, Goto, Send, sessionVars, childVars,
         None
    <3>2. failures + failuresChan # 2
      BY <3>1, Names, Zenon DEF CountSound
    <3>3. failures + failuresChan <= 2 BY DEF CountSound
    <3>4. /\ failures' + failuresChan' <= 2
          /\ failures' + failuresChan' = 2 => failures + failuresChan >= 1
      BY <3>2, <3>3, <1>8 DEF Counters, Report, Goto, Send, sessionVars, childVars
    <3>5. failures + failuresChan >= 1 => GaveUp(A) \/ GaveUp(B) BY Zenon DEF CountSound
    <3>6. (GaveUp(A)' \/ GaveUp(B)') /\ (GaveUp(A) \/ GaveUp(B) => GaveUp(A)' /\ GaveUp(B)')
      BY <3>1, Names, Zenon
    <3>7. failures' + failuresChan' >= 1 => GaveUp(A)' \/ GaveUp(B)' BY <3>6, Zenon
    <3>8. failures' + failuresChan' = 2 => GaveUp(A)' /\ GaveUp(B)' BY <3>4, <3>5, <3>6, Zenon
    <3>9. failures' + failuresChan' <= 2 BY <3>4, Zenon
    <3>. QED BY <3>7, <3>8, <3>9, Zenon DEF CountSound
  <2>6. FailedSound' /\ ServedSound' /\ WinnerSound'
    BY <1>8, Names, Zenon DEF FailedSound, CountSound, Shapes, Counters, ChildSound, MainSound,
       GaveUp,
       InFlight, ServedSound, WinnerSound, Report, Goto, Send, sessionVars, childVars, None
  <2>7. BytesSound'
    BY <1>8, Names, Zenon DEF BytesSound, OneVoice, Shapes, Counters, ChildSound, MainSound,
       InFlight,
       Report, Goto, Send, sessionVars, childVars, None
  <2>. QED BY <2>1, <2>2, <2>3, <2>4, <2>5, <2>6, <2>7 DEF IInv
<1>9. CASE Succeed(c)
  <2>1. Bools' /\ Counters' /\ OneVoice'
    BY <1>9 DEF Bools, Counters, OneVoice, Succeed, Goto, hedgedOutcome, sessionVars, childVars
  <2>2. Shapes'
    BY <1>9, Names, Zenon DEF Shapes, Succeed, Goto, hedgedOutcome, sessionVars, childVars, None
  <2>3. ChildSound' /\ MainSound'
    BY <1>9, Names, Zenon DEF ChildSound, Shapes, Counters, MainSound, InFlight, Succeed, Goto,
       hedgedOutcome, sessionVars, childVars, None
  <2>4. CountSound'
    BY <1>9, Names, ZenonT(60) DEF CountSound, Shapes, Counters, ChildSound, MainSound, GaveUp,
       Succeed,
       Goto, hedgedOutcome, sessionVars, childVars, None
  <2>5. FailedSound' /\ ServedSound' /\ WinnerSound'
    BY <1>9, Names, Zenon DEF FailedSound, CountSound, Shapes, Counters, ChildSound, MainSound,
       GaveUp,
       InFlight, ServedSound, WinnerSound, Succeed, Goto, hedgedOutcome, sessionVars, childVars,
       None
  <2>6. BytesSound'
    BY <1>9, Names, Zenon DEF BytesSound, OneVoice, Shapes, Counters, ChildSound, MainSound,
       InFlight,
       Succeed, Goto, hedgedOutcome, sessionVars, childVars, None
  <2>. QED BY <2>1, <2>2, <2>3, <2>4, <2>5, <2>6 DEF IInv
<1>10. CASE claimWinner(c)
  <2>1. CASE winnerID = None
    <3>0. /\ pc[c] = "claim" /\ pc' = [pc EXCEPT ![c] = "done"]
          /\ winnerID' = c /\ winnerChan' \in Nat
          /\ UNCHANGED <<stream, sensitive, main, failures, result, failuresChan, terminal, chunks,
                      client, lease, outcome, cancelled, parentDone>>
      BY <1>10, <2>1, Names DEF claimWinner, Goto, Send, sessionVars, childVars, Counters, Bools
    <3>1. Bools'
      BY <2>1, <3>0 DEF Bools
    <3>2. Counters'
      BY <2>1, <3>0, Names DEF Counters
    <3>3. Shapes'
      BY <2>1, <3>0, Names, Zenon DEF Shapes
    <3>4. OneVoice'
      BY <2>1, <3>0, Names, Zenon DEF OneVoice, Counters, Shapes, ChildSound, InFlight
    <3>5. ChildSound'
      BY <2>1, <3>0, Names, ZenonT(60) DEF ChildSound, Shapes, Counters, MainSound, InFlight
    <3>6. MainSound'
      BY <2>1, <3>0, Names, Zenon DEF MainSound, Shapes, ChildSound, InFlight
    <3>7. CountSound'
      BY <2>1, <3>0, Names, Zenon DEF CountSound, Shapes, Counters, ChildSound, MainSound, GaveUp
    <3>8. FailedSound'
      BY <2>1, <3>0, Names DEF FailedSound, CountSound, Shapes, Counters, ChildSound, MainSound,
         GaveUp, InFlight
    <3>9. ServedSound'
      BY <2>1, <3>0, Names, Zenon DEF ServedSound, Shapes, ChildSound, MainSound, InFlight
    <3>10. BytesSound'
      BY <2>1, <3>0, Names, Zenon DEF BytesSound, OneVoice, Shapes, Counters, ChildSound,
         MainSound,
         InFlight
    <3>11. WinnerSound'
      BY <2>1, <3>0, Names, Zenon DEF WinnerSound, Shapes, ChildSound, MainSound, InFlight, None
    <3>. QED BY <3>1, <3>2, <3>3, <3>4, <3>5, <3>6, <3>7, <3>8, <3>9, <3>10, <3>11 DEF IInv
  <2>2. CASE winnerID # None
    <3>0. /\ pc[c] = "claim" /\ pc' = [pc EXCEPT ![c] = "done"]
          /\ winnerID' = winnerID /\ winnerChan' = winnerChan
          /\ UNCHANGED <<stream, sensitive, main, failures, result, failuresChan, terminal, chunks,
                      client, lease, outcome, cancelled, parentDone>>
      BY <1>10, <2>2, Names DEF claimWinner, Goto, Send, sessionVars, childVars, Counters, Bools
    <3>1. Bools'
      BY <2>2, <3>0 DEF Bools
    <3>2. Counters'
      BY <2>2, <3>0, Names DEF Counters, None
    <3>3. Shapes'
      BY <2>2, <3>0, Names, Zenon DEF Shapes, None
    <3>4. OneVoice' /\ ChildSound' /\ MainSound'
      BY <2>2, <3>0, Names, Zenon DEF OneVoice, Counters, Shapes, ChildSound, InFlight,
         MainSound, None
    <3>5. CountSound'
      BY <2>2, <3>0, Names, Zenon DEF CountSound, Shapes, Counters, ChildSound, MainSound,
         GaveUp, None
    <3>6. FailedSound' /\ ServedSound' /\ WinnerSound'
      BY <2>2, <3>0, Names, Zenon DEF FailedSound, CountSound, Shapes, Counters, ChildSound,
         MainSound,
         GaveUp, InFlight, ServedSound, WinnerSound, None
    <3>7. BytesSound'
      BY <2>2, <3>0, Names, Zenon DEF BytesSound, OneVoice, Shapes, Counters, ChildSound,
         MainSound,
         InFlight, None
    <3>. QED BY <3>1, <3>2, <3>3, <3>4, <3>5, <3>6, <3>7 DEF IInv
  <2>. QED BY <1>10, <2>1, <2>2 DEF Bools
<1>11. CASE WriteHeader(c)
  <2>1. UNCHANGED <<stream, sensitive, main, failures, result, sessionVars, pc, chunks, client,
                    lease, outcome, cancelled, parentDone>>
    BY <1>11 DEF WriteHeader
  <2>2. Bools' /\ Counters' /\ Shapes' /\ OneVoice' /\ ChildSound' /\ MainSound'
    BY <2>1, Zenon DEF Bools, Counters, Shapes, OneVoice, ChildSound, MainSound, InFlight,
       sessionVars
  <2>3. CountSound' /\ FailedSound' /\ ServedSound' /\ BytesSound' /\ WinnerSound'
    BY <2>1, Zenon DEF CountSound, FailedSound, ServedSound, BytesSound, WinnerSound, InFlight,
       GaveUp, sessionVars
  <2>. QED BY <2>2, <2>3 DEF IInv
<1>. QED BY <1>1, <1>2, <1>3, <1>4, <1>5, <1>6, <1>7, <1>8, <1>9, <1>10, <1>11 DEF ChildStep

\* The cancellation of the caller keeps the inductive invariant.
LEMMA CancelKeeps == IInv /\ ParentCancels => IInv'
<1>. SUFFICES ASSUME IInv, ParentCancels PROVE IInv' OBVIOUS
<1>. USE DEF IInv
<1>1. Counters' /\ OneVoice' /\ ChildSound' /\ CountSound' /\ FailedSound' /\ ServedSound' /\ BytesSound' /\ WinnerSound'
  BY Names, Zenon DEF Counters, OneVoice, ChildSound, CountSound, FailedSound, ServedSound,
     BytesSound,
     WinnerSound, InFlight, GaveUp, ParentCancels, sessionVars, childVars
<1>2. Bools'
  BY Names DEF Bools, ParentCancels, sessionVars, childVars, None
<1>3. Shapes'
  BY Names, Zenon DEF Shapes, ParentCancels, sessionVars, childVars, None
<1>4. MainSound'
  BY Names, Zenon DEF MainSound, Shapes, ChildSound, InFlight, ParentCancels, sessionVars,
     childVars,
     None
<1>. QED BY <1>1, <1>2, <1>3, <1>4 DEF IInv

\* Hedged invocation is safe: its inductive invariant holds in every behaviour.
THEOREM Invariance == Spec => []IInv
<1>1. Init => IInv
  <2>. SUFFICES ASSUME Init PROVE IInv OBVIOUS
  <2>1. Bools BY Names, Zenon DEF Bools, Init, InFlight, GaveUp, None
  <2>2. Counters BY Names DEF Counters, Init, InFlight, GaveUp, None
  <2>3. Shapes BY Names DEF Shapes, Init, InFlight, GaveUp, None
  <2>4. OneVoice BY Names DEF OneVoice, Init, InFlight, GaveUp, None
  <2>5. ChildSound BY Names DEF ChildSound, Init, InFlight, GaveUp, None
  <2>6. MainSound BY Names DEF MainSound, Init, InFlight, GaveUp, None
  <2>7. CountSound BY Names DEF CountSound, Init, InFlight, GaveUp, None
  <2>8. FailedSound BY Names DEF FailedSound, Init, InFlight, GaveUp, None
  <2>9. ServedSound BY Names DEF ServedSound, Init, InFlight, GaveUp, None
  <2>10. BytesSound BY Names DEF BytesSound, Init, InFlight, GaveUp, None
  <2>11. WinnerSound BY Names DEF WinnerSound, Init, InFlight, GaveUp, None
  <2>. QED BY <2>1, <2>2, <2>3, <2>4, <2>5, <2>6, <2>7, <2>8, <2>9, <2>10, <2>11 DEF IInv
<1>2. IInv /\ [Next]_vars => IInv'
  <2>. SUFFICES ASSUME IInv, [Next]_vars PROVE IInv' OBVIOUS
  <2>1. CASE UNCHANGED vars
    <3>1. Bools' BY <2>1 DEF IInv, Bools, vars, sessionVars, childVars, InFlight, GaveUp
    <3>2. Counters' BY <2>1 DEF IInv, Counters, vars, sessionVars, childVars, InFlight, GaveUp
    <3>3. Shapes' BY <2>1, Zenon DEF IInv, Shapes, vars, sessionVars, childVars, InFlight, GaveUp
    <3>4. OneVoice' BY <2>1 DEF IInv, OneVoice, vars, sessionVars, childVars, InFlight, GaveUp
    <3>5. ChildSound' BY <2>1 DEF IInv, ChildSound, vars, sessionVars, childVars, InFlight,
       GaveUp
    <3>6. MainSound' BY <2>1 DEF IInv, MainSound, vars, sessionVars, childVars, InFlight, GaveUp
    <3>7. CountSound' BY <2>1 DEF IInv, CountSound, vars, sessionVars, childVars, InFlight,
       GaveUp
    <3>8. FailedSound' BY <2>1 DEF IInv, FailedSound, vars, sessionVars, childVars, InFlight,
       GaveUp
    <3>9. ServedSound' BY <2>1, Zenon DEF IInv, ServedSound, vars, sessionVars, childVars,
       InFlight,
       GaveUp
    <3>10. BytesSound' BY <2>1 DEF IInv, BytesSound, vars, sessionVars, childVars, InFlight,
       GaveUp
    <3>11. WinnerSound' BY <2>1 DEF IInv, WinnerSound, vars, sessionVars, childVars, InFlight,
       GaveUp
    <3>. QED BY <3>1, <3>2, <3>3, <3>4, <3>5, <3>6, <3>7, <3>8, <3>9, <3>10, <3>11 DEF IInv
  <2>. QED BY <2>1, InvokeKeeps, ChildKeeps, CancelKeeps DEF Next
<1>. QED BY <1>1, <1>2, PTL DEF Spec

\* The client hears the winner only (hedgingWriter.Write), however much the two
\* endpoints write.
THEOREM OneVoiceHolds == Spec => []OneVoice
<1>1. IInv => OneVoice BY DEF IInv
<1>. QED BY <1>1, Invariance, PTL

\* A request reported as served was served to the end by the winner.
THEOREM ServedHolds == Spec => []ServedMeansServed
<1>1. IInv => ServedMeansServed
  BY Names DEF IInv, ServedMeansServed, ServedSound, BytesSound, WinnerSound, Shapes, InFlight,
     None
<1>. QED BY <1>1, Invariance, PTL

\* "All hedging channels failed" is said only when both gave up and the client
\* was given no byte of a body.
THEOREM TotalFailureHolds == Spec => []TotalFailureIsTotal
<1>1. IInv => TotalFailureIsTotal
  BY Names DEF IInv, TotalFailureIsTotal, FailedSound, OneVoice, GaveUp, Counters
<1>. QED BY <1>1, Invariance, PTL

\* Once Invoke has returned for any reason but the end of its caller's context, no
\* child has bytes on their way to the client's writer, and only a loser beside a
\* winner can still touch it, through the status that hedgingWriter does not intercept.
THEOREM QuietHolds == Spec => []QuietAfterReturn
<1>1. IInv => QuietAfterReturn
  <2>. SUFFICES ASSUME IInv, main = "returned", result # "cancelled", NEW c \in Children
               PROVE  /\ pc[c] \notin {"signal", "write"}
                      /\ pc[c] = "run" /\ stream => winnerID \notin {c, None}
    BY DEF QuietAfterReturn
  <2>1. CASE result = "failed"
    <3>1. pc[c] = "done"
      BY <2>1, Names, Zenon DEF IInv, FailedSound, GaveUp
    <3>. QED BY <3>1
  <2>2. CASE result = "rejected"
    <3>1. ~stream
      BY <2>2, Zenon DEF IInv, MainSound
    <3>. QED BY <3>1, Zenon DEF IInv, ChildSound, InFlight
  <2>3. CASE result \in {"ok", "winner failed"}
    <3>1. winnerID # None /\ pc[winnerID] = "done"
      BY <2>3, Zenon DEF IInv, ServedSound
    <3>2. pc[c] \in {"signal", "write"} => winnerID = c
      BY Zenon DEF IInv, ChildSound, InFlight
    <3>. QED BY <3>1, <3>2
  <2>. QED BY <2>1, <2>2, <2>3 DEF IInv, Shapes, MainSound
<1>. QED BY <1>1, Invariance, PTL
=============================================================================
