----------------------- MODULE CircuitBreakerHistory -----------------------
(***************************************************************************)
(* CircuitBreaker with a history variable: for every key, the number of    *)
(* calls in a row, made one after the other under the same policies, that  *)
(* ended in a failure some policy of the key matched.  `disturbed' says    *)
(* that the attempt in flight has met another one, or a reset or version   *)
(* check by another actor, either of which may drop its outcome.           *)
(***************************************************************************)
EXTENDS CircuitBreaker

VARIABLES streak, disturbed

historyVars == <<vars, streak, disturbed>>

NoStreak == [count |-> 0, pols |-> <<>>]

HistoryInit == Init /\ streak = [k \in Keys |-> NoStreak] /\ disturbed = FALSE

\* Lease l's call has just ended and will be recorded on key k.
EndsCall(l, k) ==
    /\ lease[l].pc = "calling" /\ lease'[l].pc = "record"
    /\ \E n \in VisitsAfter(lease'[l], 0) : KeyOf(lease[l].ep, LayerAt(n)) = k

InFlight == {l \in Leases : lease[l].pc # "idle"}

\* The streak of key k when a call of policies pols has failed.
Longer(k, pols) ==
    [count |-> IF streak[k].pols = pols THEN streak[k].count + 1 ELSE 1, pols |-> pols]

HistoryNext ==
    /\ Next
    /\ disturbed' = (InFlight' # {} /\ (disturbed \/ Cardinality(InFlight') > 1 \/ resets' # resets))
    /\ streak' = [k \in Keys |->
         IF \/ disturbed' \/ resets' # resets
            \/ \E l \in Leases : EndsCall(l, k) /\ lease'[l].ok
         THEN NoStreak
         ELSE IF \E l \in Leases : EndsCall(l, k)
         THEN Longer(k, lease[CHOOSE l \in Leases : EndsCall(l, k)].pols)
         ELSE streak[k]]

HistorySpec == HistoryInit /\ [][HistoryNext]_historyVars

\* When nothing is in flight, failThresh failed calls in a row have tripped the
\* breaker of every key their policies apply to.
FailuresTrip ==
    InFlight = {} =>
        \A k \in Keys : entry[k].par.failThresh > 0 /\ streak[k].count >= entry[k].par.failThresh
                            => entry[k].state # "Closed"
=============================================================================
