-------------------------- MODULE MCCircuitBreaker --------------------------
(***************************************************************************)
(* Small instances of CircuitBreaker for TLC.                              *)
(***************************************************************************)
EXTENDS CircuitBreaker, TLC

CONSTANT svc

LeaseSymmetry == Permutations(Leases)

MCServiceOf == [ep \in Endpoints |-> svc]

BasePolicy ==
    [level |-> "", windowType |-> "count", windowSize |-> 2, failThresh |-> 1,
     hoSuccessThr |-> 1, recoveryTO |-> 1, version |-> 1]

InstancePolicy == [BasePolicy EXCEPT !.level = "INSTANCE"]

\* A time-window policy for the service; a later version of two count-window
\* ones for the endpoints, which close a half-open breaker after two calls.
TimeAndCount ==
    LET later == [InstancePolicy EXCEPT !.version = 2, !.hoSuccessThr = 2]
    IN  {<<[BasePolicy EXCEPT !.level = "SERVICE", !.windowType = "time", !.windowSize = 1]>>,
         <<later, [later EXCEPT !.failThresh = 2]>>}

\* A time-window policy for the service with a count-window one for its
\* endpoints; a later version of the latter alone.
PerLayer ==
    {<<[BasePolicy EXCEPT !.level = "SERVICE", !.windowType = "time", !.windowSize = 1],
       InstancePolicy>>,
     <<[InstancePolicy EXCEPT !.version = 2, !.failThresh = 2]>>}
=============================================================================
