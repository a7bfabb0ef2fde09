--------------------------- MODULE LoadBalancers ---------------------------
(***************************************************************************)
(* The load balancers of pkg/lbs.  Each operator maps a pool (non-empty    *)
(* sequence of endpoint ids) and the balancer's state to the set of picks  *)
(* it may make; a pick is [ep, lb, fatal] with the endpoint, the state     *)
(* afterwards and whether the request's FatalErr was set.  The state is    *)
(*   rr       [pool -> 0..Len(pool)-1]  round robin, a counter per pool    *)
(*   affinity like rr, the affinity balancer's own round robin             *)
(*   weights  [Endpoint -> Int]         smooth weighted round robin        *)
(*   conns    [Endpoint -> Nat]         least connections                  *)
(* A counter is kept modulo the length of its pool: only the remainder is  *)
(* ever used.                                                              *)
(***************************************************************************)
EXTENDS Routing

NoBalance == [rr |-> <<>>, affinity |-> <<>>,
              weights |-> [e \in Endpoint |-> 0], conns |-> [e \in Endpoint |-> 0]]

Pick(e, lb) == {[ep |-> e, lb |-> lb, fatal |-> FALSE]}

Counter(counters, pool) == IF pool \in DOMAIN counters THEN counters[pool] ELSE 0

Advance(counters, pool) == (pool :> (Counter(counters, pool) + 1) % Len(pool)) @@ counters

RoundRobin(lb, pool) ==
    Pick(pool[Counter(lb.rr, pool) + 1], [lb EXCEPT !.rr = Advance(@, pool)])

\* A weight that is not positive counts as one.
Weight(e) == IF Attr[e].weight <= 0 THEN 1 ELSE Attr[e].weight

\* The scan of the weighted round robin: maxWeight starts at -1, and a negative
\* maximum so far is replaced by whatever comes next.
Heaviest(weights, pool) ==
    LET scan[i \in 0..Len(pool)] ==
            IF i = 0 THEN None
            ELSE IF scan[i - 1] = None THEN pool[i]
            ELSE IF weights[scan[i - 1]] < 0 \/ weights[pool[i]] > weights[scan[i - 1]]
                 THEN pool[i] ELSE scan[i - 1]
    IN  scan[Len(pool)]

\* Mutant: the chosen endpoint gives back its own weight only.
WeightedRoundRobinOwn(lb, pool) ==
    LET raised == [e \in Endpoint |-> lb.weights[e] + IF e \in Range(pool) THEN Weight(e) ELSE 0]
        chosen == Heaviest(raised, pool)
    IN  Pick(chosen, [lb EXCEPT !.weights = [raised EXCEPT ![chosen] = @ - Weight(chosen)]])

WeightedRoundRobin(lb, pool) ==
    LET raised == [e \in Endpoint |-> lb.weights[e] + IF e \in Range(pool) THEN Weight(e) ELSE 0]
        total  == MapThenSumSet(LAMBDA i : Weight(pool[i]), DOMAIN pool)
        chosen == Heaviest(raised, pool)
    IN  Pick(chosen, [lb EXCEPT !.weights = [raised EXCEPT ![chosen] = @ - total]])

\* The first endpoint of the pool that minimises a key.
FirstMin(pool, key) ==
    pool[Min({i \in DOMAIN pool : \A j \in DOMAIN pool : key[pool[i]] <= key[pool[j]]})]

\* The counter of the chosen endpoint goes up; Done has no caller.
LeastConnections(lb, pool) ==
    LET chosen == FirstMin(pool, lb.conns)
    IN  Pick(chosen, [lb EXCEPT !.conns[chosen] = @ + 1])

\* avg: the average of the configured latency series; unread: the endpoints
\* whose average could not be read.  When none can be read the first is taken.
LeastLatency(lb, pool, avg, unread) ==
    LET known == SelectSeq(pool, LAMBDA e : e \notin unread)
    IN  Pick(IF known = <<>> THEN pool[1] ELSE FirstMin(known, avg), lb)

Cost(lb, pool) == Pick(FirstMin(pool, [e \in Endpoint |-> Attr[e].cost]), lb)

\* Cost and latency normalised by their maxima over the pool, weighted, with
\* the division by both maxima cleared.
Composite(lb, pool, avg, costWeight, latencyWeight) ==
    LET maxCost    == Max({Attr[e].cost : e \in Range(pool)} \cup {1})
        maxLatency == Max({avg[e] : e \in Range(pool)} \cup {1})
    IN  Pick(FirstMin(pool, [e \in Endpoint |-> Attr[e].cost * costWeight * maxLatency
                                              + avg[e] * latencyWeight * maxCost]), lb)

Random(lb, pool) == UNION {Pick(e, lb) : e \in Range(pool)}

\* maxHashWeight replicas at most; a replica beats the best so far only with a
\* higher score, and the best starts at 0.
SessionHash(lb, pool) ==
    LET replicas(e) == 1..Min({Weight(e), 128})
        best == Max(UNION {{Score[e][i] : i \in replicas(e)} : e \in Range(pool)})
        first == Min({i \in DOMAIN pool : \E r \in replicas(pool[i]) : Score[pool[i]][r] = best})
    IN  Pick(IF best = 0 THEN None ELSE pool[first], lb)

\* target: the affinity value of the request, None when it carries none.
EndpointAffinity(lb, pool, target, allowDegrade) ==
    IF target \in Range(pool) THEN Pick(target, lb)
    ELSE IF target # None /\ ~allowDegrade THEN {[ep |-> None, lb |-> lb, fatal |-> TRUE]}
    ELSE Pick(pool[Counter(lb.affinity, pool) + 1], [lb EXCEPT !.affinity = Advance(@, pool)])
============================================================================
