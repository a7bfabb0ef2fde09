----------------------------- MODULE Invocation -----------------------------
(***************************************************************************)
(* One request on its way to an upstream: the request-level FallbackInvoker *)
(* (pkg/core/invoker.go) walking the models, the SmartRouter               *)
(* (pkg/invoker/smart.go) judging the request and walking its targets, and *)
(* under both the ClusterInvoker's attempt loop (pkg/invoker/cluster.go)   *)
(* or the HedgingInvoker.  Of a hedged invocation this module has the two  *)
(* calls and what Invoke makes of them; the writers, the channels and what *)
(* a loser does after Invoke has returned are module Hedging.              *)
(*                                                                         *)
(* An attempt is four steps, because other requests and the breakers run   *)
(* between them: Route (discovery and the router chain), Select (the load  *)
(* balancer), Begin (the breaker permit) and Reply (the physical call and  *)
(* its bookkeeping).  Requests come one after another over shared balancer *)
(* state, latency samples and breakers; OtherRequest and the environment   *)
(* steps stand for the concurrent rest of the gateway.                     *)
(***************************************************************************)
EXTENDS LoadBalancers, ErrorRules

CONSTANTS
    Fleet,        \* [model -> Seq(Endpoint)] the dynamically discovered endpoints, in order
    Static,       \* [model -> Seq(Endpoint)] the statically configured ones
    Scenarios,    \* the requests and policies considered; each names the instances open at
                  \* its start (tripped, earliest first), whether the client may cancel, and
                  \* its bounds: requests in a row, moves of the environment, upstream answers
    FailureMax    \* latency_failure_max, in latency units

\* retry is the number of retries in force (a negative one counts as 0), a smart
\* request is not streamed (pkg/invoker/smart_request.go refuses one).
ASSUME ScenarioAssumption ==
    \A s \in Scenarios :
        /\ s.retry \in Nat
        /\ s.smart \in BOOLEAN /\ s.stream \in BOOLEAN /\ s.hedging \in BOOLEAN
        /\ s.smart => ~s.stream
        /\ s.ranges \in Seq(Range(s.ranges))

\* latency_failure_penalty and the latency of a successful call.
Multiplier == 3
RTT == 1

VARIABLES
    sc,        \* the scenario: request and policies (rigid)
    served,    \* requests started
    moves,     \* environment steps taken
    pc,
    role,      \* "request", or the smart child being run: "judge" or "target"
    at,        \* index into Models (fallback) or into the ranges (smart)
    model,     \* GatewayContext.Model
    attempt,   \* attempts finished in this invocation
    excluded,  \* endpoints excluded after a failure
    cursor,    \* lastSelectedEndpointID
    listed,    \* what discovery returned for this attempt
    pool,      \* the endpoints that survived the router chain; of a race, A and B
    race,      \* how far the two hedged calls are, and which of them has won (0: none)
    selected,  \* the balancer's choice, then SelectedEndpoint
    response,  \* UpstreamResponse: "none", "4xx" or "5xx"
    fatal,     \* FatalErr is set
    ttft,      \* TTFT > 0: the client has the first byte (a race's winner copies it at its end)
    err,       \* what the invoker returned ("ok" for nil)
    history,   \* physical calls: <<invocation, endpoint, outcome, or "race" for a hedged one>>
    chain,     \* FallbackChain
    smart,     \* the smart routing state of the request
    up,        \* endpoints the dynamic discovery currently reports
    breaker,   \* [breaker key -> "closed", "open", "half", "busy"]
    opened,    \* instances whose breaker is not closed, earliest opened first
    whitelist, \* the tenant router's cache: "unknown", "invalid" or "valid"
    lb,        \* load balancer state
    samples,   \* [Endpoint -> [sum, n]] latency samples
    placed     \* history of the balancer's picks: Seq of [pool, ep]

env    == <<up, breaker, opened>>
shared == <<whitelist, lb, samples, placed>>
call   == <<attempt, excluded, cursor, listed, pool, race, selected, response>>
request == <<role, at, model, fatal, ttft, err, history, chain, smart>>
vars   == <<sc, served, moves, pc, call, request, env, shared>>

Models == <<sc.model>> \o sc.fallback

Keys == Endpoint \cup {Service(e) : e \in Endpoint}

\* AllowRequest and AcquireAttempt admit closed entries and half-open ones with
\* no call in flight.
Admits == {k \in Keys : breaker[k] \in {"closed", "half"}}

Average == [e \in Endpoint |-> IF samples[e].n = 0 THEN 0 ELSE samples[e].sum \div samples[e].n]

NoRace == [side |-> <<"idle", "idle">>, winner |-> 0]

Fresh == [started |-> FALSE, judged |-> FALSE, start |-> 0, seen |-> {}, executed |-> <<>>,
          limits |-> "free", last |-> "unavailable"]

\* The policy in force: the judge runs with retry 0 on the round robin balancer,
\* everything else with the request's policy.
Retry   == IF role = "judge" THEN 0 ELSE sc.retry
Exclude == IF role = "judge" THEN TRUE ELSE sc.exclude
Balancer == IF role = "judge" THEN "round_robin" ELSE sc.lb
Hedged  == role # "judge" /\ sc.hedging

\* The invocations of a request: the judge is 0, the model or target at its index.
Current == IF role = "judge" THEN 0 ELSE at

\* Discovery.List for a model.
List(m) == DiscoveryList(<<SelectSeq(Fleet[m], LAMBDA e : e \in up), Static[m]>>)

\* The router chain: capacity (smart children only) and capability, the breakers,
\* the tenant whitelist, the tag rules, priority.
Capable(eps) ==
    CapabilityRoute(sc.type, IF role = "request" THEN eps ELSE SmartCapacityRoute(sc.need, eps))

Alive(eps) == CircuitBreakerRoute(sc.breakers, Admits, opened, Capable(eps))

\* The pools the chain may produce for one reading wl of the tenant whitelist.
RouterChain(eps, wl) ==
    {PriorityRoute(r) : r \in TagRoute(sc.rules, sc.headers, TenantRoute(wl, Alive(eps)))}

\* The tenant router's readings: the cached list, or a Redis read that gives the
\* list or fails; after a failed read nothing is filtered.  A chain that is
\* already empty does not reach the router.
TenantReadings(eps) ==
    CASE ~sc.tenant \/ Alive(eps) = <<>> -> {[wl |-> {}, cache |-> whitelist]}
      [] whitelist = "valid"    -> {[wl |-> sc.allowed, cache |-> "valid"]}
      [] whitelist = "invalid"  -> {[wl |-> {}, cache |-> "invalid"]}
      [] OTHER                  -> {[wl |-> sc.allowed, cache |-> "valid"], [wl |-> {}, cache |-> "invalid"]}

\* Without breaker policies the router resets the breakers of all it was given.
Recover(eps) ==
    LET given == Range(Capable(eps))
        keys == given \cup {Service(e) : e \in given}
    IN  IF sc.breakers # {} THEN UNCHANGED <<breaker, opened>>
        ELSE /\ breaker' = [k \in Keys |-> IF k \in keys THEN "closed" ELSE breaker[k]]
             /\ opened' = SelectSeq(opened, LAMBDA e : e \notin keys)

\* The picks of the balancers whose fairness is stated are remembered.
Place(eps, e) ==
    placed' = IF /\ sc.lb \in {"round_robin", "weighted_rr", "session_hash"}
                 /\ role = "request" /\ ~sc.hedging /\ e # None
              THEN Append(placed, [pool |-> eps, ep |-> e]) ELSE placed

\* The invoker returns e to its caller.
Return(e) == pc' = "returned" /\ err' = e

(* --------------------------- the attempt loop --------------------------- *)

\* One pass of the loop up to the balancer: ResetAttempt, discovery, dropping
\* what was excluded, the router chain.
Route ==
    LET found == List(model)
        left  == SelectSeq(found.eps, LAMBDA e : e \notin excluded)
    IN  /\ pc = "route"
        /\ selected' = None /\ response' = "none"
        /\ listed' = found.eps
        /\ \/ /\ found.err
              /\ Return("discovery") /\ pool' = <<>> /\ UNCHANGED <<breaker, opened, whitelist>>
           \/ /\ ~found.err /\ left = <<>>
              /\ Return("noendpoint") /\ pool' = <<>> /\ UNCHANGED <<breaker, opened, whitelist>>
           \/ /\ left # <<>>
              /\ \E reading \in TenantReadings(left) : \E result \in RouterChain(left, reading.wl) :
                    /\ whitelist' = reading.cache
                    /\ pool' = result
                    /\ Recover(left)
                    /\ IF result = <<>> THEN Return("noendpoint")
                       ELSE IF fatal THEN Return("fatal")
                       ELSE pc' = "select" /\ UNCHANGED err
        /\ UNCHANGED <<sc, served, moves, role, at, model, fatal, ttft, history, chain, smart,
                       attempt, excluded, cursor, race, up, lb, samples, placed>>

\* The endpoint after the previous one in discovery order that is in the pool.
NextEndpointAfter(eps, candidates, previous) ==
    LET hits  == {i \in DOMAIN eps : eps[i] = previous}
        start == IF hits = {} THEN 0 ELSE Min(hits)
        ahead(i) == IF i > start THEN i - start ELSE i - start + Len(eps)
        usable == {i \in DOMAIN eps : eps[i] \in candidates}
    IN  IF usable = {} THEN None
        ELSE eps[CHOOSE i \in usable : \A j \in usable : ahead(i) <= ahead(j)]

\* The balancer of the policy.  A weight draw can give any endpoint.
LoadBalance(state, name, eps) ==
    CASE name = "weighted_rr"       -> WeightedRoundRobin(state, eps)
      [] name = "least_connections" -> LeastConnections(state, eps)
      [] name = "least_latency"     -> UNION {LeastLatency(state, eps, Average, u) : u \in {{}, Range(eps)}}
      [] name = "cost"              -> Cost(state, eps)
      [] name = "composite"         -> Composite(state, eps, Average, 1, 1)
      [] name = "session_hash"      -> SessionHash(state, eps)
      [] name = "endpoint_affinity" -> EndpointAffinity(state, eps, sc.target, sc.degrade)
      [] name \in {"random", "weighted_random"} -> Random(state, eps)
      [] OTHER                      -> RoundRobin(state, eps)

Candidates ==
    IF Balancer = "round_robin" /\ cursor # None
    THEN Pick(NextEndpointAfter(listed, Range(pool), cursor), lb)
    ELSE LoadBalance(lb, Balancer, pool)

Select ==
    /\ pc = "select"
    /\ \E choice \in Candidates :
          /\ lb' = choice.lb
          /\ IF lb' = lb /\ Balancer = "round_robin" THEN UNCHANGED placed ELSE Place(pool, choice.ep)
          /\ fatal' = (fatal \/ choice.fatal)
          /\ IF choice.ep = None
             THEN Return(IF fatal' THEN "fatal" ELSE "noendpoint") /\ UNCHANGED <<selected, cursor>>
             ELSE /\ selected' = choice.ep /\ cursor' = choice.ep
                  /\ pc' = "begin" /\ UNCHANGED err
    /\ UNCHANGED <<sc, served, moves, role, at, model, ttft, history, chain, smart, attempt, excluded,
                   listed, pool, race, response, env, whitelist, samples>>

\* Mutant: the failed endpoint stays in the pool.
FailedForgotten == excluded

\* What is excluded from now on.
Failed == IF Exclude THEN excluded \cup {selected} ELSE excluded

\* The permit of the service, then of the endpoint; half-open entries are taken.
Acquired == {Service(selected), selected} \subseteq Admits

Begin ==
    /\ pc = "begin"
    /\ IF Acquired
       THEN /\ breaker' = [k \in Keys |-> IF k \in {Service(selected), selected} /\ breaker[k] = "half"
                                          THEN "busy" ELSE breaker[k]]
            /\ pc' = "call"
            /\ UNCHANGED <<err, attempt, excluded, selected>>
       ELSE /\ selected' = None   \* SelectedEndpoint is set by the provider call only
            /\ excluded' = Failed
            /\ IF ~Exclude \/ attempt + 1 > Retry
               THEN Return("refused") /\ UNCHANGED attempt
               ELSE attempt' = attempt + 1 /\ pc' = "route" /\ UNCHANGED err
            /\ UNCHANGED breaker
    /\ UNCHANGED <<sc, served, moves, role, at, model, fatal, ttft, history, chain, smart, cursor, listed,
                   pool, race, response, up, opened, shared>>

\* A provider call comes back well, with a failure for the rules to judge, with
\* an error marked not retryable, or because the client left.
Succeeded == [status |-> 200, type |-> "json", message |-> "", code |-> "", text |-> ""]
Overloaded == [status |-> 503, type |-> "json", message |-> "unavailable", code |-> "busy", text |-> "later"]
Rejected == [status |-> 400, type |-> "json", message |-> "bad", code |-> "invalid", text |-> "wrong"]
NoAnswer == [status |-> 0, type |-> "", message |-> "reset", code |-> "", text |-> ""]

\* byte: the first byte went out.
Replies ==
    LET reply(kind, failure, byte) == [kind |-> kind, failure |-> failure, byte |-> byte]
        silent == {reply("ok", Succeeded, FALSE), reply("failed", Overloaded, FALSE),
                   reply("failed", Rejected, FALSE), reply("failed", NoAnswer, FALSE),
                   reply("final", NoAnswer, FALSE), reply("disconnect", NoAnswer, FALSE)}
        streamed == {reply("ok", Succeeded, TRUE), reply("failed", [Succeeded EXCEPT !.message = "reset"], TRUE)}
    IN  {r \in silent \cup (IF sc.stream THEN streamed ELSE {}) : r.kind \in sc.answers}

\* What the attempt came to: "retry" is a failure the retry rules match, "other"
\* one they do not.
Verdict(reply) ==
    IF reply.kind # "failed" THEN reply.kind
    ELSE IF MatchError(sc.errors, reply.failure) THEN "retry" ELSE "other"

StatusClass(status) ==
    CASE status = 0 -> "none" [] status >= 500 -> "5xx" [] status >= 400 -> "4xx" [] OTHER -> "2xx"

\* The synthetic latency of a failed call, from the average so far.
Penalty(e) == IF Average[e] = 0 THEN FailureMax ELSE Min({Average[e] * Multiplier, FailureMax})

\* sequentialOutcome: disconnects and non-retryable errors leave no trace.
Record(reply) ==
    LET value == IF reply.kind = "ok" THEN RTT ELSE Penalty(selected)
    IN  IF reply.kind \in {"final", "disconnect"} THEN UNCHANGED samples
        ELSE samples' = [samples EXCEPT ![selected] = [sum |-> @.sum + value, n |-> @.n + 1]]

\* The breaker's reaction: a returned permit, and on a counted failure (a slow
\* success is one) possibly an open entry, on a success possibly a closed one
\* (module CircuitBreaker).
Outcome(reply) ==
    LET mine == {Service(selected), selected}
        released == [k \in Keys |-> IF k \in mine /\ breaker[k] = "busy" THEN "half" ELSE breaker[k]]
        tripped == [released EXCEPT ![selected] = "open"]
        healed == [k \in Keys |-> IF k \in mine /\ released[k] = "half" THEN "closed" ELSE released[k]]
    IN  /\ breaker' \in {released}
                        \cup (IF reply.kind \in {"failed", "ok"} /\ sc.breakers # {} THEN {tripped} ELSE {})
                        \cup (IF reply.kind = "ok" THEN {healed} ELSE {})
        /\ opened' = LET still == SelectSeq(opened, LAMBDA e : breaker'[e] # "closed")
                     IN  IF breaker'[selected] = "open" /\ breaker[selected] # "open"
                         THEN Append(SelectSeq(still, LAMBDA e : e # selected), selected) ELSE still

\* Mutant: the error is matched before the first byte is looked at.
RetriesStreamed(reply) == Verdict(reply) = "retry"

\* The loop goes round again only for an error the rules match, before the first
\* byte.
Retries(reply) == Verdict(reply) = "retry" /\ ~(ttft \/ reply.byte)

\* The call returns: the attempt is recorded, the permit goes back, and the loop
\* stops or goes round again.
Reply ==
    /\ pc = "call"
    /\ \E reply \in Replies :
          /\ history' = Append(history, <<Current, selected, Verdict(reply)>>)
          /\ response' = StatusClass(reply.failure.status)
          /\ ttft' = (ttft \/ reply.byte)
          /\ Record(reply) /\ Outcome(reply)
          /\ excluded' = IF Retries(reply) THEN Failed ELSE excluded
          /\ IF ~Retries(reply) \/ attempt + 1 > Retry
             THEN Return(Verdict(reply)) /\ UNCHANGED attempt
             ELSE IF Range(listed) \subseteq Failed
                  THEN Return("noendpoint") /\ UNCHANGED attempt
                  ELSE attempt' = attempt + 1 /\ pc' = "route" /\ UNCHANGED err
    /\ UNCHANGED <<sc, served, moves, role, at, model, fatal, chain, smart, cursor, listed, pool, race, selected,
                   up, whitelist, lb, placed>>

(* ------------------------------- hedging -------------------------------- *)

\* selectTwoEndpoints: the balancer's pick, then its pick among the others.
TwoEndpoints(eps) ==
    UNION {IF a.ep = None THEN {<<a>>}
           ELSE {<<a, b>> : b \in LoadBalance(a.lb, sc.lb, SelectSeq(eps, LAMBDA e : e # a.ep))} :
               a \in LoadBalance(lb, sc.lb, eps)}

\* Discovery and the chain without exclusion; fewer than two endpoints, or no
\* two picks, fall back to the cluster invoker on the same context.
Hedge ==
    LET found == List(model)
        pair(picks) == IF picks[Len(picks)].ep = None
                       THEN pc' = "route" /\ UNCHANGED <<pool, race>>
                       ELSE /\ pc' = "race" /\ pool' = <<picks[1].ep, picks[2].ep>>
                            /\ race' = [NoRace EXCEPT !.side[1] = "begun"]
    IN  /\ pc = "hedge"
        /\ \/ /\ found.err
              /\ Return("discovery") /\ UNCHANGED <<breaker, opened, whitelist, lb, fatal, pool, race>>
           \/ /\ ~found.err /\ UNCHANGED err
              /\ \E reading \in TenantReadings(found.eps) : \E result \in RouterChain(found.eps, reading.wl) :
                    /\ whitelist' = reading.cache
                    /\ Recover(found.eps)
                    /\ IF Len(result) < 2 THEN pc' = "route" /\ UNCHANGED <<lb, fatal, pool, race>>
                       ELSE \E picks \in TwoEndpoints(result) :
                              /\ lb' = picks[Len(picks)].lb
                              /\ fatal' = (fatal \/ picks[Len(picks)].fatal)
                              /\ pair(picks)
        /\ UNCHANGED <<sc, served, moves, role, at, model, ttft, history, chain, smart, attempt, excluded,
                       cursor, listed, selected, response, up, samples, placed>>

\* Invoke waits for A alone, for both, or for the winner to finish.
Racing == {"race", "both", "await"}

\* invokeSub: the permit and with it the provider call, or a refusal.  What the
\* two calls do to the breakers is left to BreakerMoves.
SubBegins(i) ==
    /\ pc \in Racing /\ race.side[i] = "begun"
    /\ IF {Service(pool[i]), pool[i]} \subseteq Admits
       THEN race' = [race EXCEPT !.side[i] = "called"] /\ history' = Append(history, <<Current, pool[i], "race">>)
       ELSE race' = [race EXCEPT !.side[i] = "failed"] /\ UNCHANGED history
    /\ UNCHANGED <<sc, served, moves, pc, role, at, model, fatal, ttft, err, chain, smart, attempt, excluded, cursor,
                   listed, pool, selected, response, env, shared>>

\* The first byte of a stream claims the race.
SubWrites(i) ==
    /\ pc \in Racing /\ race.side[i] = "called" /\ sc.stream /\ race.winner = 0
    /\ race' = [race EXCEPT !.winner = i]
    /\ ttft' = TRUE
    /\ UNCHANGED <<sc, served, moves, pc, role, at, model, fatal, err, history, chain, smart, attempt, excluded, cursor,
                   listed, pool, selected, response, env, shared>>

\* The provider call ends: a clean one claims the race and leaves its latency; a
\* rejection of a smart child ends the race.
SubReturns(i) ==
    /\ pc \in Racing /\ race.side[i] = "called"
    /\ \E how \in (sc.answers \cap {"ok", "failed"}) \cup (IF role = "request" THEN {} ELSE {"rejected"}) :
          /\ race' = [side |-> [race.side EXCEPT ![i] = how],
                      winner |-> IF how = "ok" /\ race.winner = 0 THEN i ELSE race.winner]
          /\ samples' = IF how = "ok" THEN [samples EXCEPT ![pool[i]] = [sum |-> @.sum + RTT, n |-> @.n + 1]] ELSE samples
    /\ UNCHANGED <<sc, served, moves, pc, request, attempt, excluded, cursor, listed, pool, selected, response, env,
                   whitelist, lb, placed>>

\* The delay is over, or A has failed: B is started.  Whether A has won by now is
\* not looked at.
StartB ==
    /\ pc = "race"
    /\ race' = [race EXCEPT !.side[2] = "begun"]
    /\ pc' = "both"
    /\ UNCHANGED <<sc, served, moves, request, attempt, excluded, cursor, listed, pool, selected, response, env, shared>>

\* Invoke sees the winner and cancels the other call.
Won ==
    /\ pc \in {"race", "both"} /\ race.winner # 0
    /\ pc' = "await"
    /\ UNCHANGED <<sc, served, moves, request, call, env, shared>>

\* Invoke returns: the winner's result, the last of two failures, a rejection, or
\* the end of the context.  No error of a race is "no endpoint".
RaceEnds ==
    /\ pc \in Racing
    /\ \/ /\ pc = "await" /\ race.side[race.winner] \in {"ok", "failed"}
          /\ selected' = pool[race.winner] /\ response' = "2xx"
          /\ Return(IF race.side[race.winner] = "ok" THEN "ok" ELSE "other")
       \/ /\ pc = "both" /\ race.winner = 0 /\ race.side = <<"failed", "failed">>
          /\ \E r \in {"none", "5xx"} \cup (IF role = "request" THEN {"4xx"} ELSE {}) : response' = r
          /\ \E e \in {"other"} \cup (IF role = "request" THEN {"final"} ELSE {}) : Return(e)
          /\ UNCHANGED selected
       \/ /\ pc # "await" /\ "rejected" \in Range(race.side)
          /\ response' = "4xx" /\ Return("final") /\ UNCHANGED selected
       \/ /\ "disconnect" \in sc.answers
          /\ Return("disconnect") /\ UNCHANGED <<selected, response>>
    /\ race' = NoRace
    /\ UNCHANGED <<sc, served, moves, role, at, model, fatal, ttft, history, chain, smart, attempt, excluded, cursor,
                   listed, pool, env, shared>>

Race == StartB \/ Won \/ RaceEnds \/ \E i \in {1, 2} : SubBegins(i) \/ SubWrites(i) \/ SubReturns(i)

(* ---------------------- the request and its models ---------------------- *)

\* HandleRequest hands the request to the smart router or, if the model has no
\* smart configuration, to the fallback invoker.
Arrive ==
    /\ pc \in {"idle", "done"} /\ served < sc.requests
    /\ served' = served + 1
    /\ role' = "request" /\ at' = 1 /\ model' = sc.model
    /\ chain' = IF sc.fallback = <<>> THEN <<>> ELSE <<sc.model>>
    /\ pc' = IF sc.smart THEN "classify" ELSE "enter"
    /\ fatal' = FALSE /\ ttft' = FALSE /\ err' = "ok" /\ history' = <<>>
    /\ smart' = Fresh
    /\ selected' = None /\ response' = "none"
    /\ UNCHANGED <<sc, moves, attempt, excluded, cursor, listed, pool, race, env, shared>>

\* Invoke starts with nothing excluded and no cursor.
Enter ==
    /\ pc = "enter"
    /\ attempt' = 0 /\ excluded' = {} /\ cursor' = None /\ listed' = <<>> /\ pool' = <<>>
    /\ pc' = IF Hedged THEN "hedge" ELSE "route"
    /\ UNCHANGED <<sc, served, moves, request, race, selected, response, env, shared>>

\* Mutant: a spent retry budget changes the model too.
CanFallbackModelAnyError == err \in {"noendpoint", "retry"} /\ ~fatal /\ ~ttft

\* Only "no endpoint" changes the model, and never after the first byte, a fatal
\* error or under an affinity whose parameters do not allow degrading (one without
\* parameters forbids nothing here).
CanFallbackModel ==
    /\ err = "noendpoint"
    /\ ~fatal /\ ~ttft
    /\ sc.lb = "endpoint_affinity" /\ sc.params => sc.degrade

Fallback ==
    /\ pc = "returned" /\ role = "request"
    /\ IF CanFallbackModel /\ at < Len(Models)
       THEN /\ at' = at + 1 /\ model' = Models[at + 1] /\ chain' = Append(chain, Models[at + 1])
            /\ pc' = "enter"
       ELSE pc' = "done" /\ UNCHANGED <<at, model, chain>>
    /\ UNCHANGED <<sc, served, moves, role, fatal, ttft, err, history, smart, call, env, shared>>

(* ----------------------------- smart routing ---------------------------- *)

\* newChild: the model is allowed (validator, policy, auth: granted), ordinary,
\* and discovery lists an endpoint that can hold the request.
ChildPossible(m, granted) ==
    granted /\ ~List(m).err /\ \E e \in Range(List(m).eps) : SmartCompatible(sc.need, e)

Child(m, r) ==
    /\ role' = r /\ model' = m /\ pc' = "admit"
    /\ fatal' = FALSE /\ ttft' = FALSE /\ err' = "ok"
    /\ selected' = None /\ response' = "none"

Finish(e) == pc' = "done" /\ err' = e

\* The judge's request may be too large and its model unusable: a failed
\* judgement, as a failed call is.
Classify ==
    /\ pc = "classify"
    /\ \E fits, granted \in BOOLEAN :
          IF fits /\ ChildPossible(sc.judge, granted)
          THEN Child(sc.judge, "judge") /\ UNCHANGED <<at, smart>>
          ELSE /\ pc' = "target" /\ at' = Len(sc.ranges)
               /\ smart' = [smart EXCEPT !.started = TRUE, !.start = Len(sc.ranges)]
               /\ UNCHANGED <<role, model, fatal, ttft, err, selected, response>>
    /\ UNCHANGED <<sc, served, moves, history, chain, attempt, excluded, cursor, listed, pool, race, env, shared>>

\* The limits of the child are reserved; a rejection may leave part of them
\* reserved.  A cancelled client stops the child before its call.
Admit ==
    /\ pc = "admit"
    /\ \E verdict \in {"ok", "limit", "cancelled"}, limits \in {"free", "held"} :
          /\ verdict # "limit" => limits = "held"
          /\ verdict = "cancelled" => sc.cancels
          /\ smart' = [smart EXCEPT !.limits = limits]
          /\ err' = verdict
          /\ pc' = IF verdict = "ok" THEN "enter" ELSE "settle"
    /\ UNCHANGED <<sc, served, moves, role, at, model, fatal, ttft, history, chain, call, env, shared>>

ChildReturns ==
    /\ pc = "returned" /\ role # "request"
    /\ pc' = "settle"
    /\ UNCHANGED <<sc, served, moves, call, request, env, shared>>

\* SettleLimits runs whatever the child came to; its own error wins.
Settle ==
    /\ pc = "settle"
    /\ \/ smart' = [smart EXCEPT !.limits = "free"] /\ UNCHANGED err
       \/ /\ smart.limits = "held" /\ err' = "settlement"
          /\ smart' = [smart EXCEPT !.limits = "lost"]
    /\ pc' = IF role = "judge" THEN "judged" ELSE "targeted"
    /\ UNCHANGED <<sc, served, moves, role, at, model, fatal, ttft, history, chain, call, env, shared>>

\* smartRangeIndex: ranges are half open, the last one closed at 100.
RangeIndex(score) ==
    LET hit == {i \in DOMAIN sc.ranges :
                   /\ score >= sc.ranges[i].min
                   /\ \/ score < sc.ranges[i].max
                      \/ i = Len(sc.ranges) /\ score = 100 /\ sc.ranges[i].max = 100}
    IN  IF hit = {} THEN 0 ELSE Min(hit)

\* Limits end the request, a score picks the range, everything else is a failed
\* judgement and starts at the top.
Judged ==
    /\ pc = "judged"
    /\ \/ sc.cancels /\ Finish("cancelled") /\ UNCHANGED <<at, smart>>
       \/ err \in {"settlement", "limit"} /\ Finish(err) /\ UNCHANGED <<at, smart>>
       \/ /\ err = "ok"
          /\ \E score \in sc.scores :
                IF RangeIndex(score) = 0 THEN Finish("unavailable") /\ UNCHANGED <<at, smart>>
                ELSE /\ pc' = "target" /\ at' = RangeIndex(score) /\ UNCHANGED err
                     /\ smart' = [smart EXCEPT !.started = TRUE, !.judged = TRUE, !.start = RangeIndex(score)]
       \/ /\ err \notin {"settlement", "limit"}   \* no score, or the judge failed
          /\ pc' = "target" /\ at' = Len(sc.ranges) /\ UNCHANGED err
          /\ smart' = [smart EXCEPT !.started = TRUE, !.start = Len(sc.ranges)]
    /\ selected' = None /\ response' = "none" /\ fatal' = FALSE   \* the judge's context is released
    /\ UNCHANGED <<sc, served, moves, role, model, ttft, history, chain, attempt, excluded, cursor, listed, pool,
                   race, env, shared>>

\* Mutant: the walk goes down although there is a score.
StepDown == -1

Step == IF smart.judged THEN 1 ELSE -1

\* Mutant: a skipped range is looked at again.
PastNowhere(i) == i

\* The range after one that is skipped.
Past(i) == i + Step

\* The next range: a model already seen is skipped, so is one no child can be
\* made for; out of range the last error is the answer.
Target ==
    /\ pc = "target"
    /\ \/ /\ at \notin DOMAIN sc.ranges
          /\ Finish(smart.last) /\ UNCHANGED <<role, model, fatal, ttft, selected, response, at, smart>>
       \/ /\ at \in DOMAIN sc.ranges /\ sc.cancels /\ Finish("cancelled")
          /\ UNCHANGED <<role, model, fatal, ttft, selected, response, at, smart>>
       \/ /\ at \in DOMAIN sc.ranges
          /\ \E granted \in BOOLEAN :
                LET m == sc.ranges[at].model
                    child == m \notin smart.seen /\ ChildPossible(m, granted)
                IN  /\ smart' = [smart EXCEPT !.seen = @ \cup {m},
                                 !.last = IF m \in smart.seen \/ child THEN @ ELSE "unavailable"]
                    /\ IF child
                       THEN Child(m, "target") /\ UNCHANGED at
                       ELSE at' = Past(at) /\ UNCHANGED <<pc, err, role, model, fatal, ttft, selected, response>>
    /\ UNCHANGED <<sc, served, moves, history, chain, attempt, excluded, cursor, listed, pool, race, env, shared>>

\* smartRetryable: a 429 or 5xx response, or none at all.
SmartRetryable ==
    /\ err \notin {"cancelled", "disconnect", "final"} /\ ~fatal
    /\ response \in {"none", "5xx"}

\* The target came back.  After a failed judgement there is no second target.
Targeted ==
    /\ pc = "targeted"
    /\ IF err \in {"limit", "settlement"}
       THEN pc' = "done" /\ UNCHANGED <<at, chain, smart>>
       ELSE /\ chain' = Append(chain, model)
            /\ smart' = [smart EXCEPT !.executed = Append(@, at), !.last = err]
            /\ IF err # "ok" /\ smart.judged /\ SmartRetryable
               THEN pc' = "target" /\ at' = at + Step
               ELSE pc' = "done" /\ UNCHANGED at
    /\ selected' = IF err = "ok" THEN selected ELSE None   \* copySmartAnswer
    /\ response' = IF err = "ok" THEN response ELSE "none"
    /\ fatal' = FALSE
    /\ UNCHANGED <<sc, served, moves, role, model, ttft, err, history, attempt, excluded, cursor, listed, pool,
                   race, env, shared>>

(* ----------------------------- environment ------------------------------ *)

\* Other requests, probes and timers move a breaker; discovery gains or loses an
\* endpoint; another request uses the balancer; the tenant cache expires.
Move == moves < sc.moves /\ moves' = moves + 1 /\ UNCHANGED <<sc, served, pc, call, request>>

BreakerMoves ==
    /\ Move /\ sc.breakers # {}
    /\ \E k \in Keys, s \in {"closed", "open", "half", "busy"} :
          /\ breaker[k] # s
          /\ breaker' = [breaker EXCEPT ![k] = s]
          /\ opened' = IF k \notin Endpoint THEN opened
                       ELSE IF s = "closed" THEN SelectSeq(opened, LAMBDA e : e # k)
                       ELSE IF s = "open" \/ breaker[k] = "closed"
                            THEN Append(SelectSeq(opened, LAMBDA e : e # k), k) ELSE opened
    /\ UNCHANGED <<up, shared>>

FleetMoves ==
    /\ Move
    /\ \E e \in Endpoint : up' = IF e \in up THEN up \ {e} ELSE up \cup {e}
    /\ UNCHANGED <<breaker, opened, shared>>

OtherRequest ==
    /\ Move
    /\ \E eps \in {Alive(List(sc.model).eps), List(sc.model).eps} :
          eps # <<>> /\ \E choice \in LoadBalance(lb, sc.lb, eps) :
                          lb' = choice.lb /\ Place(eps, choice.ep)
    /\ UNCHANGED <<env, whitelist, samples>>

CacheExpires ==
    /\ Move /\ sc.tenant /\ whitelist # "unknown"
    /\ whitelist' = "unknown"
    /\ UNCHANGED <<env, lb, samples, placed>>

Rest == pc = "done" /\ served = sc.requests /\ UNCHANGED vars

Init ==
    /\ sc \in Scenarios
    /\ served = 0 /\ moves = 0 /\ pc = "idle"
    /\ role = "request" /\ at = 1 /\ model = sc.model
    /\ attempt = 0 /\ excluded = {} /\ cursor = None /\ listed = <<>> /\ pool = <<>> /\ race = NoRace
    /\ selected = None /\ response = "none" /\ fatal = FALSE /\ ttft = FALSE /\ err = "ok"
    /\ history = <<>> /\ chain = <<>> /\ smart = Fresh
    /\ up = Endpoint
    /\ breaker = [k \in Keys |-> IF k \in Range(sc.tripped) THEN "open" ELSE "closed"]
    /\ opened = sc.tripped
    /\ whitelist = "unknown" /\ lb = NoBalance
    /\ samples = [e \in Endpoint |-> [sum |-> 0, n |-> 0]] /\ placed = <<>>

Work ==
    \/ Arrive \/ Enter \/ Route \/ Select \/ Begin \/ Reply \/ Hedge \/ Race \/ Fallback
    \/ Classify \/ Admit \/ ChildReturns \/ Settle \/ Judged \/ Target \/ Targeted

Next == Work \/ BreakerMoves \/ FleetMoves \/ OtherRequest \/ CacheExpires \/ Rest

\* The goroutine of a request runs; the environment may do nothing.
Spec == Init /\ [][Next]_vars /\ WF_vars(Work)

(* ------------------------------ properties ------------------------------ *)

\* The calls of invocation n, as positions in the history.
Calls(n) == {i \in DOMAIN history : history[i][1] = n}

\* Once the client has the first byte the request is not tried again, by no
\* further attempt and no further model: TTFT survives ResetAttempt, and both the
\* loop and CanFallbackModel look at it.  Only a race goes on, its own two calls,
\* and one that the first byte came out of may still start its second.
FirstByteIsFinal == ttft => pc \in {"returned", "done"} \cup Racing

\* The calls of an invocation are bounded: by the retry policy in the attempt
\* loop, by two in a race, whatever the policy says of retries, and a race is
\* never mixed with attempts.  The two calls of a race go to different endpoints,
\* and under exclude_failed_endpoint no endpoint is called twice in the loop, also
\* when discovery, breakers and the pool change between the attempts.
RetryIsBounded ==
    \A n \in {history[i][1] : i \in DOMAIN history} :
        LET raced == \E i \in Calls(n) : history[i][3] = "race"
        IN  /\ Cardinality(Calls(n)) <= IF raced THEN 2 ELSE sc.retry + 1
            /\ raced => \A i \in Calls(n) : history[i][3] = "race"
            /\ raced \/ sc.exclude => \A i, j \in Calls(n) : history[i][2] = history[j][2] => i = j

\* A further model is tried only for a model that ran out of endpoints: all its
\* calls failed retryably and attempts were left.  An upstream answer, a spent
\* retry budget, a breaker refusal or a failed discovery end the request.
FallbackNeedsExhaustion ==
    ~sc.smart =>
    \A n \in 1..(at - 1) :
        /\ \A i \in Calls(n) : history[i][3] = "retry"
        /\ Cardinality(Calls(n)) <= sc.retry

\* The router never takes the last instance of a service out while the service
\* breaker admits requests and outlier_max_percent is below 100 (ADR 0017), for
\* whatever instances are open and in whichever order they opened.
OutlierLeavesOne ==
    \A e \in Range(Capable(List(sc.model).eps)) :
        /\ sc.breakers # {} /\ OutlierMaxPercent(sc.breakers) \in 1..99
        /\ Service(e) \in Admits
        /\ \E f \in Range(Capable(List(sc.model).eps)) : f # e /\ Service(f) = Service(e)
        => \E f \in Range(Alive(List(sc.model).eps)) : Service(f) = Service(e)

\* Round robin serves the endpoints of a pool evenly (per pool, whichever other
\* pools are used in between); smooth weighted round robin gives every endpoint
\* its weight in each full turn of an unchanged pool; a session moves only when
\* its endpoint leaves the pool or a new one enters (session_hash.go: only
\* membership changes reassign a session).
FairShare ==
    LET pools == {placed[i].pool : i \in DOMAIN placed}
        count(P, e) == Cardinality({i \in DOMAIN placed : placed[i] = [pool |-> P, ep |-> e]})
        turn(P) == MapThenSumSet(LAMBDA i : Weight(P[i]), DOMAIN P)
    IN  /\ sc.lb = "round_robin" =>
              \A P \in pools : \A e, f \in Range(P) : count(P, e) <= count(P, f) + 1
        /\ sc.lb = "weighted_rr" =>
              \A P \in pools : pools = {P} /\ Len(placed) % turn(P) = 0 =>
                  \A e \in Range(P) : count(P, e) = (Len(placed) \div turn(P)) * Weight(e)
        /\ sc.lb = "session_hash" =>
              \A i, j \in DOMAIN placed :
                  placed[i].ep # placed[j].ep /\ placed[i].ep \in Range(placed[j].pool)
                  => placed[j].ep \notin Range(placed[i].pool)

\* With a score, no target below the judged range is called and the ranges are
\* climbed one after another, no model twice; without one, at most one target is
\* called (smart.go: never downgrade after invoking it).
SmartNeverDowngrades ==
    /\ \A i \in DOMAIN smart.executed :
          /\ smart.judged => smart.executed[i] >= smart.start
          /\ \A j \in 1..(i - 1) : smart.executed[j] < smart.executed[i]
                                   /\ sc.ranges[smart.executed[j]].model # sc.ranges[smart.executed[i]].model
    /\ ~smart.judged => Len(smart.executed) <= 1

\* Every request is answered: the attempt loop, the model chain and the walk over
\* the ranges end whatever upstreams, breakers and discovery do.
Answered == (pc # "done") ~> (pc = "done")
=============================================================================
