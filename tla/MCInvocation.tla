---------------------------- MODULE MCInvocation ----------------------------
(***************************************************************************)
(* Instances of Invocation: a model with three endpoints of two providers, *)
(* a fallback model with one, a judge.                                     *)
(***************************************************************************)
EXTENDS Invocation

MCEndpoint == {"a", "b", "c", "d"}

Plain == [provider |-> "p", protocol |-> "openai", types |-> {"chat"}, weight |-> 1, priority |-> 0, cost |-> 2,
          tags |-> [zone |-> "west"], maxOutput |-> 0, context |-> 0]

MCAttr ==
    [e \in MCEndpoint |->
        CASE e = "a" -> [Plain EXCEPT !.weight = 2]
          [] e = "b" -> [Plain EXCEPT !.weight = 0, !.context = 4, !.maxOutput = 2]
          [] e = "c" -> [Plain EXCEPT !.provider = "q", !.protocol = "", !.cost = 1, !.tags = [zone |-> "east"],
                                      !.types = {"messages"}]
          [] e = "d" -> [Plain EXCEPT !.provider = "r", !.priority = 1, !.types = {"chat", "messages"}]]

MCScore == [e \in MCEndpoint |-> CASE e = "a" -> <<3, 6>> [] e = "b" -> <<7>> [] e = "c" -> <<5>> [] e = "d" -> <<0>>]

MCFleet == [m |-> <<"a", "b", "c">>, n |-> <<"d">>, s |-> <<>>]
MCStatic == [m |-> <<>>, n |-> <<"d">>, s |-> <<>>]

Instance(percent) == [level |-> "INSTANCE", percent |-> percent]

AnyError == [codes |-> {}, messages |-> {}, codeParser |-> Unparsed, messageParser |-> Unparsed]

\* A code in the body of a JSON 503, a message anywhere.
Listed == [codes |-> {"busy"}, messages |-> {{"reset", "down"}},
           codeParser |-> [parser |-> TRUE, expression |-> TRUE, statuses |-> {503}, types |-> {"json"}],
           messageParser |-> [Unparsed EXCEPT !.parser = TRUE, !.expression = TRUE]]

Base ==
    [model |-> "m", fallback |-> <<>>, lb |-> "round_robin", hedging |-> FALSE, retry |-> 0, exclude |-> TRUE,
     breakers |-> {}, rules |-> <<>>, headers |-> [tier |-> "gold"], tenant |-> FALSE, allowed |-> {},
     target |-> None, params |-> TRUE, degrade |-> FALSE, stream |-> FALSE, type |-> "messages", smart |-> FALSE,
     judge |-> "n", ranges |-> <<>>, scores |-> {}, need |-> [maxOutput |-> 1, input |-> 2],
     tripped |-> <<>>, cancels |-> FALSE, requests |-> 1, moves |-> 2, answers |-> {"ok", "failed", "final", "disconnect"},
     errors |-> AnyError]

\* Retries with and without exclusion, streams, model fallback, open breakers.
Looping == {[Base EXCEPT !.retry = r, !.exclude = x, !.fallback = <<"n">>, !.breakers = {Instance(0)}, !.errors = Listed,
                         !.moves = IF r = 1 /\ x THEN 2 ELSE 1] :
               r \in {0, 1, 2}, x \in BOOLEAN}
           \cup {[Base EXCEPT !.retry = 1, !.fallback = <<"n">>, !.stream = TRUE]}

\* Every balancer, over requests in a row.
Balancing == {[Base EXCEPT !.lb = l, !.requests = 4, !.moves = 1, !.answers = {"ok", "failed"}] : l \in {"weighted_rr", "least_connections", "least_latency", "cost", "composite",
                                              "session_hash", "random"}}

\* Breakers opened under an earlier policy that had them.
Dropped == {[Base EXCEPT !.lb = "random", !.tripped = <<"a">>, !.moves = 0]}

Affinity == {[Base EXCEPT !.lb = "endpoint_affinity", !.target = t, !.degrade = g, !.fallback = <<"n">>, !.retry = 1] :
                t \in {None, "b"}, g \in BOOLEAN}
            \cup {[Base EXCEPT !.lb = "endpoint_affinity", !.params = FALSE, !.fallback = <<"n">>]}

Zone(z) == [weight |-> 1, relation |-> "AND",
            conds |-> {[key |-> "zone", negated |-> FALSE, values |-> {{z}}]}]

\* Tag rules with a missing subset and a weighted draw, the tenant whitelist and
\* the cap on open instances.
Routed == {[Base EXCEPT !.tenant = TRUE, !.allowed = {"b", "c"}, !.breakers = {Instance(60), [level |-> "SERVICE", percent |-> 0]},
               !.rules = <<[relation |-> "AND", conds |-> {[key |-> "tier", negated |-> FALSE, values |-> {{"gold", "silver"}}]},
                            dests |-> <<Zone("north"), Zone("east"), [Zone("west") EXCEPT !.weight = 0]>>],
                           [relation |-> "OR", conds |-> {[key |-> "user", negated |-> TRUE, values |-> {{"x"}}]},
                            dests |-> <<Zone("west")>>]>>]}

Hedging == {[Base EXCEPT !.hedging = TRUE, !.lb = l, !.target = "b", !.stream = s, !.fallback = <<"n">>] :
               l \in {"round_robin", "endpoint_affinity"}, s \in BOOLEAN}
           \cup {[Base EXCEPT !.hedging = TRUE, !.stream = TRUE, !.breakers = {Instance(0)}, !.moves = 1]}

Interval(m, lo, hi) == [model |-> m, min |-> lo, max |-> hi]

Smart == {[Base EXCEPT !.smart = TRUE, !.moves = 1, !.cancels = c, !.type = "chat", !.model = "s", !.retry = 1,
               !.ranges = <<Interval("n", 0, 40), Interval("m", 40, 75), Interval("m", 75, 90), Interval("n", 90, 100)>>,
               !.scores = {0, 40, 80, 100}] : c \in BOOLEAN}

SmartHedging == {[s EXCEPT !.hedging = TRUE, !.cancels = FALSE, !.moves = 0] : s \in Smart}

MCScenarios == Looping \cup Balancing \cup Dropped \cup Affinity \cup Routed \cup Hedging \cup Smart \cup SmartHedging
=============================================================================
