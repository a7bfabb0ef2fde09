------------------------------ MODULE Routing ------------------------------
(***************************************************************************)
(* Which endpoint a request may be sent to: discovery, the router chain    *)
(* (pkg/routers) and the load balancers (pkg/lbs), as operators on         *)
(* sequences of endpoint ids.  The operators are pure; the state they read *)
(* (breaker states, connection counters, latency samples) is passed in and *)
(* belongs to module Invocation.                                           *)
(*                                                                         *)
(* Attr[e] is the configured view of an endpoint (core.Endpoint):          *)
(*   provider, protocol, types, weight, priority, cost, tags (metadata key *)
(*   -> value), maxOutput and context (0 when not configured).             *)
(***************************************************************************)
EXTENDS Integers, Sequences, FiniteSets, FiniteSetsExt, Functions, TLC

CONSTANTS
    Endpoint,    \* endpoint ids
    Attr,        \* [Endpoint -> configured view]
    Score        \* [Endpoint -> Seq(Nat)]: rendezvousScore of the session per replica

\* A nil endpoint.
None == "none"

\* The circuit breaker's key of the service an endpoint belongs to.  The keys of
\* services and instances are different names.
Service(e) == Attr[e].provider

(* ------------------------------- discovery ------------------------------ *)

\* The composite discovery asks dynamic then static discovery and returns the
\* first non-empty list.  An empty answer of every source is an error, never
\* an empty list.
DiscoveryList(sources) ==
    LET found == SelectSeq(sources, LAMBDA s : s # <<>>)
    IN  IF found = <<>> THEN [err |-> TRUE, eps |-> <<>>] ELSE [err |-> FALSE, eps |-> found[1]]

(* -------------------------------- routers ------------------------------- *)

\* What the adapter of a protocol can serve.
ProtocolSupports(protocol, rt) ==
    CASE protocol = "openai"    -> rt \in {"chat", "embedding", "image", "responses", "messages"}
      [] protocol = "anthropic" -> rt \in {"messages", "responses"}
      [] protocol = "gemini"    -> rt = "gemini"
      [] protocol = "joycode"   -> rt \in {"chat", "responses", "messages"}
      [] protocol = ""          -> TRUE
      [] OTHER                  -> FALSE

\* Declared request types, widened by the translations the gateway offers.
SupportsRequestType(e, rt) ==
    /\ ProtocolSupports(Attr[e].protocol, rt)
    /\ \/ rt \in Attr[e].types
       \/ "chat" \in Attr[e].types /\ rt \in {"messages", "responses"}
       \/ "messages" \in Attr[e].types /\ rt = "responses"

CapabilityRoute(rt, eps) == SelectSeq(eps, LAMBDA e : SupportsRequestType(e, rt))

\* The endpoint can hold the prompt and the answer of a smart-routed request.
SmartCompatible(req, e) ==
    LET output == IF req.maxOutput = 0 THEN Attr[e].maxOutput ELSE req.maxOutput
    IN  /\ SupportsRequestType(e, "chat")
        /\ Attr[e].maxOutput > 0 => output <= Attr[e].maxOutput
        /\ Attr[e].context > 0 => req.input + output <= Attr[e].context

SmartCapacityRoute(req, eps) == SelectSeq(eps, LAMBDA e : SmartCompatible(req, e))

InstanceLevel(p) == p.level \in {"", "INSTANCE", "ENDPOINT"}

\* The smallest configured cap on the share of open instances (0: no cap).
OutlierMaxPercent(policies) ==
    LET caps == {p.percent : p \in {q \in policies : InstanceLevel(q) /\ q.percent > 0}}
    IN  IF caps = {} THEN 0 ELSE Min(caps)

\* Mutant: the share is rounded up.
MaxBlockedCeiling(policies, group) ==
    IF OutlierMaxPercent(policies) = 0 THEN Len(group)
    ELSE (Len(group) * OutlierMaxPercent(policies) + 99) \div 100

\* How many of a group's blocked instances stay blocked.
MaxBlocked(policies, group) ==
    LET total   == Len(group)
        allowed == (total * OutlierMaxPercent(policies)) \div 100
    IN  IF OutlierMaxPercent(policies) = 0 THEN total
        ELSE IF allowed = 0 /\ total > 1 THEN 1 ELSE allowed

\* allow: the breaker keys that admit a request.  opened: the instances that
\* are not closed, earliest first (GetOpenSince).  Service-level open drops the
\* whole service; of the blocked instances of a service the earliest opened
\* MaxBlocked stay out and the others are released.
CircuitBreakerRoute(policies, allow, opened, eps) ==
    LET passed     == SelectSeq(eps, LAMBDA e : Service(e) \in allow)
        group(e)   == SelectSeq(passed, LAMBDA f : Service(f) = Service(e))
        blocked(e) == {f \in Range(group(e)) : f \notin allow}
        \* how many blocked instances of the group opened before e
        earlier(e) == Cardinality({f \in blocked(e) :
                          \E i, j \in DOMAIN opened : i < j /\ opened[i] = f /\ opened[j] = e})
        out(e)     == e \in blocked(e) /\ earlier(e) < MaxBlocked(policies, group(e))
    IN  IF policies = {} THEN eps ELSE SelectSeq(passed, LAMBDA e : ~out(e))

\* An empty whitelist restricts nothing.
TenantRoute(whitelist, eps) ==
    IF whitelist = {} THEN eps ELSE SelectSeq(eps, LAMBDA e : e \in whitelist)

\* A condition's patterns are the sets of values they match (a wildcard
\* matches several); a missing value satisfies only the negated operators.
MatchValues(cond, actual) ==
    LET hit == \E a \in actual, pattern \in cond.values : a \in pattern
    IN  IF cond.negated THEN ~hit ELSE hit

\* tags: the request's headers or an endpoint's metadata.
MatchAll(conds, relation, tags) ==
    LET valueOf(k) == IF k \in DOMAIN tags THEN {tags[k]} ELSE {}
    IN  \/ conds = {}
        \/ relation # "OR" /\ \A c \in conds : MatchValues(c, valueOf(c.key))
        \/ relation = "OR" /\ \E c \in conds : MatchValues(c, valueOf(c.key))

\* The destinations the weighted draw may return.
Destinations(dests) ==
    LET weighted == {i \in DOMAIN dests : dests[i].weight > 0}
    IN  IF dests = <<>> THEN {} ELSE IF weighted = {} THEN {dests[1]} ELSE {dests[i] : i \in weighted}

\* The endpoints whose metadata satisfy a destination.
Subset(dest, eps) ==
    SelectSeq(eps, LAMBDA e : MatchAll(dest.conds, dest.relation, Attr[e].tags))

\* The results the tag router may produce: the rules are tried in order; a rule
\* that matches the request narrows the pool to the endpoints of one of its
\* destinations, unless that subset is empty, when the next rule is tried.
TagRoute(rules, headers, eps) ==
    LET from[i \in 1..Len(rules) + 1] ==
            IF i > Len(rules) THEN {eps}
            ELSE IF ~MatchAll(rules[i].conds, rules[i].relation, headers) \/ rules[i].dests = <<>>
                 THEN from[i + 1]
            ELSE LET subsets == {Subset(d, eps) : d \in Destinations(rules[i].dests)}
                 IN  (subsets \ {<<>>}) \cup (IF <<>> \in subsets THEN from[i + 1] ELSE {})
    IN  from[1]

\* Only the endpoints of the best (lowest) priority remain.
PriorityRoute(eps) ==
    IF eps = <<>> THEN eps
    ELSE LET best == Min({Attr[e].priority : e \in Range(eps)})
         IN  SelectSeq(eps, LAMBDA e : Attr[e].priority = best)
============================================================================
