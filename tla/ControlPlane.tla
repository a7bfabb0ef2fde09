---------------------------- MODULE ControlPlane ----------------------------
(***************************************************************************)
(* The gateway's view of what the Admin configures: API keys, policies and *)
(* models, refreshed by one poller (HTTP) or one subscription and a        *)
(* version poll (Redis), while requests read them.  scene.parts says which *)
(* of the three are in use; what the Admin publishes or serves reaches all *)
(* of them through the same poller and the same subscription.              *)
(***************************************************************************)
EXTENDS ApiKeys, PolicyCache, ModelConfig

CONSTANT Scenes

\* Nil is none of the words below; the queries of a scene ask one of the three
\* operations about names there are.
ASSUME SceneAssumption ==
    /\ Nil \notin {"endpoints", "check", "alias", "has", "static"}
    /\ \A s \in Scenes : s.ops \subseteq {"endpoints", "validate", "resolve"} /\ s.names \subseteq Name

vars == <<syncVars, keyVars, policyVars, modelVars>>

Init ==
    /\ scene \in Scenes
    /\ SyncInit /\ KeysInit /\ PoliciesInit /\ ModelsInit

(* ---------------------------- refresh: the poller ------------------------ *)

\* What the Admin serves of a kind.
Document(kind) ==
    CASE kind = "config" -> [models |-> served, fallbacks |-> fallbacks]
      [] kind = "policies" -> docs
      [] kind = "keys" -> key

PollAnswer == PollAnswered(Document(poll.kind)) /\ UNCHANGED <<keyVars, policyVars, modelVars>>

PollError == PollFails /\ UNCHANGED <<keyVars, policyVars, modelVars>>

\* pollConfig, pollPolicies and pollApiKeys put the answer into the provider.
ApplyConfig ==
    /\ poll.kind = "config" /\ poll.at = "apply"
    /\ IF ValidConfig(poll.body.models)
       THEN PollApplied /\ UpdateFallbacks(poll.body.fallbacks)
       ELSE PollRefused /\ UNCHANGED cfgCopy
    /\ UNCHANGED <<keyVars, modelVars, docs, granted, fallbacks, list, filled, good, bad, look>>

ApplyPolicies ==
    /\ poll.kind = "policies" /\ PollApplied /\ UpdatePolicies
    /\ UNCHANGED <<keyVars, modelVars, docs, granted, fallbacks, cfgCopy, filled, good, bad, look>>

ApplyKeys ==
    /\ poll.kind = "keys" /\ PollApplied /\ UpdateApiKeys
    /\ UNCHANGED <<policyVars, modelVars, key, lapsed, valid, invalid, call, deductions>>

\* The callbacks: the engine and the manager take the new configuration, the
\* services forget what they cached.
NotifyConfig ==
    /\ poll.kind = "config" /\ PollNotified /\ UpdateYAMLConfig(poll.body.models)
    /\ UNCHANGED <<keyVars, policyVars, smart, eps, ver, src, served, aliases, known, check, query>>

NotifyPolicies ==
    /\ poll.kind = "policies" /\ PollNotified /\ PurgePolicies
    /\ UNCHANGED <<keyVars, modelVars, docs, granted, fallbacks, list, cfgCopy, filled, look>>

NotifyKeys ==
    /\ poll.kind = "keys" /\ PollNotified /\ PurgeKeys
    /\ UNCHANGED <<policyVars, modelVars, key, lapsed, copy, call, deductions, copyRev, strayed>>

\* The engine refuses a configuration the provider already holds.
EngineRefuses == poll.kind = "config" /\ PollRejected /\ UNCHANGED <<keyVars, policyVars, modelVars>>

Poller ==
    \/ PollAnswer \/ ApplyConfig \/ ApplyPolicies \/ ApplyKeys
    \/ NotifyConfig \/ NotifyPolicies \/ NotifyKeys

(* ------------------------- refresh: the subscription --------------------- *)

Subscription ==
    /\ Subscribe \/ SubscribeFails \/ Disconnect \/ Reconnect
    /\ UNCHANGED <<keyVars, policyVars, modelVars>>

ReceivePolicies ==
    /\ Receive("policy_update") /\ PurgePolicies
    /\ UNCHANGED <<keyVars, modelVars, docs, granted, fallbacks, list, cfgCopy, filled, look>>

ReceiveKeys ==
    /\ Receive("apikey_update") /\ PurgeKeys
    /\ UNCHANGED <<policyVars, modelVars, key, lapsed, copy, call, deductions, copyRev, strayed>>

(* ------------------------------- the system ------------------------------ *)

\* A step of one part leaves the others alone.
InKeys == "keys" \in scene.parts /\ UNCHANGED <<policyVars, modelVars>>
InPolicies == "policies" \in scene.parts /\ UNCHANGED <<keyVars, modelVars>>
InModels == "models" \in scene.parts /\ UNCHANGED <<keyVars, policyVars>>

\* What an actor does; scene.actors says who is there.
Step(a) ==
    /\ a \in scene.actors
    /\ \/ InKeys /\ RequestStep(a)
       \/ InPolicies /\ LookupStep(a)
       \/ InModels /\ QueryStep(a)

StepFails(a) ==
    /\ a \in scene.actors
    /\ \/ InKeys /\ (ReadFails(a) \/ ChargeFails(a))
       \/ InPolicies /\ (ReadScopeFails(a) \/ FillPermissionsFails(a))
       \/ InModels /\ QueryFails(a)

\* Time: cache entries expire, the version poll's ticker fires.
ExpireKey == InKeys /\ (ExpireValid \/ ExpireInvalid)
ExpireModel(m) == InPolicies /\ (ExpirePolicy(m) \/ ExpireMiss(m))
ExpireName(n) == InModels /\ ExpireAlias(n)
VersionPoll == InModels /\ (ReadVersions \/ Evict)

Admin ==
    \/ InKeys /\ (WriteKey \/ Lapse)
    \/ InPolicies /\ WritePolicy
    \/ InModels /\ (WriteModel \/ WriteAlias \/ WriteConfig)

Next ==
    \/ \E a \in Actor : Step(a) \/ StepFails(a)
    \/ ExpireKey \/ VersionPoll
    \/ \E m \in Models : ExpireModel(m)
    \/ \E n \in Name : ExpireName(n)
    \/ Admin
    \/ Poller \/ PollError \/ EngineRefuses
    \/ Subscription \/ ReceivePolicies \/ ReceiveKeys

\* Goroutines run, entries expire, tickers fire.  Calls that fail, signals and
\* the Admin are not forced.
Fairness ==
    /\ WF_vars(Poller) /\ WF_vars(VersionPoll)
    /\ \A a \in Actor : WF_vars(Step(a))
    /\ WF_vars(InKeys /\ ExpireValid) /\ WF_vars(InKeys /\ ExpireInvalid)
    /\ \A m \in Models : WF_vars(ExpireModel(m))
    /\ \A n \in Name : WF_vars(ExpireName(n))

Spec == Init /\ [][Next]_vars /\ Fairness

(* ------------------------------- properties ------------------------------ *)

\* A balance of exactly -1 counts as unlimited, however it came about
\* (internal/service/apikey.go).  Even amounts do not make one.
AmountsEven == scene.key.credits % 2 = 0 /\ \A cost \in Costs : cost % 2 = 0

\* How far a personal key in Redis can be overdrawn (CheckCredits and
\* DeductCredits of internal/service/apikey.go).  The balance is checked before a
\* request and charged after it, and both look into a cache; but every deduction
\* clears the cache.  So once the balance is used up, each other request adds at
\* most one round of payments, by all requests, for a record it had read before:
\* n requests in flight overdraw it by at most 1 + n(n-1) payments, and a call to
\* Redis that fails after its command took effect, which leaves the cache
\* uncleared, by one more.
OverdraftBounded ==
    Redis /\ key # Nil /\ writes = 0 /\ key.personal /\ AmountsEven =>
        LET n == Cardinality(scene.actors)
        IN  \E cost \in Costs : key.credits >= 1 - cost * (1 + n * (n - 1) + faults)

\* The poller keeps an ETag only when it has applied the answer
\* (pkg/config/http_poller.go): what the provider holds is never older than the
\* ETag says, except for a key that a single lookup brought back.
EtagMeansApplied ==
    /\ poll.etag["keys"] > copyRev => strayed
    /\ poll.etag["policies"] <= list.rev


\* What Redis makes a smart model is not served as an ordinary one
\* (pkg/config/config_manager.go: "invalid smart documents return errors, never an
\* ordinary-model fallback").  A query during which the model has its document in
\* Redis all the time is given no endpoints, be the document valid or not, when
\* the document could be read or the source still held it, or its error, as Redis
\* failed; with nothing held, a failed read lets the query go on to the ordinary
\* endpoints.  But once a request has been told that Redis makes the model a smart
\* one, no later query is answered from the static configuration, through
\* deletions, evictions, changes of kind and failed reads with nothing held
\* (managedSmart of pkg/config/redis_source.go).
RedisOwns ==
    \A q \in Actor : query[q].at = "end" /\ query[q].op = "endpoints" =>
        /\ query[q].sure => query[q].answer = {}
        /\ query[q].owned => query[q].from # "static"

\* When the Admin stops writing, the key's caches come to agree with its record
\* and stay so, whatever was cached, lost or failed before (HTTP: unless a
\* lookup has brought an older record back).
KeysSettle ==
    <>[](strayed \/ /\ valid # Nil => /\ Refusal(key) = Nil
                                      /\ Redis => valid = key
                                      /\ valid.personal = key.personal
                    /\ invalid # Nil => Refusal(key) # Nil)

\* The layers the Admin's documents have for a model now.
LayersNow(m) == Candidates(AllScopes(docs, rev["policies"], m))

\* When the Admin stops writing, the cached policies come to be the ones its
\* documents make, and a model without any comes to be refused.
PoliciesSettle ==
    <>[](\A m \in Models : /\ good[m] # Nil => good[m].from = LayersNow(m)
                           /\ bad[m] => LayersNow(m) = <<>>)

\* What a name may stand for now.
Stands(n) ==
    LET has == AllKnownModels(src, KnownModels)
        same == {m \in has : Fold[m] = Fold[n]}
    IN  IF Redis /\ aliases[n] # Nil THEN {aliases[n]}
        ELSE IF StaticAlias(n) # Nil /\ StaticAlias(n) \in has THEN {StaticAlias(n)}
        ELSE IF n \in has \/ same = {} THEN {n} ELSE same

\* When the Admin stops writing, the source holds the endpoints Redis has, unless
\* a write came between the two commands that fetched endpoints and version, the
\* aliases stand for what they should, and over HTTP the last valid
\* configuration is in use (version polling of pkg/config/redis_source.go;
\* docs/adr/0005: version polling keeps the cache consistent).
ModelsSettle ==
    <>[](/\ \A n \in Name : /\ src.cache[n] # Nil /\ ~src.split[n] => src.cache[n] = eps[n]
                            /\ known[n] # Nil => known[n] \in Stands(n)
         /\ Http /\ ValidConfig(served) => static = served)

\* When the Admin stops writing, everything the gateway has cached of it comes to
\* agree with what it wrote last.
CachesSettle == KeysSettle /\ PoliciesSettle /\ ModelsSettle

\* What internal/service/policy.go says of the fallbacks it fills in ("if no
\* FallbackPolicy is configured after the merge, try the static Fallbacks"): a
\* policy without one of its own has the configuration's for its model, or none.
FallbackOfModel ==
    \A m \in Models : good[m] # Nil /\ good[m].policy.invocation.fallback = Nil =>
        Fallback(good[m].policy) \in {Nil, fallbacks[m]}
=============================================================================
