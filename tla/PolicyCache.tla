---------------------------- MODULE PolicyCache ----------------------------
(***************************************************************************)
(* The policy of a request (internal/service/policy.go): the documents the *)
(* Admin keeps per scope and model, the HTTP provider's copy of them, the  *)
(* two caches of PolicyService and the lookups that fill them.             *)
(*                                                                         *)
(* A document is [policy, billing]: the two fields of a Redis hash that    *)
(* make up one policy.  Its place is <<scope, model>>.  An invocation      *)
(* policy is a pointer: [obj, fallback], where obj is the object that      *)
(* holds it and filled gives the fallback written into an object later.    *)
(***************************************************************************)
EXTENDS ConfigSync, Functions

CONSTANTS
    Models,      \* models the lookups ask for
    PolicyDocs   \* [place -> documents the Admin may write there]

VARIABLES
    docs,      \* [place -> document or Nil]
    granted,   \* [{"user", "tenant"} -> the set of models granted to the caller]
    fallbacks, \* [Models -> Seq of models]: gateway configuration, fallbacks
    list,      \* the HTTP provider's cachedPolicies: [docs, rev], without documents at first
    cfgCopy,   \* the HTTP provider's cachedConfig: Nil or its fallbacks
    filled,    \* [object -> fallback written into it]
    good,      \* validCache: [Models -> Nil or [policy, from]]
    bad,       \* invalidCache: [Models -> BOOLEAN]
    look       \* [Actor -> the lookup]

INSTANCE PolicyMerge WITH NoValue <- Nil

policyVars == <<docs, granted, fallbacks, list, cfgCopy, filled, good, bad, look>>

Scopes == <<"user", "tenant", "model", "global">>
Places == DOMAIN PolicyDocs

\* The dimension a policy of a place counts as; a later one replaces an earlier
\* one: global policies of the model come after those of the model's own hash.
Dimension(place) ==
    CASE place[1] = "model" -> "model"
      [] place[1] = "global" -> IF place[2] = "*" THEN "global" ELSE "model"
      [] OTHER -> IF place[2] = "*" THEN place[1] ELSE place[1] \o "_model"

Dimensions == {"global", "tenant", "user", "model", "tenant_model", "user_model"}

NoItems == [d \in Dimensions |-> Nil]

\* The default priority chain, lowest first.
PriorityChain == <<"global", "tenant", "user", "model", "tenant_model", "user_model">>

DocumentAt(all, place) == IF place \in DOMAIN all THEN all[place] ELSE Nil

\* The policy of a document: the billing field goes into it, or stands alone.
Compose(doc) ==
    IF doc = Nil \/ (doc.policy = Nil /\ doc.billing = Nil) THEN Nil
    ELSE LET p == IF doc.policy = Nil THEN EmptyPolicy ELSE doc.policy
         IN  [p EXCEPT !.billing = Later(@, doc.billing)]

\* An object of the provider's list is shared by all who read it; one decoded
\* from Redis is not.
Owned(p, version, place) ==
    IF p = Nil \/ p.invocation = Nil THEN p
    ELSE [p EXCEPT !.invocation.obj = IF Http THEN <<version, place>> ELSE Nil]

\* The item of a place, when there is one, put into its dimension.
Put(items, all, version, place) ==
    LET p == Compose(DocumentAt(all, place))
    IN  IF p = Nil THEN items ELSE [items EXCEPT ![Dimension(place)] = Owned(p, version, place)]

\* The items of one scope: those of the model, then those of all models.  A
\* caller without the identity has none.
Classified(items, all, version, scope, m) ==
    CASE scope \in {"user", "tenant"} \ scene.caller -> items
      [] scope = "model" -> Put(items, all, version, <<"model", m>>)
      [] OTHER -> Put(Put(items, all, version, <<scope, m>>), all, version, <<scope, "*">>)

AllScopes(all, version, m) ==
    LET upTo[i \in 0..Len(Scopes)] ==
            IF i = 0 THEN NoItems ELSE Classified(upTo[i - 1], all, version, Scopes[i], m)
    IN  upTo[Len(Scopes)]

\* The layers of a lookup, lowest first; the local policies when it found none.
Candidates(items) ==
    LET found == SelectSeq([i \in DOMAIN PriorityChain |-> items[PriorityChain[i]]], LAMBDA p : p # Nil)
    IN  IF found = <<>> THEN scene.local ELSE found

Idle == [at |-> "end", model |-> Nil, items |-> NoItems, policy |-> Nil, from |-> <<>>, merged |-> 0]

PoliciesInit ==
    /\ docs = [p \in Places |-> IF p \in DOMAIN scene.docs THEN scene.docs[p] ELSE Nil]
    /\ granted = scene.granted
    /\ fallbacks = scene.fallbacks
    /\ list = [docs |-> <<>>, rev |-> 0] /\ cfgCopy = Nil /\ filled = <<>>
    /\ good = [m \in Models |-> Nil] /\ bad = [m \in Models |-> FALSE]
    /\ look = [q \in Actor |-> Idle]

(* ------------------------------- GetPolicy ------------------------------- *)

\* A request asks for its policy: the negative cache, the cache, else a lookup.
StartLookup(q) ==
    /\ look[q].at = "end"
    /\ \E m \in Models :
           /\ ~bad[m] /\ good[m] = Nil
           /\ look' = [look EXCEPT ![q] = [Idle EXCEPT !.at = "user", !.model = m]]
    /\ UNCHANGED <<syncVars, docs, granted, fallbacks, list, cfgCopy, filled, good, bad>>

NextScope(scope) ==
    CASE scope = "user" -> "tenant" [] scope = "tenant" -> "model" [] scope = "model" -> "global"
      [] scope = "global" -> "match"

\* GetPolicies in Redis mode: one pipelined HMGET per scope, each atomic on its
\* own.
ReadScope(q) ==
    /\ Redis /\ look[q].at \in Range(Scopes)
    /\ look' = [look EXCEPT ![q].at = NextScope(@),
                            ![q].items = Classified(@, docs, 0, look[q].at, look[q].model)]
    /\ UNCHANGED <<syncVars, docs, granted, fallbacks, list, cfgCopy, filled, good, bad>>

\* The pipeline breaks: the scopes not yet read count as empty.
ReadScopeFails(q) ==
    /\ Redis /\ look[q].at \in Range(Scopes) /\ Fault
    /\ look' = [look EXCEPT ![q].at = "match"]
    /\ UNCHANGED <<scene, writes, sub, inbox, rev, poll, docs, granted, fallbacks, list, cfgCopy, filled, good, bad>>

\* GetPolicies in HTTP mode: the provider's list, all at once.
ReadList(q) ==
    /\ Http /\ look[q].at = "user"
    /\ look' = [look EXCEPT ![q].at = "match", ![q].items = AllScopes(list.docs, list.rev, look[q].model)]
    /\ UNCHANGED <<syncVars, docs, granted, fallbacks, list, cfgCopy, filled, good, bad>>

\* Match.  No policy at all goes to the negative cache.
Match(q) ==
    LET layers == Candidates(look[q].items)
    IN  /\ look[q].at = "match"
        /\ IF layers = <<>>
           THEN bad' = [bad EXCEPT ![look[q].model] = TRUE] /\ look' = [look EXCEPT ![q] = Idle]
           ELSE /\ look' = [look EXCEPT ![q].policy = EmptyPolicy, ![q].from = layers, ![q].items = NoItems,
                                        ![q].at = "merge"]
                /\ UNCHANGED bad
        /\ UNCHANGED <<syncVars, docs, granted, fallbacks, list, cfgCopy, filled, good>>

\* MergePolicies, a layer at a time; merged counts them.
Merge(q) ==
    LET n == look[q].merged + 1
    IN  /\ look[q].at = "merge"
        /\ \E p \in {MergeLayer(look[q].policy, look[q].from[n])} :
               look' = [look EXCEPT ![q].policy = p,
                            ![q].merged = IF n = Len(look[q].from) THEN 0 ELSE n,
                            ![q].at = IF n < Len(look[q].from) THEN "merge"
                                      ELSE IF p.permissions \in {Nil, {}} THEN "models" ELSE "config"]
        /\ UNCHANGED <<syncVars, docs, granted, fallbacks, list, cfgCopy, filled, good, bad>>

\* The permissions a policy without any is given: the models granted to the
\* user, to the tenant, or all of them.
Permissions(user, tenant) ==
    LET own == IF "user" \in scene.caller THEN user ELSE {}
        all == IF own = {} /\ "tenant" \in scene.caller THEN tenant ELSE own
    IN  IF all = {} THEN {"*"} ELSE all

\* GetUserModels and GetTenantModels; in HTTP mode they answer "*".
FillPermissions(q) ==
    /\ look[q].at = "models"
    /\ look' = [look EXCEPT ![q].at = "config",
           ![q].policy.permissions = IF Http THEN Permissions({"*"}, {"*"})
                                     ELSE Permissions(granted["user"], granted["tenant"])]
    /\ UNCHANGED <<syncVars, docs, granted, fallbacks, list, cfgCopy, filled, good, bad>>

\* A failed SMEMBERS counts as an empty set, a failure of both grants all.
FillPermissionsFails(q) ==
    /\ Redis /\ look[q].at = "models" /\ Fault
    /\ \E user \in {{}, granted["user"]}, tenant \in {{}, granted["tenant"]} :
           look' = [look EXCEPT ![q].at = "config", ![q].policy.permissions = Permissions(user, tenant)]
    /\ UNCHANGED <<scene, writes, sub, inbox, rev, poll, docs, granted, fallbacks, list, cfgCopy, filled, good, bad>>

\* The fallback an invocation policy shows: its own, or one written into the object.
Fallback(p) ==
    IF p.invocation = Nil THEN Nil
    ELSE IF p.invocation.fallback # Nil THEN p.invocation.fallback
    ELSE IF p.invocation.obj \in DOMAIN filled THEN filled[p.invocation.obj] ELSE Nil

\* A policy without a fallback is given the configuration's for its model.  The
\* invocation policy is the merged one's pointer: when it came with the
\* provider's list or the local policies, the shared object is written to.
FillFallback(q) ==
    LET p   == look[q].policy
        new == IF Http /\ cfgCopy # Nil /\ Fallback(p) = Nil /\ cfgCopy[look[q].model] # <<>>
               THEN cfgCopy[look[q].model] ELSE Nil
    IN  /\ look[q].at = "config"
        /\ look' = [look EXCEPT ![q].at = "add",
               ![q].policy.invocation = IF @ = Nil THEN [obj |-> Nil, fallback |-> new] ELSE @]
        /\ filled' = IF p.invocation = Nil \/ new = Nil THEN filled
                     ELSE [o \in DOMAIN filled \cup {p.invocation.obj} |->
                               IF o = p.invocation.obj THEN new ELSE filled[o]]
        /\ UNCHANGED <<syncVars, docs, granted, fallbacks, list, cfgCopy, good, bad>>

Add(q) ==
    /\ look[q].at = "add"
    /\ good' = [good EXCEPT ![look[q].model] = [policy |-> look[q].policy, from |-> look[q].from]]
    /\ look' = [look EXCEPT ![q] = Idle]
    /\ UNCHANGED <<syncVars, docs, granted, fallbacks, list, cfgCopy, filled, bad>>

LookupStep(q) ==
    \/ StartLookup(q) \/ ReadScope(q) \/ ReadList(q) \/ Match(q) \/ Merge(q) \/ FillPermissions(q) \/ FillFallback(q) \/ Add(q)

(* --------------------------- time and the Admin -------------------------- *)

ExpirePolicy(m) ==
    /\ good[m] # Nil /\ good' = [good EXCEPT ![m] = Nil]
    /\ UNCHANGED <<syncVars, docs, granted, fallbacks, list, cfgCopy, filled, bad, look>>

ExpireMiss(m) ==
    /\ bad[m] /\ bad' = [bad EXCEPT ![m] = FALSE]
    /\ UNCHANGED <<syncVars, docs, granted, fallbacks, list, cfgCopy, filled, good, look>>

WritePolicy ==
    /\ \E place \in Places : \E doc \in PolicyDocs[place] \cup {Nil} :
           docs[place] # doc /\ docs' = [docs EXCEPT ![place] = doc]
    /\ AdminWrites("policies", "policy_update")
    /\ UNCHANGED <<granted, fallbacks, list, cfgCopy, filled, good, bad, look>>

\* PolicyService.PurgeCache.
PurgePolicies == good' = [m \in Models |-> Nil] /\ bad' = [m \in Models |-> FALSE]

\* UpdatePolicies: the new list is new objects.
UpdatePolicies == list' = [docs |-> poll.body, rev |-> poll.rev]

\* UpdateConfig of the provider, the part the policies use.
UpdateFallbacks(config) == cfgCopy' = config
============================================================================
