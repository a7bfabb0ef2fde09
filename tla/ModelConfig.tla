---------------------------- MODULE ModelConfig ----------------------------
(***************************************************************************)
(* Which models exist, what they are and which endpoints serve them:       *)
(* RedisConfigSource with its version polling (pkg/config/redis_source.go),*)
(* ConfigManager over it and the static configuration                      *)
(* (pkg/config/config_manager.go), ModelService.ValidateModel and          *)
(* AliasService.Resolve (internal/service).                                *)
(*                                                                         *)
(* A query runs one of the operations                                      *)
(*   endpoints  ConfigManager.GetEndpoints(model)                          *)
(*   validate   ModelService.ValidateModel(model) for scene.tenant         *)
(*   resolve    AliasService.Resolve(model)                                *)
(* Each of them calls GetSmartRouting, once per goal.  Every round trip to *)
(* Redis and every critical section of the source is a step.               *)
(***************************************************************************)
EXTENDS ConfigSync

CONSTANTS
    Name,         \* model names and aliases
    SmartDocs,    \* [names -> documents the Admin may write for a model]
    EndpointSets, \* endpoint lists the Admin may write
    StaticConfigs, \* configurations the Admin may serve over HTTP
    Fold          \* [Name -> Name]: the name in one case

VARIABLES
    smart,    \* Redis, [Name -> smart-routing document or Nil]
    eps,      \* Redis, [Name -> endpoints or Nil]
    ver,      \* Redis, [Name -> version or 0]
    src,      \* RedisConfigSource: [cache, last, smart, err, managed]; history: split,
              \* the cached endpoints and their version are of different writes; told,
              \* a request was told that Redis makes the model a smart one
    served,   \* the static configuration the Admin serves (HTTP)
    static,   \* ConfigManager's static configuration
    aliases,  \* Redis, [Name -> Name or Nil]
    known,    \* AliasService's caches: [Name -> Nil or the name it stands for]
    check,    \* version poll: Nil or [name -> version read]
    query     \* [Actor -> the query]

INSTANCE SmartDoc WITH NoDoc <- Nil

modelVars == <<smart, eps, ver, src, served, static, aliases, known, check, query>>

NoQuery == [op |-> Nil, goal |-> Nil, at |-> "end", name |-> Nil, model |-> Nil, doc |-> Nil, bad |-> FALSE,
            ver |-> 0, list |-> Nil, split |-> FALSE, todo |-> {}, isKnown |-> FALSE, answer |-> Nil, from |-> Nil,
            sure |-> FALSE, owned |-> FALSE]

ModelsInit ==
    /\ smart = [n \in Name |-> IF n \in DOMAIN scene.smart THEN scene.smart[n] ELSE Nil]
    /\ eps = [n \in Name |-> IF n \in DOMAIN scene.eps THEN scene.eps[n] ELSE Nil]
    /\ ver = [n \in Name |-> IF n \in DOMAIN scene.eps \cup DOMAIN scene.smart THEN 1 ELSE 0]
    /\ src = [cache |-> [n \in Name |-> Nil], last |-> [n \in Name |-> Nil], smart |-> [n \in Name |-> Nil],
              err |-> [n \in Name |-> FALSE], managed |-> [n \in Name |-> FALSE], split |-> [n \in Name |-> FALSE],
              told |-> [n \in Name |-> FALSE]]
    /\ served = scene.static /\ static = scene.static
    /\ aliases = [n \in Name |-> IF n \in DOMAIN scene.aliases THEN scene.aliases[n] ELSE Nil]
    /\ known = [n \in Name |-> Nil]
    /\ check = Nil
    /\ query = [q \in Actor |-> NoQuery]

(* ---------------------------- GetSmartRouting ---------------------------- *)

\* A query turns to a goal: GetSmartRouting of a model is the way to it.
Toward(q, goal, m) ==
    [q EXCEPT !.goal = goal, !.model = m, !.at = "smart", !.doc = Nil, !.bad = FALSE, !.from = Nil]

\* The source has found out about a model: configured says that Redis owns it.
\* Redis owning a model that the static configuration calls smart is remembered.
Found(q, doc, bad, configured) ==
    [q EXCEPT !.doc = doc, !.bad = bad, !.todo = IF doc # Nil /\ ~bad THEN Dependencies(doc) ELSE {},
              !.at = IF ~configured THEN "static" ELSE IF bad \/ doc = Nil THEN "resolved" ELSE "nested"]

Owning(s, m, configured) ==
    IF configured /\ StaticSmart(static, m).doc # Nil THEN [s EXCEPT !.managed[m] = TRUE] ELSE s

\* The pipeline: document, version and the existence of endpoints.  Without a
\* Redis source the static configuration decides.
ReadSmart(q) ==
    LET m == query[q].model
    IN  /\ query[q].at = "smart"
        /\ query' = [query EXCEPT ![q] =
               IF ~Redis THEN [@ EXCEPT !.at = "static"]
               ELSE IF smart[m] = Nil THEN [@ EXCEPT !.at = "fill", !.isKnown = eps[m] # Nil, !.ver = 0]
               ELSE [@ EXCEPT !.doc = smart[m], !.ver = ver[m], !.bad = ~ValidDoc(m, smart[m]),
                              !.at = IF ValidDoc(m, smart[m]) THEN "deps" ELSE "fill"]]
        /\ UNCHANGED <<syncVars, smart, eps, ver, src, served, static, aliases, known, check>>

\* Redis does not answer: the last valid document, the last error, or what is
\* remembered of the ownership.  With neither document nor error the query is
\* not sure of a document any more.
ReadSmartFails(q) ==
    LET m == query[q].model
        held == src.smart[m] # Nil \/ src.err[m]
        configured == held \/ src.managed[m]
    IN  /\ Redis /\ query[q].at = "smart" /\ Fault
        /\ query' = [query EXCEPT ![q] = [Found(query[q], src.smart[m], src.smart[m] = Nil /\ src.err[m], configured)
                                          EXCEPT !.sure = @ /\ held]]
        /\ src' = Owning(src, m, configured)
        /\ UNCHANGED <<scene, writes, sub, inbox, rev, poll, smart, eps, ver, served, static, aliases, known, check>>

\* validateSmartDependencies of the source: no dependency has a document.
CheckDeps(q) ==
    /\ query[q].at = "deps"
    /\ query' = [query EXCEPT ![q].at = "fill", ![q].bad = \E d \in Dependencies(query[q].doc) : smart[d] # Nil]
    /\ UNCHANGED <<syncVars, smart, eps, ver, src, served, static, aliases, known, check>>

\* An error of Redis makes the document an invalid one.
CheckDepsFails(q) ==
    /\ query[q].at = "deps" /\ Fault
    /\ query' = [query EXCEPT ![q].at = "fill", ![q].bad = TRUE]
    /\ UNCHANGED <<scene, writes, sub, inbox, rev, poll, smart, eps, ver, src, served, static, aliases, known, check>>

\* What the source keeps of a reading, under its lock.
Absorb(s, m, doc, bad, version) ==
    IF doc = Nil THEN [s EXCEPT !.smart[m] = Nil, !.err[m] = FALSE]
    ELSE [s EXCEPT !.managed[m] = TRUE, !.last[m] = version, !.cache[m] = Nil,
                   !.smart[m] = IF bad THEN Nil ELSE doc, !.err[m] = bad]

FillSmart(q) ==
    LET r == query[q]
        configured == r.doc # Nil \/ r.isKnown \/ src.managed[r.model]
    IN  /\ r.at = "fill"
        /\ src' = Owning(Absorb(src, r.model, r.doc, r.bad, r.ver), r.model, configured)
        /\ query' = [query EXCEPT ![q] = [Found(r, r.doc, r.bad, configured) EXCEPT !.isKnown = FALSE]]
        /\ UNCHANGED <<syncVars, smart, eps, ver, served, static, aliases, known, check>>

\* Redis knows nothing of the model: its static definition.
ReadStatic(q) ==
    LET s == StaticSmart(static, query[q].model)
    IN  /\ query[q].at = "static"
        /\ query' = [query EXCEPT ![q] = [Found(@, s.doc, s.err, TRUE) EXCEPT !.from = "static"]]
        /\ UNCHANGED <<syncVars, smart, eps, ver, src, served, static, aliases, known, check>>

\* A whole GetSmartRouting of the source at once, as the loops over several
\* models make it: what it finds, and what the source keeps.
Invalid(m) == smart[m] # Nil /\ (~ValidDoc(m, smart[m]) \/ \E d \in Dependencies(smart[m]) : smart[d] # Nil)
Configured(s, m) == smart[m] # Nil \/ eps[m] # Nil \/ s.managed[m]
Glance(s, m) == Owning(Absorb(s, m, smart[m], Invalid(m), ver[m]), m, Configured(s, m))

\* A loop over several models: what is kept of one does not depend on the others.
GlanceAll(s, models) ==
    [f \in DOMAIN s |-> [n \in Name |-> IF n \in models THEN Glance(s, n)[f][n] ELSE s[f][n]]]

\* validateSmartDependencies of the manager, one dependency at a time: what
\* Redis, or else the static configuration, calls smart is refused.
Refused(q, yes, d) ==
    IF yes THEN [q EXCEPT !.bad = TRUE, !.todo = {}, !.at = "resolved"]
    ELSE [q EXCEPT !.todo = @ \ {d}, !.at = IF q.todo = {d} THEN "resolved" ELSE @]

CheckNested(q) ==
    /\ query[q].at = "nested"
    /\ \E d \in query[q].todo :
           /\ src' = IF Redis THEN Glance(src, d) ELSE src
           /\ query' = [query EXCEPT ![q] = Refused(@, IF Redis /\ Configured(src, d) THEN smart[d] # Nil
                                                     ELSE StaticSmart(static, d).doc # Nil, d)]
    /\ UNCHANGED <<syncVars, smart, eps, ver, served, static, aliases, known, check>>

CheckNestedFails(q) ==
    /\ Redis /\ query[q].at = "nested" /\ Fault
    /\ \E d \in query[q].todo :
           LET held == src.smart[d] # Nil \/ src.err[d]
           IN  /\ src' = Owning(src, d, held \/ src.managed[d])
               /\ query' = [query EXCEPT ![q] = Refused(@, IF held \/ src.managed[d] THEN held
                                                         ELSE StaticSmart(static, d).doc # Nil, d)]
    /\ UNCHANGED <<scene, writes, sub, inbox, rev, poll, smart, eps, ver, served, static, aliases, known, check>>

(* ------------------------------ the answers ------------------------------ *)

\* A query is answered; from says what the answer was taken from.
Answer(q, value, from) == [q EXCEPT !.at = "end", !.answer = value, !.from = from, !.doc = Nil, !.list = Nil]

\* HasModel is answered: what each caller does with it.  GetAlias takes the
\* target when it exists; ValidateModel goes on to the tenant; Resolve takes
\* the name for a real one.
HasModel(q, yes) ==
    CASE q.op = "validate" /\ q.goal = "alias" -> Toward(q, "check", IF yes THEN q.model ELSE q.name)
      [] q.op = "validate" /\ q.goal = "has"   -> [q EXCEPT !.isKnown = yes, !.at = "tenant"]
      [] q.op = "resolve" /\ q.goal = "alias"  -> IF yes THEN [q EXCEPT !.answer = q.model, !.at = "keep"]
                                                  ELSE Toward(q, "has", q.name)
      [] q.op = "resolve" /\ q.goal = "has"    -> IF yes THEN [q EXCEPT !.answer = Nil, !.at = "keep"]
                                                  ELSE [q EXCEPT !.at = "normal"]

\* Mutant: an invalid document counts as none.
ResolvedLenient(q) ==
    LET r == query[q]
        none == r.doc = Nil \/ r.bad
    IN  /\ r.at = "resolved"
        /\ query' = [query EXCEPT ![q] =
               CASE r.goal = "endpoints" -> IF none THEN [r EXCEPT !.at = "list"] ELSE Answer(r, {}, r.from)
                 [] r.goal = "check"     -> IF r.bad THEN Answer(r, "error", Nil) ELSE Toward(r, "has", r.model)
                 [] OTHER -> IF r.bad THEN HasModel(r, FALSE)
                             ELSE IF r.doc # Nil THEN HasModel(r, TRUE) ELSE [r EXCEPT !.at = "exists"]]
        /\ src' = IF r.goal = "endpoints" /\ ~none /\ r.from # "static" THEN [src EXCEPT !.told[r.model] = TRUE] ELSE src
        /\ UNCHANGED <<syncVars, smart, eps, ver, served, static, aliases, known, check>>

\* GetSmartRouting returns.  GetEndpoints has none to give for a smart or an
\* invalid model; HasModel says yes and no; ValidateModel passes the error on.
Resolved(q) ==
    LET r == query[q]
        none == r.doc = Nil /\ ~r.bad
    IN  /\ r.at = "resolved"
        /\ query' = [query EXCEPT ![q] =
               CASE r.goal = "endpoints" -> IF none THEN [r EXCEPT !.at = "list"] ELSE Answer(r, {}, r.from)
                 [] r.goal = "check"     -> IF r.bad THEN Answer(r, "error", Nil) ELSE Toward(r, "has", r.model)
                 [] OTHER -> IF r.bad THEN HasModel(r, FALSE)
                             ELSE IF r.doc # Nil THEN HasModel(r, TRUE) ELSE [r EXCEPT !.at = "exists"]]
        /\ src' = IF r.goal = "endpoints" /\ ~none /\ r.from # "static" THEN [src EXCEPT !.told[r.model] = TRUE] ELSE src
        /\ UNCHANGED <<syncVars, smart, eps, ver, served, static, aliases, known, check>>

\* RedisConfigSource.GetEndpoints: the cache first.  An empty list is a miss.
Listed(q, list) == IF list \in {Nil, {}} THEN [q EXCEPT !.at = "default"] ELSE Answer(q, list, "redis")

List(q) ==
    LET r == query[q]
    IN  /\ r.at = "list"
        /\ query' = [query EXCEPT ![q] = IF ~Redis THEN [r EXCEPT !.at = "default"]
                                         ELSE IF src.cache[r.model] # Nil THEN Listed(r, src.cache[r.model])
                                         ELSE [r EXCEPT !.at = "fetch"]]
        /\ UNCHANGED <<syncVars, smart, eps, ver, src, served, static, aliases, known, check>>

\* fetchFromRedis: the endpoints, then the version.  scene.torn: another client
\* may write between the two commands of the pipeline.
Fetch(q) ==
    LET m == query[q].model
    IN  /\ query[q].at = "fetch"
        /\ query' = [query EXCEPT ![q] =
               IF eps[m] = Nil THEN [@ EXCEPT !.at = "default"]
               ELSE [@ EXCEPT !.list = eps[m], !.ver = ver[m], !.split = FALSE, !.at = IF scene.torn THEN "version" ELSE "store"]]
        /\ UNCHANGED <<syncVars, smart, eps, ver, src, served, static, aliases, known, check>>

FetchFails(q) ==
    /\ query[q].at = "fetch" /\ Fault
    /\ query' = [query EXCEPT ![q].at = "default"]
    /\ UNCHANGED <<scene, writes, sub, inbox, rev, poll, smart, eps, ver, src, served, static, aliases, known, check>>

FetchVersion(q) ==
    /\ query[q].at = "version"
    /\ query' = [query EXCEPT ![q].ver = ver[query[q].model], ![q].at = "store",
                              ![q].split = ver[query[q].model] # query[q].ver]
    /\ UNCHANGED <<syncVars, smart, eps, ver, src, served, static, aliases, known, check>>

\* Mutant: the version is kept from the first fetch only.
StoreListOnce(q) ==
    LET r == query[q]
    IN  /\ r.at = "store"
        /\ src' = [src EXCEPT !.cache[r.model] = r.list, !.last[r.model] = IF @ = Nil THEN ver[r.model] ELSE @,
                         !.split[r.model] = r.split]
        /\ query' = [query EXCEPT ![q] = Listed(r, r.list)]
        /\ UNCHANGED <<syncVars, smart, eps, ver, served, static, aliases, known, check>>

StoreList(q) ==
    LET r == query[q]
    IN  /\ r.at = "store"
        /\ src' = [src EXCEPT !.cache[r.model] = r.list, !.last[r.model] = r.ver, !.split[r.model] = r.split]
        /\ query' = [query EXCEPT ![q] = Listed(r, r.list)]
        /\ UNCHANGED <<syncVars, smart, eps, ver, served, static, aliases, known, check>>

StaticEndpoints(m) == IF m \in DOMAIN Resolve(static) THEN Resolve(static)[m] ELSE {}

\* No endpoints in Redis: the static ones, unless Redis owns the model.
Default(q) ==
    LET r == query[q]
    IN  /\ r.at = "default"
        /\ query' = [query EXCEPT ![q] = IF Redis /\ src.managed[r.model] THEN Answer(r, {}, "owner")
                                         ELSE Answer(r, StaticEndpoints(r.model), "static")]
        /\ UNCHANGED <<syncVars, smart, eps, ver, src, served, static, aliases, known, check>>

(* ----------------------- HasModel and ValidateModel ---------------------- *)

\* The rest of HasModel for an ordinary model.
Exists(q) ==
    LET r == query[q]
        here == r.model \in DOMAIN Resolve(static)
    IN  /\ r.at = "exists"
        /\ query' = [query EXCEPT ![q] = HasModel(r, IF Redis THEN eps[r.model] # Nil \/ (~src.managed[r.model] /\ here)
                                                     ELSE here)]
        /\ UNCHANGED <<syncVars, smart, eps, ver, src, served, static, aliases, known, check>>

\* Redis does not answer: as if it had no endpoints.
ExistsFails(q) ==
    LET r == query[q]
    IN  /\ Redis /\ r.at = "exists" /\ Fault
        /\ query' = [query EXCEPT ![q] = HasModel(r, ~src.managed[r.model] /\ r.model \in DOMAIN Resolve(static))]
        /\ UNCHANGED <<scene, writes, sub, inbox, rev, poll, smart, eps, ver, src, served, static, aliases, known, check>>

\* ValidateModel for a tenant with a set of models, a tenant without one, or no
\* tenant.  A model the manager does not know may still have endpoints in Redis.
Tenant(q) ==
    LET r == query[q]
        member == scene.tenant = Nil \/ r.model \in scene.tenant
    IN  /\ r.at = "tenant"
        /\ query' = [query EXCEPT ![q] = IF ~Redis THEN Answer(r, r.isKnown, Nil)
                                         ELSE IF ~member THEN Answer(r, FALSE, Nil)
                                         ELSE IF r.isKnown THEN Answer(r, TRUE, Nil) ELSE [r EXCEPT !.at = "again"]]
        /\ UNCHANGED <<syncVars, smart, eps, ver, src, served, static, aliases, known, check>>

\* Without Redis the manager's answer stands, for a tenant; the second look
\* finds nothing.
TenantFails(q) ==
    LET r == query[q]
    IN  /\ Redis /\ Fault
        /\ \/ r.at = "tenant" /\ query' = [query EXCEPT ![q] = Answer(r, r.isKnown, Nil)]
           \/ r.at = "again" /\ query' = [query EXCEPT ![q] = Answer(r, FALSE, Nil)]
        /\ UNCHANGED <<scene, writes, sub, inbox, rev, poll, smart, eps, ver, src, served, static, aliases, known, check>>

SecondLook(q) ==
    /\ query[q].at = "again"
    /\ query' = [query EXCEPT ![q] = Answer(@, eps[query[q].model] # Nil, Nil)]
    /\ UNCHANGED <<syncVars, smart, eps, ver, src, served, static, aliases, known, check>>

(* --------------------------------- aliases ------------------------------- *)

\* The target GetAlias tries: that of the alias itself, or of one that differs in
\* case only.
StaticAlias(n) ==
    LET exact == {a \in DOMAIN scene.staticAliases : a = n}
        same  == {a \in DOMAIN scene.staticAliases : Fold[a] = Fold[n]}
        from  == IF exact # {} THEN exact ELSE same
    IN  IF from = {} THEN Nil ELSE scene.staticAliases[CHOOSE a \in from : TRUE]

\* AliasService.Resolve past its cache: Redis, then GetAlias of the manager.
ReadAlias(q) ==
    LET r == query[q]
    IN  /\ r.at = "alias"
        /\ query' = [query EXCEPT ![q] =
               IF Redis /\ aliases[r.name] # Nil THEN [r EXCEPT !.answer = aliases[r.name], !.at = "keep"]
               ELSE IF StaticAlias(r.name) # Nil THEN Toward(r, "alias", StaticAlias(r.name))
               ELSE Toward(r, "has", r.name)]
        /\ UNCHANGED <<syncVars, smart, eps, ver, src, served, static, aliases, known, check>>

\* The request fails; nothing is cached.
ReadAliasFails(q) ==
    /\ Redis /\ query[q].at = "alias" /\ Fault
    /\ query' = [query EXCEPT ![q] = Answer(@, "error", Nil)]
    /\ UNCHANGED <<scene, writes, sub, inbox, rev, poll, smart, eps, ver, src, served, static, aliases, known, check>>

\* KnownModels of the source: the models with a version and a document.
KnownModels == {n \in Name : ver[n] > 0 /\ (eps[n] # Nil \/ smart[n] # Nil)}

\* ... or, when the list of versions cannot be read, those the source holds
\* something of.
CachedModels == {n \in Name : src.cache[n] # Nil \/ src.smart[n] # Nil}

\* AllKnownModels of the manager, given what the source lists and has seen: the
\* static models and those of Redis that HasModel confirms.
AllKnownModels(seen, listed) ==
    LET here == DOMAIN Resolve(static)
    IN  IF ~Redis THEN here
        ELSE {m \in here \cup listed :
                 ~Invalid(m) /\ (smart[m] # Nil \/ eps[m] # Nil \/ (~seen.managed[m] /\ m \in here))}

\* NormalizeModelCode: a known model whose name differs in case only.  All known
\* models are looked at, and the source keeps what it sees of them.
NormalizeModelCode(q, listed) ==
    LET r == query[q]
        seen == IF Redis THEN GlanceAll(src, DOMAIN Resolve(static) \cup listed) ELSE src
        same == {m \in AllKnownModels(seen, listed) : Fold[m] = Fold[r.name]}
    IN  /\ r.at = "normal"
        /\ src' = seen
        /\ \/ same = {} /\ query' = [query EXCEPT ![q] = [r EXCEPT !.answer = Nil, !.at = "keep"]]
           \/ \E m \in same : query' = [query EXCEPT ![q] = [r EXCEPT !.answer = m, !.at = "keep"]]
        /\ UNCHANGED <<smart, eps, ver, served, static, aliases, known, check>>

Normalize(q) == NormalizeModelCode(q, KnownModels) /\ UNCHANGED syncVars

NormalizeFails(q) ==
    /\ Redis /\ NormalizeModelCode(q, CachedModels) /\ Fault
    /\ UNCHANGED <<scene, writes, sub, inbox, rev, poll>>

\* A name that stands for nothing else is kept as such in the negative cache.
KeepAlias(q) ==
    LET r == query[q]
        to == IF r.answer = Nil THEN r.name ELSE r.answer
    IN  /\ r.at = "keep"
        /\ known' = [known EXCEPT ![r.name] = to]
        /\ query' = [query EXCEPT ![q] = Answer(r, to, Nil)]
        /\ UNCHANGED <<syncVars, smart, eps, ver, src, served, static, aliases, check>>

(* ----------------------------- start and poll ---------------------------- *)

\* A request, at one of the places where it asks about its model.
StartQuery(q) ==
    /\ query[q].at = "end"
    /\ \E op \in scene.ops, n \in scene.names :
           LET r == [NoQuery EXCEPT !.op = op, !.name = n, !.sure = Redis /\ smart[n] # Nil,
                                    !.owned = Redis /\ src.told[n]]
           IN  query' = [query EXCEPT ![q] =
                   CASE op = "endpoints" -> Toward(r, "endpoints", n)
                     [] op = "validate"  -> IF StaticAlias(n) # Nil THEN Toward(r, "alias", StaticAlias(n))
                                            ELSE Toward(r, "check", n)
                     [] op = "resolve"   -> IF known[n] # Nil THEN Answer(r, known[n], Nil)
                                            ELSE [r EXCEPT !.at = "alias"]]
    /\ UNCHANGED <<syncVars, smart, eps, ver, src, served, static, aliases, known, check>>

QueryStep(q) ==
    \/ StartQuery(q) \/ ReadSmart(q) \/ CheckDeps(q) \/ FillSmart(q) \/ ReadStatic(q) \/ CheckNested(q)
    \/ Resolved(q) \/ List(q) \/ Fetch(q) \/ FetchVersion(q) \/ StoreList(q) \/ Default(q)
    \/ Exists(q) \/ Tenant(q) \/ SecondLook(q) \/ ReadAlias(q) \/ Normalize(q) \/ KeepAlias(q)

QueryFails(q) ==
    \/ ReadSmartFails(q) \/ CheckDepsFails(q) \/ CheckNestedFails(q) \/ FetchFails(q)
    \/ ExistsFails(q) \/ TenantFails(q) \/ ReadAliasFails(q) \/ NormalizeFails(q)

\* checkVersion asks for the versions of the models it holds one for ...
ReadVersions ==
    /\ Redis /\ check = Nil /\ \E n \in Name : src.last[n] # Nil
    /\ check' = [n \in {x \in Name : src.last[x] # Nil} |-> ver[n]]
    /\ UNCHANGED <<syncVars, smart, eps, ver, src, served, static, aliases, known, query>>

\* ... and forgets the models whose version is another by now.
Evict ==
    LET moved == {n \in DOMAIN check : check[n] # src.last[n]}
        drop(f, none) == [n \in Name |-> IF n \in moved THEN none ELSE f[n]]
    IN  /\ check # Nil
        /\ src' = [src EXCEPT !.cache = drop(@, Nil), !.smart = drop(@, Nil), !.err = drop(@, FALSE),
                              !.last = drop(@, Nil)]
        /\ check' = Nil
        /\ UNCHANGED <<syncVars, smart, eps, ver, served, static, aliases, known, query>>

ExpireAlias(n) ==
    /\ known[n] # Nil /\ known' = [known EXCEPT ![n] = Nil]
    /\ UNCHANGED <<syncVars, smart, eps, ver, src, served, static, aliases, check, query>>

(* -------------------------------- the Admin ------------------------------ *)

\* A write to a model bumps its version; a model with neither document is gone,
\* with its version.  Versions are not used twice.
WriteModel ==
    /\ Redis /\ writes < scene.maxWrites /\ writes' = writes + 1
    /\ \E m \in scene.writable :
           \E doc \in SmartDocs[m] \cup {Nil}, list \in EndpointSets \cup {Nil} :
               /\ <<doc, list>> # <<smart[m], eps[m]>>
               /\ smart' = [smart EXCEPT ![m] = doc] /\ eps' = [eps EXCEPT ![m] = list]
               /\ ver' = [ver EXCEPT ![m] = IF doc = Nil /\ list = Nil THEN 0 ELSE writes + 2]
               /\ query' = [q \in Actor |-> IF query[q].name = m THEN [query[q] EXCEPT !.sure = FALSE] ELSE query[q]]
    /\ UNCHANGED <<scene, faults, sub, inbox, rev, poll, src, served, static, aliases, known, check>>

WriteAlias ==
    /\ Redis /\ writes < scene.maxWrites /\ writes' = writes + 1
    /\ \E n \in DOMAIN scene.aliases, m \in Name \cup {Nil} : m # aliases[n] /\ aliases' = [aliases EXCEPT ![n] = m]
    /\ UNCHANGED <<scene, faults, sub, inbox, rev, poll, smart, eps, ver, src, served, static, known, check, query>>

WriteConfig ==
    /\ Http /\ \E cfg \in StaticConfigs : cfg # served /\ served' = cfg
    /\ AdminWrites("config", "none")
    /\ UNCHANGED <<smart, eps, ver, src, static, aliases, known, check, query>>

\* ConfigManager.UpdateYAMLConfig.
UpdateYAMLConfig(cfg) == static' = cfg
============================================================================
