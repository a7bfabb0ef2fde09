--------------------------- MODULE MCControlPlane ---------------------------
(***************************************************************************)
(* Small instances of ControlPlane: one key, two models of policies, a     *)
(* model that is or becomes smart with two dependencies, an alias.  A      *)
(* scene says which backend is used and which parts are asked.             *)
(***************************************************************************)
EXTENDS ControlPlane, TLC

CONSTANTS a1, a2

Actors == {a1, a2}

(* ---------------------------------- keys --------------------------------- *)

Personal == [status |-> 1, credits |-> 2, personal |-> TRUE, expires |-> FALSE]
Tenants  == [status |-> 1, credits |-> 0, personal |-> FALSE, expires |-> TRUE]

SomeKeys == {Personal, [Personal EXCEPT !.status = 0], [Personal EXCEPT !.credits = -1], Tenants}

(* -------------------------------- policies ------------------------------- *)

Limit(type, windows, estimator) == [name |-> "rpm", type |-> type, windows |-> windows, estimator |-> estimator]
Break(name, level, threshold, metric) == [name |-> name, level |-> level, threshold |-> threshold, metric |-> metric]
Route(order, rules) == [name |-> "r", order |-> order, rules |-> rules]

Lower == [EmptyPolicy EXCEPT !.lb = "round_robin", !.limits = <<Limit("token", "1m", "ratio")>>,
              !.breaks = <<Break("b1", "SERVICE", "50", "ttft")>>, !.metrics = TRUE,
              !.routes = <<Route("2", "x")>>, !.permissions = {},
              !.tags = <<[name |-> "t", relation |-> "AND", actions |-> "x"]>>,
              !.invocation = [obj |-> Nil, fallback |-> Nil]]
Upper == [EmptyPolicy EXCEPT !.lb = "cost", !.limits = <<Limit(Nil, "1h", Nil)>>,
              !.breaks = <<Break("b2", Nil, "20", "ttft"), Break("b1", Nil, "30", "total")>>,
              !.routes = <<Route("1", Nil)>>,
              !.tags = <<[name |-> "t", relation |-> Nil, actions |-> "y"]>>,
              !.permissions = {"m1"}, !.invocation = [obj |-> Nil, fallback |-> <<"m2">>]]

Doc(p) == [policy |-> p, billing |-> Nil]
Billed == [policy |-> Nil, billing |-> "paid"]

SomeDocs == (<<"global", "*">> :> {Doc(Lower)}) @@ (<<"user", "m1">> :> {Doc(Upper), Billed})

(* --------------------------------- models -------------------------------- *)

Ranges(top) == <<[min |-> 0, max |-> 50, model |-> "d"], [min |-> 50, max |-> top, model |-> "e"]>>
Smart == [version |-> 1, judge |-> "d", ranges |-> Ranges(100)]
OpenEnded == [Smart EXCEPT !.ranges = Ranges(90)]

\* What SmartRoutingConfig.Validate asks of the ranges is that every score of the
\* judge falls into exactly one of them, in order: [min, max), the last one with
\* its end.
ASSUME RangesPartition ==
    LET bounds == {0, 50, 90, 100}
        inside(score, r) == r.min <= score /\ score < r.max + (IF r.max = Top THEN 1 ELSE 0)
    IN  \A n \in 1..3 : \A ranges \in [1..n -> [min : bounds, max : bounds]] :
            Partition(ranges) <=>
                /\ \A i \in 1..n : ranges[i].min < ranges[i].max
                /\ \A i, j \in 1..n : i < j => ranges[i].min < ranges[j].min
                /\ \A score \in UNION {{b, b + 1} : b \in bounds \ {Top}} \cup {Top} :
                       \E i \in 1..n : /\ inside(score, ranges[i])
                                       /\ \A j \in (1..n) \ {i} : ~inside(score, ranges[j])

AllNames == {"s", "d", "e", "S", "a", "A"}
Folded == [n \in AllNames |-> CASE n = "S" -> "s" [] n = "A" -> "a" [] OTHER -> n]

SomeSmart == [n \in AllNames |-> IF n = "s" THEN {Smart, OpenEnded} ELSE {Smart}]
NewList == {{"x2"}}

Ordinary(direct) == [type |-> "normal", doc |-> Nil, eps |-> direct, chat |-> FALSE]
Config(s) == [n \in AllNames |-> CASE n = "s" -> s [] n = "d" -> Ordinary({"y1"}) [] OTHER -> Nil]
StaticOrdinary == Config(Ordinary({"x1"}))
StaticSmartOne == Config([type |-> "smart", doc |-> Smart, eps |-> {}, chat |-> TRUE])
StaticBroken == Config([type |-> "smart", doc |-> OpenEnded, eps |-> {}, chat |-> TRUE])

SomeConfigs == {StaticOrdinary, StaticSmartOne, StaticBroken}

(* --------------------------------- scenes -------------------------------- *)

Base == [backend |-> "redis", parts |-> {}, actors |-> {a1}, maxFaults |-> 0, maxWrites |-> 1,
         maxDeductions |-> 0, key |-> Nil,
         caller |-> {"user", "tenant"}, local |-> <<>>, docs |-> <<>>,
         granted |-> [user |-> {}, tenant |-> {"m1"}], fallbacks |-> [m \in {"m1", "m2"} |-> <<>>],
         eps |-> <<>>, smart |-> <<>>, static |-> StaticOrdinary, aliases |-> <<>>, staticAliases |-> <<>>,
         torn |-> FALSE, ops |-> {}, names |-> {}, writable |-> {}, tenant |-> Nil]

Over(backend, scenes) == {[s EXCEPT !.backend = backend] : s \in scenes}

\* Two requests that pay; one that pays while the key is changed and a call fails,
\* with a balance that may come to -1; a tenant's key that lapses.
Spending == [Base EXCEPT !.parts = {"keys"}, !.key = Personal, !.actors = Actors, !.maxWrites = 0, !.maxFaults = 1,
                         !.maxDeductions = 5]
Changed  == [Base EXCEPT !.parts = {"keys"}, !.key = [Personal EXCEPT !.credits = 1], !.maxFaults = 1, !.maxDeductions = 1]
Lapsing  == [Base EXCEPT !.parts = {"keys"}, !.key = Tenants, !.actors = Actors]

KeyScenes == {Spending, Changed, Lapsing}

Layers == [Base EXCEPT !.parts = {"policies"}, !.docs = (<<"global", "*">> :> Doc(Lower)),
                       !.fallbacks = [m1 |-> <<"m2">>, m2 |-> <<>>]]

PolicyScenes == {[Layers EXCEPT !.maxFaults = 2],
                 [Layers EXCEPT !.actors = Actors, !.caller = {"user"}]}

Asked == [Base EXCEPT !.parts = {"models"}, !.ops = {"endpoints"}, !.names = {"s"}, !.writable = {"s"},
                      !.eps = ("s" :> {"x1"})]

\* Two requests for endpoints while the model changes; one whose fetch is
\* torn by a write; one while Redis fails and the model changes twice,
\* over a static definition that calls it smart; a dependency that becomes
\* smart; validation and aliases.
RedisModels ==
    {[Asked EXCEPT !.actors = Actors],
     [Asked EXCEPT !.torn = TRUE],
     [Asked EXCEPT !.maxFaults = 1, !.maxWrites = 2, !.static = StaticSmartOne],
     [Asked EXCEPT !.smart = ("s" :> Smart), !.writable = {"d"}, !.maxFaults = 1],
     [Asked EXCEPT !.ops = {"validate"}, !.names = {"s", "a"}, !.maxFaults = 1, !.tenant = {"s"},
                   !.staticAliases = ("a" :> "s")],
     [Asked EXCEPT !.ops = {"resolve"}, !.names = {"a", "A", "S"}, !.aliases = ("a" :> "d"), !.maxFaults = 1,
                   !.staticAliases = ("a" :> "s")]}

HttpModels ==
    {[Asked EXCEPT !.maxFaults = 1],
     [Asked EXCEPT !.ops = {"validate", "resolve"}, !.names = {"a", "A"}, !.staticAliases = ("a" :> "s")],
     [Asked EXCEPT !.ops = {"resolve"}, !.names = {"S"}, !.static = StaticSmartOne]}

ModelScenes == RedisModels \cup Over("http", HttpModels)

AllScenes ==
    KeyScenes \cup Over("http", {Changed, [Spending EXCEPT !.maxDeductions = 1], [Lapsing EXCEPT !.actors = {a1}]})
    \cup PolicyScenes \cup Over("http", PolicyScenes)
    \cup ModelScenes

\* Two models and one shared policy, over HTTP.
SharedPolicy == Over("http", {[Layers EXCEPT !.maxWrites = 0]})
=============================================================================
