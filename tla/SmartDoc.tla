------------------------------ MODULE SmartDoc ------------------------------
(***************************************************************************)
(* Smart-routing documents and the static configuration that may contain   *)
(* them (pkg/core/smart_routing_config.go, pkg/config/smart_routing.go,    *)
(* pkg/config/loader.go), as pure operators.                               *)
(*                                                                         *)
(* A document is [version, judge, ranges], a range [min, max, model]; a    *)
(* document that does not decode has version 0.  A static configuration    *)
(* maps models to Nil or [type, doc, eps, chat]: model_type,               *)
(* smart_routing, the direct endpoints and whether the request types are   *)
(* chat completion only.  Names are compared as they are: the model has    *)
(* no two names that differ in case only, except where it says so.         *)
(***************************************************************************)
EXTENDS Integers, Sequences, FiniteSets

CONSTANT NoDoc   \* no document, no model

\* The top of the score scale.
Top == 100

\* The ranges follow one another from 0 to the top.
Partition(ranges) ==
    /\ \A i \in DOMAIN ranges :
           /\ ranges[i].min = IF i = 1 THEN 0 ELSE ranges[i - 1].max
           /\ ranges[i].max <= Top /\ ranges[i].min < ranges[i].max
    /\ ranges # <<>> => ranges[Len(ranges)].max = Top

Targets(doc) == {doc.ranges[i].model : i \in DOMAIN doc.ranges}
Dependencies(doc) == {doc.judge} \cup Targets(doc)

\* SmartRoutingConfig.Validate.
ValidDoc(m, doc) ==
    /\ doc # NoDoc
    /\ doc.version >= 1
    /\ m \notin Dependencies(doc) /\ "" \notin Dependencies(doc)
    /\ Len(doc.ranges) >= 2 /\ Cardinality(Targets(doc)) >= 2
    /\ Partition(doc.ranges)

\* modelSmartRouting: "error", NoDoc for an ordinary model, or the document.
StaticSmart(cfg, m) ==
    IF cfg[m] = NoDoc THEN [err |-> FALSE, doc |-> NoDoc]
    ELSE IF cfg[m].type = "normal" THEN [err |-> cfg[m].doc # NoDoc, doc |-> NoDoc]
    ELSE IF /\ cfg[m].type = "smart" /\ cfg[m].eps = {} /\ cfg[m].chat
            /\ ValidDoc(m, cfg[m].doc)
            /\ \A d \in Dependencies(cfg[m].doc) \cap DOMAIN cfg : cfg[d] = NoDoc \/ cfg[d].type # "smart"
    THEN [err |-> FALSE, doc |-> cfg[m].doc]
    ELSE [err |-> TRUE, doc |-> NoDoc]

\* Validate, as far as it looks at smart routing: one bad model rejects all.
ValidConfig(cfg) == \A m \in DOMAIN cfg : ~StaticSmart(cfg, m).err

\* Resolve: the endpoints of the models that are in order; a smart model has none.
Resolve(cfg) == [m \in {x \in DOMAIN cfg : cfg[x] # NoDoc /\ ~StaticSmart(cfg, x).err} |-> cfg[m].eps]
=============================================================================
