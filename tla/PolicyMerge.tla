---------------------------- MODULE PolicyMerge ----------------------------
(***************************************************************************)
(* The field-wise merge of policies (pkg/policy/policy.go).  A policy is   *)
(*   [lb, billing, invocation, limits, routes, breaks, tags, permissions,  *)
(*    metrics]                                                             *)
(* with Nil for what a policy does not set, sequences of named items in    *)
(* the four lists and a Boolean in metrics.  An item is a record with a    *)
(* name and Nil for a field that has its zero value.                       *)
(***************************************************************************)
EXTENDS Integers, Sequences, FiniteSets, FiniteSetsExt

CONSTANT NoValue   \* the nil of the fields

EmptyPolicy ==
    [lb |-> NoValue, billing |-> NoValue, invocation |-> NoValue, limits |-> <<>>, routes |-> <<>>,
     breaks |-> <<>>, tags |-> <<>>, permissions |-> NoValue, metrics |-> FALSE]

\* The later value when there is one.
Later(old, new) == IF new # NoValue THEN new ELSE old


\* Two items of one name: the fields the merge copies are overridden where the
\* source sets them; a field it does not copy is lost.
Override(copied, target, source) ==
    [f \in DOMAIN target |-> IF f = "name" THEN target.name
                             ELSE IF f \in copied THEN Later(target[f], source[f]) ELSE NoValue]

\* The fields each merge copies.  A limit's estimator is not among them and is
\* lost; a breaker starts from the lower item, so the fields its merge leaves
\* out (slow_call_metric, error_messages, message_policy) stay the lower item's.
LimitFields == {"type", "windows"}
RouteFields == {"order", "rules"}
BreakFields == {"level", "threshold"}
TagFields   == {"relation", "actions"}

mergeLimitPolicy(target, source) == Override(LimitFields, target, source)
mergeRoutePolicy(target, source) == Override(RouteFields, target, source)
mergeCircuitBreakPolicy(target, source) ==
    [f \in DOMAIN target |-> IF f \in BreakFields THEN Later(target[f], source[f]) ELSE target[f]]
mergeTaggingPolicy(target, source) == Override(TagFields, target, source)

\* The merge of two items of one name in the lists of one kind.
MergeItem(kind, target, source) ==
    CASE kind = "limits" -> mergeLimitPolicy(target, source)
      [] kind = "routes" -> mergeRoutePolicy(target, source)
      [] kind = "breaks" -> mergeCircuitBreakPolicy(target, source)
      [] kind = "tags"   -> mergeTaggingPolicy(target, source)

Names(items) == {items[i].name : i \in DOMAIN items}

\* The name-based merge of two lists.  The map holds per name the last item of
\* the lower list with the upper list's items merged in; the result follows the
\* order of the lower list, then that of the upper one, and shows a name as
\* often as the list that brought it does.
MergeNamed(kind, lower, upper) ==
    LET of(name, items) == SelectSeq(items, LAMBDA x : x.name = name)
        last(name) == lower[Max({i \in DOMAIN lower : lower[i].name = name})]
        entry(name) == LET chain == (IF name \in Names(lower) THEN <<last(name)>> ELSE <<>>) \o of(name, upper)
                           upTo[k \in 1..Len(chain)] == IF k = 1 THEN chain[1] ELSE MergeItem(kind, upTo[k - 1], chain[k])
                       IN  upTo[Len(chain)]
        added == SelectSeq(upper, LAMBDA x : x.name \notin Names(lower))
    IN  IF upper = <<>> THEN lower
        ELSE [i \in DOMAIN lower |-> entry(lower[i].name)] \o [i \in DOMAIN added |-> entry(added[i].name)]

\* MergePolicies, from an empty policy: one layer over what is merged so far.
MergeLayer(result, p) ==
    [lb |-> Later(result.lb, p.lb), billing |-> Later(result.billing, p.billing),
     invocation |-> Later(result.invocation, p.invocation),
     limits |-> MergeNamed("limits", result.limits, p.limits),
     routes |-> MergeNamed("routes", result.routes, p.routes),
     breaks |-> MergeNamed("breaks", result.breaks, p.breaks),
     tags |-> MergeNamed("tags", result.tags, p.tags),
     permissions |-> Later(result.permissions, p.permissions),
     metrics |-> result.metrics \/ p.metrics]

(* ------------------------------- reference ------------------------------- *)

\* The value of the highest layer that gives one, of those for which it is not nil.
Highest(layers, value(_)) ==
    LET set == {i \in DOMAIN layers : value(layers[i]) # NoValue}
    IN  IF set = {} THEN NoValue ELSE value(layers[CHOOSE i \in set : \A j \in set : j <= i])

\* The item a list holds under a name, as the layer shows it on its own.
Held(items, name) == items[CHOOSE i \in DOMAIN items : items[i].name = name]

\* A merged list is right when it names what some layer names, once, what a lower
\* layer names first, and the fields of an item are: a copied one that of the
\* highest layer that sets it; another one that of the lowest layer with the item
\* where the merge starts from the lower item, else that of the only layer with
\* the item, and lost when there are two.
ListMerged(layers, list(_), copied, fromLower, result) ==
    LET naming(name) == {i \in DOMAIN layers : name \in Names(list(layers[i]))}
        first(name) == Min(naming(name))
    IN  /\ Names(result) = UNION {Names(list(layers[i])) : i \in DOMAIN layers}
        /\ Cardinality(Names(result)) = Len(result)
        /\ \A i, j \in DOMAIN result : i < j => first(result[i].name) <= first(result[j].name)
        /\ \A i \in DOMAIN result : \A f \in DOMAIN result[i] \ {"name"} :
               LET name == result[i].name
               IN  result[i][f] =
                       IF f \in copied
                       THEN Highest(layers, LAMBDA p : IF name \in Names(list(p)) THEN Held(list(p), name)[f] ELSE NoValue)
                       ELSE IF fromLower \/ Cardinality(naming(name)) = 1
                       THEN Held(list(layers[first(name)]), name)[f] ELSE NoValue
============================================================================
