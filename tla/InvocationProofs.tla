-------------------------- MODULE InvocationProofs --------------------------
(***************************************************************************)
(* What holds of every request, for any fleet, any scenarios and any       *)
(* number of moves of the environment: no attempt and no model follows the *)
(* first byte, the calls of an invocation stay within the retry policy or  *)
(* are the two of a race, a further model is tried only when one ran out   *)
(* of endpoints, and smart routing never goes down.                        *)
(*                                                                         *)
(* Discovery, the routers and the balancers stay opaque: none of this      *)
(* depends on which endpoint is selected.                                  *)
(***************************************************************************)
EXTENDS Invocation, FiniteSetTheorems, WellFoundedInduction, NaturalsInduction, TLAPS

(* ---------------------------- the invariant ----------------------------- *)

\* The steps of the smart router itself, and of the attempt loop.
Smartly == {"classify", "admit", "settle", "judged", "target", "targeted"}
Looping == {"route", "select", "begin", "call"}

\* The calls of invocation n in a history h, and how they ended.
Positions(h, n) == {i \in DOMAIN h : h[i][1] = n}
Count(h, n) == Cardinality(Positions(h, n))
Ended(h, n, V) == \A i \in Positions(h, n) : h[i][3] \in V
Retried(h, n) == Ended(h, n, {"retry"})

\* How a call of the attempt loop may end; a hedged one is just "race".
Results == {"ok", "final", "disconnect", "retry", "other"}

\* The calls of an invocation: attempts within the policy, or the two of a race.
Bounded(h, n, r) ==
    \/ Count(h, n) <= r + 1 /\ Ended(h, n, Results)
    \/ Count(h, n) <= 2 /\ Ended(h, n, {"race"})

\* The state of a race, and how many of its calls may have been made.
Sides == {"idle", "begun", "called", "ok", "failed", "rejected"}
IsRace(r) == r \in [side : [1..2 -> Sides], winner : 0..2]
Went(x) == IF x \in {"idle", "begun"} THEN 0 ELSE 1
Made(r) == Went(r.side[1]) + Went(r.side[2])

IsHistory(h) == h \in Seq(Range(h)) /\ \A i \in DOMAIN h : h[i][1] \in Int

SmartFields == {"started", "judged", "start", "seen", "executed", "limits", "last"}

Shape ==
    /\ sc \in Scenarios
    /\ pc \in {"idle", "enter", "hedge", "returned", "done"} \cup Looping \cup Racing \cup Smartly
    /\ IsRace(race)
    /\ role \in {"request", "judge", "target"}
    /\ at \in Int /\ attempt \in Nat /\ ttft \in BOOLEAN
    /\ IsHistory(history)
    /\ DOMAIN smart = SmartFields /\ smart.judged \in BOOLEAN /\ smart.start \in Int
    /\ smart.executed \in Seq(Int)

\* Which part of the code runs for which kind of request.
Phases ==
    /\ ~sc.smart => role = "request" /\ pc \notin Smartly
    /\ sc.smart /\ role = "request" => pc \in {"idle", "classify", "target", "done"}
    /\ sc.smart => ~ttft
    /\ pc = "idle" \/ pc = "classify" => role = "request"
    /\ pc \in {"admit", "settle"} => role # "request"
    /\ pc = "judged" => role = "judge"
    /\ pc = "targeted" => role = "target"

\* The child of the smart router that is running.
Judging   == role = "judge" /\ pc \notin {"target", "done"}
Targeting == role = "target" /\ pc \notin {"target", "done"}

\* How many calls an invocation has made, that all of them failed retryably while
\* the loop goes on or has run out of endpoints, and are hedged ones in a race.
Budget ==
    /\ \A n \in Int : Bounded(history, n, sc.retry)
    /\ pc \in {"admit", "enter", "hedge"} => Positions(history, Current) = {}
    /\ pc \in Looping \cup {"hedge"} =>
          /\ Count(history, Current) <= attempt /\ attempt <= Retry
          /\ Retried(history, Current)
    /\ pc = "returned" /\ err = "noendpoint" =>
          Count(history, Current) <= Retry /\ Retried(history, Current)
    /\ pc \in Racing => Ended(history, Current, {"race"}) /\ Count(history, Current) <= Made(race)
    /\ pc = "race" => race.side[2] = "idle"

\* The models of the fallback walk: those before the present one have run out.
Exhausted ==
    ~sc.smart =>
        /\ at >= 1
        /\ \A i \in DOMAIN history : history[i][1] <= at
        /\ \A n \in 1..(at - 1) : Retried(history, n) /\ Count(history, n) <= sc.retry

\* The targets of the smart walk: an invocation's number is new, the ranges that
\* were executed lie below and their models have been seen.
Walk ==
    /\ pc = "classify" => history = <<>>
    /\ pc = "classify" \/ Judging =>
          /\ smart.executed = <<>> /\ ~smart.judged
          /\ \A i \in DOMAIN history : history[i][1] = 0
    /\ pc = "target" \/ Targeting =>
          /\ ~smart.judged => smart.executed = <<>>
          /\ smart.judged => smart.start <= at
          /\ smart.judged => \A i \in DOMAIN smart.executed :
                /\ smart.start <= smart.executed[i] /\ smart.executed[i] < at
          /\ \A i \in DOMAIN smart.executed : sc.ranges[smart.executed[i]].model \in smart.seen
    /\ pc = "target" => \A i \in DOMAIN history :
          IF smart.judged THEN history[i][1] < at ELSE history[i][1] = 0
    /\ Targeting =>
          /\ at \in DOMAIN sc.ranges /\ sc.ranges[at].model \in smart.seen
          /\ smart.judged => \A i \in DOMAIN history : history[i][1] <= at
          /\ \A i \in DOMAIN smart.executed : sc.ranges[smart.executed[i]].model # sc.ranges[at].model

Inv == Shape /\ Phases /\ Budget /\ Exhausted /\ Walk /\ FirstByteIsFinal /\ SmartNeverDowngrades

(* ------------------------ histories and their calls --------------------- *)

\* The calls of an invocation are finitely many.
LEMMA CallsFinite ==
  ASSUME NEW h, IsHistory(h), NEW n
  PROVE  /\ IsFiniteSet(Positions(h, n)) /\ Count(h, n) \in Nat
         /\ Positions(h, n) = {} => Count(h, n) = 0 /\ Retried(h, n) /\ \A V : Ended(h, n, V)
  <1>1. Len(h) \in Nat /\ DOMAIN h = 1..Len(h)
    BY DEF IsHistory
  <1>2. IsFiniteSet(1..Len(h))
    BY <1>1, FS_Interval
  <1>3. Positions(h, n) \in SUBSET (1..Len(h))
    BY <1>1 DEF Positions
  <1>4. IsFiniteSet(Positions(h, n))
    BY <1>2, <1>3, FS_Subset
  <1>5. Cardinality(Positions(h, n)) \in Nat
    BY <1>4, FS_CardinalityType
  <1>6. Cardinality({}) = 0
    BY FS_EmptySet
  <1> QED BY <1>4, <1>5, <1>6 DEF Count, Retried, Ended

\* A sequence is one over any set that has its elements.
LEMMA SeqOver ==
  ASSUME NEW T, NEW s \in Seq(T), NEW R, \A i \in 1..Len(s) : s[i] \in R
  PROVE  s \in Seq(R)
  <1>1. Len(s) \in Nat /\ DOMAIN s = 1..Len(s) /\ s = [i \in 1..Len(s) |-> s[i]]
    OBVIOUS
  <1>2. s \in [1..Len(s) -> R]
    BY <1>1
  <1> QED BY <1>1, <1>2

\* Reply and SubBegins append one call (the attempt is recorded in History): g is the
\* history h with a call of invocation m that ended with v.
Recorded(h, g, m, v) ==
    /\ IsHistory(g) /\ Len(h) + 1 \notin DOMAIN h
    /\ DOMAIN g = DOMAIN h \cup {Len(h) + 1}
    /\ \A i \in DOMAIN h : g[i] = h[i]
    /\ g[Len(h) + 1][1] = m /\ g[Len(h) + 1][3] = v

LEMMA Appended ==
  ASSUME NEW h, NEW m \in Int, NEW e, NEW v, IsHistory(h)
  PROVE  Recorded(h, Append(h, <<m, e, v>>), m, v)
  <1> DEFINE S == Range(h)  x == <<m, e, v>>  g == Append(h, x)
  <1>1. h \in Seq(S) /\ Len(h) \in Nat /\ DOMAIN h = 1..Len(h)
    BY DEF IsHistory
  <1>2. h \in Seq(S \cup {x}) /\ x \in S \cup {x}
    BY <1>1
  <1>3. x[1] = m /\ x[3] = v
    OBVIOUS
  <1> HIDE DEF S, x
  <1>4. /\ g \in Seq(S \cup {x}) /\ Len(g) = Len(h) + 1 /\ DOMAIN g = 1..Len(g)
        /\ g[Len(h) + 1] = x /\ \A i \in 1..Len(h) : g[i] = h[i]
    BY <1>1, <1>2
  <1> HIDE DEF g
  <1>5. DOMAIN g = DOMAIN h \cup {Len(h) + 1} /\ Len(h) + 1 \notin DOMAIN h
    BY <1>1, <1>4
  <1>6. g \in Seq(Range(g))
    <2>1. \A i \in 1..Len(g) : g[i] \in Range(g)
      BY <1>4 DEF Range
    <2> QED BY <2>1, <1>4, SeqOver
  <1>7. \A i \in DOMAIN g : g[i][1] \in Int
    BY <1>1, <1>3, <1>4, <1>5 DEF IsHistory
  <1>8. Recorded(h, g, m, v)
    BY <1>1, <1>3, <1>4, <1>5, <1>6, <1>7 DEF IsHistory, Recorded
  <1> QED BY <1>8 DEF g, x

\* It counts for its own invocation only.
Tallied(h, g, m, v) ==
    \A n : /\ n # m => Count(g, n) = Count(h, n) /\ \A V : Ended(h, n, V) => Ended(g, n, V)
           /\ n = m => Count(g, n) = Count(h, n) + 1 /\ \A V : v \in V /\ Ended(h, n, V) => Ended(g, n, V)

LEMMA RecordedCount ==
  ASSUME NEW h, NEW g, NEW m, NEW v, IsHistory(h), Recorded(h, g, m, v)
  PROVE  Tallied(h, g, m, v)
  <1> SUFFICES ASSUME NEW n
               PROVE  /\ n # m => Count(g, n) = Count(h, n) /\ \A V : Ended(h, n, V) => Ended(g, n, V)
                      /\ n = m => /\ Count(g, n) = Count(h, n) + 1
                                  /\ \A V : v \in V /\ Ended(h, n, V) => Ended(g, n, V)
    BY Zenon DEF Tallied
  <1>1. CASE n # m
    <2>1. Positions(g, n) = Positions(h, n) /\ \A i \in Positions(h, n) : g[i] = h[i]
      BY <1>1 DEF Positions, Recorded
    <2> QED BY <2>1, <1>1, Zenon DEF Count, Ended
  <1>2. CASE n = m
    <2>1. /\ Positions(g, n) = Positions(h, n) \cup {Len(h) + 1} /\ Len(h) + 1 \notin Positions(h, n)
          /\ \A i \in Positions(h, n) : g[i] = h[i]
      BY <1>2 DEF Positions, Recorded
    <2>2. IsFiniteSet(Positions(h, n))
      BY CallsFinite, Zenon
    <2>3. Cardinality(Positions(h, n) \cup {Len(h) + 1}) = Cardinality(Positions(h, n)) + 1
      BY <2>1, <2>2, FS_AddElement, Zenon
    <2>4. Count(g, n) = Count(h, n) + 1
      BY <2>1, <2>3, Zenon DEF Count
    <2>5. ASSUME NEW V, v \in V, Ended(h, n, V) PROVE Ended(g, n, V)
      BY <2>1, <2>5, Zenon DEF Ended, Recorded
    <2> QED BY <2>4, <2>5, <1>2, Zenon
  <1> QED BY <1>1, <1>2, Zenon

\* What the policy in force allows.
LEMMA PolicyInForce ==
  ASSUME Shape
  PROVE  /\ sc.retry \in Nat /\ Retry \in Nat /\ Retry <= sc.retry /\ Current \in Int
         /\ sc.smart \in BOOLEAN /\ sc.stream \in BOOLEAN /\ (sc.smart => ~sc.stream)
         /\ Len(sc.ranges) \in Nat /\ DOMAIN sc.ranges = 1..Len(sc.ranges)
  <1>1. /\ sc.retry \in Nat /\ sc.smart \in BOOLEAN /\ sc.stream \in BOOLEAN /\ (sc.smart => ~sc.stream)
        /\ sc.ranges \in Seq(Range(sc.ranges))
    BY ScenarioAssumption, Zenon DEF Shape
  <1>2. Len(sc.ranges) \in Nat /\ DOMAIN sc.ranges = 1..Len(sc.ranges)
    BY <1>1
  <1>3. Retry \in Nat /\ Retry <= sc.retry
    BY <1>1 DEF Retry
  <1>4. Current \in Int
    BY DEF Shape, Current
  <1> QED BY <1>1, <1>2, <1>3, <1>4, Zenon

(* ------------------------------ the actions ----------------------------- *)

\* Steps of the environment leave the request alone.
LEMMA Still ==
  ASSUME Inv, UNCHANGED <<sc, pc, attempt, race, request>>
  PROVE  Inv'
  <1>1. /\ sc' = sc /\ pc' = pc /\ attempt' = attempt /\ race' = race /\ role' = role /\ at' = at /\ ttft' = ttft
        /\ err' = err /\ history' = history /\ smart' = smart
    BY DEF request
  <1>2. Shape' /\ Phases'
    BY <1>1, Zenon DEF Inv, Shape, Phases
  <1>3. Budget'
    BY <1>1, Zenon DEF Inv, Budget, Current, Retry
  <1>4. Exhausted'
    BY <1>1, Zenon DEF Inv, Exhausted
  <1>5. Walk'
    BY <1>1, Zenon DEF Inv, Walk, Judging, Targeting
  <1>6. FirstByteIsFinal' /\ SmartNeverDowngrades'
    BY <1>1, Zenon DEF Inv, FirstByteIsFinal, SmartNeverDowngrades
  <1> QED BY <1>2, <1>3, <1>4, <1>5, <1>6, Zenon DEF Inv

\* A race of two makes at most two calls.
LEMMA MadeType ==
  ASSUME NEW r, IsRace(r) PROVE Made(r) \in 0..2
  BY DEF IsRace, Made, Went

LEMMA NoRaceType == IsRace(NoRace) /\ NoRace.side[2] = "idle"
  BY DEF IsRace, NoRace, Sides

\* The phases of a request between two steps of the attempt loop.
LEMMA LoopPhases ==
  ASSUME Inv, pc \in Looping \cup Racing \cup {"hedge"}, pc' \in Looping \cup Racing \cup {"returned"},
         UNCHANGED <<sc, role, at, smart>>, sc.smart => ~ttft'
  PROVE  Phases' /\ (Judging' <=> Judging) /\ (Targeting' <=> Targeting)
  <1>1. sc' = sc /\ role' = role /\ at' = at /\ smart' = smart
    OBVIOUS
  <1>2. pc \notin Smartly \cup {"idle", "done"} /\ pc' \notin Smartly \cup {"idle", "done"}
    BY DEF Looping, Racing, Smartly
  <1>3. ~sc.smart => role = "request"
    BY DEF Inv, Phases
  <1>4. sc.smart => role # "request"
    BY <1>2 DEF Inv, Phases, Smartly
  <1>5. Phases'
    BY <1>1, <1>2, <1>3, <1>4 DEF Phases, Smartly
  <1>6. (Judging' <=> Judging) /\ (Targeting' <=> Targeting)
    BY <1>1, <1>2 DEF Judging, Targeting, Smartly
  <1> QED BY <1>5, <1>6

\* A pass of the attempt loop that makes no call: it goes on, or returns.
LEMMA LoopStep ==
  ASSUME Inv, pc \in Looping \cup {"hedge"}, UNCHANGED <<sc, role, at, ttft, history, smart>>,
         attempt' \in Nat, attempt <= attempt',
         \/ pc' \in Looping /\ attempt' <= Retry
         \/ pc' = "returned"
         \/ pc = "hedge" /\ pc' = "race" /\ race'.side[2] = "idle",
         IsRace(race')
  PROVE  Inv'
  <1>1. /\ sc' = sc /\ role' = role /\ at' = at /\ ttft' = ttft /\ history' = history /\ smart' = smart
        /\ Retry' = Retry /\ Current' = Current
    BY DEF Retry, Current
  <1>2. pc' \in Looping \cup Racing \cup {"returned"}
    BY DEF Racing
  <1>3. ~ttft /\ ~ttft'
    BY <1>1 DEF Inv, FirstByteIsFinal, Looping, Racing
  <1>4. Phases' /\ (Judging' <=> Judging) /\ (Targeting' <=> Targeting)
    BY <1>1, <1>2, <1>3, LoopPhases
  <1>5. Shape'
    BY <1>1, <1>2 DEF Inv, Shape
  <1>6. Budget'
    <2>1. Count(history, Current) \in Nat /\ Retry \in Nat
      BY CallsFinite, PolicyInForce, Zenon DEF Inv, Shape
    <2>2. Count(history, Current) <= attempt /\ attempt <= Retry /\ Retried(history, Current)
      BY DEF Inv, Budget
    <2>3. Count(history, Current) <= attempt' /\ Count(history, Current) <= Retry
      BY <2>1, <2>2 DEF Inv, Shape
    <2>4. /\ pc' \notin {"admit", "enter", "hedge"}
          /\ pc' \in Racing => pc = "hedge" /\ race'.side[2] = "idle"
          /\ pc' = "race" => race'.side[2] = "idle"
      BY DEF Looping, Racing
    <2>5. pc' \in Looping => attempt' <= Retry
      BY DEF Looping
    <2>6. pc' \in Racing => Ended(history, Current, {"race"}) /\ Count(history, Current) <= Made(race')
      <3> SUFFICES ASSUME pc' \in Racing
                   PROVE  Ended(history, Current, {"race"}) /\ Count(history, Current) <= Made(race')
        OBVIOUS
      <3>1. Positions(history, Current) = {}
        BY <2>4, Zenon DEF Inv, Budget
      <3>2. Count(history, Current) = 0 /\ Ended(history, Current, {"race"})
        BY <3>1, CallsFinite, Zenon DEF Inv, Shape
      <3> QED BY <3>2, MadeType
    <2>7. \A n \in Int : Bounded(history, n, sc.retry)
      BY DEF Inv, Budget
    <2> QED BY <1>1, <2>2, <2>3, <2>4, <2>5, <2>6, <2>7, Zenon DEF Budget
  <1>7. Exhausted'
    BY <1>1, Zenon DEF Inv, Exhausted
  <1>8. Walk'
    <2>1. pc \notin {"classify", "target"} /\ pc' \notin {"classify", "target"}
      BY <1>2 DEF Looping, Racing
    <2> QED BY <1>1, <1>4, <2>1, Zenon DEF Inv, Walk
  <1>9. FirstByteIsFinal' /\ SmartNeverDowngrades'
    BY <1>1, <1>3, Zenon DEF Inv, FirstByteIsFinal, SmartNeverDowngrades
  <1> QED BY <1>4, <1>5, <1>6, <1>7, <1>8, <1>9, Zenon DEF Inv

\* Discovery, the exclusion and the router chain decide how the pass goes on.
LEMMA RouteInv == ASSUME Inv, Route PROVE Inv'
  <1>1. pc = "route" /\ UNCHANGED <<sc, role, at, ttft, history, smart, attempt, race>>
    BY DEF Route
  <1>2. pc' \in {"select", "returned"}
    BY Zenon DEF Route, Return
  <1>3. attempt \in Nat /\ attempt <= Retry
    BY <1>1 DEF Inv, Shape, Budget, Looping
  <1>4. IsRace(race')
    BY <1>1 DEF Inv, Shape
  <1> QED BY <1>1, <1>2, <1>3, <1>4, LoopStep DEF Looping

\* Whatever the balancer picks.
LEMMA SelectInv == ASSUME Inv, Select PROVE Inv'
  <1>1. pc = "select" /\ UNCHANGED <<sc, role, at, ttft, history, smart, attempt, race>>
    BY DEF Select
  <1>2. pc' \in {"begin", "returned"}
    BY DEF Select, Return
  <1>3. attempt \in Nat /\ attempt <= Retry
    BY <1>1 DEF Inv, Shape, Budget, Looping
  <1>4. IsRace(race')
    BY <1>1 DEF Inv, Shape
  <1> QED BY <1>1, <1>2, <1>3, <1>4, LoopStep DEF Looping

\* A refusal of the breaker counts as an attempt.
LEMMA BeginInv == ASSUME Inv, Begin PROVE Inv'
  <1>1. pc = "begin" /\ UNCHANGED <<sc, role, at, ttft, history, smart, race>>
    BY DEF Begin
  <1>2. attempt \in Nat /\ attempt <= Retry
    BY <1>1 DEF Inv, Shape, Budget, Looping
  <1>3. \/ attempt' = attempt /\ pc' \in {"call", "returned"}
        \/ attempt' = attempt + 1 /\ ~(attempt + 1 > Retry) /\ pc' = "route"
    BY DEF Begin, Return
  <1>4. Retry \in Nat
    BY PolicyInForce DEF Inv
  <1>5. IsRace(race')
    BY <1>1 DEF Inv, Shape
  <1> QED BY <1>1, <1>2, <1>3, <1>4, <1>5, LoopStep DEF Looping

\* Hedging selects two endpoints, or leaves the request to the cluster invoker.
LEMMA HedgeInv == ASSUME Inv, Hedge PROVE Inv'
  <1>1. pc = "hedge" /\ UNCHANGED <<sc, role, at, ttft, history, smart, attempt>>
    BY DEF Hedge
  <1>2. \/ pc' \in {"route", "returned"} /\ race' = race
        \/ pc' = "race" /\ race' = [NoRace EXCEPT !.side[1] = "begun"]
    BY Zenon DEF Hedge, Return
  <1>3. attempt \in Nat /\ attempt <= Retry
    BY <1>1 DEF Inv, Shape, Budget, Looping
  <1>4. IsRace(race') /\ (pc' = "race" => race'.side[2] = "idle")
    <2>1. CASE pc' \in {"route", "returned"} /\ race' = race
      BY <2>1 DEF Inv, Shape
    <2>2. CASE pc' = "race" /\ race' = [NoRace EXCEPT !.side[1] = "begun"]
      BY <2>2 DEF NoRace, IsRace, Sides
    <2> QED BY <1>2, <2>1, <2>2, Zenon
  <1> QED BY <1>1, <1>2, <1>3, <1>4, LoopStep DEF Looping

\* A call of the invocation leaves the models before it and the walk alone.
LEMMA CallKept ==
  ASSUME Inv, pc \in {"call"} \cup Racing, pc' \in {"route", "returned"} \cup Racing,
         UNCHANGED <<sc, role, at, smart>>, sc.smart => ~ttft',
         NEW e, NEW v, history' = Append(history, <<Current, e, v>>)
  PROVE  /\ IsHistory(history') /\ Tallied(history, history', Current, v)
         /\ Phases' /\ Exhausted' /\ Walk' /\ SmartNeverDowngrades'
  <1>1. sc' = sc /\ role' = role /\ at' = at /\ smart' = smart /\ Current' = Current
    BY DEF Current
  <1>2. IsHistory(history) /\ Current \in Int
    BY PolicyInForce DEF Inv, Shape
  <1>3. Recorded(history, history', Current, v)
    BY <1>2, Appended, Zenon
  <1>4. /\ IsHistory(history')
        /\ \A i \in DOMAIN history' : history'[i][1] = Current \/ i \in DOMAIN history
        /\ \A i \in DOMAIN history : history'[i][1] = history[i][1]
    BY <1>3 DEF Recorded
  <1>5. Tallied(history, history', Current, v)
    BY <1>2, <1>3, RecordedCount, Zenon
  <1>6. Phases' /\ (Judging' <=> Judging) /\ (Targeting' <=> Targeting)
    BY <1>1, LoopPhases DEF Looping
  <1>7. Exhausted'
    <2> SUFFICES ASSUME ~sc.smart PROVE Exhausted'
      BY <1>1, Zenon DEF Exhausted
    <2>1. role = "request" /\ Current = at /\ at \in Int
      BY DEF Inv, Phases, Current, Shape
    <2>2. /\ at >= 1 /\ \A i \in DOMAIN history : history[i][1] <= at
          /\ \A n \in 1..(at - 1) : Retried(history, n) /\ Count(history, n) <= sc.retry
      BY DEF Inv, Exhausted
    <2>3. \A i \in DOMAIN history' : history'[i][1] <= at
      BY <1>4, <2>1, <2>2
    <2>4. \A n \in 1..(at - 1) : n # Current
      BY <2>1
    <2>5. \A n \in 1..(at - 1) : Retried(history', n) /\ Count(history', n) <= sc.retry
      BY <2>2, <2>4, <1>5, Zenon DEF Tallied, Retried
    <2> QED BY <1>1, <2>2, <2>3, <2>5, Zenon DEF Exhausted
  <1>8. Walk'
    <2>1. pc \notin {"classify", "target"} /\ pc' \notin {"classify", "target"}
      BY DEF Racing
    <2>2. Judging => \A i \in DOMAIN history' : history'[i][1] = 0
      <3> HAVE Judging
      <3>1. Current = 0 /\ \A i \in DOMAIN history : history[i][1] = 0
        BY DEF Inv, Walk, Judging, Current
      <3> QED BY <3>1, <1>4
    <2>3. Targeting /\ smart.judged => \A i \in DOMAIN history' : history'[i][1] <= at
      <3> HAVE Targeting /\ smart.judged
      <3>1. Current = at /\ at \in Int /\ \A i \in DOMAIN history : history[i][1] <= at
        BY DEF Inv, Walk, Targeting, Current, Shape
      <3> QED BY <3>1, <1>4
    <2> QED BY <1>1, <1>6, <2>1, <2>2, <2>3, Zenon DEF Inv, Walk
  <1>9. SmartNeverDowngrades'
    BY <1>1, Zenon DEF Inv, SmartNeverDowngrades
  <1> QED BY <1>4, <1>5, <1>6, <1>7, <1>8, <1>9, Zenon

\* An attempt was made and recorded: the loop goes round again after a retryable
\* failure within the budget, or the invocation returns.
LEMMA CallMade ==
  ASSUME Inv, pc = "call", UNCHANGED <<sc, role, at, smart, race>>,
         NEW e, NEW v \in Results, history' = Append(history, <<Current, e, v>>),
         ttft' \in BOOLEAN, sc.smart => ~ttft',
         \/ /\ pc' = "route" /\ v = "retry" /\ ~ttft'
            /\ attempt' = attempt + 1 /\ attempt + 1 <= Retry
         \/ /\ pc' = "returned" /\ attempt' = attempt
            /\ err' = "noendpoint" => v = "retry" /\ attempt + 1 <= Retry
  PROVE  Inv'
  <1>1. /\ sc' = sc /\ role' = role /\ at' = at /\ smart' = smart /\ race' = race
        /\ Retry' = Retry /\ Current' = Current /\ pc' \in {"route", "returned"}
    BY DEF Retry, Current
  <1>2. /\ IsHistory(history) /\ Current \in Int /\ Retry \in Nat /\ sc.retry \in Nat
        /\ Retry <= sc.retry /\ attempt \in Nat
    BY PolicyInForce DEF Inv, Shape
  <1>3. /\ IsHistory(history') /\ Tallied(history, history', Current, v)
        /\ Phases' /\ Exhausted' /\ Walk' /\ SmartNeverDowngrades'
    BY <1>1, CallKept
  <1>4. Shape'
    BY <1>1, <1>2, <1>3 DEF Inv, Shape, Looping
  <1>5. /\ Count(history, Current) \in Nat /\ Count(history, Current) <= attempt /\ attempt <= Retry
        /\ Ended(history, Current, {"retry"}) /\ Ended(history, Current, Results)
    <2>1. Count(history, Current) \in Nat
      BY <1>2, CallsFinite, Zenon
    <2>2. Count(history, Current) <= attempt /\ attempt <= Retry /\ Ended(history, Current, {"retry"})
      BY DEF Inv, Budget, Looping, Retried
    <2>3. Ended(history, Current, Results)
      BY <2>2 DEF Ended, Results
    <2> QED BY <2>1, <2>2, <2>3
  <1>6. /\ Count(history', Current) = Count(history, Current) + 1 /\ Ended(history', Current, Results)
        /\ v = "retry" => Ended(history', Current, {"retry"})
    <2>1. v = "retry" => v \in {"retry"}
      OBVIOUS
    <2> QED BY <1>3, <1>5, <2>1, Zenon DEF Tallied
  <1>7. Budget'
    <2>1. \A n \in Int : Bounded(history', n, sc.retry)
      <3> TAKE n \in Int
      <3>1. CASE n = Current
        <4>1. Count(history', Current) <= sc.retry + 1
          BY <1>2, <1>5, <1>6
        <4> QED BY <3>1, <4>1, <1>6, Zenon DEF Bounded
      <3>2. CASE n # Current
        BY <3>2, <1>3, Zenon DEF Inv, Budget, Tallied, Bounded
      <3> QED BY <3>1, <3>2
    <2>2. pc' \notin {"admit", "enter", "hedge"} \cup Racing
      BY <1>1 DEF Racing
    <2>3. CASE v = "retry" /\ attempt + 1 <= Retry
      <3>1. Count(history', Current) <= attempt + 1 /\ Count(history', Current) <= Retry
        BY <1>2, <1>5, <1>6, <2>3
      <3>2. pc' \in Looping => attempt' = attempt + 1
        BY <1>1 DEF Looping
      <3> QED BY <1>1, <1>6, <2>1, <2>2, <2>3, <3>1, <3>2 DEF Budget, Retried, Racing
    <2>4. CASE ~(v = "retry" /\ attempt + 1 <= Retry)
      <3>1. pc' = "returned" /\ err' # "noendpoint"
        BY <2>4
      <3>2. pc' \notin Looping \cup {"hedge"}
        BY <3>1 DEF Looping
      <3> QED BY <1>1, <2>1, <2>2, <3>1, <3>2 DEF Budget, Racing
    <2> QED BY <2>3, <2>4
  <1>8. FirstByteIsFinal'
    BY <1>1 DEF FirstByteIsFinal
  <1> QED BY <1>3, <1>4, <1>7, <1>8, Zenon DEF Inv

\* What an upstream may answer: a byte reaches the client of a stream only.
LEMMA ReplyKinds ==
  ASSUME NEW reply \in Replies
  PROVE  /\ reply.kind \in {"ok", "failed", "final", "disconnect"}
         /\ reply.byte \in BOOLEAN /\ (reply.byte => sc.stream)
         /\ Verdict(reply) \in Results
  <1>1. /\ reply.kind \in {"ok", "failed", "final", "disconnect"}
        /\ reply.byte \in BOOLEAN /\ (reply.byte => sc.stream)
    <2> DEFINE R(kind, failure, byte) == [kind |-> kind, failure |-> failure, byte |-> byte]
    <2>1. \/ \E f : \E k \in {"ok", "failed", "final", "disconnect"} : reply = R(k, f, FALSE)
          \/ sc.stream /\ \E f : \E k \in {"ok", "failed"} : reply = R(k, f, TRUE)
      BY Zenon DEF Replies
    <2>2. CASE \E f : \E k \in {"ok", "failed", "final", "disconnect"} : reply = R(k, f, FALSE)
      <3>1. PICK f, k : k \in {"ok", "failed", "final", "disconnect"} /\ reply = R(k, f, FALSE)
        BY <2>2, Zenon
      <3> QED BY <3>1
    <2>3. CASE sc.stream /\ \E f : \E k \in {"ok", "failed"} : reply = R(k, f, TRUE)
      <3>1. PICK f, k : k \in {"ok", "failed"} /\ reply = R(k, f, TRUE)
        BY <2>3, Zenon
      <3>2. reply.kind = k /\ reply.byte = TRUE
        BY <3>1
      <3> QED BY <3>1, <3>2, <2>3, Zenon
    <2> QED BY <2>1, <2>2, <2>3, Zenon
  <1>2. Verdict(reply) \in Results
    BY <1>1 DEF Verdict, Results
  <1> QED BY <1>1, <1>2

\* The call of an attempt comes back.
LEMMA ReplyInv == ASSUME Inv, Reply PROVE Inv'
  <1>1. pc = "call" /\ UNCHANGED <<sc, role, at, smart, race>>
    BY DEF Reply
  <1>2. PICK reply \in Replies :
          /\ history' = Append(history, <<Current, selected, Verdict(reply)>>)
          /\ ttft' = (ttft \/ reply.byte)
          /\ IF ~Retries(reply) \/ attempt + 1 > Retry
             THEN Return(Verdict(reply)) /\ UNCHANGED attempt
             ELSE IF Range(listed) \subseteq Failed
                  THEN Return("noendpoint") /\ UNCHANGED attempt
                  ELSE attempt' = attempt + 1 /\ pc' = "route" /\ UNCHANGED err
    BY Zenon DEF Reply
  <1>3. /\ reply.byte \in BOOLEAN /\ (reply.byte => sc.stream)
        /\ Verdict(reply) \in Results /\ Verdict(reply) # "noendpoint"
    BY ReplyKinds DEF Results
  <1>4. Retries(reply) => Verdict(reply) = "retry" /\ ~ttft'
    BY <1>2, Zenon DEF Retries
  <1>5. ttft' \in BOOLEAN /\ (sc.smart => ~ttft')
    <2>1. ~ttft
      BY <1>1 DEF Inv, FirstByteIsFinal, Racing
    <2>2. sc.smart => ~sc.stream
      BY PolicyInForce DEF Inv
    <2> QED BY <2>1, <2>2, <1>2, <1>3, Zenon
  <1>6. attempt \in Nat /\ Retry \in Nat
    BY PolicyInForce DEF Inv, Shape
  <1>7. \/ /\ pc' = "route" /\ Verdict(reply) = "retry" /\ ~ttft'
           /\ attempt' = attempt + 1 /\ attempt + 1 <= Retry
        \/ /\ pc' = "returned" /\ attempt' = attempt
           /\ err' = "noendpoint" => Verdict(reply) = "retry" /\ attempt + 1 <= Retry
    <2>1. CASE ~Retries(reply) \/ attempt + 1 > Retry
      BY <2>1, <1>2, <1>3, Zenon DEF Return
    <2>2. CASE Retries(reply) /\ ~(attempt + 1 > Retry)
      <3>1. attempt + 1 <= Retry
        BY <2>2, <1>6
      <3>2. \/ pc' = "returned" /\ attempt' = attempt
            \/ attempt' = attempt + 1 /\ pc' = "route"
        BY <2>2, <1>2, Zenon DEF Return
      <3> QED BY <3>1, <3>2, <2>2, <1>1, <1>4, Zenon
    <2> QED BY <2>1, <2>2, Zenon
  <1> HIDE DEF Inv
  <1> QED BY <1>1, <1>2, <1>3, <1>5, <1>7, CallMade, Zenon

\* A step of a race that makes no call, or ends it.
LEMMA RaceStep ==
  ASSUME Inv, pc \in Racing, pc' \in Racing \cup {"returned"},
         UNCHANGED <<sc, role, at, smart, attempt, history>>,
         ttft' \in BOOLEAN, sc.smart => ~ttft', IsRace(race'),
         pc' \in Racing => Made(race) <= Made(race'),
         pc' = "race" => race'.side[2] = "idle",
         pc' = "returned" => err' # "noendpoint"
  PROVE  Inv'
  <1>1. /\ sc' = sc /\ role' = role /\ at' = at /\ smart' = smart /\ attempt' = attempt
        /\ history' = history /\ Retry' = Retry /\ Current' = Current
    BY DEF Retry, Current
  <1>2. Phases' /\ (Judging' <=> Judging) /\ (Targeting' <=> Targeting)
    BY <1>1, LoopPhases DEF Looping
  <1>3. Shape'
    BY <1>1 DEF Inv, Shape
  <1>4. Budget'
    <2>1. pc' \notin Looping \cup {"admit", "enter", "hedge"}
      BY DEF Looping, Racing
    <2>2. Ended(history, Current, {"race"}) /\ Count(history, Current) <= Made(race)
      BY DEF Inv, Budget
    <2>3. Count(history, Current) \in Nat
      BY CallsFinite, Zenon DEF Inv, Shape
    <2>4. pc' \in Racing => Count(history, Current) <= Made(race')
      <3>1. Made(race) \in 0..2 /\ Made(race') \in 0..2
        BY MadeType, Zenon DEF Inv, Shape
      <3> QED BY <2>2, <2>3, <3>1
    <2>5. \A n \in Int : Bounded(history, n, sc.retry)
      BY Zenon DEF Inv, Budget
    <2> QED BY <1>1, <2>1, <2>2, <2>4, <2>5, Zenon DEF Budget
  <1>5. Exhausted'
    BY <1>1, Zenon DEF Inv, Exhausted
  <1>6. Walk'
    <2>1. pc \notin {"classify", "target"} /\ pc' \notin {"classify", "target"}
      BY DEF Racing
    <2> QED BY <1>1, <1>2, <2>1, Zenon DEF Inv, Walk
  <1>7. FirstByteIsFinal' /\ SmartNeverDowngrades'
    BY <1>1, Zenon DEF Inv, FirstByteIsFinal, SmartNeverDowngrades
  <1> QED BY <1>2, <1>3, <1>4, <1>5, <1>6, <1>7, Zenon DEF Inv

\* Replacing the state of one side of a race.
LEMMA SideSet ==
  ASSUME NEW r, IsRace(r), NEW i \in {1, 2}, NEW x \in Sides, NEW w \in 0..2,
         NEW q, q = [side |-> [r.side EXCEPT ![i] = x], winner |-> w]
  PROVE  /\ IsRace(q) /\ q.side[i] = x /\ \A j \in {1, 2} : j # i => q.side[j] = r.side[j]
         /\ Made(q) = Made(r) + Went(x) - Went(r.side[i])
  <1>1. q.side = [r.side EXCEPT ![i] = x] /\ r.side \in [1..2 -> Sides] /\ 1 \in 1..2 /\ 2 \in 1..2
    BY DEF IsRace
  <1>2. q.side \in [1..2 -> Sides] /\ q.side[i] = x /\ \A j \in {1, 2} : j # i => q.side[j] = r.side[j]
    BY <1>1
  <1>3. IsRace(q)
    BY <1>2 DEF IsRace
  <1>4. Made(q) = Made(r) + Went(x) - Went(r.side[i])
    <2>1. \A y : Went(y) \in 0..1
      BY DEF Went
    <2>2. Went(q.side[1]) \in 0..1 /\ Went(q.side[2]) \in 0..1 /\ Went(r.side[1]) \in 0..1
          /\ Went(r.side[2]) \in 0..1
      BY <2>1
    <2>3. CASE i = 1
      <3>1. q.side[1] = x /\ q.side[2] = r.side[2]
        BY <1>2, <2>3
      <3> QED BY <3>1, <2>2, <2>3 DEF Made
    <2>4. CASE i = 2
      <3>1. q.side[2] = x /\ q.side[1] = r.side[1]
        BY <1>2, <2>4
      <3> QED BY <3>1, <2>2, <2>4 DEF Made
    <2> QED BY <2>3, <2>4
  <1> QED BY <1>2, <1>3, <1>4

\* Replacing a side by EXCEPT is replacing it in the record.
LEMMA SideExcept ==
  ASSUME NEW r, IsRace(r), NEW i \in {1, 2}, NEW x
  PROVE  /\ [r EXCEPT !.side[i] = x] = [side |-> [r.side EXCEPT ![i] = x], winner |-> r.winner]
         /\ [r EXCEPT !.winner = i] = [side |-> r.side, winner |-> i]
         /\ r.winner \in 0..2
  BY DEF IsRace

\* A hedged call is made and recorded, or refused by the breakers.
LEMMA SubBeginsInv == ASSUME Inv, NEW i \in {1, 2}, SubBegins(i) PROVE Inv'
  <1>1. /\ pc \in Racing /\ pc' = pc /\ race.side[i] = "begun" /\ ttft' = ttft /\ err' = err
        /\ sc' = sc /\ role' = role /\ at' = at /\ smart' = smart /\ attempt' = attempt
        /\ Retry' = Retry /\ Current' = Current
    BY DEF SubBegins, Retry, Current
  <1>2. \/ race' = [race EXCEPT !.side[i] = "called"] /\ history' = Append(history, <<Current, pool[i], "race">>)
        \/ race' = [race EXCEPT !.side[i] = "failed"] /\ history' = history
    BY Zenon DEF SubBegins
  <1>3. IsRace(race) /\ ttft \in BOOLEAN /\ (sc.smart => ~ttft) /\ (pc = "race" => race.side[2] = "idle")
    BY Zenon DEF Inv, Shape, Phases, Budget
  <1>4. \E x \in {"called", "failed"} :
           race' = [side |-> [race.side EXCEPT ![i] = x], winner |-> race.winner]
    BY <1>2, <1>3, SideExcept, Zenon
  <1>5. /\ IsRace(race') /\ Made(race') = Made(race) + 1
        /\ pc' = "race" => race'.side[2] = "idle"
    <2>1. PICK x \in {"called", "failed"} : race' = [side |-> [race.side EXCEPT ![i] = x], winner |-> race.winner]
      BY <1>4, Zenon
    <2>2. x \in Sides /\ race.winner \in 0..2 /\ Went(x) = 1 /\ Went("begun") = 0
      BY <1>3, SideExcept DEF Sides, Went
    <2>3. /\ IsRace(race') /\ \A j \in {1, 2} : j # i => race'.side[j] = race.side[j]
          /\ Made(race') = Made(race) + Went(x) - Went(race.side[i])
      BY <2>1, <2>2, <1>3, SideSet
    <2>4. Made(race) \in 0..2
      BY <1>3, MadeType
    <2>5. pc = "race" => i # 2
      BY <1>1, <1>3
    <2>6. Made(race') = Made(race) + 1
      BY <2>2, <2>3, <2>4, <1>1
    <2> QED BY <1>1, <1>3, <2>3, <2>5, <2>6
  <1>6. Made(race) \in 0..2 /\ Made(race') \in 0..2
    BY <1>3, <1>5, MadeType, Zenon
  <1>7. CASE history' = history
    <2>1. Made(race) <= Made(race')
      BY <1>5, <1>6
    <2>2. pc' # "returned"
      BY <1>1 DEF Racing
    <2> QED BY <1>1, <1>3, <1>5, <1>7, <2>1, <2>2, RaceStep
  <1>8. CASE history' = Append(history, <<Current, pool[i], "race">>)
    <2>1. /\ IsHistory(history') /\ Tallied(history, history', Current, "race")
          /\ Phases' /\ Exhausted' /\ Walk' /\ SmartNeverDowngrades'
      BY <1>1, <1>3, <1>8, CallKept
    <2>2. Shape'
      BY <1>1, <1>3, <1>5, <2>1 DEF Inv, Shape
    <2>3. Budget'
      <3>1. Ended(history, Current, {"race"}) /\ Count(history, Current) <= Made(race)
        BY <1>1, Zenon DEF Inv, Budget
      <3>2. Count(history, Current) \in Nat
        BY CallsFinite, Zenon DEF Inv, Shape
      <3>3. Count(history', Current) = Count(history, Current) + 1 /\ Ended(history', Current, {"race"})
        <4>1. "race" \in {"race"}
          OBVIOUS
        <4> QED BY <2>1, <3>1, <4>1, Zenon DEF Tallied
      <3>4. Count(history', Current) <= Made(race') /\ Count(history', Current) <= 2
        BY <3>1, <3>2, <3>3, <1>5, <1>6
      <3>5. \A n \in Int : Bounded(history', n, sc.retry)
        <4> TAKE n \in Int
        <4>1. CASE n = Current
          BY <4>1, <3>3, <3>4, Zenon DEF Bounded
        <4>2. CASE n # Current
          BY <4>2, <2>1, Zenon DEF Inv, Budget, Tallied, Bounded
        <4> QED BY <4>1, <4>2
      <3>6. pc' \notin Looping \cup {"admit", "enter", "hedge", "returned"}
        BY <1>1 DEF Looping, Racing
      <3> QED BY <1>1, <1>5, <3>3, <3>4, <3>5, <3>6, Zenon DEF Budget
    <2>4. FirstByteIsFinal'
      BY <1>1 DEF FirstByteIsFinal
    <2> QED BY <2>1, <2>2, <2>3, <2>4, Zenon DEF Inv
  <1> QED BY <1>2, <1>7, <1>8, Zenon

\* The other steps of the two calls and of Invoke.
LEMMA RaceInv == ASSUME Inv, Race PROVE Inv'
  <1>1. /\ Shape /\ IsRace(race) /\ ttft \in BOOLEAN /\ (sc.smart => ~ttft) /\ (sc.smart => ~sc.stream)
        /\ (pc = "race" => race.side[2] = "idle")
    <2>1. Shape
      BY DEF Inv
    <2>2. sc.smart => ~sc.stream
      BY <2>1, PolicyInForce
    <2> QED BY <2>1, <2>2, Zenon DEF Inv, Shape, Phases, Budget
  <1>2. \A y : Went(y) \in 0..1
    BY DEF Went
  <1>3. Made(race) \in 0..2
    BY <1>1, MadeType
  <1>4. ASSUME NEW i \in {1, 2}, SubWrites(i) PROVE Inv'
    <2>1. /\ pc \in Racing /\ pc' = pc /\ UNCHANGED <<sc, role, at, smart, attempt, history>>
          /\ sc.stream /\ ttft' = TRUE /\ race' = [race EXCEPT !.winner = i]
      BY <1>4 DEF SubWrites
    <2>2. race' = [side |-> race.side, winner |-> i]
      BY <2>1, <1>1, SideExcept, Zenon
    <2>3. IsRace(race') /\ race'.side = race.side
      BY <2>2, <1>1 DEF IsRace
    <2>4. Made(race') = Made(race)
      BY <2>3, Zenon DEF Made
    <2>5. pc' # "returned" /\ Made(race) <= Made(race')
      BY <2>1, <2>4, <1>3 DEF Racing
    <2>6. ttft' \in BOOLEAN /\ (sc.smart => ~ttft')
      BY <2>1, <1>1, Zenon
    <2> QED BY <2>1, <2>3, <2>5, <2>6, <1>1, RaceStep
  <1>5. ASSUME NEW i \in {1, 2}, SubReturns(i) PROVE Inv'
    <2>1. /\ pc \in Racing /\ pc' = pc /\ UNCHANGED <<sc, role, at, smart, attempt, history, ttft>>
          /\ race.side[i] = "called"
      BY <1>5 DEF SubReturns, request
    <2>2. PICK how \in {"ok", "failed", "rejected"} :
             race' = [side |-> [race.side EXCEPT ![i] = how],
                      winner |-> IF how = "ok" /\ race.winner = 0 THEN i ELSE race.winner]
      BY <1>5, Zenon DEF SubReturns
    <2>3. PICK w \in 0..2 : race' = [side |-> [race.side EXCEPT ![i] = how], winner |-> w]
      <3>1. race.winner \in 0..2
        BY <1>1, SideExcept, Zenon
      <3>2. i \in 0..2
        OBVIOUS
      <3> QED BY <2>2, <3>1, <3>2, Zenon
    <2>4. how \in Sides /\ Went(how) = 1 /\ Went("called") = 1
      BY <2>2 DEF Sides, Went
    <2>5. /\ IsRace(race') /\ \A j \in {1, 2} : j # i => race'.side[j] = race.side[j]
          /\ Made(race') = Made(race) + Went(how) - Went(race.side[i])
      BY <2>3, <2>4, <1>1, SideSet
    <2>6. Made(race) <= Made(race')
      BY <2>1, <2>4, <2>5, <1>3
    <2>7. pc' = "race" => race'.side[2] = "idle"
      BY <2>1, <2>5, <1>1
    <2>8. pc' # "returned"
      BY <2>1 DEF Racing
    <2> QED BY <2>1, <2>5, <2>6, <2>7, <2>8, <1>1, RaceStep
  <1>6. CASE StartB
    <2>1. /\ pc = "race" /\ pc' = "both" /\ UNCHANGED <<sc, role, at, smart, attempt, history, ttft>>
          /\ race' = [race EXCEPT !.side[2] = "begun"]
      BY <1>6 DEF StartB, request
    <2>2. race' = [side |-> [race.side EXCEPT ![2] = "begun"], winner |-> race.winner] /\ race.winner \in 0..2
      BY <2>1, <1>1, SideExcept, Zenon
    <2>3. "begun" \in Sides /\ Went("begun") = 0 /\ Went("idle") = 0
      BY DEF Sides, Went
    <2>4. IsRace(race') /\ Made(race') = Made(race) + Went("begun") - Went(race.side[2])
      BY <2>2, <2>3, <1>1, SideSet
    <2>5. Made(race) <= Made(race')
      BY <2>1, <2>3, <2>4, <1>1, <1>3
    <2>6. pc \in Racing /\ pc' \in Racing
      BY <2>1 DEF Racing
    <2> QED BY <2>1, <2>4, <2>5, <2>6, <1>1, RaceStep
  <1>7. CASE Won
    <2>1. /\ pc \in Racing /\ pc' = "await" /\ UNCHANGED <<sc, role, at, smart, attempt, history, ttft>>
          /\ race' = race /\ pc' \in Racing
      BY <1>7 DEF Won, request, call, Racing
    <2>2. Made(race) <= Made(race')
      BY <2>1, <1>3
    <2> QED BY <2>1, <2>2, <1>1, RaceStep
  <1>8. CASE RaceEnds
    <2>1. /\ pc \in Racing /\ UNCHANGED <<sc, role, at, smart, attempt, history, ttft>> /\ race' = NoRace
      BY <1>8, Zenon DEF RaceEnds
    <2>2. pc' = "returned" /\ err' # "noendpoint"
      BY <1>8 DEF RaceEnds, Return
    <2>3. pc' \notin Racing
      BY <2>2 DEF Racing
    <2> QED BY <2>1, <2>2, <2>3, <1>1, NoRaceType, RaceStep
  <1> QED BY <1>4, <1>5, <1>6, <1>7, <1>8, SubBeginsInv, Zenon DEF Race

\* A new request begins with an empty history.
LEMMA ArriveInv == ASSUME Inv, Arrive PROVE Inv'
  <1>1. /\ sc' = sc /\ role' = "request" /\ at' = 1 /\ attempt' = attempt /\ ttft' = FALSE /\ race' = race
        /\ history' = <<>> /\ smart' = Fresh /\ pc' = IF sc.smart THEN "classify" ELSE "enter"
    BY DEF Arrive
  <1>2. /\ DOMAIN Fresh = SmartFields /\ Fresh.judged = FALSE /\ Fresh.start = 0 /\ Fresh.executed = <<>>
    BY DEF Fresh, SmartFields
  <1>3. DOMAIN history' = {} /\ DOMAIN Fresh.executed = {} /\ IsHistory(history')
    BY <1>1, <1>2 DEF IsHistory, Range
  <1>4. Shape'
    <2>1. pc' \in {"classify", "enter"} /\ smart'.executed \in Seq(Int) /\ smart'.start \in Int
      BY <1>1, <1>2
    <2>2. sc' \in Scenarios /\ attempt' \in Nat /\ at' \in Int /\ IsRace(race')
      BY <1>1 DEF Inv, Shape
    <2>3. ttft' \in BOOLEAN /\ smart'.judged \in BOOLEAN /\ DOMAIN smart' = SmartFields
      BY <1>1, <1>2, Zenon
    <2>4. pc' \in {"idle", "enter", "hedge", "returned", "done"} \cup Looping \cup Racing \cup Smartly
      BY <2>1 DEF Smartly
    <2> QED BY <1>1, <1>3, <2>1, <2>2, <2>3, <2>4, Zenon DEF Shape
  <1>5. Phases'
    BY <1>1 DEF Phases, Smartly
  <1>6. \A n : Positions(history', n) = {}
    BY <1>3 DEF Positions
  <1>7. \A n : Count(history', n) = 0 /\ Ended(history', n, Results)
    BY <1>3, <1>6, CallsFinite, Zenon
  <1>8. Budget'
    <2>1. pc' \notin Looping \cup Racing \cup {"hedge", "returned", "race"}
      BY <1>1 DEF Looping, Racing
    <2>2. 0 <= sc.retry + 1
      BY PolicyInForce DEF Inv
    <2>3. \A n \in Int : Bounded(history', n, sc.retry)
      BY <1>7, <2>2, Zenon DEF Bounded
    <2> QED BY <1>1, <1>6, <2>1, <2>3, Zenon DEF Budget
  <1>9. Exhausted'
    BY <1>1, <1>3 DEF Exhausted
  <1>10. Walk'
    BY <1>1, <1>2, <1>3 DEF Walk, Judging, Targeting
  <1>11. FirstByteIsFinal'
    BY <1>1 DEF FirstByteIsFinal
  <1>12. SmartNeverDowngrades'
    BY <1>1, <1>2, <1>3 DEF SmartNeverDowngrades
  <1> QED BY <1>4, <1>5, <1>8, <1>9, <1>10, <1>11, <1>12, Zenon DEF Inv

\* An invocation starts with no attempt made.
LEMMA EnterInv == ASSUME Inv, Enter PROVE Inv'
  <1>1. /\ pc = "enter" /\ attempt' = 0 /\ sc' = sc /\ role' = role /\ at' = at /\ ttft' = ttft
        /\ err' = err /\ history' = history /\ smart' = smart /\ race' = race /\ pc' \in {"hedge", "route"}
        /\ Retry' = Retry /\ Current' = Current
    BY DEF Enter, request, Retry, Current
  <1>2. Shape'
    BY <1>1 DEF Inv, Shape, Looping
  <1>3. Phases'
    BY <1>1 DEF Inv, Phases, Smartly
  <1>4. Budget'
    <2>1. Positions(history, Current) = {}
      BY <1>1 DEF Inv, Budget
    <2>2. Count(history, Current) = 0 /\ Retried(history, Current)
      BY <2>1, CallsFinite, Zenon DEF Inv, Shape
    <2>3. Count(history, Current) <= 0 /\ 0 <= Retry
      BY <2>2, PolicyInForce DEF Inv
    <2>4. \A n \in Int : Bounded(history, n, sc.retry)
      BY DEF Inv, Budget
    <2>5. pc' \notin {"returned", "race"} /\ pc' \notin Racing
      BY <1>1 DEF Racing
    <2> QED BY <1>1, <2>1, <2>2, <2>3, <2>4, <2>5, Zenon DEF Budget
  <1>5. Exhausted'
    BY <1>1, Zenon DEF Inv, Exhausted
  <1>6. Walk'
    <2>1. pc \notin {"classify", "target", "done"} /\ pc' \notin {"classify", "target", "done"}
      BY <1>1
    <2> QED BY <1>1, <2>1, Zenon DEF Inv, Walk, Judging, Targeting
  <1>7. ~ttft
    BY <1>1 DEF Inv, FirstByteIsFinal, Racing
  <1>8. FirstByteIsFinal' /\ SmartNeverDowngrades'
    BY <1>1, <1>7, Zenon DEF Inv, FirstByteIsFinal, SmartNeverDowngrades
  <1> QED BY <1>2, <1>3, <1>4, <1>5, <1>6, <1>8, Zenon DEF Inv

\* FallbackInvoker goes on to the next model, or the request is done.
LEMMA FallbackInv == ASSUME Inv, Fallback PROVE Inv'
  <1>1. /\ pc = "returned" /\ role = "request" /\ sc' = sc /\ role' = role /\ ttft' = ttft
        /\ history' = history /\ smart' = smart /\ attempt' = attempt /\ race' = race
    BY DEF Fallback, call
  <1>2. \/ CanFallbackModel /\ at' = at + 1 /\ pc' = "enter"
        \/ at' = at /\ pc' = "done"
    BY Zenon DEF Fallback
  <1>3. at \in Int /\ at' \in Int /\ IsHistory(history)
    BY <1>2 DEF Inv, Shape
  <1>4. ~sc.smart
    BY <1>1, Zenon DEF Inv, Phases
  <1>5. Shape'
    BY <1>1, <1>2, <1>3 DEF Inv, Shape
  <1>6. Phases'
    BY <1>1, <1>2, <1>4 DEF Phases, Smartly
  <1>7. /\ at >= 1 /\ \A i \in DOMAIN history : history[i][1] \in Int /\ history[i][1] <= at
        /\ \A n \in 1..(at - 1) : Retried(history, n) /\ Count(history, n) <= sc.retry
    BY <1>3, <1>4, Zenon DEF Inv, Exhausted, IsHistory
  <1>8. \A n \in Int : Bounded(history, n, sc.retry)
    BY DEF Inv, Budget
  <1>9. Walk'
    BY <1>1, <1>2 DEF Walk, Judging, Targeting
  <1>10. SmartNeverDowngrades'
    BY <1>1, Zenon DEF Inv, SmartNeverDowngrades
  <1>11. CASE CanFallbackModel /\ at' = at + 1 /\ pc' = "enter"
    <2>1. err = "noendpoint" /\ ~ttft
      BY <1>11 DEF CanFallbackModel
    <2>2. Current = at /\ Retry = sc.retry /\ Current' = at + 1
      BY <1>1, <1>11 DEF Current, Retry
    <2>3. Count(history, at) <= sc.retry /\ Retried(history, at)
      BY <1>1, <2>1, <2>2 DEF Inv, Budget
    <2>4. Positions(history, at + 1) = {}
      BY <1>3, <1>7 DEF Positions
    <2>5. Budget'
      <3>1. pc' \notin Looping \cup Racing \cup {"hedge", "returned", "race"}
        BY <1>11 DEF Looping, Racing
      <3> QED BY <1>1, <1>8, <2>2, <2>4, <3>1, Zenon DEF Budget
    <2>6. Exhausted'
      <3>1. \A n \in 1..(at' - 1) : n \in 1..(at - 1) \/ n = at
        BY <1>3, <1>7, <1>11
      <3>2. at' >= 1
        BY <1>3, <1>7, <1>11
      <3>3. \A i \in DOMAIN history : history[i][1] <= at'
        BY <1>3, <1>7, <1>11
      <3>4. \A n \in 1..(at' - 1) : Retried(history, n) /\ Count(history, n) <= sc.retry
        BY <3>1, <1>7, <2>3, Zenon
      <3> QED BY <3>2, <3>3, <3>4, <1>1, Zenon DEF Exhausted
    <2>7. FirstByteIsFinal'
      BY <2>1, <1>1, Zenon DEF FirstByteIsFinal
    <2> QED BY <1>5, <1>6, <1>9, <1>10, <2>5, <2>6, <2>7, Zenon DEF Inv
  <1>12. CASE at' = at /\ pc' = "done"
    <2>1. Budget'
      <3>1. pc' \notin Looping \cup Racing \cup {"hedge", "returned", "race"} /\ pc' \notin {"admit", "enter", "hedge"}
        BY <1>12 DEF Looping, Racing
      <3> QED BY <1>1, <1>8, <3>1, Zenon DEF Budget
    <2>2. Exhausted'
      BY <1>1, <1>12, Zenon DEF Inv, Exhausted
    <2>3. FirstByteIsFinal'
      BY <1>12 DEF FirstByteIsFinal
    <2> QED BY <1>5, <1>6, <1>9, <1>10, <2>1, <2>2, <2>3, Zenon DEF Inv
  <1> QED BY <1>2, <1>11, <1>12

\* The judge is started, or the walk begins at the top without a score.
LEMMA ClassifyInv == ASSUME Inv, Classify PROVE Inv'
  <1>1. pc = "classify" /\ sc' = sc /\ attempt' = attempt /\ history' = history /\ race' = race
    BY DEF Classify
  <1>2. \/ /\ role' = "judge" /\ pc' = "admit" /\ ttft' = FALSE /\ at' = at /\ smart' = smart
        \/ /\ pc' = "target" /\ at' = Len(sc.ranges) /\ role' = role /\ ttft' = ttft
           /\ smart' = [smart EXCEPT !.started = TRUE, !.start = Len(sc.ranges)]
    BY Zenon DEF Classify, Child
  <1>3. /\ Shape /\ role = "request" /\ ~ttft /\ history = <<>> /\ smart.executed = <<>> /\ ~smart.judged
    BY <1>1 DEF Inv, Phases, Walk, FirstByteIsFinal, Racing
  <1>4. sc.smart
    BY <1>1, Zenon DEF Inv, Phases, Smartly
  <1>5. Len(sc.ranges) \in Nat
    BY <1>3, PolicyInForce
  <1>6. /\ at' \in Int /\ DOMAIN smart' = SmartFields /\ smart'.executed = <<>>
        /\ smart'.judged = smart.judged /\ smart'.start \in Int
    <2>1. CASE smart' = smart /\ at' = at
      BY <2>1, <1>3 DEF Shape
    <2>2. CASE at' = Len(sc.ranges) /\ smart' = [smart EXCEPT !.started = TRUE, !.start = Len(sc.ranges)]
      BY <2>2, <1>3, <1>5 DEF Shape, SmartFields
    <2> QED BY <1>2, <2>1, <2>2, Zenon
  <1>7. ~ttft' /\ ttft' \in BOOLEAN /\ ~smart'.judged /\ smart'.judged \in BOOLEAN
    <2>1. ttft \in BOOLEAN /\ smart.judged \in BOOLEAN
      BY <1>3 DEF Shape
    <2>2. ttft = FALSE /\ smart.judged = FALSE
      BY <1>3, <2>1, Zenon
    <2>3. ttft' = FALSE
      BY <1>2, <2>2, Zenon
    <2>4. smart'.judged = FALSE
      BY <1>6, <2>2, Zenon
    <2> QED BY <2>3, <2>4, Zenon
  <1>8. pc' \in {"admit", "target"} /\ role' \in {"request", "judge"}
        /\ (pc' = "admit" => role' = "judge") /\ (pc' = "target" => role' = "request")
    BY <1>2, <1>3
  <1>9. Shape'
    BY <1>1, <1>3, <1>6, <1>7, <1>8 DEF Shape, Smartly
  <1>10. Phases'
    BY <1>1, <1>4, <1>7, <1>8 DEF Phases, Smartly
  <1>11. DOMAIN history = {} /\ DOMAIN smart'.executed = {}
    BY <1>3, <1>6
  <1>12. Budget'
    <2>1. \A n : Positions(history, n) = {}
      BY <1>11 DEF Positions
    <2>2. pc' \notin Looping \cup Racing \cup {"hedge", "returned", "race"}
      BY <1>8 DEF Looping, Racing
    <2> QED BY <1>1, <2>1, <2>2, Zenon DEF Inv, Budget
  <1>13. Exhausted'
    BY <1>1, <1>4, Zenon DEF Exhausted
  <1>14. Walk'
    <2>1. pc' # "classify" /\ ~Targeting'
      BY <1>8 DEF Targeting
    <2> QED BY <1>1, <1>6, <1>7, <1>11, <2>1, Zenon DEF Walk
  <1>15. FirstByteIsFinal' /\ SmartNeverDowngrades'
    BY <1>7, <1>6, <1>11 DEF FirstByteIsFinal, SmartNeverDowngrades
  <1> QED BY <1>9, <1>10, <1>12, <1>13, <1>14, <1>15, Zenon DEF Inv

\* The order of the walk depends on the executed ranges and the start only.
LEMMA ClimbKept ==
  ASSUME SmartNeverDowngrades, sc' = sc, smart'.executed = smart.executed,
         smart'.judged = smart.judged, smart'.start = smart.start
  PROVE  SmartNeverDowngrades'
  BY DEF SmartNeverDowngrades

\* A step between the phases of a child that makes no call.
LEMMA ChildStep ==
  ASSUME Inv, sc.smart, role # "request",
         UNCHANGED <<sc, role, at, ttft, history, attempt, race>>,
         smart' = smart \/ \E l : smart' = [smart EXCEPT !.limits = l],
         \/ pc = "admit" /\ pc' \in {"enter", "settle"}
         \/ pc = "returned" /\ pc' = "settle"
         \/ pc = "settle" /\ pc' = IF role = "judge" THEN "judged" ELSE "targeted"
  PROVE  Inv'
  <1>1. /\ sc' = sc /\ role' = role /\ at' = at /\ ttft' = ttft /\ history' = history /\ attempt' = attempt
        /\ race' = race /\ Current' = Current /\ Retry' = Retry
    BY DEF Current, Retry
  <1>2. /\ DOMAIN smart' = DOMAIN smart /\ smart'.executed = smart.executed
        /\ smart'.judged = smart.judged /\ smart'.start = smart.start /\ smart'.seen = smart.seen
    BY DEF Inv, Shape, SmartFields
  <1>3. /\ pc \in {"admit", "returned", "settle"}
        /\ pc' \in {"enter", "settle", "judged", "targeted"} /\ (pc' = "enter" => pc = "admit")
        /\ (pc' = "judged" => role = "judge") /\ (pc' = "targeted" => role # "judge")
    OBVIOUS
  <1>4. Shape'
    BY <1>1, <1>2, <1>3 DEF Inv, Shape, Smartly
  <1>5. ~ttft
    BY Zenon DEF Inv, Phases
  <1>6. Phases'
    BY <1>1, <1>3, <1>5 DEF Inv, Phases, Shape, Smartly
  <1>7. Budget'
    <2>1. pc' \notin Looping \cup Racing \cup {"hedge", "returned", "admit", "race"}
      BY <1>3 DEF Looping, Racing
    <2> QED BY <1>1, <1>3, <2>1, Zenon DEF Inv, Budget
  <1>8. Exhausted'
    BY <1>1, Zenon DEF Exhausted
  <1>9. Walk'
    <2>1. /\ pc \notin {"classify", "target", "done"} /\ pc' \notin {"classify", "target", "done"}
      BY <1>3
    <2>2. (Judging' <=> Judging) /\ (Targeting' <=> Targeting)
      BY <1>1, <2>1, Zenon DEF Judging, Targeting
    <2>3. Walk
      BY Zenon DEF Inv
    <2>4. pc' = "classify" \/ Judging' =>
             /\ smart'.executed = <<>> /\ ~smart'.judged
             /\ \A i \in DOMAIN history' : history'[i][1] = 0
      BY <1>1, <1>2, <2>1, <2>2, <2>3, Zenon DEF Walk
    <2> DEFINE On(r, h, a, executed, judged, start, seen) ==
                  /\ ~judged => executed = <<>>
                  /\ judged => start <= a
                  /\ judged => \A i \in DOMAIN executed : start <= executed[i] /\ executed[i] < a
                  /\ \A i \in DOMAIN executed : r[executed[i]].model \in seen
                  /\ a \in DOMAIN r /\ r[a].model \in seen
                  /\ judged => \A i \in DOMAIN h : h[i][1] <= a
                  /\ \A i \in DOMAIN executed : r[executed[i]].model # r[a].model
    <2>5. Targeting => On(sc.ranges, history, at, smart.executed, smart.judged, smart.start, smart.seen)
      BY <2>3, Zenon DEF Walk
    <2>6. Targeting' =>
            On(sc'.ranges, history', at', smart'.executed, smart'.judged, smart'.start, smart'.seen)
      <3> HIDE DEF On
      <3> QED BY <1>1, <1>2, <2>2, <2>5
    <2> QED BY <2>1, <2>4, <2>6, Zenon DEF Walk
  <1>10. FirstByteIsFinal' /\ SmartNeverDowngrades'
    <2>1. ~ttft'
      BY <1>1, <1>5
    <2>2. SmartNeverDowngrades
      BY Zenon DEF Inv
    <2> QED BY <1>1, <1>2, <2>1, <2>2, ClimbKept, Zenon DEF FirstByteIsFinal
  <1> QED BY <1>4, <1>6, <1>7, <1>8, <1>9, <1>10, Zenon DEF Inv

\* The child's limits are reserved, its invocation returns, the limits settled.
LEMMA ChildInv == ASSUME Inv, Admit \/ ChildReturns \/ Settle PROVE Inv'
  <1>1. CASE Admit
    <2>1. pc = "admit" /\ UNCHANGED <<sc, role, at, ttft, history, attempt, race>>
      BY <1>1 DEF Admit, call
    <2>2. pc' \in {"enter", "settle"} /\ \E l : smart' = [smart EXCEPT !.limits = l]
      BY <1>1, Zenon DEF Admit
    <2>3. sc.smart /\ role # "request"
      BY <2>1, Zenon DEF Inv, Phases, Smartly
    <2> QED BY <2>1, <2>2, <2>3, ChildStep, Zenon
  <1>2. CASE ChildReturns
    <2>1. pc = "returned" /\ role # "request" /\ pc' = "settle" /\ smart' = smart
          /\ UNCHANGED <<sc, role, at, ttft, history, attempt, race>>
      BY <1>2 DEF ChildReturns, call, request
    <2>2. sc.smart
      BY <2>1, Zenon DEF Inv, Phases
    <2> QED BY <2>1, <2>2, ChildStep, Zenon
  <1>3. CASE Settle
    <2>1. pc = "settle" /\ pc' = (IF role = "judge" THEN "judged" ELSE "targeted")
          /\ UNCHANGED <<sc, role, at, ttft, history, attempt, race>>
      BY <1>3 DEF Settle, call
    <2>2. \E l : smart' = [smart EXCEPT !.limits = l]
      BY <1>3, Zenon DEF Settle
    <2>3. sc.smart /\ role # "request"
      BY <2>1, Zenon DEF Inv, Phases, Smartly
    <2> QED BY <2>1, <2>2, <2>3, ChildStep, Zenon
  <1> QED BY <1>1, <1>2, <1>3, Zenon

\* The range of a score is a range of the model.
LEMMA RangeIndexIn ==
  ASSUME Shape, NEW score, RangeIndex(score) # 0
  PROVE  RangeIndex(score) \in DOMAIN sc.ranges
  <1> DEFINE hit == {i \in DOMAIN sc.ranges :
                        /\ score >= sc.ranges[i].min
                        /\ \/ score < sc.ranges[i].max
                           \/ i = Len(sc.ranges) /\ score = 100 /\ sc.ranges[i].max = 100}
  <1>1. hit # {} /\ RangeIndex(score) = Min(hit)
    BY Zenon DEF RangeIndex
  <1>2. DOMAIN sc.ranges \subseteq Nat
    BY PolicyInForce
  <1>3. \E m \in hit : \A j \in hit : m <= j
    <2> HIDE DEF hit
    <2>1. hit \subseteq Nat
      BY <1>2, Zenon DEF hit
    <2>2. PICK m \in hit : \A j \in hit : ~ (<<j, m>> \in OpToRel(<, Nat))
      BY <1>1, <2>1, NatLessThanWellFounded, WFMin, Zenon
    <2>3. \A j \in hit : j \in Nat /\ m \in Nat /\ <<j, m>>[1] = j /\ <<j, m>>[2] = m
      BY <2>1
    <2>4. \A j \in hit : ~(j < m)
      BY <2>2, <2>3, Zenon DEF OpToRel
    <2> QED BY <2>3, <2>4
  <1>4. Min(hit) \in hit
    <2> HIDE DEF hit
    <2> QED BY <1>3, Zenon DEF Min
  <1> QED BY <1>1, <1>4, Zenon

\* The request ends, the walk begins at the score's range, or at the top.
LEMMA JudgedInv == ASSUME Inv, Judged PROVE Inv'
  <1>1. /\ pc = "judged" /\ sc' = sc /\ role' = role /\ ttft' = ttft /\ history' = history
        /\ attempt' = attempt /\ race' = race
    BY Zenon DEF Judged
  <1>2. \/ pc' = "done" /\ at' = at /\ smart' = smart
        \/ \E score : /\ RangeIndex(score) # 0
                      /\ pc' = "target" /\ at' = RangeIndex(score)
                      /\ smart' = [smart EXCEPT !.started = TRUE, !.judged = TRUE, !.start = RangeIndex(score)]
        \/ /\ pc' = "target" /\ at' = Len(sc.ranges)
           /\ smart' = [smart EXCEPT !.started = TRUE, !.start = Len(sc.ranges)]
    BY Zenon DEF Judged, Finish
  <1>3. Shape /\ role = "judge"
    BY <1>1, Zenon DEF Inv, Phases
  <1>4. sc.smart /\ ~ttft
    BY <1>1, <1>3, Zenon DEF Inv, Phases, Smartly
  <1>5. Len(sc.ranges) \in Nat /\ DOMAIN sc.ranges = 1..Len(sc.ranges)
    BY <1>3, PolicyInForce
  <1>6. smart.executed = <<>> /\ ~smart.judged /\ \A i \in DOMAIN history : history[i][1] = 0
    <2>1. Judging
      BY <1>1, <1>3 DEF Judging
    <2> QED BY <2>1, Zenon DEF Inv, Walk
  <1>7. /\ at' \in Int /\ DOMAIN smart' = SmartFields /\ smart'.executed = <<>>
        /\ smart'.judged \in BOOLEAN /\ smart'.start \in Int
        /\ pc' = "target" /\ smart'.judged => smart'.start = at' /\ at' >= 1
    <2>1. CASE pc' = "done" /\ at' = at /\ smart' = smart
      BY <2>1, <1>3, <1>6 DEF Shape
    <2>2. CASE \E score : /\ RangeIndex(score) # 0 /\ pc' = "target" /\ at' = RangeIndex(score)
                          /\ smart' = [smart EXCEPT !.started = TRUE, !.judged = TRUE, !.start = RangeIndex(score)]
      <3>1. PICK score : /\ RangeIndex(score) # 0 /\ pc' = "target" /\ at' = RangeIndex(score)
                         /\ smart' = [smart EXCEPT !.started = TRUE, !.judged = TRUE, !.start = RangeIndex(score)]
        BY <2>2, Zenon
      <3>2. RangeIndex(score) \in Nat /\ RangeIndex(score) >= 1
        BY <3>1, <1>3, <1>5, RangeIndexIn
      <3> QED BY <3>1, <3>2, <1>3, <1>6 DEF Shape, SmartFields
    <2>3. CASE at' = Len(sc.ranges) /\ smart' = [smart EXCEPT !.started = TRUE, !.start = Len(sc.ranges)]
      BY <2>3, <1>3, <1>5, <1>6 DEF Shape, SmartFields
    <2> QED BY <1>2, <2>1, <2>2, <2>3, Zenon
  <1>8. pc' \in {"done", "target"}
    BY <1>2, Zenon
  <1>9. Shape'
    BY <1>1, <1>3, <1>7, <1>8 DEF Shape, Smartly
  <1>10. Phases'
    BY <1>1, <1>3, <1>4, <1>8 DEF Phases, Smartly
  <1>11. Budget'
    <2>1. pc' \notin Looping \cup Racing \cup {"hedge", "returned", "admit", "enter", "race"}
      BY <1>8 DEF Looping, Racing
    <2> QED BY <1>1, <2>1, Zenon DEF Inv, Budget
  <1>12. Exhausted'
    BY <1>1, <1>4, Zenon DEF Exhausted
  <1>13. Walk'
    <2>1. pc' # "classify" /\ ~Targeting' /\ ~Judging' /\ DOMAIN smart'.executed = {}
      BY <1>7, <1>8 DEF Targeting, Judging
    <2>2. pc' = "target" /\ smart'.judged => smart'.start <= at' /\ \A i \in DOMAIN history : history[i][1] < at'
      BY <1>6, <1>7
    <2> QED BY <1>1, <1>6, <1>7, <2>1, <2>2, Zenon DEF Walk
  <1>14. FirstByteIsFinal' /\ SmartNeverDowngrades'
    BY <1>1, <1>4, <1>7 DEF FirstByteIsFinal, SmartNeverDowngrades
  <1> QED BY <1>9, <1>10, <1>11, <1>12, <1>13, <1>14, Zenon DEF Inv

\* The next range is skipped, its child is started, or the walk ends.
LEMMA TargetInv == ASSUME Inv, Target PROVE Inv'
  <1>1. /\ pc = "target" /\ sc' = sc /\ history' = history /\ attempt' = attempt /\ race' = race
    BY Zenon DEF Target
  <1> DEFINE m == sc.ranges[at].model
             Passed == pc' = "done" /\ at' = at /\ smart' = smart /\ role' = role /\ ttft' = ttft
             Looked == /\ at \in DOMAIN sc.ranges
                       /\ \E x : smart' = [smart EXCEPT !.seen = @ \cup {m}, !.last = x]
             Skipped == Looked /\ pc' = pc /\ at' = Past(at) /\ role' = role /\ ttft' = ttft
             Started == /\ Looked /\ pc' = "admit" /\ at' = at /\ role' = "target" /\ ttft' = FALSE
                        /\ m \notin smart.seen
  <1>2. Passed \/ Skipped \/ Started
    BY Zenon DEF Target, Finish, Child
  <1>3. Shape /\ sc.smart /\ ~ttft /\ ttft \in BOOLEAN
    BY <1>1, Zenon DEF Inv, Phases, Smartly, Shape
  <1>4. /\ ~smart.judged => smart.executed = <<>>
        /\ smart.judged => smart.start <= at
        /\ smart.judged => \A i \in DOMAIN smart.executed :
              /\ smart.start <= smart.executed[i] /\ smart.executed[i] < at
        /\ \A i \in DOMAIN smart.executed : sc.ranges[smart.executed[i]].model \in smart.seen
        /\ \A i \in DOMAIN history : IF smart.judged THEN history[i][1] < at ELSE history[i][1] = 0
    BY <1>1, Zenon DEF Inv, Walk
  <1>5. /\ DOMAIN smart' = SmartFields /\ smart'.executed = smart.executed
        /\ smart'.judged = smart.judged /\ smart'.start = smart.start
        /\ smart.seen \subseteq smart'.seen /\ (Looked => m \in smart'.seen)
    <2>1. CASE smart' = smart /\ ~Looked
      BY <2>1, <1>3, Zenon DEF Shape
    <2>2. CASE Looked
      BY <2>2, <1>3 DEF Shape, SmartFields
    <2>3. CASE smart' = smart /\ Looked
      BY <2>2, <2>3, Zenon
    <2> QED BY <1>2, <2>1, <2>2, Zenon
  <1>6. ttft' = FALSE
    <2>1. ttft = FALSE
      BY <1>3, Zenon
    <2> QED BY <1>2, <2>1, Zenon
  <1>7. /\ at' \in Int /\ (smart.judged => at <= at')
        /\ at \in Int /\ smart.start \in Int /\ smart.executed \in Seq(Int) /\ smart.judged \in BOOLEAN
    <2>1. /\ at \in Int /\ smart.start \in Int /\ smart.executed \in Seq(Int) /\ smart.judged \in BOOLEAN
      BY <1>3 DEF Shape
    <2>2. at' = at \/ at' = Past(at)
      BY <1>2, Zenon
    <2> QED BY <2>1, <2>2 DEF Past, Step
  <1>8. /\ pc' \in {"done", "target", "admit"} /\ (pc' = "admit" <=> Started)
        /\ (pc' # "admit" => role' = role) /\ (pc' = "admit" => role' = "target")
    BY <1>1, <1>2, Zenon
  <1>9. Shape'
    BY <1>1, <1>3, <1>5, <1>6, <1>7, <1>8, Zenon DEF Shape, Smartly
  <1>10. Phases'
    BY <1>1, <1>3, <1>6, <1>8, Zenon DEF Phases, Smartly
  <1>11. Budget'
    <2>1. pc' \notin Looping \cup Racing \cup {"hedge", "returned", "enter", "race"}
      BY <1>8, Zenon DEF Looping, Racing
    <2>2. pc' = "admit" => Positions(history, Current') = {}
      <3>1. SUFFICES ASSUME pc' = "admit" PROVE Positions(history, Current') = {}
        OBVIOUS
      <3>2. Current' = at /\ at \in DOMAIN sc.ranges
        BY <1>8, <3>1, Zenon DEF Current
      <3>3. at >= 1
        BY <3>2, <1>3, PolicyInForce
      <3>4. \A i \in DOMAIN history : history[i][1] # at
        BY <1>4, <1>7, <3>3 DEF Shape, IsHistory
      <3> QED BY <3>2, <3>4, Zenon DEF Positions
    <2> QED BY <1>1, <2>1, <2>2, Zenon DEF Inv, Budget
  <1>12. Exhausted'
    BY <1>1, <1>3, Zenon DEF Exhausted
  <1>13. Walk'
    <2> HIDE DEF Looked
    <2>1. pc' # "classify" /\ ~Judging' /\ (Targeting' => pc' = "admit")
      BY <1>8, Zenon DEF Judging, Targeting
    <2>2. smart.judged => /\ smart.start <= at'
                          /\ \A i \in DOMAIN smart.executed :
                                smart.start <= smart.executed[i] /\ smart.executed[i] < at'
      BY <1>4, <1>7
    <2>3. \A i \in DOMAIN smart.executed : sc.ranges[smart.executed[i]].model \in smart'.seen
      BY <1>4, <1>5, Zenon
    <2>4. \A i \in DOMAIN history : IF smart.judged THEN history[i][1] < at' ELSE history[i][1] = 0
      <3>1. \A i \in DOMAIN history : history[i][1] \in Int
        BY <1>3, Zenon DEF Shape, IsHistory
      <3>2. CASE smart.judged
        <4>1. \A i \in DOMAIN history : history[i][1] < at
          BY <1>4, <3>2, Zenon
        <4>2. \A i \in DOMAIN history : history[i][1] < at'
          BY <1>7, <3>1, <3>2, <4>1
        <4> QED BY <3>2, <4>2, Zenon
      <3>3. CASE ~smart.judged
        BY <1>4, <3>3, Zenon
      <3> QED BY <3>2, <3>3, Zenon
    <2>5. pc' = "admit" =>
             /\ at' \in DOMAIN sc.ranges /\ sc.ranges[at'].model \in smart'.seen
             /\ \A i \in DOMAIN smart.executed : sc.ranges[smart.executed[i]].model # sc.ranges[at'].model
      <3>1. SUFFICES ASSUME Started
                     PROVE  /\ at' \in DOMAIN sc.ranges /\ sc.ranges[at'].model \in smart'.seen
                            /\ \A i \in DOMAIN smart.executed :
                                  sc.ranges[smart.executed[i]].model # sc.ranges[at'].model
        BY <1>8, Zenon
      <3>2. at' = at /\ m \in smart'.seen /\ m \notin smart.seen /\ at \in DOMAIN sc.ranges
        BY <3>1, <1>5, Zenon DEF Looked
      <3> QED BY <3>2, <1>4, Zenon
    <2>6. smart.judged => \A i \in DOMAIN history : history[i][1] <= at'
      BY <2>4, <1>3, <1>7 DEF Shape, IsHistory
    <2> QED BY <1>1, <1>4, <1>5, <2>1, <2>2, <2>3, <2>4, <2>5, <2>6, Zenon DEF Walk
  <1>14. FirstByteIsFinal' /\ SmartNeverDowngrades'
    BY <1>1, <1>5, <1>6, ClimbKept, Zenon DEF FirstByteIsFinal, Inv
  <1> QED BY <1>9, <1>10, <1>11, <1>12, <1>13, <1>14, Zenon DEF Inv

\* The target came back: its range joins the executed ones, and the walk ends or
\* goes up by one.
LEMMA TargetedInv == ASSUME Inv, Targeted PROVE Inv'
  <1>1. /\ pc = "targeted" /\ sc' = sc /\ role' = role /\ ttft' = ttft /\ history' = history
        /\ attempt' = attempt /\ race' = race
    BY Zenon DEF Targeted
  <1>2. \/ pc' = "done" /\ at' = at /\ smart' = smart
        \/ /\ smart' = [smart EXCEPT !.executed = Append(@, at), !.last = err]
           /\ \/ pc' = "done" /\ at' = at
              \/ pc' = "target" /\ smart.judged /\ at' = at + Step
    BY Zenon DEF Targeted
  <1>3. Shape /\ role = "target" /\ Targeting
    BY <1>1 DEF Inv, Phases, Targeting
  <1>4. sc.smart /\ ~ttft
    BY <1>1, Zenon DEF Inv, Phases, Smartly
  <1>5. /\ ~smart.judged => smart.executed = <<>>
        /\ smart.judged => smart.start <= at
        /\ smart.judged => \A i \in DOMAIN smart.executed :
              /\ smart.start <= smart.executed[i] /\ smart.executed[i] < at
        /\ \A i \in DOMAIN smart.executed : sc.ranges[smart.executed[i]].model \in smart.seen
        /\ sc.ranges[at].model \in smart.seen
        /\ smart.judged => \A i \in DOMAIN history : history[i][1] <= at
        /\ \A i \in DOMAIN smart.executed : sc.ranges[smart.executed[i]].model # sc.ranges[at].model
    BY <1>3, Zenon DEF Inv, Walk
  <1>6. /\ at \in Int /\ smart.start \in Int /\ smart.executed \in Seq(Int) /\ smart.judged \in BOOLEAN
        /\ DOMAIN smart = SmartFields
    BY <1>3 DEF Shape
  <1>7. /\ pc' \in {"done", "target"}
        /\ pc' = "target" => /\ smart.judged /\ at' = at + 1
                            /\ smart' = [smart EXCEPT !.executed = Append(@, at), !.last = err]
    BY <1>2, Zenon DEF Step
  <1>8. /\ DOMAIN smart' = SmartFields /\ smart'.judged = smart.judged
        /\ smart'.start = smart.start /\ smart'.seen = smart.seen
    <2>1. CASE smart' = smart
      BY <2>1, <1>6, Zenon
    <2>2. CASE smart' = [smart EXCEPT !.executed = Append(@, at), !.last = err]
      BY <2>2, <1>6 DEF SmartFields
    <2> QED BY <1>2, <2>1, <2>2, Zenon
  <1>9. smart'.executed = smart.executed \/ smart'.executed = Append(smart.executed, at)
    <2>1. CASE smart' = [smart EXCEPT !.executed = Append(@, at), !.last = err]
      BY <2>1, <1>6 DEF SmartFields
    <2> QED BY <1>2, <2>1, Zenon
  <1>10. /\ smart'.executed \in Seq(Int) /\ at' \in Int
         /\ \A i \in DOMAIN smart'.executed :
               \/ i \in DOMAIN smart.executed /\ smart'.executed[i] = smart.executed[i]
               \/ i = Len(smart.executed) + 1 /\ smart'.executed[i] = at
         /\ Len(smart.executed) \in Nat /\ DOMAIN smart.executed = 1..Len(smart.executed)
    <2>1. at' \in Int
      BY <1>2, <1>6, <1>7
    <2>2. CASE smart'.executed = smart.executed
      BY <2>1, <2>2, <1>6
    <2>3. CASE smart'.executed = Append(smart.executed, at)
      BY <2>1, <2>3, <1>6
    <2> QED BY <1>9, <2>2, <2>3, Zenon
  <1>11. Shape'
    BY <1>1, <1>3, <1>7, <1>8, <1>10 DEF Shape, Smartly
  <1>12. Phases'
    BY <1>1, <1>3, <1>4, <1>7 DEF Phases, Smartly
  <1>13. Budget'
    <2>1. pc' \notin Looping \cup Racing \cup {"hedge", "returned", "admit", "enter", "race"}
      BY <1>7 DEF Looping, Racing
    <2> QED BY <1>1, <2>1, Zenon DEF Inv, Budget
  <1>14. Exhausted'
    BY <1>1, <1>4, Zenon DEF Exhausted
  <1>15. Walk'
    <2>1. pc' # "classify" /\ ~Judging' /\ ~Targeting'
      BY <1>7 DEF Judging, Targeting
    <2>2. SUFFICES ASSUME pc' = "target" PROVE Walk'
      BY <2>1, Zenon DEF Walk
    <2>3. smart.judged /\ at' = at + 1
      BY <1>7, <2>2
    <2>4. smart'.start <= at' /\ \A i \in DOMAIN smart'.executed :
             smart'.start <= smart'.executed[i] /\ smart'.executed[i] < at'
      <3>1. smart.start <= at' /\ smart.start <= at /\ at < at'
            /\ \A i \in DOMAIN smart.executed : smart.start <= smart.executed[i] /\ smart.executed[i] < at'
        BY <1>5, <1>6, <2>3
      <3> QED BY <3>1, <1>8, <1>10, Zenon
    <2>5. \A i \in DOMAIN smart'.executed : sc.ranges[smart'.executed[i]].model \in smart'.seen
      BY <1>5, <1>8, <1>10, Zenon
    <2>6. \A i \in DOMAIN history : history[i][1] < at'
      <3>1. \A i \in DOMAIN history : history[i][1] \in Int
        BY <1>3, Zenon DEF Shape, IsHistory
      <3>2. \A i \in DOMAIN history : history[i][1] <= at
        BY <1>5, <2>3, Zenon
      <3> QED BY <3>1, <3>2, <1>6, <2>3
    <2> QED BY <1>1, <1>8, <2>1, <2>2, <2>3, <2>4, <2>5, <2>6, Zenon DEF Walk
  <1>16. SmartNeverDowngrades'
    <2>1. SmartNeverDowngrades
      BY Zenon DEF Inv
    <2>2. CASE smart'.executed = smart.executed
      BY <2>1, <2>2, <1>1, <1>8, ClimbKept, Zenon
    <2>3. CASE smart'.executed = Append(smart.executed, at)
      <3>1. ~smart.judged => Len(smart'.executed) <= 1
        BY <2>3, <1>5, <1>6
      <3>2. ASSUME NEW i \in DOMAIN smart'.executed PROVE smart.judged => smart'.executed[i] >= smart.start
        <4>1. smart.judged => /\ at >= smart.start
                              /\ \A k \in DOMAIN smart.executed : smart.executed[k] >= smart.start
          BY <1>5, <1>6
        <4> QED BY <4>1, <1>10, Zenon
      <3>3. ASSUME NEW i \in DOMAIN smart'.executed, NEW j \in 1..(i - 1)
            PROVE  /\ smart'.executed[j] < smart'.executed[i]
                   /\ sc.ranges[smart'.executed[j]].model # sc.ranges[smart'.executed[i]].model
        <4>1. /\ j \in DOMAIN smart.executed /\ smart'.executed[j] = smart.executed[j]
              /\ smart.judged
          BY <2>3, <1>5, <1>6
        <4>2. CASE i \in DOMAIN smart.executed /\ smart'.executed[i] = smart.executed[i]
          BY <2>1, <4>1, <4>2, Zenon DEF SmartNeverDowngrades
        <4>3. CASE smart'.executed[i] = at
          BY <4>1, <4>3, <1>5, Zenon
        <4> QED BY <4>2, <4>3, <1>10, Zenon
      <3> QED BY <1>1, <1>8, <3>1, <3>2, <3>3, Zenon DEF SmartNeverDowngrades
    <2> QED BY <1>9, <2>2, <2>3, Zenon
  <1>17. FirstByteIsFinal'
    BY <1>1, <1>4 DEF FirstByteIsFinal
  <1> QED BY <1>11, <1>12, <1>13, <1>14, <1>15, <1>16, <1>17, Zenon DEF Inv

(* ------------------------------- theorems ------------------------------- *)

LEMMA InitInv == ASSUME Init PROVE Inv
  <1>1. /\ sc \in Scenarios /\ pc = "idle" /\ role = "request" /\ at = 1 /\ attempt = 0 /\ ttft = FALSE
        /\ history = <<>> /\ smart = Fresh /\ race = NoRace
    BY DEF Init
  <1>2. DOMAIN smart = SmartFields /\ smart.judged = FALSE /\ smart.start \in Int /\ smart.executed = <<>>
    BY <1>1 DEF Fresh, SmartFields
  <1>3. DOMAIN history = {} /\ history \in Seq(Range(history)) /\ DOMAIN smart.executed = {}
    BY <1>1, <1>2
  <1>4. Shape
    <2>1. at \in Int /\ attempt \in Nat /\ smart.executed \in Seq(Int)
      BY <1>1, <1>2
    <2>2. ttft \in BOOLEAN /\ smart.judged \in BOOLEAN
      BY <1>1, <1>2, Zenon
    <2> QED BY <1>1, <1>2, <1>3, <2>1, <2>2, NoRaceType, Zenon DEF Shape, IsHistory
  <1>5. Phases
    BY <1>1 DEF Phases, Smartly
  <1>6. Budget
    <2>1. \A n : Positions(history, n) = {}
      BY <1>3 DEF Positions
    <2>2. \A n : Count(history, n) = 0 /\ Ended(history, n, Results)
      BY <1>4, <2>1, CallsFinite, Zenon DEF Shape
    <2>3. 0 <= sc.retry + 1
      BY <1>4, PolicyInForce
    <2>4. \A n \in Int : Bounded(history, n, sc.retry)
      BY <2>2, <2>3, Zenon DEF Bounded
    <2> QED BY <1>1, <2>4 DEF Budget, Looping, Racing
  <1>7. Exhausted
    BY <1>1, <1>3 DEF Exhausted
  <1>8. Walk
    BY <1>1, <1>2, <1>3 DEF Walk, Judging, Targeting
  <1>9. FirstByteIsFinal /\ SmartNeverDowngrades
    BY <1>1, <1>2, <1>3 DEF FirstByteIsFinal, SmartNeverDowngrades
  <1> QED BY <1>4, <1>5, <1>6, <1>7, <1>8, <1>9 DEF Inv

\* One step per action of the request; the environment leaves the request alone.
LEMMA NextInv == ASSUME Inv, [Next]_vars PROVE Inv'
  <1>1. CASE Arrive       BY <1>1, ArriveInv, Zenon
  <1>2. CASE Enter        BY <1>2, EnterInv, Zenon
  <1>3. CASE Route        BY <1>3, RouteInv, Zenon
  <1>4. CASE Select       BY <1>4, SelectInv, Zenon
  <1>5. CASE Begin        BY <1>5, BeginInv, Zenon
  <1>6. CASE Reply        BY <1>6, ReplyInv, Zenon
  <1>7. CASE Hedge        BY <1>7, HedgeInv, Zenon
  <1>8. CASE Race         BY <1>8, RaceInv, Zenon
  <1>9. CASE Fallback     BY <1>9, FallbackInv, Zenon
  <1>10. CASE Classify    BY <1>10, ClassifyInv, Zenon
  <1>11. CASE Admit \/ ChildReturns \/ Settle  BY <1>11, ChildInv, Zenon
  <1>12. CASE Judged      BY <1>12, JudgedInv, Zenon
  <1>13. CASE Target      BY <1>13, TargetInv, Zenon
  <1>14. CASE Targeted    BY <1>14, TargetedInv, Zenon
  <1>15. CASE BreakerMoves \/ FleetMoves \/ OtherRequest \/ CacheExpires
    <2>1. UNCHANGED <<sc, served, pc, call, request>>
      BY <1>15, Zenon DEF BreakerMoves, FleetMoves, OtherRequest, CacheExpires, Move
    <2> QED BY <2>1, Still, Zenon DEF call, request
  <1>16. CASE UNCHANGED vars
    BY <1>16, Still, Zenon DEF vars, call, request
  <1>17. CASE Rest
    BY <1>17, <1>16, Zenon DEF Rest
  <1> QED BY <1>1, <1>2, <1>3, <1>4, <1>5, <1>6, <1>7, <1>8, <1>9, <1>10, <1>11, <1>12, <1>13, <1>14,
             <1>15, <1>16, <1>17, Zenon DEF Next, Work

\* The invariant holds in every state of every request.
THEOREM Invariance == Spec => []Inv
  <1>1. Init => Inv
    BY InitInv
  <1>2. Inv /\ [Next]_vars => Inv'
    BY NextInv
  <1> QED BY <1>1, <1>2, PTL DEF Spec

\* Once the client has the first byte no attempt and no model follows, whatever the
\* retry policy and the fallback list (cluster.go, CanFallbackModel); a race the
\* byte came out of goes on with its own two calls only.
THEOREM FirstByteFinal == Spec => []FirstByteIsFinal
  <1>1. Inv => FirstByteIsFinal
    BY DEF Inv
  <1> QED BY <1>1, Invariance, PTL

\* The ranges of a smart request are executed upwards from the one the score
\* picked, no model twice; without a score one at most (smart_request.go).
THEOREM SmartClimbs == Spec => []SmartNeverDowngrades
  <1>1. Inv => SmartNeverDowngrades
    BY DEF Inv
  <1> QED BY <1>1, Invariance, PTL

\* A further model is tried only for one all of whose calls failed retryably
\* with attempts left (CanFallbackModel, the attempt loop of cluster.go).
THEOREM FallbackExhaustion == Spec => []FallbackNeedsExhaustion
  <1>1. Inv => FallbackNeedsExhaustion
    <2>1. \A n : Calls(n) = Positions(history, n)
      BY DEF Calls, Positions
    <2>2. Inv => Exhausted
      BY DEF Inv
    <2>3. \A x : x \in {"retry"} => x = "retry"
      OBVIOUS
    <2> QED BY <2>1, <2>2, <2>3, Zenon DEF Exhausted, FallbackNeedsExhaustion, Retried, Ended, Count
  <1> QED BY <1>1, Invariance, PTL

\* An invocation, by number: the judge is 0, a model or a range its own place.
Raced(n) == \E i \in Calls(n) : history[i][3] = "race"

CallsBounded ==
    \A n \in Int :
        /\ Raced(n) => Cardinality(Calls(n)) <= 2 /\ \A i \in Calls(n) : history[i][3] = "race"
        /\ ~Raced(n) => Cardinality(Calls(n)) <= sc.retry + 1

\* No invocation makes more calls than the retry policy's retries and one more; a
\* hedged one makes at most its two, whatever the policy says of retries, and no
\* attempt beside them (the attempt loop of cluster.go, hedging.go; the counting
\* part of RetryIsBounded).
THEOREM WithinPolicy == Spec => []CallsBounded
  <1>1. Inv => CallsBounded
    <2> SUFFICES ASSUME Inv, NEW n \in Int
                 PROVE  /\ Raced(n) => /\ Cardinality(Calls(n)) <= 2
                                       /\ \A i \in Calls(n) : history[i][3] = "race"
                        /\ ~Raced(n) => Cardinality(Calls(n)) <= sc.retry + 1
      BY Zenon DEF CallsBounded
    <2>1. Calls(n) = Positions(history, n) /\ Cardinality(Calls(n)) = Count(history, n)
      BY DEF Calls, Positions, Count
    <2>2. Bounded(history, n, sc.retry)
      BY Zenon DEF Inv, Budget
    <2>3. CASE Count(history, n) <= sc.retry + 1 /\ Ended(history, n, Results)
      <3>1. ~Raced(n)
        BY <2>1, <2>3 DEF Raced, Ended, Results
      <3> QED BY <2>1, <2>3, <3>1, Zenon
    <2>4. CASE Count(history, n) <= 2 /\ Ended(history, n, {"race"})
      <3>1. \A i \in Calls(n) : history[i][3] = "race"
        BY <2>1, <2>4 DEF Ended
      <3>2. ~Raced(n) => Calls(n) = {}
        BY <3>1, Zenon DEF Raced
      <3>3. Calls(n) = {} => Cardinality(Calls(n)) = 0
        BY FS_EmptySet
      <3>4. 0 <= sc.retry + 1
        BY PolicyInForce DEF Inv
      <3> QED BY <2>1, <2>4, <3>1, <3>2, <3>3, <3>4, Zenon
    <2> QED BY <2>2, <2>3, <2>4, Zenon DEF Bounded
  <1> QED BY <1>1, Invariance, PTL

=============================================================================
