----------------------------- MODULE RateLimit -----------------------------
(***************************************************************************)
(* The life of a request's quota: the limit filter precharges every window *)
(* of every limit policy (pkg/filters/inbound/limit.go, pkg/limiter), and  *)
(* the settlement filter corrects the charge to what was used              *)
(* (pkg/filters/outbound/token_settlement.go).  A request makes one store  *)
(* call per step, so that requests interleave between any two calls.       *)
(*                                                                         *)
(* `Tracked' is gctx.TrackLimitReservations: smart-routed requests keep    *)
(* what they precharged and settle exactly that; all others recompute it.  *)
(* Policies are those whose conditions the requests meet.  Prompt caching  *)
(* and its prices are left out; costs are whole units per token.           *)
(***************************************************************************)
EXTENDS StateStore, Sequences, FiniteSets, FiniteSetsExt, SequencesExt

CONSTANTS
    Requests,        \* requests that may be made
    Scenes,          \* values of scene
    InputEstimate,   \* EstimateInputTokens of a request
    DefaultOutput,   \* the output estimate while there is no average (200)
    PrechargePrice, SettlePrice    \* [in, out]: price of a token

Tokens == [in : Nat, out : Nat]

NoUse == [in |-> 0, out |-> 0]

\* capacity = 0: no burst_ratio, a fixed window; else a token bucket.
Window == [len : Nat \ {0}, threshold : Nat, capacity : Nat]

\* byModel: the limit key contains the model.  wait: max_wait_ms > 0.
Policy == [id : Nat, type : {"request", "token", "cost"}, windows : Seq(Window),
           byModel : BOOLEAN, wait : BOOLEAN]

\* A scene: the store (backend), how many requests there are and for which
\* models, gctx.Policy.LimitPolicies, gctx.TrackLimitReservations, whether they ask
\* for images, what a call may turn out to use, whether calls and later filters may
\* fail, and the bounds:
\* last value of the clock, retries within max_wait_ms, failed calls of Redis or
\* of the credit service.
Scene == [backend : {"memory", "redis"}, requests : Nat, models : SUBSET {"m1", "m2"},
          policies : Seq(Policy), tracked : BOOLEAN, image : BOOLEAN,
          usages : SUBSET Tokens, mayFail : BOOLEAN,
          maxClock : Nat, maxTries : Nat, maxFaults : Nat]

ASSUME SceneAssumption ==
    /\ IsFiniteSet(Requests) /\ Scenes \subseteq Scene
    /\ \A s \in Scenes : \A i \in DOMAIN s.policies : \A v, w \in DOMAIN s.policies[i].windows :
          s.policies[i].windows[v].len = s.policies[i].windows[w].len => v = w
    /\ PrechargePrice \in Tokens /\ SettlePrice \in Tokens
    /\ InputEstimate \in Nat /\ DefaultOutput \in Nat \ {0}

Models == scene.models

Policies == scene.policies

Tracked == scene.tracked

VARIABLES
    counter, bucket,  \* the store: a fixed window and a token bucket per key
    ema,              \* average output tokens per model; 0 while there is none
    samples,          \* updates of the averages not done yet
    req,              \* the requests
    clock, faults,
    paid,             \* history: what each request has been charged, net
    held,             \* history: what it was charged in the counter's current window
    gone,             \* history: <<r, k>> when that window ended before r settled k
    late              \* history: keys refunded in a window that was never charged for it

vars == <<scene, counter, bucket, ema, samples, req, clock, faults, paid, held, gone, late>>

(***************************************************************************)
(* Keys and amounts.                                                       *)
(***************************************************************************)
GetLimitKey(p, model) == [id |-> p.id, model |-> IF p.byModel THEN model ELSE "any"]

WindowKey(p, model, w) == [limit |-> GetLimitKey(p, model), len |-> w.len]

Keys == UNION {{WindowKey(Policies[i], m, Policies[i].windows[j]) :
                  j \in DOMAIN Policies[i].windows, m \in Models} : i \in DOMAIN Policies}

Structure(w) == IF w.capacity = 0 THEN "counter" ELSE "bucket"

EstimateOutputTokens(model) == IF ema[model] > 0 THEN ema[model] ELSE DefaultOutput

Amount(type, u, price) ==
    CASE type = "request" -> 1
      [] type = "token"   -> u.in + u.out
      [] type = "cost"    -> u.in * price.in + u.out * price.out

Estimate(p, model, price) ==
    Amount(p.type, [in |-> InputEstimate, out |-> EstimateOutputTokens(model)], price)

(***************************************************************************)
(* Requests.                                                               *)
(***************************************************************************)
Reservation == [key : Keys, type : {"token", "cost"}, estimated : Int, w : Window]

Stages == {"enter", "execute", "charge", "rollback", "refused", "calling",
           "settle", "settleWindow", "settleReservation", "done"}

Request == [pc : Stages, origin : Models, model : Models, pi : Nat, wi : Nat,
            amount : Int, undo : Nat, tries : Nat, limited : BOOLEAN,
            limitKeys : SUBSET [id : Nat, model : Models \cup {"any"}],
            reservations : Seq(Reservation), use : Tokens, failed : BOOLEAN]

NewRequest(m) ==
    [pc |-> "enter", origin |-> m, model |-> m, pi |-> 1, wi |-> 1, amount |-> 0,
     undo |-> 0, tries |-> 0, limited |-> FALSE, limitKeys |-> {},
     reservations |-> <<>>, use |-> NoUse, failed |-> FALSE]

\* A request that is never made.
NoRequest(m) == [NewRequest(m) EXCEPT !.pc = "done", !.failed = TRUE]

Zero == [s \in {"counter", "bucket"} |-> [k \in Keys |-> 0]]

Init ==
    /\ scene \in Scenes
    /\ counter = [k \in Keys |-> NoCounter] /\ bucket = [k \in Keys |-> NoBucket]
    /\ ema = [m \in Models |-> 0] /\ samples = {}
    /\ \E m \in [Requests -> Models], made \in kSubset(scene.requests, Requests) :
          req = [r \in Requests |-> IF r \in made THEN NewRequest(m[r]) ELSE NoRequest(m[r])]
    /\ clock = 0 /\ faults = 0
    /\ paid = [r \in Requests |-> Zero]
    /\ held = [r \in Requests |-> [k \in Keys |-> 0]]
    /\ gone = {} /\ late = {}

ThePolicy(q) == Policies[q.pi]

TheWindow(q) == ThePolicy(q).windows[q.wi]

\* The store call request q makes next: a positive amount charges.
PendingCall(q) ==
    IF q.pc = "settleReservation"
    THEN LET v == q.reservations[q.pi]
         IN  [key |-> v.key, w |-> v.w, amount |-> q.amount,
              op |-> IF v.w.capacity > 0 THEN "adjust" ELSE "fixed"]
    ELSE [key    |-> WindowKey(ThePolicy(q), q.model, TheWindow(q)),
          w      |-> TheWindow(q),
          amount |-> IF q.pc = "rollback" THEN -q.amount ELSE q.amount,
          \* settling without reservations knows only fixed windows
          op     |-> IF TheWindow(q).capacity > 0 /\ q.pc # "settleWindow"
                     THEN "take" ELSE "fixed"]

Applied(c) ==
    apply(bucket[c.key], c.amount, c.w.threshold, c.w.capacity, c.w.len, clock, c.op = "adjust")

CounterAfter(c, refund) ==
    IF refund THEN RateLimitRefund(counter[c.key], -c.amount, clock)
    ELSE RateLimitIncr(counter[c.key], c.amount, c.w.len, clock)

\* Request r performs call c on the store.
Perform(r, c) ==
    LET refund == c.amount < 0
        k == c.key
        restarts == CounterAfter(c, refund).resetAt # counter[k].resetAt
    IN  \/ /\ c.op = "fixed"
           /\ counter' = [counter EXCEPT ![k] = CounterAfter(c, refund)]
           /\ paid' = [paid EXCEPT ![r]["counter"][k] = @ + c.amount]
           /\ held' = [s \in Requests |-> [held[s] EXCEPT ![k] =
                         AtLeast((IF restarts THEN 0 ELSE @) + (IF s = r THEN c.amount ELSE 0), 0)]]
           /\ gone' = gone \cup {<<s, k>> : s \in {x \in Requests : restarts /\ held[x][k] > 0}}
           /\ late' = IF restarts THEN late \ {k}
                      ELSE late \cup {x \in {k} : refund /\ <<r, k>> \in gone}
           /\ UNCHANGED bucket
        \/ /\ c.op # "fixed"
           /\ bucket' = [bucket EXCEPT ![k] = Applied(c).bucket]
           /\ paid' = [paid EXCEPT ![r]["bucket"][k] =
                         @ + IF Applied(c).allowed THEN c.amount ELSE 0]
           /\ UNCHANGED <<counter, held, gone, late>>

storeVars == <<counter, bucket, paid, held, gone, late>>

(***************************************************************************)
(* The limit filter.                                                       *)
(***************************************************************************)
\* OnRequest looks at its next policy; InputTokens is estimated once.  Images are
\* not charged in tokens or money.
Enter(r) ==
    LET q == req[r]
        counted == \/ scene.image /\ ThePolicy(q).type # "request"
                   \/ Tracked /\ GetLimitKey(ThePolicy(q), q.model) \in q.limitKeys
    IN  /\ q.pc = "enter" /\ q.pi <= Len(Policies)
        /\ req' = [req EXCEPT ![r] =
               IF counted THEN [q EXCEPT !.pi = @ + 1]
               ELSE [q EXCEPT !.pc = "execute", !.tries = 0,
                       !.use.in = IF ThePolicy(q).type # "request" /\ @ = 0
                                  THEN InputEstimate ELSE @]]
        /\ UNCHANGED <<storeVars, ema, samples, clock, faults>>

\* recordReservations, and the keys OnRequest remembers.
Reserve(q) ==
    LET p == ThePolicy(q)
        kept == [j \in DOMAIN p.windows |->
                   [key |-> WindowKey(p, q.model, p.windows[j]), type |-> p.type,
                    estimated |-> q.amount, w |-> p.windows[j]]]
    IN  IF ~Tracked THEN q
        ELSE [q EXCEPT !.limitKeys = @ \cup {GetLimitKey(p, q.model)},
                       !.reservations = IF p.type = "request" THEN @ ELSE @ \o kept]

\* The window has room: on to the next window, or to the next policy.
Passed(q) ==
    IF q.wi < Len(ThePolicy(q).windows) THEN [q EXCEPT !.pc = "charge", !.wi = @ + 1]
    ELSE [Reserve(q) EXCEPT !.pc = "enter", !.pi = @ + 1]

\* Execute begins: the estimate reads the average.
Execute(r) ==
    LET q == req[r]
    IN  /\ q.pc = "execute"
        /\ req' = [req EXCEPT ![r] = Passed([q EXCEPT !.wi = 0,
                      !.amount = Estimate(ThePolicy(q), q.model, PrechargePrice)])]
        /\ UNCHANGED <<storeVars, ema, samples, clock, faults>>

\* Mutant: all windows are rolled back, charged or not.
UndoAll(q, n, limited) ==
    [q EXCEPT !.pc = "rollback", !.wi = 1, !.undo = Len(ThePolicy(q).windows), !.limited = limited]

\* Roll back the first n windows.
Undo(q, n, limited) ==
    [q EXCEPT !.pc = IF n = 0 THEN "refused" ELSE "rollback", !.wi = 1, !.undo = n,
              !.limited = limited]

\* Mutant: the window that was over its limit is not given back.
ExceededKeepsLast(q, w) == Undo(q, q.wi - 1, TRUE)

\* A fixed window has been charged when it turns out to be over its limit.
Exceeded(q, w) == Undo(q, IF w.capacity = 0 THEN q.wi ELSE q.wi - 1, TRUE)

\* Mutant: the limit is compared before the charge is added.
FitsBefore(c) ==
    IF c.op = "fixed" THEN counter[c.key].count <= c.w.threshold ELSE Applied(c).allowed

Fits(c) ==
    IF c.op = "fixed" THEN CounterAfter(c, FALSE).count <= c.w.threshold ELSE Applied(c).allowed

Charge(r) ==
    LET q == req[r]
        c == PendingCall(q)
    IN  /\ q.pc = "charge"
        /\ Perform(r, c)
        /\ req' = [req EXCEPT ![r] = IF Fits(c) THEN Passed(q) ELSE Exceeded(q, c.w)]
        /\ UNCHANGED <<ema, samples, clock, faults>>

RolledBack(q) ==
    IF q.wi < q.undo THEN [q EXCEPT !.wi = @ + 1] ELSE [q EXCEPT !.pc = "refused"]

Rollback(r) ==
    LET q == req[r]
    IN  /\ q.pc = "rollback"
        /\ Perform(r, PendingCall(q))
        /\ req' = [req EXCEPT ![r] = RolledBack(q)]
        /\ UNCHANGED <<ema, samples, clock, faults>>

\* max_wait_ms: only a 429 is tried again.
Retry(r) ==
    LET q == req[r]
    IN  /\ q.pc = "refused" /\ q.limited
        /\ ThePolicy(q).wait /\ q.tries < scene.maxTries
        /\ req' = [req EXCEPT ![r] = [q EXCEPT !.pc = "execute", !.tries = @ + 1]]
        /\ UNCHANGED <<storeVars, ema, samples, clock, faults>>

\* HandleRequest on an inbound error: only tracked requests are settled.
Rejected(q) ==
    [q EXCEPT !.failed = TRUE, !.pi = 1, !.pc = IF Tracked THEN "settle" ELSE "done"]

Refuse(r) ==
    /\ req[r].pc = "refused"
    /\ req' = [req EXCEPT ![r] = Rejected(@)]
    /\ UNCHANGED <<storeVars, ema, samples, clock, faults>>

\* The filters after this one (validation) accept or reject.
LaterFilters(r) ==
    /\ req[r].pc = "enter" /\ req[r].pi > Len(Policies)
    /\ \/ req' = [req EXCEPT ![r].pc = "calling"]
       \/ scene.mayFail /\ req' = [req EXCEPT ![r] = Rejected(@)]
    /\ UNCHANGED <<storeVars, ema, samples, clock, faults>>

(***************************************************************************)
(* The call and its settlement.                                            *)
(***************************************************************************)
\* The usage a call may end with: what the answer reported, if anything, or
\* what a broken stream had sent.  ClusterInvoker has cleared the estimate of
\* the input; a hedged call that fails leaves it.
UsesOf(r, failed) == scene.usages \cup {NoUse} \cup (IF failed THEN {req[r].use} ELSE {})

\* The call ends.  FallbackInvoker may have moved the request to another model.
\* The image pipeline has no settlement filter.
Finish(r, u, failed, model) ==
    /\ req[r].pc = "calling"
    /\ failed => scene.mayFail
    /\ req' = [req EXCEPT ![r] = [@ EXCEPT !.pc = IF scene.image THEN "done" ELSE "settle",
                                           !.pi = 1, !.use = u, !.failed = failed,
                                           !.model = model]]
    /\ samples' = samples \cup
          (IF u.out > 0 /\ ~scene.image THEN {[r |-> r, model |-> model, out |-> u.out]} ELSE {})
    /\ UNCHANGED <<storeVars, ema, clock, faults>>

\* DeductCredits fails: OnResponse returns before anything is settled.
CreditsFail(r, u) ==
    /\ req[r].pc = "calling" /\ faults < scene.maxFaults /\ ~scene.image
    /\ faults' = faults + 1
    /\ req' = [req EXCEPT ![r].pc = "done", ![r].use = u]
    /\ UNCHANGED <<storeVars, ema, samples, clock>>

\* The goroutine that updates the average: a tenth of the way to the sample,
\* so any value from the old one to the sample over several updates.
UpdateEMA(s) ==
    LET old == ema[s.model]
    IN  /\ samples' = samples \ {s}
        /\ \E new \in IF old = 0 THEN {s.out} ELSE AtMost(old, s.out)..AtLeast(old, s.out) :
              ema' = [ema EXCEPT ![s.model] = new]
        /\ UNCHANGED <<storeVars, req, clock, faults>>

\* SettleLimits: a failed request owes nothing.
Actual(q, type) == IF q.failed THEN 0 ELSE Amount(type, q.use, SettlePrice)

\* The difference to settle for the next policy or reservation of q.
Difference(q) ==
    IF Tracked
    THEN LET v == q.reservations[q.pi] IN Actual(q, v.type) - v.estimated
    ELSE IF ThePolicy(q).type = "request" THEN 0
    ELSE Amount(ThePolicy(q).type, q.use, SettlePrice) - Estimate(ThePolicy(q), q.model, SettlePrice)

\* Settlement turns to its next policy (or reservation), or ends.
Settle(r) ==
    LET q == req[r]
        last == IF Tracked THEN Len(q.reservations) ELSE Len(Policies)
        next == IF Tracked THEN "settleReservation" ELSE "settleWindow"
    IN  /\ q.pc = "settle"
        /\ req' = [req EXCEPT ![r] =
               IF q.pi > last THEN [q EXCEPT !.pc = "done"]
               ELSE IF Difference(q) = 0 \/ (~Tracked /\ ThePolicy(q).windows = <<>>)
               THEN [q EXCEPT !.pi = @ + 1]
               ELSE [q EXCEPT !.pc = next, !.wi = 1, !.amount = Difference(q)]]
        /\ UNCHANGED <<storeVars, ema, samples, clock, faults>>

Settled(q) ==
    IF q.pc = "settleWindow" /\ q.wi < Len(ThePolicy(q).windows)
    THEN [q EXCEPT !.wi = @ + 1]
    ELSE [q EXCEPT !.pc = "settle", !.pi = @ + 1]

SettleOne(r) ==
    LET q == req[r]
    IN  /\ q.pc \in {"settleWindow", "settleReservation"}
        /\ Perform(r, PendingCall(q))
        /\ req' = [req EXCEPT ![r] = Settled(q)]
        /\ UNCHANGED <<ema, samples, clock, faults>>

\* A call to Redis returns an error, having taken effect or not.
StoreFault(r) ==
    LET q == req[r]
    IN  /\ Backend = "redis" /\ faults < scene.maxFaults
        /\ faults' = faults + 1
        /\ q.pc \in {"charge", "rollback", "settleWindow", "settleReservation"}
        /\ Perform(r, PendingCall(q)) \/ UNCHANGED storeVars
        /\ req' = [req EXCEPT ![r] =
               CASE q.pc = "charge"   -> Undo(q, q.wi - 1, FALSE)
                 [] q.pc = "rollback" -> RolledBack(q)
                 [] OTHER             -> [q EXCEPT !.pc = "done"]]
        /\ UNCHANGED <<ema, samples, clock>>

Tick ==
    /\ clock < scene.maxClock
    /\ clock' = clock + 1
    /\ UNCHANGED <<storeVars, ema, samples, req, faults>>

Terminated ==
    /\ \A r \in Requests : req[r].pc = "done"
    /\ samples = {}
    /\ UNCHANGED vars

Step ==
    \/ \E r \in Requests :
          \/ Enter(r) \/ Execute(r) \/ Charge(r) \/ Rollback(r) \/ Retry(r) \/ Refuse(r)
          \/ LaterFilters(r) \/ Settle(r) \/ SettleOne(r) \/ StoreFault(r)
          \/ \E u \in scene.usages : CreditsFail(r, u)
          \/ \E failed \in BOOLEAN, m \in Models : \E u \in UsesOf(r, failed) :
                Finish(r, u, failed, m)
    \/ \E s \in samples : UpdateEMA(s)
    \/ Tick
    \/ Terminated

Next == Step /\ UNCHANGED scene

Spec == Init /\ [][Next]_vars

(***************************************************************************)
(* Properties.                                                             *)
(***************************************************************************)
\* Of the policies with one limit key the first is charged.
IsFirst(i, model) ==
    \A j \in 1..(i - 1) : GetLimitKey(Policies[j], model) # GetLimitKey(Policies[i], model)

\* What request r owes for its window key k once it is over.
Owes(r, s, k) ==
    LET due == {i \in DOMAIN Policies :
                  /\ Policies[i].type # "request" /\ IsFirst(i, req[r].origin)
                  /\ \E j \in DOMAIN Policies[i].windows :
                        /\ Structure(Policies[i].windows[j]) = s
                        /\ k = WindowKey(Policies[i], req[r].origin, Policies[i].windows[j])}
    IN  IF due = {} \/ req[r].failed THEN 0
        ELSE Amount(Policies[CHOOSE i \in due : TRUE].type, req[r].use, SettlePrice)

\* The keys of request-count policies are never settled.
Settleable(k) == \A i \in DOMAIN Policies : Policies[i].type = "request" => Policies[i].id # k.limit.id

\* A tracked request that is over has been charged, on each counter and each bucket,
\* exactly what it used at the prices of the settlement, and nothing when it failed
\* or was rejected, whatever it was precharged and however the averages moved, unless
\* a call of the store or of the credit service failed.  Requests that are not
\* tracked get no such guarantee from OnResponse, which re-reads the estimate.
SettledExactly ==
    Tracked /\ faults = 0 => \A r \in Requests : req[r].pc = "done" =>
        \A s \in {"counter", "bucket"}, k \in Keys :
            Settleable(k) => paid[r][s][k] = Owes(r, s, k)

\* The window keys of a request for a model.
KeysOf(model) ==
    UNION {{WindowKey(Policies[i], model, Policies[i].windows[j]) :
              j \in DOMAIN Policies[i].windows} : i \in DOMAIN Policies}

\* token_settlement.go:208: settlement hits the counters the precharge hit, those of
\* the model the request came with.
SettlesSameCounters ==
    \A r \in Requests : req[r].pc = "done" =>
        \A s \in {"counter", "bucket"}, k \in Keys \ KeysOf(req[r].origin) : paid[r][s][k] = 0

\* What the requests of rs hold of the fixed window k, unit by unit.
Units(k, rs) == UNION {{r} \X (1..held[r][k]) : r \in rs}

\* The windows whose charges are given back as they were made: all of a tracked
\* request's, and those of request counts.  Settling without reservations gives
\* back a re-read estimate, which may be more than was charged.
Reliable(k) == Tracked \/ ~Settleable(k)

\* A fixed window never counts below zero.  Where charges are given back as they
\* were made it counts exactly what the requests hold in it, except where a
\* settlement came after its own window had ended and was taken from the next one.
Counted ==
    /\ \A k \in Keys : counter[k].count >= 0
    /\ \A k \in {x \in Keys \ late : Reliable(x)} : CounterLive(counter[k], clock) =>
         counter[k].count = Cardinality(Units(k, Requests))

\* Request r has been let through window j of policy i.
Admitted(r, i, j) ==
    \/ req[r].pc \in {"calling", "settle", "settleWindow", "settleReservation", "done"}
         /\ ~req[r].failed
    \/ req[r].pc \in {"enter", "execute", "charge", "rollback", "refused"}
         /\ (req[r].pi > i \/ (req[r].pi = i /\ req[r].pc = "charge" /\ req[r].wi > j))

\* What the requests let through window j of policy i hold of it for model m.
HeldByAdmitted(i, j, m) ==
    Cardinality(Units(WindowKey(Policies[i], m, Policies[i].windows[j]),
                      {r \in Requests : Admitted(r, i, j)}))

\* When a request is let through a fixed window whose charges are given back as they
\* were made, the requests let through so far hold no more of it than its threshold,
\* with the same exception.
NoOverAdmission ==
    [][\A i \in DOMAIN Policies : \A j \in DOMAIN Policies[i].windows, r \in Requests :
         /\ Policies[i].windows[j].capacity = 0
         /\ req[r].pc = "charge" /\ req[r].pi = i /\ req[r].wi = j /\ Admitted(r, i, j)'
         /\ WindowKey(Policies[i], req[r].model, Policies[i].windows[j]) \notin late
         /\ Reliable(WindowKey(Policies[i], req[r].model, Policies[i].windows[j]))
         => HeldByAdmitted(i, j, req[r].model)' <= Policies[i].windows[j].threshold]_vars
=============================================================================
