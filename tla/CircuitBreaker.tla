--------------------------- MODULE CircuitBreaker ---------------------------
(***************************************************************************)
(* The dual-layer circuit breaker of pkg/core/circuit_breaker.go: one      *)
(* entry per key (a service "provider:model" or an endpoint ID), each with *)
(* its own mutex, and the leases (CircuitBreakerAttempt) that requests     *)
(* hold while they call an endpoint.  Every action below is one critical   *)
(* section of one entry's mutex, so that the steps of several leases, of   *)
(* the router, of the health checker and of the state probe interleave     *)
(* exactly where the code lets them.                                       *)
(*                                                                         *)
(* Metrics, events and the fields that only label them (policy and tenant  *)
(* names, threshold, currentVal) are left out.  Time is counted in whole   *)
(* seconds.                                                                *)
(***************************************************************************)
EXTENDS Integers, Sequences, FiniteSets

CONSTANTS
    Leases,        \* attempts that can be in flight at the same time
    Services,      \* service keys
    Endpoints,     \* endpoint IDs
    ServiceOf,     \* the service key of every endpoint
    PolicyLists,   \* values gctx.Policy.CircuitBreakPolicies can take
    EnableActive,  \* active health probing: real traffic may not probe
    DefaultRecovery, \* the recovery timeout used when a policy has none
    MaxClock,      \* bound: last value of the clock
    MaxStarts,     \* bound: attempts started
    MaxResets      \* bound: resets and version checks by other actors

Keys == Services \cup Endpoints

Layers == {"service", "endpoint"}

States == {"Closed", "Open", "HalfOpen"}

\* A circuit break policy: the fields recordOutcome hands to the entry.
\* The failure rate threshold is left out: the state machine never reads it.
Policy == [level : {"", "SERVICE", "INSTANCE", "ENDPOINT"}, windowType : {"", "count", "time"},
           windowSize : Int, failThresh : Int, hoSuccessThr : Int,
           recoveryTO : Int, version : Nat]

ASSUME KeysAssumption ==
    /\ Services \cap Endpoints = {}
    /\ ServiceOf \in [Endpoints -> Services]
    /\ Endpoints # {}

ASSUME PolicyAssumption ==
    /\ PolicyLists \subseteq Seq(Policy) /\ PolicyLists # {}
    /\ EnableActive \in BOOLEAN
    /\ DefaultRecovery \in Nat \ {0}

ASSUME BoundsAssumption == MaxClock \in Nat /\ MaxStarts \in Nat /\ MaxResets \in Nat

VARIABLES
    entry,   \* the breaker entry of every key
    lease,   \* the attempts, with their progress through the manager's code
    clock, starts, resets

vars == <<entry, lease, clock, starts, resets>>

(***************************************************************************)
(* The entry.                                                              *)
(***************************************************************************)
\* Parameters an entry has adopted from the last policy recorded on it.
Params == [windowType : {"count", "time"}, windowSize : Nat, failThresh : Nat,
           hoSuccessThr : Nat, recoveryTO : Nat]

Entry == [state : States, results : Seq(BOOLEAN),
          buckets : Seq([at : Nat, ok : BOOLEAN]), openSince : Nat,
          par : Params, activeCalls : Nat, attemptEpoch : Nat,
          nextToken : Nat, permitToken : Nat, policyVersion : Nat]

NewEntry ==
    [state |-> "Closed", results |-> <<>>, buckets |-> <<>>, openSince |-> 0,
     par |-> [windowType |-> "count", windowSize |-> 0, failThresh |-> 0,
              hoSuccessThr |-> 0, recoveryTO |-> 0],
     activeCalls |-> 0, attemptEpoch |-> 0, nextToken |-> 0, permitToken |-> 0,
     policyVersion |-> 0]

OrDefault(x, d) == IF x <= 0 THEN d ELSE x

\* The parameters recordLocked adopts from policy p, defaults filled in.
ParamsOf(p) ==
    [windowType   |-> IF p.windowType = "" THEN "count" ELSE p.windowType,
     windowSize   |-> OrDefault(p.windowSize, 100),
     failThresh   |-> OrDefault(p.failThresh, 5),
     hoSuccessThr |-> OrDefault(p.hoSuccessThr, 1),
     recoveryTO   |-> OrDefault(p.recoveryTO, DefaultRecovery)]

\* Mutant: a new epoch keeps the probe slot of the old one.
invalidateAttemptsKeepingSlot(e) == [e EXCEPT !.attemptEpoch = @ + 1]

invalidateAttempts(e) ==
    [e EXCEPT !.attemptEpoch = @ + 1, !.activeCalls = 0, !.permitToken = 0]

\* Buckets are samples here: a bucket holds the samples of one second and
\* expires as a whole.  Only a prefix is dropped, up to the first live one.
expireBuckets(e, now) ==
    LET expired(i) == e.buckets[i].at + e.par.windowSize < now
        idx == Cardinality({i \in DOMAIN e.buckets : \A j \in 1..i : expired(j)})
    IN  IF e.par.windowSize <= 0 THEN e
        ELSE [e EXCEPT !.buckets = SubSeq(@, idx + 1, Len(@))]

Failures(e) ==
    IF e.par.windowType = "time"
    THEN Cardinality({i \in DOMAIN e.buckets : ~e.buckets[i].ok})
    ELSE Cardinality({i \in DOMAIN e.results : ~e.results[i]})

\* Mutant: one failure too many is needed to trip.
ClosedStateAbove(e, now) ==
    IF e.par.failThresh > 0 /\ Failures(e) > e.par.failThresh
    THEN [e EXCEPT !.state = "Open", !.openSince = now]
    ELSE e

ClosedState(e, now) ==
    IF e.par.failThresh > 0 /\ Failures(e) >= e.par.failThresh
    THEN [e EXCEPT !.state = "Open", !.openSince = now]
    ELSE e

OpenState(e, now) ==
    IF now - e.openSince >= e.par.recoveryTO
    THEN [invalidateAttempts(e) EXCEPT !.state = "HalfOpen", !.results = <<>>, !.buckets = <<>>]
    ELSE e

HalfOpenState(e, now) ==
    IF \E i \in DOMAIN e.results : ~e.results[i]
    THEN [invalidateAttempts(e) EXCEPT !.state = "Open", !.openSince = now,
                                       !.results = <<>>, !.buckets = <<>>]
    ELSE IF Len(e.results) >= OrDefault(e.par.hoSuccessThr, 1)
    THEN [invalidateAttempts(e) EXCEPT !.state = "Closed"]
    ELSE e

computeState(e0, now) ==
    LET e == IF e0.par.windowType = "time" THEN expireBuckets(e0, now) ELSE e0
    IN  CASE e.state = "Closed"   -> ClosedState(e, now)
          [] e.state = "Open"     -> OpenState(e, now)
          [] e.state = "HalfOpen" -> HalfOpenState(e, now)

\* Append a sample to a list kept to a limit by dropping at most one.
Push(s, x, limit) == IF Len(s) + 1 > limit THEN Tail(Append(s, x)) ELSE Append(s, x)

AddSample(e, success, now) ==
    IF e.state = "HalfOpen"
    THEN [e EXCEPT !.results = Push(@, success, e.par.hoSuccessThr)]
    ELSE IF e.par.windowType = "time"
    THEN expireBuckets([e EXCEPT !.buckets = Append(@, [at |-> now, ok |-> success])], now)
    ELSE [e EXCEPT !.results = Push(@, success, e.par.windowSize)]

recordLocked(e, success, now, p) ==
    computeState(AddSample(computeState([e EXCEPT !.par = ParamsOf(p)], now), success, now), now)

reset(e) ==
    [invalidateAttempts(e) EXCEPT !.state = "Closed", !.results = <<>>,
                                  !.buckets = <<>>, !.openSince = 0]

VersionChanged(e, version) == e.policyVersion # 0 /\ e.policyVersion # version

checkAndResetOnVersionChange(e, version) ==
    IF VersionChanged(e, version) THEN [reset(e) EXCEPT !.policyVersion = version]
    ELSE [e EXCEPT !.policyVersion = version]

(***************************************************************************)
(* Leases.                                                                 *)
(***************************************************************************)
Permit == [epoch : Nat, token : Nat, version : Nat]

NoPermit == [epoch |-> 0, token |-> 0, version |-> 0]

\* Where an attempt is in the manager's code.
Stages == {"idle", "acquireService", "acquireEndpoint", "calling", "record",
           "recordAfterReset", "releaseService", "releaseEndpoint"}

Lease == [pc : Stages,
          ep : Endpoints, pols : PolicyLists, permit : [Layers -> Permit],
          ok : BOOLEAN, matched : SUBSET Nat, n : Nat, now : Nat]

KeyOf(ep, layer) == IF layer = "service" THEN ServiceOf[ep] ELSE ep

\* recordOutcome visits policy 1 at the service, policy 1 at the endpoint,
\* policy 2 at the service, ...: visit n is PolicyAt(L, n) at LayerAt(n).
LayerAt(n) == IF n % 2 = 1 THEN "service" ELSE "endpoint"

PolicyIndexAt(n) == (n + 1) \div 2

PolicyAt(L, n) == L.pols[PolicyIndexAt(n)]

circuitPolicyApplies(p, layer) ==
    p.level \in IF layer = "service" THEN {"", "SERVICE"} ELSE {"", "INSTANCE", "ENDPOINT"}

\* The visits of lease L after the n-th that record something.
VisitsAfter(L, n) ==
    {m \in (n + 1)..(2 * Len(L.pols)) :
        /\ PolicyIndexAt(m) \in L.matched
        /\ circuitPolicyApplies(PolicyAt(L, m), LayerAt(m))}

\* Lease l, now in state L, goes on to its next visit after n, or to releasing
\* its permits.
Advance(l, L, n) ==
    \/ /\ VisitsAfter(L, n) = {}
       /\ lease' = [lease EXCEPT ![l] = [L EXCEPT !.pc = "releaseService"]]
    \/ \E m \in VisitsAfter(L, n) :
          /\ \A j \in VisitsAfter(L, n) : m <= j
          /\ lease' = [lease EXCEPT ![l] = [L EXCEPT !.pc = "record", !.n = m]]

\* No attempt: a finished CircuitBreakerAttempt is garbage.
IdleLease ==
    [pc |-> "idle", ep |-> CHOOSE ep \in Endpoints : TRUE,
     pols |-> CHOOSE pols \in PolicyLists : TRUE,
     permit |-> [y \in Layers |-> NoPermit], ok |-> TRUE,
     matched |-> {}, n |-> 0, now |-> 0]

Init ==
    /\ entry = [k \in Keys |-> NewEntry]
    /\ lease = [l \in Leases |-> IdleLease]
    /\ clock = 0 /\ starts = 0 /\ resets = 0

\* A request has chosen endpoint ep; AcquireAttempt begins.
Start(l, ep, pols) ==
    /\ lease[l].pc = "idle"
    /\ starts < MaxStarts
    /\ starts' = starts + 1
    /\ lease' = [lease EXCEPT ![l].pc = "acquireService", ![l].ep = ep, ![l].pols = pols]
    /\ UNCHANGED <<entry, clock, resets>>

\* Mutant: the calls in flight of a half-open entry are not counted.
AllowedUncounted(e) == e.state = "Closed" \/ (e.state = "HalfOpen" /\ ~EnableActive)

Allowed(e) ==
    \/ e.state = "Closed"
    \/ e.state = "HalfOpen" /\ ~EnableActive /\ e.activeCalls < 1

\* A half-open entry hands out a fresh token; a closed one needs none.
Admit(e) ==
    IF e.state = "HalfOpen"
    THEN [e EXCEPT !.nextToken = @ + 1, !.permitToken = e.nextToken + 1, !.activeCalls = @ + 1]
    ELSE e

PermitFrom(e) ==
    [epoch |-> e.attemptEpoch, version |-> e.policyVersion,
     token |-> IF e.state = "HalfOpen" THEN e.permitToken ELSE 0]

\* One iteration of AcquireAttempt's loop; a refusal rolls back the permits
\* already taken.
Acquire(l, layer) ==
    LET k == KeyOf(lease[l].ep, layer)
        e == computeState(entry[k], clock)
    IN  /\ lease[l].pc = IF layer = "service" THEN "acquireService" ELSE "acquireEndpoint"
        /\ \/ /\ Allowed(e)
              /\ entry' = [entry EXCEPT ![k] = Admit(e)]
              /\ lease' = [lease EXCEPT
                     ![l].permit[layer] = PermitFrom(Admit(e)),
                     ![l].pc = IF layer = "service" THEN "acquireEndpoint" ELSE "calling"]
           \/ /\ ~Allowed(e)
              /\ entry' = [entry EXCEPT ![k] = e]
              /\ lease' = [lease EXCEPT
                     ![l] = IF layer = "service" THEN IdleLease
                            ELSE [@ EXCEPT !.pc = "releaseService"]]
        /\ UNCHANGED <<clock, starts, resets>>

\* The call ends in a way that says nothing about health (client gone, error
\* marked non-retryable): Release.
Cancel(l) ==
    /\ lease[l].pc = "calling"
    /\ lease' = [lease EXCEPT ![l].pc = "releaseService"]
    /\ UNCHANGED <<entry, clock, starts, resets>>

\* RecordSuccess or RecordFailure: recordOutcome reads the clock once, before
\* it takes any lock.  matched: the policies whose MatchError accepts the failure.
Outcome(l, ok, matched) ==
    LET L == [lease[l] EXCEPT !.ok = ok, !.matched = matched, !.now = clock]
    IN  /\ lease[l].pc = "calling"
        /\ ok => matched = DOMAIN L.pols
        /\ Advance(l, L, 0)
        /\ UNCHANGED <<entry, clock, starts, resets>>

\* recordLocked on entry e for visit n of lease L, and the permit afterwards:
\* when the entry moved to a new epoch the lease follows it, without a token.
Recorded(L, e) == recordLocked(e, L.ok, L.now, PolicyAt(L, L.n))

Follow(permit, e) ==
    IF permit.epoch = e.attemptEpoch THEN permit
    ELSE [permit EXCEPT !.epoch = e.attemptEpoch, !.token = 0]

\* Mutant: an outcome is not checked against the entry's epoch.
MatchesVersionOnly(permit, e) == permit.version = e.policyVersion

Matches(permit, e) ==
    permit.epoch = e.attemptEpoch /\ permit.version = e.policyVersion

\* The locked part of one visit of recordOutcome.
Record(l) ==
    LET L == lease[l]
        y == LayerAt(L.n)
        k == KeyOf(L.ep, y)
        v == PolicyAt(L, L.n).version
        checked == checkAndResetOnVersionChange(entry[k], v)
        permit == [L.permit[y] EXCEPT !.version = v]
        after == Recorded(L, checked)
    IN  /\ L.pc = "record"
        /\ \/ /\ ~Matches(L.permit[y], entry[k])
              /\ Advance(l, L, L.n)
              /\ UNCHANGED entry
           \/ \* its own version check resets the entry; the lock is dropped to notify
              /\ Matches(L.permit[y], entry[k]) /\ VersionChanged(entry[k], v)
              /\ entry' = [entry EXCEPT ![k] = checked]
              /\ lease' = [lease EXCEPT ![l].pc = "recordAfterReset",
                                        ![l].permit[y] = Follow(permit, checked)]
           \/ /\ Matches(L.permit[y], entry[k]) /\ ~VersionChanged(entry[k], v)
              /\ entry' = [entry EXCEPT ![k] = after]
              /\ Advance(l, [L EXCEPT !.permit[y] = Follow(permit, after)], L.n)
        /\ UNCHANGED <<clock, starts, resets>>

\* The lock is taken again after the notification of a version reset.
RecordAfterReset(l) ==
    LET L == lease[l]
        y == LayerAt(L.n)
        k == KeyOf(L.ep, y)
        after == Recorded(L, entry[k])
    IN  /\ L.pc = "recordAfterReset"
        /\ \/ /\ ~Matches(L.permit[y], entry[k])
              /\ Advance(l, L, L.n)
              /\ UNCHANGED entry
           \/ /\ Matches(L.permit[y], entry[k])
              /\ entry' = [entry EXCEPT ![k] = after]
              /\ Advance(l, [L EXCEPT !.permit[y] = Follow(@, after)], L.n)
        /\ UNCHANGED <<clock, starts, resets>>

\* Mutant: a permit is given back without asking whether it still counts.
ReturnableUnchecked(permit, e) == permit.token # 0

\* Only the permit the entry still counts is given back.
Returnable(permit, e) ==
    permit.token # 0 /\ e.attemptEpoch = permit.epoch /\ e.permitToken = permit.token

\* Mutant: the token is not cleared.
ReturnedCountOnly(e) == [e EXCEPT !.activeCalls = @ - 1]

Returned(e) == [e EXCEPT !.activeCalls = @ - 1, !.permitToken = 0]

\* One iteration of releasePermits.
Release(l, layer) ==
    LET k == KeyOf(lease[l].ep, layer)
    IN  /\ lease[l].pc = IF layer = "service" THEN "releaseService" ELSE "releaseEndpoint"
        /\ entry' = [entry EXCEPT ![k] =
               IF Returnable(lease[l].permit[layer], @) THEN Returned(@) ELSE @]
        /\ lease' = [lease EXCEPT
               ![l] = IF layer = "endpoint" THEN IdleLease
                      ELSE [@ EXCEPT !.permit[layer] = NoPermit, !.pc = "releaseEndpoint"]]
        /\ UNCHANGED <<clock, starts, resets>>

(***************************************************************************)
(* Other actors.                                                           *)
(***************************************************************************)
\* stateVal: AllowRequest, GetState, IsServiceOpen, IsInstanceOpen,
\* GetOpenBreakers and the periodic state probe recompute the state, for a time
\* they read before they wait for the lock.
Refresh(k, now) ==
    /\ entry' = [entry EXCEPT ![k] = computeState(@, now)]
    /\ UNCHANGED <<lease, clock, starts, resets>>

\* Reset: the router when policies were removed, the active health checker
\* after three good probes.
Reset(k) ==
    /\ resets < MaxResets
    /\ resets' = resets + 1
    /\ entry' = [entry EXCEPT ![k] = reset(@)]
    /\ UNCHANGED <<lease, clock, starts>>

\* CheckAndResetOnVersionChange by the router, for a request whose policy has
\* this version.
VersionCheck(k, version) ==
    /\ resets < MaxResets
    /\ resets' = resets + 1
    /\ entry' = [entry EXCEPT ![k] = checkAndResetOnVersionChange(@, version)]
    /\ UNCHANGED <<lease, clock, starts>>

Tick ==
    /\ clock < MaxClock
    /\ clock' = clock + 1
    /\ UNCHANGED <<entry, lease, starts, resets>>

Versions == UNION {{pols[i].version : i \in DOMAIN pols} : pols \in PolicyLists}

\* The steps of an attempt that has begun.
LeaseStep(l) ==
    \/ \E y \in Layers : Acquire(l, y) \/ Release(l, y)
    \/ Cancel(l)
    \/ \E ok \in BOOLEAN, matched \in SUBSET DOMAIN lease[l].pols : Outcome(l, ok, matched)
    \/ Record(l)
    \/ RecordAfterReset(l)

Next ==
    \/ \E l \in Leases : LeaseStep(l)
    \/ \E l \in Leases, ep \in Endpoints, pols \in PolicyLists : Start(l, ep, pols)
    \/ \E k \in Keys, now \in 0..clock : Refresh(k, now)
    \/ \E k \in Keys : Reset(k) \/ \E v \in Versions : VersionCheck(k, v)
    \/ Tick

Spec == Init /\ [][Next]_vars

\* A begun attempt ends: the manager's code does not block, and every call is
\* bounded by the invoker's timeouts.  This is WF_vars(LeaseStep(l)) written out:
\* LeaseStep(l) is enabled while the lease is not idle, and alone changes it then.
Progress(l) ==
    \/ []<>(lease[l].pc = "idle")
    \/ []<><<lease[l].pc # "idle" /\ lease'[l] # lease[l]>>_vars

FairSpec == Spec /\ \A l \in Leases : Progress(l)

(***************************************************************************)
(* Properties.                                                             *)
(***************************************************************************)
\* Every variable has its type.
TypeOK ==
    /\ entry \in [Keys -> Entry]
    /\ lease \in [Leases -> Lease]
    /\ clock \in Nat /\ starts \in Nat /\ resets \in Nat

\* Lease l has been admitted at this layer and its call is not over.
Admitted(l, layer) ==
    lease[l].pc \in IF layer = "service" THEN {"acquireEndpoint", "calling"} ELSE {"calling"}

\* Lease l holds the probe slot of key k.
Holds(l, k) ==
    \E y \in Layers : KeyOf(lease[l].ep, y) = k /\ Returnable(lease[l].permit[y], entry[k])

\* AcquireAttempt lets at most one attempt of the current epoch through a
\* half-open breaker, whatever older attempts finish or are reset meanwhile.
OneProbe ==
    \A k \in Keys : entry[k].state = "HalfOpen" =>
        \A l1, l2 \in Leases :
            (\A l \in {l1, l2} : \E y \in Layers :
                /\ KeyOf(lease[l].ep, y) = k /\ Admitted(l, y)
                /\ lease[l].permit[y].epoch = entry[k].attemptEpoch) => l1 = l2

\* The probe slot never leaks: when an entry counts a call in flight, there is
\* a lease that will return exactly that permit (the comment above
\* releasePermitsWithoutPolicy tells how a leak would leave the breaker stuck).
NoPermitLeak ==
    \A k \in Keys :
        /\ entry[k].activeCalls = (IF entry[k].permitToken = 0 THEN 0 ELSE 1)
        /\ entry[k].permitToken # 0 => entry[k].state = "HalfOpen" /\ \E l \in Leases : Holds(l, k)

\* Lease l records a sample for key k in this step.
Recording(l, k) ==
    lease[l].pc \in {"record", "recordAfterReset"} /\ KeyOf(lease[l].ep, LayerAt(lease[l].n)) = k

\* An earlier policy of lease L has had its turn at layer y.
VisitedBefore(L, y) == \E m \in VisitsAfter(L, 0) : m < L.n /\ LayerAt(m) = y

\* A half-open breaker hears only its probe: a sample is added to it, or moves
\* it to Open, only by the lease that holds the slot.  The one exception is a
\* lease that an earlier policy of its own has already recorded there: its
\* permit follows the entry it has itself taken out of Open.
ProbeSamplesOnly ==
    [][\A k \in Keys :
         /\ entry[k].state = "HalfOpen"
         /\ entry'[k].state = "Open" \/ entry'[k].results \notin {entry[k].results, <<>>}
         => \E l \in Leases :
               /\ Recording(l, k)
               /\ Holds(l, k) \/ VisitedBefore(lease[l], LayerAt(lease[l].n))]_vars

\* A probe slot that was handed out is always free again later: the attempt
\* that holds it gives it back, or the entry moves on without it.
ProbeSlotFreed == \A k \in Keys : []<>(entry[k].permitToken = 0)
=============================================================================
