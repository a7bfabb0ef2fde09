--------------------- MODULE CircuitBreakerLeaseProofs ----------------------
(***************************************************************************)
(* What the operations of CircuitBreaker do to one entry, for every policy *)
(* (each either leaves the entry in its epoch with the probe slot          *)
(* untouched, or opens a new epoch with a free slot: Moves), the inductive *)
(* invariant, and what taking, keeping and returning a probe slot does to  *)
(* it.                                                                     *)
(***************************************************************************)
EXTENDS CircuitBreaker, SequenceTheorems, FiniteSetTheorems, TLAPS

\* What every operation on an entry but Admit and Release does to its slot.
Moves(e, f) ==
    /\ f \in Entry
    /\ f.nextToken = e.nextToken
    /\ \/ /\ f.attemptEpoch = e.attemptEpoch
          /\ f.activeCalls = e.activeCalls /\ f.permitToken = e.permitToken
          /\ f.state = "HalfOpen" <=> e.state = "HalfOpen"
       \/ /\ f.attemptEpoch > e.attemptEpoch
          /\ f.activeCalls = 0 /\ f.permitToken = 0

Samples == Seq([at : Nat, ok : BOOLEAN])

(***************************************************************************)
(* Record updates keep the entry's type.                                   *)
(***************************************************************************)
\* Epoch, count and slot of an entry may become any natural numbers.
LEMMA UpdateSlot ==
    ASSUME NEW e \in Entry, NEW x \in Nat, NEW y \in Nat, NEW z \in Nat
    PROVE  [e EXCEPT !.attemptEpoch = x, !.activeCalls = y, !.permitToken = z] \in Entry
  BY Zenon DEF Entry

\* The state of an entry may become any state.
LEMMA UpdateState ==
    ASSUME NEW e \in Entry, NEW s \in States
    PROVE  [e EXCEPT !.state = s] \in Entry
  BY Zenon DEF Entry

\* State and openSince of an entry may change together (tripping).
LEMMA UpdateOpen ==
    ASSUME NEW e \in Entry, NEW s \in States, NEW x \in Nat
    PROVE  [e EXCEPT !.state = s, !.openSince = x] \in Entry
  BY Zenon DEF Entry

\* State and samples of an entry may change together (a new window).
LEMMA UpdateWindow ==
    ASSUME NEW e \in Entry, NEW s \in States, NEW r \in Seq(BOOLEAN), NEW b \in Samples
    PROVE  [e EXCEPT !.state = s, !.results = r, !.buckets = b] \in Entry
  BY Zenon DEF Entry, Samples

\* The policy version of an entry may become any natural number.
LEMMA UpdateVersion ==
    ASSUME NEW e \in Entry, NEW v \in Nat
    PROVE  [e EXCEPT !.policyVersion = v] \in Entry
  BY Zenon DEF Entry

\* Token counter, slot and count may change together (Admit, Returned).
LEMMA UpdateAdmit ==
    ASSUME NEW e \in Entry, NEW x \in Nat, NEW y \in Nat, NEW z \in Nat
    PROVE  /\ [e EXCEPT !.nextToken = x, !.permitToken = y, !.activeCalls = z] \in Entry
           /\ [e EXCEPT !.activeCalls = z, !.permitToken = y] \in Entry
  BY Zenon DEF Entry

\* The parameters an entry adopts may be any of their type.
LEMMA UpdateParams ==
    ASSUME NEW e \in Entry, NEW q \in Params
    PROVE  [e EXCEPT !.par = q] \in Entry
  BY Zenon DEF Entry

\* The count-window samples of an entry may be any of their type.
LEMMA UpdateResults ==
    ASSUME NEW e \in Entry, NEW r \in Seq(BOOLEAN)
    PROVE  [e EXCEPT !.results = r] \in Entry
  BY Zenon DEF Entry

\* The time-window samples of an entry may be any of their type.
LEMMA UpdateBuckets ==
    ASSUME NEW e \in Entry, NEW b \in Samples
    PROVE  [e EXCEPT !.buckets = b] \in Entry
  BY Zenon DEF Entry, Samples

\* State, samples and openSince of an entry may change together (reset).
LEMMA UpdateAll ==
    ASSUME NEW e \in Entry, NEW s \in States, NEW r \in Seq(BOOLEAN), NEW b \in Samples,
           NEW x \in Nat
    PROVE  /\ [e EXCEPT !.state = s, !.openSince = x, !.results = r, !.buckets = b] \in Entry
           /\ [e EXCEPT !.state = s, !.results = r, !.buckets = b, !.openSince = x] \in Entry
  BY Zenon DEF Entry, Samples

\* The types of the fields of an entry.
LEMMA EntryFields ==
    ASSUME NEW e \in Entry
    PROVE  /\ e.attemptEpoch \in Nat /\ e.activeCalls \in Nat
           /\ e.permitToken \in Nat /\ e.nextToken \in Nat
           /\ e.policyVersion \in Nat /\ e.openSince \in Nat
           /\ e.state \in States /\ e.par \in Params
           /\ e.results \in Seq(BOOLEAN) /\ e.buckets \in Samples
  BY DEF Entry, Samples

\* Two moves in a row are a move.
LEMMA MovesTransitive ==
    ASSUME NEW e \in Entry, NEW f, NEW g, Moves(e, f), Moves(f, g)
    PROVE  Moves(e, g)
<1>1. f \in Entry /\ g \in Entry
  BY DEF Moves
<1>2. e.attemptEpoch \in Nat /\ f.attemptEpoch \in Nat /\ g.attemptEpoch \in Nat
  BY <1>1, EntryFields
<1> QED
  BY <1>2 DEF Moves

\* invalidateAttempts frees the slot and opens a new epoch.
LEMMA Invalidate ==
    ASSUME NEW e \in Entry
    PROVE  /\ invalidateAttempts(e) \in Entry
           /\ invalidateAttempts(e).attemptEpoch = e.attemptEpoch + 1
           /\ invalidateAttempts(e).activeCalls = 0
           /\ invalidateAttempts(e).permitToken = 0
           /\ invalidateAttempts(e).nextToken = e.nextToken
<1>1. e.attemptEpoch + 1 \in Nat /\ 0 \in Nat
  BY EntryFields
<1>2. invalidateAttempts(e) \in Entry
  BY Zenon, <1>1, UpdateSlot DEF invalidateAttempts
<1> QED
  BY <1>2 DEF invalidateAttempts, Entry

\* expireBuckets drops samples and nothing else.
LEMMA ExpireMoves ==
    ASSUME NEW e \in Entry, NEW now \in Nat
    PROVE  Moves(e, expireBuckets(e, now)) /\ expireBuckets(e, now).state = e.state
<1> DEFINE expired(i) == e.buckets[i].at + e.par.windowSize < now
           dropped == {i \in DOMAIN e.buckets : \A j \in 1..i : expired(j)}
           cut == SubSeq(e.buckets, Cardinality(dropped) + 1, Len(e.buckets))
<1>1. e.buckets \in Samples /\ DOMAIN e.buckets = 1..Len(e.buckets) /\ Len(e.buckets) \in Nat
  BY EntryFields DEF Samples
<1>2. Cardinality(dropped) \in Nat
  <2>1. IsFiniteSet(1..Len(e.buckets))
    BY <1>1, FS_Interval
  <2>2. IsFiniteSet(dropped)
    BY <2>1, <1>1, FS_Subset
  <2> QED
    BY <2>2, FS_CardinalityType
<1>3. cut \in Samples
  <2> HIDE DEF dropped
  <2>1. \A i \in (Cardinality(dropped) + 1)..Len(e.buckets) : e.buckets[i] \in [at : Nat, ok : BOOLEAN]
    <3> TAKE i \in (Cardinality(dropped) + 1)..Len(e.buckets)
    <3>1. i \in 1..Len(e.buckets)
      BY <1>1, <1>2
    <3> QED
      BY Zenon, <3>1, <1>1, ElementOfSeq DEF Samples
  <2>2. Cardinality(dropped) + 1 \in Int /\ Len(e.buckets) \in Int
    BY <1>1, <1>2
  <2> QED
    BY <2>1, <2>2, SubSeqProperties DEF Samples
<1>4. CASE e.par.windowSize <= 0
  BY <1>4 DEF expireBuckets, Moves
<1>5. ASSUME NEW b \in Samples PROVE Moves(e, [e EXCEPT !.buckets = b]) /\ [e EXCEPT !.buckets = b].state = e.state
  BY UpdateBuckets, <1>5 DEF Moves, Entry
<1>6. CASE ~(e.par.windowSize <= 0)
  <2>1. expireBuckets(e, now) = [e EXCEPT !.buckets = cut]
    BY <1>6, Zenon DEF expireBuckets
  <2> HIDE DEF cut
  <2> QED
    BY <2>1, <1>3, <1>5
<1> QED
  BY <1>4, <1>6

\* A parameter with a default is a natural number.
LEMMA OrDefaultNat ==
    ASSUME NEW x \in Int, NEW d \in Nat
    PROVE  OrDefault(x, d) \in Nat
  BY DEF OrDefault

\* Doing nothing is a move.
LEMMA MovesSelf ==
    ASSUME NEW e \in Entry
    PROVE  Moves(e, e)
  BY DEF Moves

\* The parameters recordLocked adopts have their type.
LEMMA ParamsType ==
    ASSUME NEW p \in Policy
    PROVE  ParamsOf(p) \in Params
<1> DEFINE q == ParamsOf(p)
<1>1. p.windowSize \in Int /\ p.failThresh \in Int /\ p.hoSuccessThr \in Int /\ p.recoveryTO \in Int
      /\ p.windowType \in {"", "count", "time"}
  BY Zenon DEF Policy
<1>2. /\ OrDefault(p.windowSize, 100) \in Nat /\ OrDefault(p.failThresh, 5) \in Nat
      /\ OrDefault(p.hoSuccessThr, 1) \in Nat /\ OrDefault(p.recoveryTO, DefaultRecovery) \in Nat
  BY ZenonT(60), <1>1, PolicyAssumption, OrDefaultNat
<1>3. (IF p.windowType = "" THEN "count" ELSE p.windowType) \in {"count", "time"}
  BY Zenon, <1>1
<1> QED
  BY Zenon, <1>2, <1>3 DEF ParamsOf, Params

\* A closed entry that trips keeps its epoch and its free slot.
LEMMA ClosedMoves ==
    ASSUME NEW e \in Entry, NEW now \in Nat, e.state = "Closed"
    PROVE  Moves(e, ClosedState(e, now))
<1> DEFINE f == [e EXCEPT !.state = "Open", !.openSince = now]
<1>1. f \in Entry
  BY Zenon, UpdateOpen DEF States
<1>2. Moves(e, f) /\ Moves(e, e)
  BY <1>1 DEF Moves, Entry
<1> QED
  BY <1>2 DEF ClosedState

\* invalidateAttempts followed by changes of state and samples is a move.
LEMMA NewEpochMoves ==
    ASSUME NEW e \in Entry, NEW f \in Entry,
           f.attemptEpoch = e.attemptEpoch + 1, f.nextToken = e.nextToken,
           f.activeCalls = 0, f.permitToken = 0
    PROVE  Moves(e, f)
  BY EntryFields DEF Moves

\* An open entry becomes half-open only with a new epoch.
LEMMA OpenMoves ==
    ASSUME NEW e \in Entry, NEW now \in Nat, e.state = "Open"
    PROVE  Moves(e, OpenState(e, now))
<1> DEFINE g == invalidateAttempts(e)
           f == [g EXCEPT !.state = "HalfOpen", !.results = <<>>, !.buckets = <<>>]
<1>1. "HalfOpen" \in States /\ <<>> \in Seq(BOOLEAN) /\ <<>> \in Samples
  BY DEF States, Samples
<1>2. g \in Entry
  BY Invalidate
<1>3. f \in Entry
  BY Zenon, <1>1, <1>2, UpdateWindow
<1>4. f.attemptEpoch = g.attemptEpoch /\ f.nextToken = g.nextToken
      /\ f.activeCalls = g.activeCalls /\ f.permitToken = g.permitToken
  BY <1>2 DEF Entry
<1>5. g.attemptEpoch = e.attemptEpoch + 1 /\ g.nextToken = e.nextToken
      /\ g.activeCalls = 0 /\ g.permitToken = 0
  BY Invalidate
<1> HIDE DEF f, g
<1>6. Moves(e, f)
  BY <1>3, <1>4, <1>5, NewEpochMoves
<1>7. OpenState(e, now) = f \/ OpenState(e, now) = e
  BY DEF OpenState, f, g
<1> QED
  BY <1>6, <1>7, MovesSelf

\* A half-open entry is left only with a new epoch.
LEMMA HalfOpenMoves ==
    ASSUME NEW e \in Entry, NEW now \in Nat, e.state = "HalfOpen"
    PROVE  Moves(e, HalfOpenState(e, now))
<1> DEFINE g == invalidateAttempts(e)
           f == [g EXCEPT !.state = "Open", !.openSince = now, !.results = <<>>, !.buckets = <<>>]
           h == [g EXCEPT !.state = "Closed"]
<1>1. "Open" \in States /\ "Closed" \in States /\ <<>> \in Seq(BOOLEAN) /\ <<>> \in Samples
  BY DEF States, Samples
<1>2. g \in Entry
  BY Invalidate
<1>3. f \in Entry /\ h \in Entry
  BY Zenon, <1>1, <1>2, UpdateAll, UpdateState
<1>4. /\ f.attemptEpoch = g.attemptEpoch /\ f.nextToken = g.nextToken
      /\ f.activeCalls = g.activeCalls /\ f.permitToken = g.permitToken
  BY <1>2 DEF Entry
<1>5. /\ h.attemptEpoch = g.attemptEpoch /\ h.nextToken = g.nextToken
      /\ h.activeCalls = g.activeCalls /\ h.permitToken = g.permitToken
  BY <1>2 DEF Entry
<1>6. g.attemptEpoch = e.attemptEpoch + 1 /\ g.nextToken = e.nextToken
      /\ g.activeCalls = 0 /\ g.permitToken = 0
  BY Invalidate
<1> HIDE DEF f, g, h
<1>7. Moves(e, f) /\ Moves(e, h)
  BY <1>3, <1>4, <1>5, <1>6, NewEpochMoves
<1>8. HalfOpenState(e, now) \in {f, h, e}
  BY DEF HalfOpenState, f, g, h
<1> QED
  BY <1>7, <1>8, MovesSelf

\* computeState is a move from every entry, at every time.
LEMMA ComputeMoves ==
    ASSUME NEW e \in Entry, NEW now \in Nat
    PROVE  Moves(e, computeState(e, now))
<1> DEFINE g == IF e.par.windowType = "time" THEN expireBuckets(e, now) ELSE e
<1>1. Moves(e, g)
  BY ExpireMoves, MovesSelf
<1>2. g \in Entry
  BY <1>1 DEF Moves
<1>3. computeState(e, now) = CASE g.state = "Closed" -> ClosedState(g, now)
                               [] g.state = "Open" -> OpenState(g, now)
                               [] g.state = "HalfOpen" -> HalfOpenState(g, now)
  BY DEF computeState
<1>4. g.state \in {"Closed", "Open", "HalfOpen"}
  BY <1>2, EntryFields DEF States
<1> HIDE DEF g
<1>5. Moves(g, computeState(e, now))
  BY <1>2, <1>3, <1>4, ClosedMoves, OpenMoves, HalfOpenMoves
<1> QED
  BY <1>1, <1>5, MovesTransitive

\* A sample pushed on a window leaves a window.
LEMMA PushType ==
    ASSUME NEW s \in Seq(BOOLEAN), NEW x \in BOOLEAN, NEW limit \in Nat
    PROVE  Push(s, x, limit) \in Seq(BOOLEAN)
<1>1. Append(s, x) \in Seq(BOOLEAN) /\ Append(s, x) # <<>>
  BY AppendProperties
<1>2. Tail(Append(s, x)) \in Seq(BOOLEAN)
  BY <1>1, HeadTailProperties
<1> QED
  BY Zenon, <1>1, <1>2 DEF Push

\* Adding a sample is a move.
LEMMA SampleMoves ==
    ASSUME NEW e \in Entry, NEW success \in BOOLEAN, NEW now \in Nat
    PROVE  Moves(e, AddSample(e, success, now))
<1> DEFINE halfOpen == Push(e.results, success, e.par.hoSuccessThr)
           count == Push(e.results, success, e.par.windowSize)
           time == Append(e.buckets, [at |-> now, ok |-> success])
<1>1. e.results \in Seq(BOOLEAN) /\ e.buckets \in Samples /\ e.par.hoSuccessThr \in Nat /\ e.par.windowSize \in Nat
  BY EntryFields DEF Params
<1>2. halfOpen \in Seq(BOOLEAN) /\ count \in Seq(BOOLEAN)
  BY Zenon, <1>1, PushType
<1>3. time \in Samples
  BY <1>1, AppendProperties DEF Samples
<1>4. ASSUME NEW r \in Seq(BOOLEAN) PROVE Moves(e, [e EXCEPT !.results = r])
  BY <1>4, UpdateResults DEF Moves, Entry
<1>5. ASSUME NEW b \in Samples PROVE Moves(e, [e EXCEPT !.buckets = b])
  BY <1>5, UpdateBuckets DEF Moves, Entry
<1>6. AddSample(e, success, now) \in {[e EXCEPT !.results = halfOpen], [e EXCEPT !.results = count],
                                     expireBuckets([e EXCEPT !.buckets = time], now)}
  BY DEF AddSample
<1> HIDE DEF halfOpen, count, time
<1>7. Moves([e EXCEPT !.buckets = time], expireBuckets([e EXCEPT !.buckets = time], now))
  BY <1>3, UpdateBuckets, ExpireMoves
<1>8. Moves(e, expireBuckets([e EXCEPT !.buckets = time], now))
  BY <1>3, <1>5, <1>7, MovesTransitive
<1> QED
  BY <1>2, <1>4, <1>6, <1>8

\* recordLocked is a move, whatever the outcome, the time and the policy.
LEMMA RecordMoves ==
    ASSUME NEW e \in Entry, NEW success \in BOOLEAN, NEW now \in Nat, NEW p \in Policy
    PROVE  Moves(e, recordLocked(e, success, now, p))
<1> DEFINE f == [e EXCEPT !.par = ParamsOf(p)]
           g == computeState(f, now)
           h == AddSample(g, success, now)
<1>1. f \in Entry
  BY ParamsType, UpdateParams
<1>2. Moves(e, f)
  BY <1>1 DEF Moves, Entry
<1> HIDE DEF f
<1>3. Moves(f, g) /\ g \in Entry
  BY <1>1, ComputeMoves DEF Moves
<1> HIDE DEF g
<1>4. Moves(g, h) /\ h \in Entry
  BY <1>3, SampleMoves DEF Moves
<1> HIDE DEF h
<1>5. Moves(h, computeState(h, now))
  BY <1>4, ComputeMoves
<1>6. Moves(e, computeState(h, now))
  BY <1>1, <1>2, <1>3, <1>4, <1>5, MovesTransitive
<1> QED
  BY <1>6 DEF f, g, h, recordLocked

\* reset is a move.
LEMMA ResetMoves ==
    ASSUME NEW e \in Entry
    PROVE  Moves(e, reset(e))
<1> DEFINE g == invalidateAttempts(e)
           f == [g EXCEPT !.state = "Closed", !.results = <<>>, !.buckets = <<>>, !.openSince = 0]
<1>1. "Closed" \in States /\ <<>> \in Seq(BOOLEAN) /\ <<>> \in Samples /\ 0 \in Nat
  BY DEF States, Samples
<1>2. g \in Entry
  BY Invalidate
<1>3. f \in Entry
  BY Zenon, <1>1, <1>2, UpdateAll
<1>4. /\ f.attemptEpoch = g.attemptEpoch /\ f.nextToken = g.nextToken
      /\ f.activeCalls = g.activeCalls /\ f.permitToken = g.permitToken
  BY <1>2 DEF Entry
<1>5. g.attemptEpoch = e.attemptEpoch + 1 /\ g.nextToken = e.nextToken
      /\ g.activeCalls = 0 /\ g.permitToken = 0
  BY Invalidate
<1> HIDE DEF f, g
<1>6. Moves(e, f)
  BY <1>3, <1>4, <1>5, NewEpochMoves
<1> QED
  BY <1>6 DEF reset, f, g

\* checkAndResetOnVersionChange is a move.
LEMMA VersionMoves ==
    ASSUME NEW e \in Entry, NEW v \in Nat
    PROVE  Moves(e, checkAndResetOnVersionChange(e, v))
<1>1. ASSUME NEW f \in Entry PROVE Moves(f, [f EXCEPT !.policyVersion = v])
  BY Zenon, <1>1, UpdateVersion DEF Moves, Entry
<1>2. Moves(e, reset(e)) /\ reset(e) \in Entry
  BY ResetMoves DEF Moves
<1>3. Moves(e, [reset(e) EXCEPT !.policyVersion = v])
  BY <1>1, <1>2, MovesTransitive
<1> QED
  BY <1>1, <1>3 DEF checkAndResetOnVersionChange


\* Starting over closes the entry and begins a new epoch.
LEMMA ResetFields ==
    ASSUME NEW e \in Entry
    PROVE  /\ reset(e).state = "Closed" /\ reset(e).results = <<>>
           /\ reset(e).attemptEpoch = e.attemptEpoch + 1
<1> DEFINE g == invalidateAttempts(e)
<1>1. g \in Entry /\ g.attemptEpoch = e.attemptEpoch + 1
  BY Invalidate
<1>2. reset(e) = [g EXCEPT !.state = "Closed", !.results = <<>>, !.buckets = <<>>, !.openSince = 0]
  BY DEF reset
<1> HIDE DEF g
<1> QED
  BY <1>1, <1>2 DEF Entry

\* A version check that finds another version starts the entry over.
LEMMA VersionReset ==
    ASSUME NEW e \in Entry, NEW v \in Nat, VersionChanged(e, v)
    PROVE  LET f == checkAndResetOnVersionChange(e, v) IN
           f.state = "Closed" /\ f.results = <<>> /\ f.attemptEpoch = e.attemptEpoch + 1
<1> DEFINE g == reset(e)
<1>1. g \in Entry /\ g.state = "Closed" /\ g.results = <<>> /\ g.attemptEpoch = e.attemptEpoch + 1
  BY ResetMoves, ResetFields DEF Moves
<1>2. checkAndResetOnVersionChange(e, v) = [g EXCEPT !.policyVersion = v]
  BY DEF checkAndResetOnVersionChange
<1> HIDE DEF g
<1> QED
  BY <1>1, <1>2 DEF Entry

(***************************************************************************)
(* The inductive invariant, as a predicate of an entry function en and a   *)
(* lease function ls, so that one step can be argued in two halves.        *)
(***************************************************************************)
\* Lease L was let through at layer y and its outcome there is still due: its
\* permit is the one it was given, or the one of a reset it has just made.
Due(L, y) ==
    \/ L.pc \in IF y = "service" THEN {"acquireEndpoint", "calling"} ELSE {"calling"}
    \/ L.pc = "record" /\ ~VisitedBefore(L, y)
    \/ L.pc = "recordAfterReset" /\ (LayerAt(L.n) = y \/ ~VisitedBefore(L, y))

SlotOK(e) ==
    /\ e.activeCalls = (IF e.permitToken = 0 THEN 0 ELSE 1)
    /\ e.permitToken # 0 => e.state = "HalfOpen"
    /\ e.permitToken <= e.nextToken

PermitOK(L, y, e) ==
    /\ L.permit[y].epoch <= e.attemptEpoch
    /\ L.permit[y].token <= e.nextToken
    /\ Due(L, y) /\ L.permit[y].epoch = e.attemptEpoch /\ e.state = "HalfOpen"
         => Returnable(L.permit[y], e)

\* Permits exist only where the program counter says so; a recording lease is
\* at a visit of its policy list.
PcOK(L) ==
    /\ L.pc \in {"idle", "acquireService", "releaseEndpoint"} => L.permit["service"] = NoPermit
    /\ L.pc \in {"idle", "acquireService", "acquireEndpoint"} => L.permit["endpoint"] = NoPermit
    /\ L.pc \in {"record", "recordAfterReset"} => L.n \in VisitsAfter(L, 0)

Key(L, y) == KeyOf(L.ep, y)

UniqueTokens(ls) ==
    \A l1, l2 \in Leases, y \in Layers :
        /\ Key(ls[l1], y) = Key(ls[l2], y)
        /\ ls[l1].permit[y].token = ls[l2].permit[y].token
        /\ ls[l1].permit[y].token # 0
        => l1 = l2

Held(en, ls) ==
    \A k \in Keys : en[k].permitToken # 0 =>
        \E l \in Leases, y \in Layers : Key(ls[l], y) = k /\ Returnable(ls[l].permit[y], en[k])

Inv(en, ls) ==
    /\ en \in [Keys -> Entry]
    /\ ls \in [Leases -> Lease]
    /\ \A k \in Keys : SlotOK(en[k])
    /\ \A l \in Leases : PcOK(ls[l])
    /\ \A l \in Leases, y \in Layers : PermitOK(ls[l], y, en[Key(ls[l], y)])
    /\ UniqueTokens(ls)
    /\ Held(en, ls)

\* A permit keeps its epoch and token ...
Keeps(L, M, y) ==
    /\ M.ep = L.ep
    /\ M.permit[y].epoch = L.permit[y].epoch /\ M.permit[y].token = L.permit[y].token
    /\ Due(M, y) => Due(L, y)

\* ... or becomes one without a token, the old one being worth nothing.
Drops(L, M, y, en) ==
    /\ M.permit[y].token = 0 /\ M.permit[y].epoch <= en[Key(M, y)].attemptEpoch
    /\ Due(M, y) => en[Key(M, y)].state # "HalfOpen"
    /\ ~Returnable(L.permit[y], en[Key(L, y)])

\* The types of the fields of a lease, and of the keys it uses.
LEMMA LeaseFields ==
    ASSUME NEW L \in Lease, NEW y \in Layers
    PROVE  /\ L.permit[y] \in Permit
           /\ L.permit[y].epoch \in Nat /\ L.permit[y].token \in Nat /\ L.permit[y].version \in Nat
           /\ L.ep \in Endpoints /\ L.pols \in PolicyLists /\ Key(L, y) \in Keys
           /\ L.n \in Nat /\ L.now \in Nat /\ L.ok \in BOOLEAN /\ L.matched \in SUBSET Nat
  BY KeysAssumption DEF Lease, Permit, Key, KeyOf, Keys

\* A kept permit stays good against an entry that has only advanced.
LEMMA KeptPermit ==
    ASSUME NEW L, NEW M, NEW y, NEW e, NEW f, PermitOK(L, y, e), Keeps(L, M, y),
           f.attemptEpoch = e.attemptEpoch, e.nextToken <= f.nextToken,
           L.permit[y].token \in Nat, e.nextToken \in Nat, f.nextToken \in Nat,
           Due(L, y) /\ L.permit[y].epoch = f.attemptEpoch /\ f.state = "HalfOpen"
              => Returnable(L.permit[y], f)
    PROVE  PermitOK(M, y, f)
  BY DEF PermitOK, Keeps, Returnable

\* No permit is good against any entry.
LEMMA NoPermitOK ==
    ASSUME NEW M, NEW y, NEW f, M.permit[y] = NoPermit, ~Due(M, y),
           f.attemptEpoch \in Nat, f.nextToken \in Nat
    PROVE  PermitOK(M, y, f)
  BY DEF PermitOK, NoPermit

\* A lease that has nothing to lose may drop its permit.
LEMMA NoPermitDrops ==
    ASSUME NEW L, NEW M, NEW y, NEW en, M.permit[y] = NoPermit, ~Due(M, y),
           en[Key(M, y)].attemptEpoch \in Nat, ~Returnable(L.permit[y], en[Key(L, y)])
    PROVE  Drops(L, M, y, en)
  BY DEF Drops, NoPermit

\* A permit without a token returns nothing.
LEMMA NoPermitReturns ==
    ASSUME NEW e PROVE ~Returnable(NoPermit, e)
  BY DEF Returnable, NoPermit

\* A token belongs to one lease.
LEMMA UniqueAt ==
    ASSUME NEW ls, UniqueTokens(ls), NEW l1 \in Leases, NEW l2 \in Leases, NEW y \in Layers,
           NEW e, Key(ls[l1], y) = Key(ls[l2], y),
           Returnable(ls[l1].permit[y], e), Returnable(ls[l2].permit[y], e)
    PROVE  l1 = l2
  BY Zenon DEF UniqueTokens, Returnable

\* A step that takes or returns no probe slot keeps the invariant.
LEMMA QuietStep ==
    ASSUME NEW en, NEW ls, NEW en2 \in [Keys -> Entry], NEW ls2 \in [Leases -> Lease],
           Inv(en, ls),
           \A k \in Keys : Moves(en[k], en2[k]),
           \A l \in Leases : PcOK(ls2[l]),
           \A l \in Leases, y \in Layers : Keeps(ls[l], ls2[l], y) \/ Drops(ls[l], ls2[l], y, en2)
    PROVE  Inv(en2, ls2)
<1> USE DEF Inv
<1>1. \A k \in Keys : /\ en[k].attemptEpoch \in Nat /\ en2[k].attemptEpoch \in Nat
                      /\ en[k].permitToken \in Nat /\ en2[k].permitToken \in Nat
                      /\ en[k].nextToken \in Nat /\ en2[k].nextToken \in Nat
  BY EntryFields
<1>2. \A k \in Keys : SlotOK(en2[k])
  BY <1>1 DEF SlotOK, Moves
<1>3. ASSUME NEW l \in Leases, NEW y \in Layers
      PROVE  PermitOK(ls2[l], y, en2[Key(ls2[l], y)])
  <2> DEFINE L == ls[l]
             M == ls2[l]
  <2>1. /\ L.permit[y].epoch \in Nat /\ M.permit[y].epoch \in Nat
        /\ L.permit[y].token \in Nat /\ M.permit[y].token \in Nat
        /\ Key(L, y) \in Keys /\ Key(M, y) \in Keys
    BY LeaseFields
  <2>2. PermitOK(L, y, en[Key(L, y)])
    OBVIOUS
  <2> HIDE DEF L, M
  <2>3. CASE Keeps(L, M, y)
    <3>1. Key(M, y) = Key(L, y)
      BY <2>3 DEF Keeps, Key
    <3>2. Moves(en[Key(L, y)], en2[Key(L, y)])
      BY <2>1
    <3> DEFINE e == en[Key(L, y)]
               f == en2[Key(L, y)]
    <3>3. /\ e.attemptEpoch \in Nat /\ f.attemptEpoch \in Nat
          /\ e.nextToken \in Nat /\ f.nextToken \in Nat
      BY <2>1, <1>1
    <3>4. PermitOK(L, y, e) /\ Moves(e, f)
      BY SMTT(30), <2>2, <3>2
    <3> HIDE DEF e, f
    <3>5. M.permit[y].epoch <= f.attemptEpoch /\ M.permit[y].token <= f.nextToken
      <4>1. /\ M.permit[y].epoch = L.permit[y].epoch /\ M.permit[y].token = L.permit[y].token
            /\ L.permit[y].epoch <= e.attemptEpoch /\ L.permit[y].token <= e.nextToken
        BY <2>3, <3>4, Zenon DEF Keeps, PermitOK
      <4>2. e.attemptEpoch <= f.attemptEpoch /\ e.nextToken <= f.nextToken
        BY ONLY <3>3, <3>4 DEF Moves
      <4> QED
        BY ONLY <4>1, <4>2, <2>1, <3>3
    <3>6. ASSUME Due(M, y), M.permit[y].epoch = f.attemptEpoch, f.state = "HalfOpen"
          PROVE  Returnable(M.permit[y], f)
      <4>1. Due(L, y) /\ L.permit[y].epoch = M.permit[y].epoch
            /\ L.permit[y].token = M.permit[y].token
        BY <2>3, <3>6 DEF Keeps
      <4>2. L.permit[y].epoch <= e.attemptEpoch
        BY <3>4 DEF PermitOK
      <4>3. /\ f.attemptEpoch = e.attemptEpoch /\ f.permitToken = e.permitToken
            /\ e.state = "HalfOpen"
        BY SMTT(30), <2>1, <3>3, <3>4, <3>6, <4>1, <4>2 DEF Moves
      <4>4. Returnable(L.permit[y], e)
        BY <3>4, <3>6, <4>1, <4>3 DEF PermitOK
      <4> QED
        BY <4>1, <4>3, <4>4 DEF Returnable
    <3>7. PermitOK(M, y, f)
      BY <3>5, <3>6 DEF PermitOK
    <3> QED
      BY <3>1, <3>7 DEF f, M
  <2>4. CASE Drops(L, M, y, en2)
    <3> DEFINE f == en2[Key(M, y)]
    <3>1. f.nextToken \in Nat
      BY <2>1, <1>1
    <3>2. M.permit[y].token = 0 /\ M.permit[y].epoch <= f.attemptEpoch
          /\ (Due(M, y) => f.state # "HalfOpen")
      BY SMTT(30), <2>4 DEF Drops
    <3> HIDE DEF f
    <3>3. PermitOK(M, y, f)
      BY <3>1, <3>2 DEF PermitOK
    <3> QED
      BY <3>3 DEF f, M
  <2> QED
    BY <2>3, <2>4 DEF L, M
<1>4. UniqueTokens(ls2)
  <2> SUFFICES ASSUME NEW l1 \in Leases, NEW l2 \in Leases, NEW y \in Layers,
                      Key(ls2[l1], y) = Key(ls2[l2], y),
                      ls2[l1].permit[y].token = ls2[l2].permit[y].token,
                      ls2[l1].permit[y].token # 0
               PROVE  l1 = l2
    BY DEF UniqueTokens
  <2>1. Keeps(ls[l1], ls2[l1], y) /\ Keeps(ls[l2], ls2[l2], y)
    BY DEF Drops
  <2> QED
    BY ZenonT(60), <2>1 DEF Keeps, Key, UniqueTokens
<1>5. Held(en2, ls2)
  <2> SUFFICES ASSUME NEW k \in Keys, en2[k].permitToken # 0
               PROVE  \E l \in Leases, y \in Layers :
                         Key(ls2[l], y) = k /\ Returnable(ls2[l].permit[y], en2[k])
    BY DEF Held
  <2>1. en2[k].attemptEpoch = en[k].attemptEpoch /\ en2[k].permitToken = en[k].permitToken
    BY DEF Moves
  <2>2. PICK l \in Leases, y \in Layers : Key(ls[l], y) = k /\ Returnable(ls[l].permit[y], en[k])
    BY <2>1 DEF Held
  <2>3. Returnable(ls[l].permit[y], en2[k])
    BY <2>1, <2>2 DEF Returnable
  <2>4. Keeps(ls[l], ls2[l], y)
    BY <2>2, <2>3 DEF Drops
  <2>5. Key(ls2[l], y) = k /\ Returnable(ls2[l].permit[y], en2[k])
    BY <2>2, <2>3, <2>4 DEF Keeps, Key, Returnable
  <2> QED
    BY <2>5
<1> QED
  BY <1>2, <1>3, <1>4, <1>5

\* Only lease l changes.
LEMMA QuietLease ==
    ASSUME NEW en, NEW ls, NEW en2 \in [Keys -> Entry], Inv(en, ls),
           \A k \in Keys : Moves(en[k], en2[k]),
           NEW l \in Leases, NEW M \in Lease, PcOK(M),
           \A y \in Layers : Keeps(ls[l], M, y) \/ Drops(ls[l], M, y, en2)
    PROVE  Inv(en2, [ls EXCEPT ![l] = M])
<1> DEFINE ls2 == [ls EXCEPT ![l] = M]
<1>1. ls \in [Leases -> Lease]
  BY DEF Inv
<1>2. ls2 \in [Leases -> Lease] /\ ls2[l] = M /\ \A j \in Leases \ {l} : ls2[j] = ls[j]
  BY <1>1
<1>3. \A j \in Leases : PcOK(ls2[j])
  BY <1>2 DEF Inv
<1>4. \A j \in Leases \ {l}, y \in Layers : Keeps(ls[j], ls2[j], y)
  BY <1>2 DEF Keeps
<1> HIDE DEF ls2
<1>5. \A j \in Leases, y \in Layers : Keeps(ls[j], ls2[j], y) \/ Drops(ls[j], ls2[j], y, en2)
  BY <1>2, <1>4
<1>6. Inv(en2, ls2)
  BY <1>2, <1>3, <1>5, QuietStep
<1> QED
  BY <1>6 DEF ls2

\* Only the entry of key k changes.
LEMMA MoveOne ==
    ASSUME NEW en \in [Keys -> Entry], NEW k \in Keys, NEW f, Moves(en[k], f)
    PROVE  /\ [en EXCEPT ![k] = f] \in [Keys -> Entry]
           /\ \A j \in Keys : Moves(en[j], [en EXCEPT ![k] = f][j])
<1>1. f \in Entry
  BY DEF Moves
<1> QED
  BY <1>1, MovesSelf

\* A move of one entry that no lease takes part in keeps the invariant.
LEMMA QuietEntry ==
    ASSUME NEW en, NEW ls, Inv(en, ls), NEW k \in Keys, NEW f, Moves(en[k], f)
    PROVE  Inv([en EXCEPT ![k] = f], ls)
<1>1. ls \in [Leases -> Lease] /\ en \in [Keys -> Entry] /\ \A l \in Leases : PcOK(ls[l])
  BY DEF Inv
<1>2. \A l \in Leases, y \in Layers : Keeps(ls[l], ls[l], y)
  BY DEF Keeps
<1> DEFINE en2 == [en EXCEPT ![k] = f]
<1>3. en2 \in [Keys -> Entry] /\ \A j \in Keys : Moves(en[j], en2[j])
  BY <1>1, MoveOne
<1> HIDE DEF en2
<1>4. Inv(en2, ls)
  BY <1>1, <1>2, <1>3, QuietStep
<1> QED
  BY <1>4 DEF en2

\* Service keys and endpoint IDs never coincide.
LEMMA SameLayer ==
    ASSUME NEW L \in Lease, NEW M \in Lease, NEW y \in Layers, NEW z \in Layers,
           Key(L, y) = Key(M, z)
    PROVE  y = z
<1>1. L.ep \in Endpoints /\ M.ep \in Endpoints
  BY LeaseFields
<1> QED
  BY <1>1, KeysAssumption DEF Key, KeyOf, Layers

\* What Admit does to a half-open entry whose slot is free.
LEMMA AdmitFields ==
    ASSUME NEW e \in Entry, SlotOK(e), e.state = "HalfOpen", e.activeCalls < 1
    PROVE  LET f == Admit(e) IN
           /\ f \in Entry /\ f.state = "HalfOpen" /\ f.attemptEpoch = e.attemptEpoch
           /\ f.nextToken = e.nextToken + 1 /\ f.permitToken = e.nextToken + 1
           /\ f.activeCalls = 1 /\ e.permitToken = 0 /\ SlotOK(f)
           /\ f.policyVersion = e.policyVersion
<1>1. e.nextToken + 1 \in Nat /\ e.activeCalls + 1 \in Nat
  BY EntryFields
<1>2. e.activeCalls = 0 /\ e.permitToken = 0 /\ e.nextToken \in Nat
  BY EntryFields DEF SlotOK
<1>3. Admit(e) = [e EXCEPT !.nextToken = e.nextToken + 1, !.permitToken = e.nextToken + 1,
                           !.activeCalls = e.activeCalls + 1]
  BY DEF Admit
<1>4. Admit(e) \in Entry
  <2> DEFINE x == e.nextToken + 1
             z == e.activeCalls + 1
  <2>1. x \in Nat /\ z \in Nat
    BY <1>1
  <2>2. Admit(e) = [e EXCEPT !.nextToken = x, !.permitToken = x, !.activeCalls = z]
    BY <1>3
  <2> HIDE DEF x, z
  <2>3. [e EXCEPT !.nextToken = x, !.permitToken = x, !.activeCalls = z] \in Entry
    BY Zenon, <2>1 DEF Entry
  <2> QED
    BY <2>2, <2>3
<1>5. /\ Admit(e).state = "HalfOpen" /\ Admit(e).attemptEpoch = e.attemptEpoch
      /\ Admit(e).nextToken = e.nextToken + 1 /\ Admit(e).permitToken = e.nextToken + 1
      /\ Admit(e).activeCalls = e.activeCalls + 1 /\ Admit(e).policyVersion = e.policyVersion
  BY <1>3 DEF Entry
<1>6. SlotOK(Admit(e))
  BY <1>2, <1>5 DEF SlotOK
<1> QED
  BY <1>2, <1>4, <1>5, <1>6

\* Handing out the probe slot keeps the invariant: the token is new.
LEMMA AdmitStep ==
    ASSUME NEW en, NEW ls, Inv(en, ls), NEW l \in Leases, NEW y \in Layers,
           NEW k \in Keys, k = Key(ls[l], y), en[k].state = "HalfOpen", en[k].activeCalls < 1,
           ls[l].permit[y].token = 0,
           NEW M \in Lease, PcOK(M), M.ep = ls[l].ep, M.permit[y] = PermitFrom(Admit(en[k])),
           \A z \in Layers \ {y} : Keeps(ls[l], M, z)
    PROVE  Inv([en EXCEPT ![k] = Admit(en[k])], [ls EXCEPT ![l] = M])
<1> DEFINE e == en[k]
           f == Admit(e)
           en2 == [en EXCEPT ![k] = f]
           ls2 == [ls EXCEPT ![l] = M]
<1>1. /\ en \in [Keys -> Entry] /\ ls \in [Leases -> Lease]
      /\ \A j \in Keys : SlotOK(en[j])
      /\ \A j \in Leases : PcOK(ls[j])
      /\ \A j \in Leases, z \in Layers : PermitOK(ls[j], z, en[Key(ls[j], z)])
      /\ UniqueTokens(ls) /\ Held(en, ls)
  BY DEF Inv
<1>2. /\ e \in Entry /\ f \in Entry /\ f.state = "HalfOpen" /\ f.attemptEpoch = e.attemptEpoch
      /\ f.nextToken = e.nextToken + 1 /\ f.permitToken = e.nextToken + 1
      /\ e.permitToken = 0 /\ SlotOK(f)
  BY <1>1, AdmitFields
<1>3. e.nextToken \in Nat /\ e.attemptEpoch \in Nat
  BY <1>2, EntryFields
<1>4. M.permit[y].token = e.nextToken + 1 /\ M.permit[y].epoch = e.attemptEpoch
  BY <1>2 DEF PermitFrom
<1>5. en2 \in [Keys -> Entry] /\ en2[k] = f /\ \A j \in Keys \ {k} : en2[j] = en[j]
  BY <1>1, <1>2
<1>6. ls2 \in [Leases -> Lease] /\ ls2[l] = M /\ \A j \in Leases \ {l} : ls2[j] = ls[j]
  BY <1>1
<1>7. Key(M, y) = k /\ \A z \in Layers : Key(M, z) = Key(ls[l], z)
  BY DEF Key
<1> HIDE DEF e, f, en2, ls2
<1>8. \A j \in Leases, z \in Layers : (j = l /\ z = y) \/ Keeps(ls[j], ls2[j], z)
  BY <1>6 DEF Keeps
<1>9. \A j \in Leases, z \in Layers : Key(ls2[j], z) = Key(ls[j], z) /\ Key(ls[j], z) \in Keys
  BY <1>1, <1>6, <1>7, LeaseFields
<1>10. \A j \in Leases, z \in Layers : ls[j].permit[z].token \in Nat /\ ls[j].permit[z].epoch \in Nat
  BY <1>1, LeaseFields, Zenon
<1>11. ASSUME NEW j \in Leases, NEW z \in Layers
       PROVE  PermitOK(ls2[j], z, en2[Key(ls2[j], z)])
  <2>1. CASE j = l /\ z = y
    <3>1. PermitOK(M, y, f)
      BY <1>2, <1>3, <1>4 DEF PermitOK, Returnable
    <3> QED
      BY SMTT(30), <2>1, <3>1, <1>5, <1>6, <1>7
  <2>2. CASE Keeps(ls[j], ls2[j], z)
    <3>1. PermitOK(ls[j], z, en[Key(ls[j], z)])
      BY <1>1
    <3>2. CASE Key(ls[j], z) = k
      <4>1. PermitOK(ls[j], z, e)
        BY SMTT(30), <3>1, <3>2 DEF e
      <4>2. ~(Due(ls[j], z) /\ ls[j].permit[z].epoch = e.attemptEpoch)
        BY ZenonT(30), <4>1, <1>2, <1>10 DEF PermitOK, Returnable, e
      <4>3. e.nextToken <= f.nextToken /\ f.nextToken \in Nat
        BY SMTT(30), <1>2, <1>3
      <4>4. PermitOK(ls2[j], z, f)
        BY ZenonT(60), <4>1, <4>2, <4>3, <2>2, <1>2, <1>3, <1>10, KeptPermit
      <4> QED
        BY SMTT(30), <4>4, <3>2, <1>5, <1>9
    <3>3. CASE Key(ls[j], z) # k
      <4>1. en2[Key(ls2[j], z)] = en[Key(ls[j], z)]
        BY <3>3, <1>5, <1>9
      <4> QED
        BY ZenonT(60), <4>1, <3>1, <2>2 DEF PermitOK, Keeps, Returnable
    <3> QED
      BY <3>2, <3>3
  <2> QED
    BY <2>1, <2>2, <1>8, Zenon
<1>12. UniqueTokens(ls2)
  <2>1. ASSUME NEW j \in Leases, j # l, Key(ls2[j], y) = k PROVE ls2[j].permit[y].token # M.permit[y].token
    <3>1. PermitOK(ls[j], y, e) /\ ls2[j] = ls[j]
      BY <2>1, <1>1, <1>6 DEF e
    <3>2. ls[j].permit[y].token <= e.nextToken /\ ls[j].permit[y].token \in Nat
      BY <3>1, <1>10, Zenon DEF PermitOK
    <3>3. ls[j].permit[y].token # M.permit[y].token
      BY ONLY <3>2, <1>3, <1>4
    <3> QED
      BY <3>1, <3>3, Zenon
  <2> SUFFICES ASSUME NEW l1 \in Leases, NEW l2 \in Leases, NEW z \in Layers,
                      Key(ls2[l1], z) = Key(ls2[l2], z),
                      ls2[l1].permit[z].token = ls2[l2].permit[z].token,
                      ls2[l1].permit[z].token # 0, l1 # l2
               PROVE  FALSE
    BY DEF UniqueTokens
  <2>2. CASE z = y /\ (l1 = l \/ l2 = l)
    BY SMTT(30), <2>1, <2>2, <1>6, <1>7
  <2>3. CASE ~(z = y /\ (l1 = l \/ l2 = l))
    <3>1. Keeps(ls[l1], ls2[l1], z) /\ Keeps(ls[l2], ls2[l2], z)
      BY <2>3, <1>8
    <3>2. Key(ls[l1], z) = Key(ls[l2], z)
      BY <1>9
    <3>3. ls[l1].permit[z].token = ls[l2].permit[z].token /\ ls[l1].permit[z].token # 0
      BY ZenonT(60), <3>1 DEF Keeps
    <3> QED
      BY <3>2, <3>3, <1>1, Zenon DEF UniqueTokens
  <2> QED
    BY <2>2, <2>3
<1>13. Held(en2, ls2)
  <2> SUFFICES ASSUME NEW j \in Keys, en2[j].permitToken # 0
               PROVE  \E m \in Leases, z \in Layers :
                         Key(ls2[m], z) = j /\ Returnable(ls2[m].permit[z], en2[j])
    BY DEF Held
  <2>1. CASE j = k
    <3>1. Returnable(M.permit[y], f)
      BY <1>2, <1>3, <1>4 DEF Returnable
    <3> QED
      BY <3>1, <2>1, <1>5, <1>6, <1>7
  <2>2. CASE j # k
    <3>1. PICK m \in Leases, z \in Layers : Key(ls[m], z) = j /\ Returnable(ls[m].permit[z], en[j])
      BY ZenonT(30), <2>2, <1>1, <1>5 DEF Held
    <3>2. Keeps(ls[m], ls2[m], z)
      BY ZenonT(30), <3>1, <2>2, <1>8
    <3>3. Key(ls2[m], z) = j /\ Returnable(ls2[m].permit[z], en2[j])
      BY ZenonT(30), <3>1, <3>2, <2>2, <1>5, <1>9 DEF Keeps, Returnable
    <3> QED
      BY <3>3
  <2> QED
    BY <2>1, <2>2
<1>14. (\A j \in Keys : SlotOK(en2[j])) /\ (\A j \in Leases : PcOK(ls2[j]))
  BY ZenonT(30), <1>1, <1>2, <1>5, <1>6
<1>15. Inv(en2, ls2)
  BY <1>5, <1>6, <1>11, <1>12, <1>13, <1>14, Zenon DEF Inv
<1> QED
  BY <1>15 DEF en2, ls2, f, e

\* Lease L ends its call and gives up its permit at layer y.
GivesUp(L, M, y) ==
    /\ M.permit[y] = NoPermit
    /\ \A z \in Layers : ~Due(M, z)
    /\ \A z \in Layers \ {y} : \/ Keeps(L, M, z)
                               \/ M.permit[z] = NoPermit /\ L.permit[z] = NoPermit

\* Returning the probe slot keeps the invariant: no other lease counts on it.
LEMMA ReturnStep ==
    ASSUME NEW en, NEW ls, Inv(en, ls), NEW l \in Leases, NEW y \in Layers,
           NEW k \in Keys, k = Key(ls[l], y), Returnable(ls[l].permit[y], en[k]),
           NEW M \in Lease, PcOK(M), GivesUp(ls[l], M, y)
    PROVE  Inv([en EXCEPT ![k] = Returned(en[k])], [ls EXCEPT ![l] = M])
<1> DEFINE e == en[k]
           f == Returned(e)
           en2 == [en EXCEPT ![k] = f]
           ls2 == [ls EXCEPT ![l] = M]
<1>1. /\ en \in [Keys -> Entry] /\ ls \in [Leases -> Lease]
      /\ \A j \in Keys : SlotOK(en[j])
      /\ \A j \in Leases : PcOK(ls[j])
      /\ \A j \in Leases, z \in Layers : PermitOK(ls[j], z, en[Key(ls[j], z)])
      /\ UniqueTokens(ls) /\ Held(en, ls)
  BY DEF Inv
<1>2. /\ e \in Entry /\ e.permitToken = ls[l].permit[y].token /\ e.permitToken # 0
      /\ e.activeCalls = 1 /\ e.nextToken \in Nat
  BY <1>1, EntryFields, Zenon DEF Returnable, SlotOK
<1>3. f \in Entry
  <2>1. f = [e EXCEPT !.activeCalls = 0, !.permitToken = 0]
    BY <1>2 DEF Returned
  <2> HIDE DEF f
  <2> QED
    BY Zenon, <2>1, <1>2, UpdateAdmit
<1>4. /\ f.state = e.state /\ f.attemptEpoch = e.attemptEpoch /\ f.nextToken = e.nextToken
      /\ f.activeCalls = 0 /\ f.permitToken = 0
  BY <1>2 DEF Entry, Returned
<1>5. en2 \in [Keys -> Entry] /\ en2[k] = f /\ \A j \in Keys \ {k} : en2[j] = en[j]
  BY <1>1, <1>3
<1>6. ls2 \in [Leases -> Lease] /\ ls2[l] = M /\ \A j \in Leases \ {l} : ls2[j] = ls[j]
  BY <1>1
<1>0. /\ M.permit[y] = NoPermit /\ \A z \in Layers : ~Due(M, z)
      /\ \A z \in Layers \ {y} : \/ Keeps(ls[l], M, z)
                                 \/ M.permit[z] = NoPermit /\ ls[l].permit[z] = NoPermit
  BY DEF GivesUp
<1> HIDE DEF e, f, en2, ls2
<1>7. \A j \in Keys : /\ en2[j].attemptEpoch = en[j].attemptEpoch /\ en2[j].nextToken = en[j].nextToken
                      /\ en2[j].state = en[j].state
                      /\ en2[j].attemptEpoch \in Nat /\ en2[j].nextToken \in Nat
  BY ZenonT(60), <1>1, <1>4, <1>5, EntryFields DEF e
<1>8. \A j \in Keys : SlotOK(en2[j])
  <2>1. SlotOK(f)
    BY <1>2, <1>4 DEF SlotOK
  <2>2. \A j \in Keys \ {k} : SlotOK(en2[j])
    BY <1>1, <1>5, Zenon
  <2> QED
    BY <2>1, <2>2, <1>5, Zenon
<1>9. ASSUME NEW j \in Leases, NEW z \in Layers
      PROVE  PermitOK(ls2[j], z, en2[Key(ls2[j], z)])
  <2>1. CASE j = l
    <3>1. Key(M, z) \in Keys
      BY LeaseFields
    <3>2. CASE M.permit[z] = NoPermit
      BY ZenonT(30), <3>1, <3>2, <2>1, <1>0, <1>6, <1>7, NoPermitOK
    <3>3. CASE Keeps(ls[l], M, z)
      <4>1. Key(M, z) = Key(ls[l], z)
        BY <3>3 DEF Keeps, Key
      <4>2. PermitOK(ls[l], z, en[Key(M, z)])
        BY <4>1, <1>1
      <4>3. ~Due(M, z)
        BY <1>0
      <4>4. /\ en2[Key(M, z)].attemptEpoch = en[Key(M, z)].attemptEpoch
            /\ en2[Key(M, z)].nextToken = en[Key(M, z)].nextToken
        BY SMTT(30), <3>1, <1>7
      <4>5. PermitOK(M, z, en2[Key(M, z)])
        BY ZenonT(30), <4>2, <4>3, <4>4, <3>3 DEF PermitOK, Keeps
      <4> QED
        BY <4>5, <2>1, <1>6
    <3> QED
      BY <3>2, <3>3, <1>0
  <2>2. CASE j # l
    <3>1. ls2[j] = ls[j] /\ Key(ls[j], z) \in Keys /\ PermitOK(ls[j], z, en[Key(ls[j], z)])
      BY <2>2, <1>1, <1>6, LeaseFields, Zenon
    <3>2. CASE Key(ls[j], z) # k
      <4>1. en2[Key(ls[j], z)] = en[Key(ls[j], z)]
        BY <3>1, <3>2, <1>5, Zenon
      <4> QED
        BY <3>1, <4>1, Zenon
    <3>3. CASE Key(ls[j], z) = k
      <4>1. z = y
        BY <3>3, <1>1, SameLayer
      <4>2. ~Returnable(ls[j].permit[z], e)
        <5> SUFFICES ASSUME Returnable(ls[j].permit[z], e) PROVE FALSE
          OBVIOUS
        <5>1. Returnable(ls[l].permit[y], e)
          BY DEF e
        <5>2. Key(ls[j], y) = Key(ls[l], y) /\ Returnable(ls[j].permit[y], e)
          BY <4>1, <3>3
        <5>3. j = l
          BY SMTT(30), <5>1, <5>2, <1>1, UniqueAt
        <5> QED
          BY <5>3, <2>2
      <4> QED
        BY <4>2, <3>1, <3>3, <1>5, <1>7, Zenon DEF PermitOK, e
    <3> QED
      BY ZenonT(30), <3>2, <3>3
  <2> QED
    BY <2>1, <2>2
<1>10. UniqueTokens(ls2)
  <2> SUFFICES ASSUME NEW l1 \in Leases, NEW l2 \in Leases, NEW z \in Layers,
                      Key(ls2[l1], z) = Key(ls2[l2], z),
                      ls2[l1].permit[z].token = ls2[l2].permit[z].token,
                      ls2[l1].permit[z].token # 0
               PROVE  l1 = l2
    BY Zenon DEF UniqueTokens
  <2>1. \A j \in Leases : ls2[j].permit[z].token # 0 =>
            Key(ls2[j], z) = Key(ls[j], z) /\ ls2[j].permit[z].token = ls[j].permit[z].token
    <3> SUFFICES ASSUME NEW j \in Leases, ls2[j].permit[z].token # 0
                 PROVE  Key(ls2[j], z) = Key(ls[j], z) /\ ls2[j].permit[z].token = ls[j].permit[z].token
      BY Zenon
    <3>1. CASE j # l
      BY <3>1, <1>6, Zenon
    <3>2. CASE j = l
      <4>1. ls2[j] = M /\ M.permit[z].token # 0
        BY <3>2, <1>6, Zenon
      <4>0. NoPermit.token = 0
        BY Zenon DEF NoPermit
      <4>2. M.permit[z] # NoPermit
        BY <4>0, <4>1, Zenon
      <4>3. Keeps(ls[l], M, z)
        BY <4>2, <1>0, Zenon
      <4> QED
        BY <4>1, <4>3, <3>2, Zenon DEF Keeps, Key
    <3> QED
      BY <3>1, <3>2, Zenon
  <2>2. /\ Key(ls[l1], z) = Key(ls[l2], z)
        /\ ls[l1].permit[z].token = ls[l2].permit[z].token
        /\ ls[l1].permit[z].token # 0
    BY ONLY <2>1, l1 \in Leases, l2 \in Leases, Key(ls2[l1], z) = Key(ls2[l2], z),
            ls2[l1].permit[z].token = ls2[l2].permit[z].token, ls2[l1].permit[z].token # 0, Zenon
  <2>3. UniqueTokens(ls)
    BY <1>1, Zenon
  <2> QED
    BY <2>2, <2>3, Zenon DEF UniqueTokens
<1>11. Held(en2, ls2)
  <2> SUFFICES ASSUME NEW j \in Keys, en2[j].permitToken # 0
               PROVE  \E m \in Leases, z \in Layers :
                         Key(ls2[m], z) = j /\ Returnable(ls2[m].permit[z], en2[j])
    BY DEF Held
  <2>1. j # k /\ en2[j] = en[j]
    BY <1>4, <1>5
  <2>2. PICK m \in Leases, z \in Layers : Key(ls[m], z) = j /\ Returnable(ls[m].permit[z], en[j])
    BY ZenonT(30), <2>1, <1>1 DEF Held
  <2>3. Key(ls2[m], z) = j /\ ls2[m].permit[z].token = ls[m].permit[z].token
        /\ ls2[m].permit[z].epoch = ls[m].permit[z].epoch
    <3>1. CASE m # l
      BY <3>1, <2>2, <1>6, Zenon
    <3>2. CASE m = l
      <4>1. z # y
        BY <3>2, <2>1, <2>2
      <4>2. ls[l].permit[z] # NoPermit
        BY <3>2, <2>2, NoPermitReturns, Zenon
      <4>3. Keeps(ls[l], M, z)
        BY <4>1, <4>2, <1>0
      <4>4. Key(M, z) = Key(ls[l], z)
        BY <4>3 DEF Keeps, Key
      <4> QED
        BY <4>3, <4>4, <3>2, <2>2, <1>6, Zenon DEF Keeps
    <3> QED
      BY <3>1, <3>2, Zenon
  <2> QED
    BY ZenonT(60), <2>1, <2>2, <2>3 DEF Returnable
<1>12. \A j \in Leases : PcOK(ls2[j])
  BY <1>1, <1>6
<1>13. Inv(en2, ls2)
  BY <1>5, <1>6, <1>8, <1>9, <1>10, <1>11, <1>12 DEF Inv
<1> QED
  BY <1>13 DEF en2, ls2, f, e

(***************************************************************************)
(* Lease updates.                                                          *)
(***************************************************************************)
\* A lease may go to any stage.
LEMMA LeaseStage ==
    ASSUME NEW L \in Lease, NEW c \in Stages
    PROVE  /\ [L EXCEPT !.pc = c] \in Lease
           /\ [L EXCEPT !.pc = c].pc = c /\ [L EXCEPT !.pc = c].ep = L.ep
           /\ [L EXCEPT !.pc = c].permit = L.permit /\ [L EXCEPT !.pc = c].pols = L.pols
           /\ [L EXCEPT !.pc = c].n = L.n /\ [L EXCEPT !.pc = c].matched = L.matched
  BY DEF Lease

\* A permit of a lease may become any permit.
LEMMA LeasePermit ==
    ASSUME NEW L \in Lease, NEW y \in Layers, NEW q \in Permit
    PROVE  LET M == [L EXCEPT !.permit[y] = q] IN
           /\ M \in Lease /\ M.ep = L.ep /\ M.pols = L.pols /\ M.n = L.n /\ M.pc = L.pc
           /\ M.matched = L.matched
           /\ M.permit[y] = q /\ \A z \in Layers \ {y} : M.permit[z] = L.permit[z]
  BY DEF Lease

\* A finished lease has its type.
LEMMA IdleType == IdleLease \in Lease
<1>1. (CHOOSE ep \in Endpoints : TRUE) \in Endpoints
  BY KeysAssumption
<1>2. (CHOOSE pols \in PolicyLists : TRUE) \in PolicyLists
  BY PolicyAssumption
<1> QED
  BY <1>1, <1>2 DEF IdleLease, Lease, Stages, Permit, NoPermit

\* A finished lease holds no permit.
LEMMA IdlePermits ==
    /\ IdleLease.pc = "idle" /\ PcOK(IdleLease)
    /\ \A y \in Layers : IdleLease.permit[y] = NoPermit /\ ~Due(IdleLease, y)
  BY DEF IdleLease, PcOK, Due, Layers

\* A visit of recordOutcome is to a policy of the lease and to a layer.
LEMMA PolicyVisit ==
    ASSUME NEW L \in Lease, L.n \in 1..(2 * Len(L.pols))
    PROVE  PolicyAt(L, L.n) \in Policy /\ PolicyAt(L, L.n).version \in Nat /\ LayerAt(L.n) \in Layers
<1>1. L.pols \in Seq(Policy)
  BY LeaseFields, PolicyAssumption DEF Layers
<1>2. Len(L.pols) \in Nat /\ DOMAIN L.pols = 1..Len(L.pols)
  BY <1>1
<1>3. (L.n + 1) \div 2 \in 1..Len(L.pols)
  BY <1>2
<1>4. L.pols[(L.n + 1) \div 2] \in Policy
  BY <1>1, <1>3
<1> QED
  BY Zenon, <1>4 DEF PolicyAt, PolicyIndexAt, LayerAt, Layers, Policy

\* The visits of a lease depend on its policies and on those that matched.
LEMMA SameVisits ==
    ASSUME NEW L, NEW M, M.pols = L.pols, M.matched = L.matched, NEW n
    PROVE  VisitsAfter(M, n) = VisitsAfter(L, n)
  BY DEF VisitsAfter, PolicyAt

\* A visit of a lease is a number of one of its policies at a layer.
LEMMA VisitRange ==
    ASSUME NEW L \in Lease, NEW n \in Nat, NEW m \in VisitsAfter(L, n)
    PROVE  m \in 1..(2 * Len(L.pols)) /\ m \in Nat /\ m > n /\ m \in VisitsAfter(L, 0)
<1>1. L.pols \in Seq(Policy)
  BY LeaseFields, PolicyAssumption DEF Layers
<1>2. Len(L.pols) \in Nat
  BY <1>1
<1> DEFINE ok(j) == PolicyIndexAt(j) \in L.matched /\ circuitPolicyApplies(PolicyAt(L, j), LayerAt(j))
<1>3. m \in (n + 1)..(2 * Len(L.pols)) /\ ok(m)
  BY Zenon DEF VisitsAfter
<1> HIDE DEF ok
<1>4. m \in 1..(2 * Len(L.pols)) /\ m \in Nat /\ m > n /\ m \in (0 + 1)..(2 * Len(L.pols))
  BY <1>2, <1>3
<1>5. m \in VisitsAfter(L, 0)
  BY Zenon, <1>3, <1>4 DEF VisitsAfter, ok
<1> QED
  BY <1>4, <1>5

\* Advance moves one lease and keeps its permits; what is still due afterwards
\* is due at a layer that no visit up to n was to.
LEMMA AdvanceForm ==
    ASSUME NEW l \in Leases, NEW L \in Lease, NEW n \in Nat, Advance(l, L, n)
    PROVE  \E M \in Lease : /\ lease' = [lease EXCEPT ![l] = M]
                            /\ M.ep = L.ep /\ M.permit = L.permit /\ PcOK(M)
                            /\ \A y \in Layers : Due(M, y) =>
                                  \A j \in VisitsAfter(L, 0) : j <= n => LayerAt(j) # y
<1>1. CASE lease' = [lease EXCEPT ![l] = [L EXCEPT !.pc = "releaseService"]]
  <2> DEFINE M == [L EXCEPT !.pc = "releaseService"]
  <2>1. M \in Lease /\ M.pc = "releaseService" /\ M.ep = L.ep /\ M.permit = L.permit
    BY Zenon, LeaseStage DEF Stages
  <2> HIDE DEF M
  <2>2. PcOK(M) /\ \A y \in Layers : ~Due(M, y)
    BY <2>1 DEF PcOK, Due
  <2>3. lease' = [lease EXCEPT ![l] = M]
    BY <1>1 DEF M
  <2> QED
    BY Zenon, <2>1, <2>2, <2>3
<1>2. ASSUME NEW m \in VisitsAfter(L, n),
             lease' = [lease EXCEPT ![l] = [L EXCEPT !.pc = "record", !.n = m]]
      PROVE  \E M \in Lease : /\ lease' = [lease EXCEPT ![l] = M]
                              /\ M.ep = L.ep /\ M.permit = L.permit /\ PcOK(M)
                              /\ \A y \in Layers : Due(M, y) =>
                                    \A j \in VisitsAfter(L, 0) : j <= n => LayerAt(j) # y
  <2> DEFINE M == [L EXCEPT !.pc = "record", !.n = m]
  <2>1. m \in Nat /\ m > n /\ m \in VisitsAfter(L, 0)
    BY VisitRange
  <2>2. M \in Lease /\ M.pc = "record" /\ M.ep = L.ep /\ M.permit = L.permit
        /\ M.n = m /\ M.pols = L.pols /\ M.matched = L.matched
    <3>1. "record" \in Stages
      BY DEF Stages
    <3> QED
      BY Zenon, <3>1, <2>1 DEF Lease
  <2> HIDE DEF M
  <2>3. VisitsAfter(M, 0) = VisitsAfter(L, 0)
    BY <2>2, SameVisits
  <2>4. PcOK(M)
    BY <2>1, <2>2, <2>3 DEF PcOK
  <2>5. ASSUME NEW y \in Layers, Due(M, y), NEW j \in VisitsAfter(L, 0), j <= n
        PROVE  LayerAt(j) # y
    <3>1. ~VisitedBefore(M, y)
      BY Zenon, <2>2, <2>5 DEF Due, Layers
    <3>2. j \in Nat
      BY VisitRange
    <3>3. j < M.n
      BY <2>1, <2>2, <2>5, <3>2
    <3> QED
      BY Zenon, <2>3, <3>1, <3>3 DEF VisitedBefore
  <2>6. lease' = [lease EXCEPT ![l] = M]
    BY <1>2 DEF M
  <2> QED
    BY Zenon, <2>2, <2>4, <2>5, <2>6
<1> QED
  BY Zenon, <1>1, <1>2 DEF Advance

\* What a recording lease still owes after its visit, it owed before, and at
\* another layer.
LEMMA StillDue ==
    ASSUME NEW L \in Lease, PcOK(L), L.pc \in {"record", "recordAfterReset"}, NEW y \in Layers,
           \A j \in VisitsAfter(L, 0) : j <= L.n => LayerAt(j) # y
    PROVE  y # LayerAt(L.n) /\ Due(L, y)
<1>1. L.n \in VisitsAfter(L, 0) /\ L.n \in Nat
  BY VisitRange DEF PcOK
<1>2. LayerAt(L.n) # y
  BY <1>1
<1>3. \A j \in VisitsAfter(L, 0) : j \in Nat
  BY VisitRange
<1>4. ~VisitedBefore(L, y)
  BY <1>1, <1>3 DEF VisitedBefore
<1> QED
  BY <1>2, <1>4 DEF Due
=============================================================================
