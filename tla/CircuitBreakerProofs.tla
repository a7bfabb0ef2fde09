------------------------ MODULE CircuitBreakerProofs ------------------------
(***************************************************************************)
(* Proofs about CircuitBreaker for every number of leases, keys, policies  *)
(* and every bound: one lemma per action, then the theorems.               *)
(***************************************************************************)
EXTENDS CircuitBreakerLeaseProofs

(***************************************************************************)
(* One lemma per action.                                                   *)
(***************************************************************************)
\* What the invariant says of one lease and of the entry of one of its keys.
LEMMA InvTypes ==
    ASSUME NEW en, NEW ls, Inv(en, ls), NEW l \in Leases, NEW y \in Layers
    PROVE  /\ en \in [Keys -> Entry] /\ ls \in [Leases -> Lease] /\ ls[l] \in Lease
           /\ PcOK(ls[l]) /\ Key(ls[l], y) \in Keys /\ en[Key(ls[l], y)] \in Entry
           /\ PermitOK(ls[l], y, en[Key(ls[l], y)])
<1>1. /\ en \in [Keys -> Entry] /\ ls \in [Leases -> Lease] /\ PcOK(ls[l])
      /\ PermitOK(ls[l], y, en[Key(ls[l], y)])
  BY DEF Inv
<1> QED
  BY <1>1, LeaseFields

\* Start: a lease that begins has no permit.
LEMMA StartKeeps ==
    ASSUME Inv(entry, lease), NEW l \in Leases, NEW ep \in Endpoints, NEW pols \in PolicyLists,
           Start(l, ep, pols)
    PROVE  Inv(entry', lease')
<1> DEFINE L == lease[l]
           M == [L EXCEPT !.pc = "acquireService", !.ep = ep, !.pols = pols]
<1>1. /\ entry \in [Keys -> Entry] /\ lease \in [Leases -> Lease] /\ L \in Lease
      /\ PcOK(L) /\ L.pc = "idle"
  BY DEF Inv, Start
<1>2. "acquireService" \in Stages
  BY DEF Stages
<1>3. M \in Lease /\ M.pc = "acquireService" /\ M.permit = L.permit
  BY Zenon, <1>1, <1>2 DEF Lease
<1>4. lease' = [lease EXCEPT ![l] = M] /\ entry' = entry
  BY Zenon, <1>1 DEF Start
<1> HIDE DEF M, L
<1>5. L.permit["service"] = NoPermit /\ L.permit["endpoint"] = NoPermit
  BY <1>1 DEF PcOK
<1>6. \A y \in Layers : M.permit[y] = NoPermit /\ L.permit[y] = NoPermit /\ ~Due(M, y)
  BY <1>3, <1>5 DEF Layers, Due
<1>7. PcOK(M)
  BY <1>3, <1>5 DEF PcOK
<1>8. \A y \in Layers : Drops(L, M, y, entry)
  <2> TAKE y \in Layers
  <2>1. entry[Key(M, y)].attemptEpoch \in Nat
    BY <1>1, <1>3, LeaseFields, EntryFields
  <2> QED
    BY <2>1, <1>6 DEF Drops, NoPermit, Returnable
<1>9. \A k \in Keys : Moves(entry[k], entry[k])
  BY <1>1, MovesSelf
<1> QED
  BY ZenonT(60), <1>1, <1>3, <1>4, <1>7, <1>8, <1>9, QuietLease DEF L

\* The lease l moves on with its permits as they are, and owes nothing new.
LEMMA LeaveStep ==
    ASSUME NEW en, NEW ls, Inv(en, ls), NEW en2 \in [Keys -> Entry],
           \A k \in Keys : Moves(en[k], en2[k]), NEW l \in Leases, NEW M \in Lease, PcOK(M),
           M.ep = ls[l].ep, M.permit = ls[l].permit,
           \A y \in Layers : Due(M, y) => Due(ls[l], y)
    PROVE  Inv(en2, [ls EXCEPT ![l] = M])
<1>1. \A y \in Layers : Keeps(ls[l], M, y)
  BY DEF Keeps
<1> QED
  BY <1>1, QuietLease

\* Cancel: the permits stay with the lease until they are released.
LEMMA CancelKeeps ==
    ASSUME Inv(entry, lease), NEW l \in Leases, Cancel(l)
    PROVE  Inv(entry', lease')
<1> DEFINE M == [lease[l] EXCEPT !.pc = "releaseService"]
<1>1. entry \in [Keys -> Entry] /\ lease \in [Leases -> Lease] /\ lease[l] \in Lease
  BY DEF Inv
<1>2. "releaseService" \in Stages
  BY DEF Stages
<1>3. M \in Lease /\ M.pc = "releaseService" /\ M.ep = lease[l].ep /\ M.permit = lease[l].permit
  BY <1>1, <1>2, LeaseStage
<1>4. lease' = [lease EXCEPT ![l] = M] /\ entry' = entry
  BY <1>1 DEF Cancel
<1> HIDE DEF M
<1>5. PcOK(M) /\ \A y \in Layers : Due(M, y) => Due(lease[l], y)
  BY <1>3 DEF PcOK, Due
<1>6. \A k \in Keys : Moves(entry[k], entry[k])
  BY <1>1, MovesSelf
<1> QED
  BY ZenonT(60), <1>1, <1>3, <1>4, <1>5, <1>6, LeaveStep

\* Outcome: no entry changes, the permits stay.
LEMMA OutcomeKeeps ==
    ASSUME Inv(entry, lease), clock \in Nat, NEW l \in Leases, NEW ok \in BOOLEAN,
           NEW matched \in SUBSET DOMAIN lease[l].pols, Outcome(l, ok, matched)
    PROVE  Inv(entry', lease')
<1> DEFINE L == [lease[l] EXCEPT !.ok = ok, !.matched = matched, !.now = clock]
<1>1. entry \in [Keys -> Entry] /\ lease \in [Leases -> Lease] /\ lease[l] \in Lease
  BY DEF Inv
<1>2. lease[l].pols \in Seq(Policy)
  BY <1>1, LeaseFields, PolicyAssumption DEF Layers
<1>3. matched \in SUBSET Nat
  BY <1>2
<1>4. L \in Lease /\ L.ep = lease[l].ep /\ L.permit = lease[l].permit
  BY Zenon, <1>1, <1>3 DEF Lease
<1>5. Advance(l, L, 0) /\ entry' = entry /\ lease[l].pc = "calling"
  BY DEF Outcome
<1> HIDE DEF L
<1>6. PICK M \in Lease : /\ lease' = [lease EXCEPT ![l] = M]
                         /\ M.ep = L.ep /\ M.permit = L.permit /\ PcOK(M)
  BY <1>4, <1>5, AdvanceForm
<1>7. \A k \in Keys : Moves(entry[k], entry[k])
  BY <1>1, MovesSelf
<1>8. \A y \in Layers : Due(lease[l], y)
  BY Zenon, <1>5 DEF Due
<1> QED
  BY ZenonT(60), <1>1, <1>4, <1>5, <1>6, <1>7, <1>8, LeaveStep

\* Acquire: refused, admitted to a closed entry, or given the probe slot.
LEMMA AcquireKeeps ==
    ASSUME Inv(entry, lease), clock \in Nat, NEW l \in Leases, NEW y \in Layers, Acquire(l, y)
    PROVE  Inv(entry', lease')
<1> DEFINE L == lease[l]
           k == Key(L, y)
           e == computeState(entry[k], clock)
           en1 == [entry EXCEPT ![k] = e]
           c == IF y = "service" THEN "acquireEndpoint" ELSE "calling"
<1>1. /\ entry \in [Keys -> Entry] /\ lease \in [Leases -> Lease] /\ L \in Lease
      /\ PcOK(L) /\ k \in Keys /\ entry[k] \in Entry
  BY InvTypes
<1>2. L.pc = IF y = "service" THEN "acquireService" ELSE "acquireEndpoint"
  BY DEF Acquire
<1>3. y = "service" \/ y = "endpoint"
  BY DEF Layers
<1>4. L.permit[y] = NoPermit
  BY <1>1, <1>2, <1>3 DEF PcOK
<1>5. Moves(entry[k], e)
  BY SMTT(30), <1>1, ComputeMoves
<1>6. en1 \in [Keys -> Entry] /\ (\A j \in Keys : Moves(entry[j], en1[j])) /\ en1[k] = e /\ e \in Entry
  BY <1>1, <1>5, MoveOne DEF Moves
<1>7. Inv(en1, lease)
  BY ZenonT(60), <1>1, <1>5, QuietEntry
<1>8. \/ /\ Allowed(e)
         /\ entry' = [entry EXCEPT ![k] = Admit(e)]
         /\ lease' = [lease EXCEPT ![l].permit[y] = PermitFrom(Admit(e)), ![l].pc = c]
      \/ /\ ~Allowed(e)
         /\ entry' = en1
         /\ lease' = [lease EXCEPT ![l] = IF y = "service" THEN IdleLease
                                          ELSE [@ EXCEPT !.pc = "releaseService"]]
  BY DEF Acquire, Key
<1>9. CASE ~Allowed(e) /\ y = "service"
  <2>1. entry' = en1 /\ lease' = [lease EXCEPT ![l] = IdleLease]
    BY <1>8, <1>9
  <2>2. L.permit["service"] = NoPermit /\ L.permit["endpoint"] = NoPermit
    BY <1>1, <1>2, <1>9 DEF PcOK
  <2>3. \A z \in Layers : L.permit[z] = NoPermit
    BY <2>2 DEF Layers
  <2> HIDE DEF en1, e, k, c
  <2>4. \A z \in Layers : Drops(L, IdleLease, z, en1)
    <3> TAKE z \in Layers
    <3>1. en1[Key(IdleLease, z)].attemptEpoch \in Nat
      BY <1>6, IdleType, LeaseFields, EntryFields
    <3> QED
      BY SMTT(30), <3>1, <2>3, IdlePermits, NoPermitDrops, NoPermitReturns
  <2> QED
    BY ZenonT(60), <2>1, <2>4, <1>6, IdleType, IdlePermits, QuietLease
<1>10. CASE ~Allowed(e) /\ y = "endpoint"
  <2> DEFINE M == [L EXCEPT !.pc = "releaseService"]
  <2>1. entry' = en1 /\ lease' = [lease EXCEPT ![l] = M]
    BY <1>8, <1>10
  <2>2. "releaseService" \in Stages
    BY DEF Stages
  <2>3. M \in Lease /\ M.pc = "releaseService" /\ M.ep = L.ep /\ M.permit = L.permit
    BY <1>1, <2>2, LeaseStage
  <2> HIDE DEF M, en1, e, k, c
  <2>4. PcOK(M) /\ \A z \in Layers : Due(M, z) => Due(L, z)
    BY <2>3 DEF PcOK, Due
  <2> QED
    BY ZenonT(60), <2>1, <2>3, <2>4, <1>6, LeaveStep
<1>11. CASE Allowed(e)
  <2> DEFINE q == PermitFrom(Admit(e))
             M == [L EXCEPT !.permit[y] = q, !.pc = c]
  <2>1. entry' = [entry EXCEPT ![k] = Admit(e)] /\ lease' = [lease EXCEPT ![l] = M]
    BY ZenonT(60), <1>1, <1>8, <1>11
  <2>2. Inv([entry EXCEPT ![k] = Admit(e)], [lease EXCEPT ![l] = M])
    <3>1. SlotOK(e)
      BY <1>1, <1>6, <1>7 DEF Inv
    <3>2. Admit(e) \in Entry
      <4>1. CASE e.state = "HalfOpen"
        BY <4>1, <3>1, <1>6, <1>11, AdmitFields DEF Allowed
      <4>2. CASE e.state # "HalfOpen"
        BY <4>2, <1>6 DEF Admit
      <4> QED
        BY <4>1, <4>2
    <3>3. q \in Permit
      BY <3>2, EntryFields DEF PermitFrom, Permit
    <3>4. c \in Stages
      BY DEF Stages
    <3> HIDE DEF q, e, en1, k
    <3>5. /\ M \in Lease /\ M.ep = L.ep /\ M.pc = c /\ M.permit[y] = q
          /\ \A z \in Layers \ {y} : M.permit[z] = L.permit[z]
      <4> HIDE DEF c, L
      <4> QED
        BY ZenonT(60), <1>1, <3>3, <3>4 DEF Lease
    <3> HIDE DEF M
    <3>6. PcOK(M)
      BY <1>1, <1>2, <1>3, <3>5 DEF PcOK, Layers
    <3>7. \A z \in Layers \ {y} : Keeps(L, M, z)
      BY <1>2, <1>3, <3>5 DEF Keeps, Due, Layers
    <3>8. CASE e.state = "HalfOpen"
      <4>1. en1[k].state = "HalfOpen" /\ en1[k].activeCalls < 1 /\ L.permit[y].token = 0
        BY <3>8, <1>4, <1>6, <1>11 DEF Allowed, NoPermit
      <4>2. M.permit[y] = PermitFrom(Admit(en1[k]))
        BY <3>5, <1>6 DEF q
      <4>3. Inv([en1 EXCEPT ![k] = Admit(en1[k])], [lease EXCEPT ![l] = M])
        BY ZenonT(60), <4>1, <4>2, <3>5, <3>6, <3>7, <1>1, <1>7, AdmitStep DEF k
      <4>4. [en1 EXCEPT ![k] = Admit(en1[k])] = [entry EXCEPT ![k] = Admit(e)]
        BY Zenon, <1>1, <1>6 DEF en1
      <4> QED
        BY <4>3, <4>4
    <3>9. CASE e.state # "HalfOpen"
      <4>1. Admit(e) = e
        BY <3>9 DEF Admit
      <4>2. M.permit[y].token = 0 /\ M.permit[y].epoch = e.attemptEpoch
        BY <4>1, <3>5, <3>9 DEF PermitFrom, q
      <4>3. Key(M, y) = k /\ e.attemptEpoch \in Nat
        BY <3>5, <1>6, EntryFields DEF Key, k
      <4>4. Drops(L, M, y, en1)
        BY SMTT(30), <4>2, <4>3, <3>9, <1>4, <1>6 DEF Drops, Returnable, NoPermit
      <4>5. Inv(en1, [lease EXCEPT ![l] = M])
        BY <4>4, <3>5, <3>6, <3>7, <1>6, QuietLease
      <4> QED
        BY <4>1, <4>5 DEF en1
    <3> QED
      BY <3>8, <3>9
  <2> QED
    BY <2>1, <2>2
<1> QED
  BY <1>3, <1>9, <1>10, <1>11

\* The permit of lease l at the recorded layer follows the entry, and the
\* lease goes on: the argument shared by the recording steps.
LEMMA FollowStep ==
    ASSUME Inv(entry, lease), NEW l \in Leases, NEW y \in Layers,
           NEW k \in Keys, k = Key(lease[l], y), NEW f, Moves(entry[k], f),
           NEW p \in Permit, p.epoch = lease[l].permit[y].epoch, p.token = lease[l].permit[y].token,
           NEW M \in Lease, PcOK(M), M.ep = lease[l].ep, M.permit[y] = Follow(p, f),
           Due(M, y) => f.state # "HalfOpen" /\ p.epoch # f.attemptEpoch,
           \A z \in Layers \ {y} : M.permit[z] = lease[l].permit[z] /\ (Due(M, z) => Due(lease[l], z))
    PROVE  Inv([entry EXCEPT ![k] = f], [lease EXCEPT ![l] = M])
<1> DEFINE L == lease[l]
           en2 == [entry EXCEPT ![k] = f]
<1>1. entry \in [Keys -> Entry] /\ L \in Lease
  BY SMTT(30), InvTypes
<1>2. en2 \in [Keys -> Entry] /\ (\A j \in Keys : Moves(entry[j], en2[j])) /\ en2[k] = f /\ f \in Entry
  BY <1>1, MoveOne DEF Moves
<1>3. f.attemptEpoch \in Nat
  BY <1>2, EntryFields
<1>4. Key(M, y) = k
  BY DEF Key
<1> HIDE DEF en2, L
<1>7. Keeps(L, M, y) \/ Drops(L, M, y, en2)
  <2>1. CASE p.epoch = f.attemptEpoch
    BY <2>1 DEF Keeps, Follow, L
  <2>2. CASE p.epoch # f.attemptEpoch
    <3>1. M.permit[y].epoch = f.attemptEpoch /\ M.permit[y].token = 0
      BY <2>2 DEF Follow, Permit
    <3>2. ~Returnable(L.permit[y], f)
      BY <2>2 DEF Returnable, L
    <3>3. Key(L, y) = k
      BY DEF L
    <3> QED
      BY <3>1, <3>2, <3>3, <1>2, <1>3, <1>4 DEF Drops
  <2> QED
    BY <2>1, <2>2
<1>8. \A z \in Layers \ {y} : Keeps(L, M, z)
  BY DEF Keeps, L
<1>9. Inv(en2, [lease EXCEPT ![l] = M])
  BY <1>2, <1>7, <1>8, QuietLease DEF L
<1> QED
  BY <1>9 DEF en2

\* A permit that follows its entry is a permit.
LEMMA FollowType ==
    ASSUME NEW p \in Permit, NEW f \in Entry
    PROVE  Follow(p, f) \in Permit
<1>1. f.attemptEpoch \in Nat /\ 0 \in Nat
  BY EntryFields
<1> DEFINE x == f.attemptEpoch
<1> HIDE DEF x
<1>2. [p EXCEPT !.epoch = x, !.token = 0] \in Permit
  BY Zenon, <1>1 DEF Permit, x
<1> QED
  BY <1>2 DEF Follow, x

\* Record: skipped, interrupted by its own version reset, or recorded.
LEMMA RecordKeeps ==
    ASSUME Inv(entry, lease), NEW l \in Leases, Record(l)
    PROVE  Inv(entry', lease')
<1> DEFINE L == lease[l]
           y == LayerAt(L.n)
           k == Key(L, y)
           v == PolicyAt(L, L.n).version
           checked == checkAndResetOnVersionChange(entry[k], v)
           p == [L.permit[y] EXCEPT !.version = v]
           after == Recorded(L, checked)
<1>1. L.pc = "record"
  BY Zenon DEF Record
<1>2. L \in Lease /\ PcOK(L) /\ entry \in [Keys -> Entry] /\ lease \in [Leases -> Lease]
  BY DEF Inv
<1>3. L.n \in 1..(2 * Len(L.pols)) /\ L.n \in VisitsAfter(L, 0)
  BY <1>1, <1>2, VisitRange DEF PcOK
<1>4. PolicyAt(L, L.n) \in Policy /\ v \in Nat /\ y \in Layers
  BY <1>2, <1>3, PolicyVisit
<1>5. /\ k \in Keys /\ entry[k] \in Entry /\ L.permit[y] \in Permit
      /\ L.ok \in BOOLEAN /\ L.now \in Nat /\ L.n \in Nat
  BY <1>2, <1>4, LeaseFields
<1>6. Moves(entry[k], checked)
  BY <1>4, <1>5, VersionMoves
<1>7. checked \in Entry
  BY ZenonT(60), <1>6 DEF Moves
<1>8. Moves(checked, after) /\ after \in Entry
  BY ZenonT(60), <1>4, <1>5, <1>7, RecordMoves DEF Recorded, Moves
<1>9. Moves(entry[k], after)
  BY <1>5, <1>6, <1>7, <1>8, MovesTransitive
<1>10. p \in Permit /\ p.epoch = L.permit[y].epoch /\ p.token = L.permit[y].token
  <2> HIDE DEF v, y
  <2> QED
    BY <1>4, <1>5 DEF Permit
<1>11. Follow(p, checked) \in Permit /\ Follow(p, after) \in Permit
  BY <1>7, <1>8, <1>10, FollowType
<1>12. \/ Advance(l, L, L.n) /\ entry' = entry
       \/ /\ Matches(L.permit[y], entry[k]) /\ VersionChanged(entry[k], v)
          /\ entry' = [entry EXCEPT ![k] = checked]
          /\ lease' = [lease EXCEPT ![l].pc = "recordAfterReset", ![l].permit[y] = Follow(p, checked)]
       \/ /\ entry' = [entry EXCEPT ![k] = after]
          /\ Advance(l, [L EXCEPT !.permit[y] = Follow(p, after)], L.n)
  BY Zenon DEF Record, Key
<1>13. VersionChanged(entry[k], v) =>
          checked.state = "Closed" /\ checked.attemptEpoch = entry[k].attemptEpoch + 1
  BY ZenonT(60), <1>4, <1>5, VersionReset
<1>14. LayerAt(L.n) = y /\ L.pc \in {"record", "recordAfterReset"}
  BY <1>1
<1> HIDE DEF k, v, checked, p, after, y
<1>15. CASE Advance(l, L, L.n) /\ entry' = entry
  <2>1. PICK M \in Lease : /\ lease' = [lease EXCEPT ![l] = M]
                           /\ M.ep = L.ep /\ M.permit = L.permit /\ PcOK(M)
                           /\ \A z \in Layers : Due(M, z) =>
                                 \A j \in VisitsAfter(L, 0) : j <= L.n => LayerAt(j) # z
    BY Zenon, <1>2, <1>5, <1>15, AdvanceForm
  <2>2. \A j \in Keys : Moves(entry[j], entry[j])
    BY <1>2, MovesSelf
  <2>3. \A z \in Layers : Due(M, z) => Due(L, z)
    BY Zenon, <1>2, <1>14, <2>1, StillDue
  <2> QED
    BY ZenonT(60), <1>2, <1>15, <2>1, <2>2, <2>3, LeaveStep
<1>16. CASE /\ Matches(L.permit[y], entry[k]) /\ VersionChanged(entry[k], v)
            /\ entry' = [entry EXCEPT ![k] = checked]
            /\ lease' = [lease EXCEPT ![l].pc = "recordAfterReset", ![l].permit[y] = Follow(p, checked)]
  <2> DEFINE q == Follow(p, checked)
             c == "recordAfterReset"
             M == [L EXCEPT !.pc = c, !.permit[y] = q]
  <2>1. lease' = [lease EXCEPT ![l] = M]
    BY Zenon, <1>2, <1>16
  <2>2. q \in Permit /\ c \in Stages
    BY <1>11 DEF Stages
  <2>3. /\ M \in Lease /\ M.ep = L.ep /\ M.pc = c /\ M.permit[y] = q
        /\ M.n = L.n /\ M.pols = L.pols /\ M.matched = L.matched
        /\ \A z \in Layers \ {y} : M.permit[z] = L.permit[z]
    <3> HIDE DEF c, q, L
    <3> QED
      BY ZenonT(60), <1>2, <1>4, <2>2 DEF Lease
  <2> HIDE DEF M
  <2>4. VisitsAfter(M, 0) = VisitsAfter(L, 0)
    BY <2>3, SameVisits
  <2>5. PcOK(M)
    BY <1>3, <2>3, <2>4 DEF PcOK
  <2>6. \A z \in Layers \ {y} : Due(M, z) => Due(L, z)
    BY Zenon, <1>1, <1>14, <2>3, <2>4 DEF Due, VisitedBefore
  <2>7. checked.state # "HalfOpen" /\ p.epoch # checked.attemptEpoch
    <3>1. entry[k].attemptEpoch \in Nat
      BY <1>5, EntryFields
    <3>2. p.epoch = entry[k].attemptEpoch
      BY Zenon, <1>10, <1>16 DEF Matches
    <3> QED
      BY <1>16, <1>13, <3>1, <3>2
  <2>8. Inv([entry EXCEPT ![k] = checked], [lease EXCEPT ![l] = M])
    BY <1>4, <1>5, <1>6, <1>10, <2>3, <2>5, <2>6, <2>7, FollowStep DEF k
  <2> QED
    BY Zenon, <1>16, <2>1, <2>8
<1>17. CASE /\ entry' = [entry EXCEPT ![k] = after]
            /\ Advance(l, [L EXCEPT !.permit[y] = Follow(p, after)], L.n)
  <2> DEFINE q == Follow(p, after)
             N == [L EXCEPT !.permit[y] = q]
  <2>1. /\ N \in Lease /\ N.ep = L.ep /\ N.permit[y] = q
        /\ N.pols = L.pols /\ N.matched = L.matched
        /\ \A z \in Layers \ {y} : N.permit[z] = L.permit[z]
    BY <1>2, <1>4, <1>11, LeasePermit
  <2> HIDE DEF N
  <2>2. PICK M \in Lease : /\ lease' = [lease EXCEPT ![l] = M]
                           /\ M.ep = N.ep /\ M.permit = N.permit /\ PcOK(M)
                           /\ \A z \in Layers : Due(M, z) =>
                                 \A j \in VisitsAfter(N, 0) : j <= L.n => LayerAt(j) # z
    BY ZenonT(60), <1>5, <1>17, <2>1, AdvanceForm DEF N
  <2>3. /\ M.ep = L.ep /\ M.permit[y] = Follow(p, after) /\ k = Key(L, y)
        /\ \A z \in Layers \ {y} : M.permit[z] = L.permit[z]
    BY <2>1, <2>2 DEF k
  <2>4. VisitsAfter(N, 0) = VisitsAfter(L, 0)
    BY <2>1, SameVisits
  <2>5. \A z \in Layers : Due(M, z) => z # y /\ Due(L, z)
    BY Zenon, <1>2, <1>14, <2>2, <2>4, StillDue
  <2>6. Inv([entry EXCEPT ![k] = after], [lease EXCEPT ![l] = M])
    BY ZenonT(60), <1>4, <1>5, <1>9, <1>10, <2>2, <2>3, <2>5, FollowStep
  <2> QED
    BY <1>17, <2>2, <2>6
<1> QED
  BY <1>12, <1>15, <1>16, <1>17

\* RecordAfterReset: skipped or recorded.
LEMMA RecordAfterResetKeeps ==
    ASSUME Inv(entry, lease), NEW l \in Leases, RecordAfterReset(l)
    PROVE  Inv(entry', lease')
<1> DEFINE L == lease[l]
           y == LayerAt(L.n)
           k == Key(L, y)
           p == L.permit[y]
           after == Recorded(L, entry[k])
<1>1. L.pc = "recordAfterReset"
  BY DEF RecordAfterReset
<1>2. L \in Lease /\ PcOK(L) /\ entry \in [Keys -> Entry] /\ lease \in [Leases -> Lease]
  BY DEF Inv
<1>3. L.n \in 1..(2 * Len(L.pols)) /\ L.n \in VisitsAfter(L, 0)
  BY <1>1, <1>2, VisitRange DEF PcOK
<1>4. PolicyAt(L, L.n) \in Policy /\ y \in Layers
  BY <1>2, <1>3, PolicyVisit
<1>5. /\ k \in Keys /\ entry[k] \in Entry /\ p \in Permit
      /\ L.ok \in BOOLEAN /\ L.now \in Nat /\ L.n \in Nat
  BY <1>2, <1>4, LeaseFields
<1>6. Moves(entry[k], after) /\ after \in Entry
  BY ZenonT(60), <1>4, <1>5, RecordMoves DEF Recorded, Moves
<1>7. Follow(p, after) \in Permit
  BY <1>5, <1>6, FollowType
<1>8. \/ Advance(l, L, L.n) /\ entry' = entry
      \/ /\ entry' = [entry EXCEPT ![k] = after]
         /\ Advance(l, [L EXCEPT !.permit[y] = Follow(p, after)], L.n)
  BY DEF RecordAfterReset, Key
<1>9. LayerAt(L.n) = y /\ L.pc \in {"record", "recordAfterReset"}
  BY <1>1
<1> HIDE DEF k, after, y
<1>10. CASE Advance(l, L, L.n) /\ entry' = entry
  <2>1. PICK M \in Lease : /\ lease' = [lease EXCEPT ![l] = M]
                           /\ M.ep = L.ep /\ M.permit = L.permit /\ PcOK(M)
                           /\ \A z \in Layers : Due(M, z) =>
                                 \A j \in VisitsAfter(L, 0) : j <= L.n => LayerAt(j) # z
    BY Zenon, <1>2, <1>5, <1>10, AdvanceForm
  <2>2. \A j \in Keys : Moves(entry[j], entry[j])
    BY <1>2, MovesSelf
  <2>3. \A z \in Layers : Due(M, z) => Due(L, z)
    BY Zenon, <1>2, <1>9, <2>1, StillDue
  <2> QED
    BY ZenonT(60), <1>2, <1>10, <2>1, <2>2, <2>3, LeaveStep
<1>11. CASE /\ entry' = [entry EXCEPT ![k] = after]
            /\ Advance(l, [L EXCEPT !.permit[y] = Follow(p, after)], L.n)
  <2> DEFINE N == [L EXCEPT !.permit[y] = Follow(p, after)]
  <2>1. /\ N \in Lease /\ N.ep = L.ep /\ N.permit[y] = Follow(p, after)
        /\ N.pols = L.pols /\ N.matched = L.matched
        /\ \A z \in Layers \ {y} : N.permit[z] = L.permit[z]
    BY <1>2, <1>4, <1>7, LeasePermit
  <2> HIDE DEF N
  <2>2. PICK M \in Lease : /\ lease' = [lease EXCEPT ![l] = M]
                           /\ M.ep = N.ep /\ M.permit = N.permit /\ PcOK(M)
                           /\ \A z \in Layers : Due(M, z) =>
                                 \A j \in VisitsAfter(N, 0) : j <= L.n => LayerAt(j) # z
    BY ZenonT(60), <1>5, <1>11, <2>1, AdvanceForm DEF N
  <2>3. /\ M.ep = L.ep /\ M.permit[y] = Follow(p, after) /\ k = Key(L, y)
        /\ \A z \in Layers \ {y} : M.permit[z] = L.permit[z]
    BY <2>1, <2>2 DEF k
  <2>4. VisitsAfter(N, 0) = VisitsAfter(L, 0)
    BY <2>1, SameVisits
  <2>5. \A z \in Layers : Due(M, z) => z # y /\ Due(L, z)
    BY Zenon, <1>2, <1>9, <2>2, <2>4, StillDue
  <2>6. Inv([entry EXCEPT ![k] = after], [lease EXCEPT ![l] = M])
    BY ZenonT(60), <1>4, <1>5, <1>6, <2>2, <2>3, <2>5, FollowStep
  <2> QED
    BY <1>11, <2>2, <2>6
<1> QED
  BY <1>8, <1>10, <1>11

\* Release: the slot is returned if, and only if, it is still this lease's.
LEMMA ReleaseKeeps ==
    ASSUME Inv(entry, lease), NEW l \in Leases, NEW y \in Layers, Release(l, y)
    PROVE  Inv(entry', lease')
<1> DEFINE L == lease[l]
           k == Key(L, y)
           M == IF y = "endpoint" THEN IdleLease
                ELSE [L EXCEPT !.permit[y] = NoPermit, !.pc = "releaseEndpoint"]
<1>1. /\ entry \in [Keys -> Entry] /\ lease \in [Leases -> Lease] /\ L \in Lease
      /\ PcOK(L) /\ k \in Keys /\ entry[k] \in Entry
  BY InvTypes
<1>2. L.pc = (IF y = "service" THEN "releaseService" ELSE "releaseEndpoint")
      /\ (y = "service" \/ y = "endpoint")
  BY DEF Release, Layers
<1>3. lease' = [lease EXCEPT ![l] = M]
  BY <1>1 DEF Release
<1>4. entry' = [entry EXCEPT ![k] =
                  IF Returnable(L.permit[y], entry[k]) THEN Returned(entry[k]) ELSE entry[k]]
  BY <1>1 DEF Release, Key
<1>5. /\ M \in Lease /\ PcOK(M) /\ M.permit[y] = NoPermit /\ \A z \in Layers : ~Due(M, z)
      /\ \A z \in Layers \ {y} : \/ Keeps(L, M, z)
                                 \/ M.permit[z] = NoPermit /\ L.permit[z] = NoPermit
  <2>1. CASE y = "endpoint"
    <3>1. M = IdleLease
      BY <2>1
    <3>2. L.permit["service"] = NoPermit
      BY <1>1, <1>2, <2>1 DEF PcOK
    <3> HIDE DEF M
    <3> QED
      BY <2>1, <3>1, <3>2, IdleType, IdlePermits DEF Layers
  <2>2. CASE y = "service"
    <3> DEFINE c == "releaseEndpoint"
               N == [L EXCEPT !.permit[y] = NoPermit, !.pc = c]
    <3>1. NoPermit \in Permit /\ c \in Stages
      BY DEF NoPermit, Permit, Stages
    <3>2. /\ N \in Lease /\ N.ep = L.ep /\ N.pc = c /\ N.permit[y] = NoPermit
          /\ \A z \in Layers \ {y} : N.permit[z] = L.permit[z]
      <4> HIDE DEF c, L
      <4> QED
        BY Zenon, <1>1, <3>1 DEF Lease
    <3>3. M = N
      BY <2>2
    <3> HIDE DEF M, N
    <3> QED
      BY Zenon, <2>2, <3>2, <3>3 DEF PcOK, Due, Keeps
  <2> QED
    BY <1>2, <2>1, <2>2
<1> HIDE DEF M, k
<1>6. CASE Returnable(L.permit[y], entry[k])
  <2>1. Inv([entry EXCEPT ![k] = Returned(entry[k])], [lease EXCEPT ![l] = M])
    <3>1. k = Key(lease[l], y)
      BY DEF k
    <3>2. k \in Keys /\ Returnable(lease[l].permit[y], entry[k])
      BY <1>1, <1>6
    <3>3. M \in Lease /\ PcOK(M) /\ GivesUp(lease[l], M, y)
      BY <1>5 DEF GivesUp
    <3> HIDE DEF L
    <3> QED
      BY <3>1, <3>2, <3>3, ReturnStep
  <2> QED
    BY <1>3, <1>4, <1>6, <2>1
<1>7. CASE ~Returnable(L.permit[y], entry[k])
  <2>1. entry' = entry
    BY <1>1, <1>4, <1>7
  <2>2. \A z \in Layers : entry[Key(M, z)].attemptEpoch \in Nat
    BY <1>1, <1>5, LeaseFields, EntryFields
  <2>3. Drops(L, M, y, entry)
    BY <1>5, <1>7, <2>2, NoPermitDrops DEF k
  <2>4. \A z \in Layers \ {y} : Keeps(L, M, z) \/ Drops(L, M, z, entry)
    BY <1>5, <2>2, NoPermitDrops, NoPermitReturns
  <2>5. \A j \in Keys : Moves(entry[j], entry[j])
    BY <1>1, MovesSelf
  <2> QED
    BY ZenonT(60), <1>1, <1>3, <1>5, <2>1, <2>3, <2>4, <2>5, QuietLease
<1> QED
  BY <1>6, <1>7

\* The versions of policies are numbers.
LEMMA VersionsNat ==
    ASSUME NEW v \in Versions
    PROVE  v \in Nat
<1>1. PICK pols \in PolicyLists : v \in {pols[i].version : i \in DOMAIN pols}
  BY DEF Versions
<1>2. PICK i \in DOMAIN pols : v = pols[i].version
  BY <1>1
<1>3. pols \in Seq(Policy)
  BY PolicyAssumption
<1>4. pols[i] \in Policy
  BY <1>2, <1>3
<1> QED
  BY Zenon, <1>2, <1>4 DEF Policy

\* Refresh, Reset and VersionCheck: moves of one entry.
LEMMA OthersKeep ==
    ASSUME Inv(entry, lease), clock \in Nat, NEW k \in Keys,
           (\E now \in 0..clock : Refresh(k, now)) \/ Reset(k) \/ \E v \in Versions : VersionCheck(k, v)
    PROVE  Inv(entry', lease')
<1>1. entry \in [Keys -> Entry] /\ entry[k] \in Entry
  BY DEF Inv
<1>2. ASSUME NEW now \in 0..clock, Refresh(k, now)
      PROVE  Inv(entry', lease')
  <2>1. /\ entry' = [entry EXCEPT ![k] = computeState(entry[k], now)] /\ lease' = lease
        /\ now \in Nat
    BY <1>1, <1>2 DEF Refresh
  <2> QED
    BY Zenon, <1>1, <2>1, ComputeMoves, QuietEntry
<1>3. CASE Reset(k)
  <2>1. entry' = [entry EXCEPT ![k] = reset(entry[k])] /\ lease' = lease
    BY <1>1, <1>3 DEF Reset
  <2> QED
    BY Zenon, <1>1, <2>1, ResetMoves, QuietEntry
<1>4. ASSUME NEW v \in Versions, VersionCheck(k, v)
      PROVE  Inv(entry', lease')
  <2>1. v \in Nat
    BY VersionsNat
  <2>2. entry' = [entry EXCEPT ![k] = checkAndResetOnVersionChange(entry[k], v)] /\ lease' = lease
    BY <1>1, <1>4 DEF VersionCheck
  <2> QED
    BY Zenon, <1>1, <2>1, <2>2, VersionMoves, QuietEntry
<1> QED
  BY <1>2, <1>3, <1>4

(***************************************************************************)
(* What a half-open entry hears.                                           *)
(***************************************************************************)
\* A half-open entry has seen no failure: the first one opens it.
Clean(e) == e.state = "HalfOpen" => \A i \in DOMAIN e.results : e.results[i]

\* Dropping expired buckets leaves the count-window samples alone.
LEMMA ExpireResults ==
    ASSUME NEW e \in Entry, NEW now
    PROVE  expireBuckets(e, now).results = e.results
  BY DEF expireBuckets, Entry

\* computeState leaves no failure behind in a half-open entry, and what it
\* finds in one without failures it neither opens nor adds to.
LEMMA ComputeClean ==
    ASSUME NEW e \in Entry, NEW now \in Nat
    PROVE  LET f == computeState(e, now) IN
           /\ Clean(f)
           /\ e.state = "HalfOpen" /\ Clean(e) => f.state # "Open" /\ f.results = e.results
<1> DEFINE g == IF e.par.windowType = "time" THEN expireBuckets(e, now) ELSE e
           h == invalidateAttempts(g)
<1>1. g \in Entry /\ g.state = e.state /\ g.results = e.results
  BY ExpireMoves, ExpireResults DEF Moves
<1>2. computeState(e, now) = CASE g.state = "Closed" -> ClosedState(g, now)
                               [] g.state = "Open" -> OpenState(g, now)
                               [] g.state = "HalfOpen" -> HalfOpenState(g, now)
  BY DEF computeState
<1>3. h \in Entry /\ h.results = g.results
  BY <1>1, Invalidate DEF invalidateAttempts, Entry
<1> HIDE DEF g, h
<1>4. CASE g.state = "Closed"
  <2>1. computeState(e, now) = ClosedState(g, now)
    BY <1>2, <1>4
  <2>2. ClosedState(g, now).state # "HalfOpen"
    BY <1>1, <1>4 DEF ClosedState, Entry
  <2> QED
    BY <1>1, <1>4, <2>1, <2>2 DEF Clean
<1>5. CASE g.state = "Open"
  <2> DEFINE f == [h EXCEPT !.state = "HalfOpen", !.results = <<>>, !.buckets = <<>>]
  <2>1. computeState(e, now) \in {f, g}
    BY <1>2, <1>5 DEF OpenState, h
  <2>2. f.results = <<>>
    BY <1>3 DEF Entry
  <2> HIDE DEF f
  <2>3. Clean(f) /\ Clean(g)
    BY <1>5, <2>2 DEF Clean
  <2> QED
    BY <1>1, <1>5, <2>1, <2>3
<1>6. CASE g.state = "HalfOpen"
  <2> DEFINE f == [h EXCEPT !.state = "Open", !.openSince = now, !.results = <<>>, !.buckets = <<>>]
             c == [h EXCEPT !.state = "Closed"]
  <2>1. computeState(e, now) = HalfOpenState(g, now)
    BY <1>2, <1>6
  <2>2. f.state = "Open" /\ c.state = "Closed" /\ c.results = g.results
    BY <1>3 DEF Entry
  <2>3. HalfOpenState(g, now) = IF \E i \in DOMAIN g.results : ~g.results[i] THEN f
                                ELSE IF Len(g.results) >= OrDefault(g.par.hoSuccessThr, 1) THEN c
                                ELSE g
    BY DEF HalfOpenState, h
  <2> HIDE DEF f, c
  <2>4. CASE \E i \in DOMAIN g.results : ~g.results[i]
    <3>1. computeState(e, now) = f
      BY <2>1, <2>3, <2>4
    <3>2. ~Clean(e)
      BY <1>1, <1>6, <2>4 DEF Clean
    <3> QED
      BY <2>2, <3>1, <3>2 DEF Clean
  <2>5. CASE \A i \in DOMAIN g.results : g.results[i]
    <3>1. computeState(e, now) \in {c, g}
      BY <2>1, <2>3, <2>5
    <3>2. Clean(c) /\ Clean(g)
      BY <2>2, <2>5 DEF Clean
    <3> QED
      BY <1>1, <1>6, <2>2, <3>1, <3>2
  <2> QED
    BY <2>4, <2>5
<1> QED
  BY <1>1, <1>4, <1>5, <1>6, EntryFields DEF States

\* Handing out the slot, and returning it, is not heard.
LEMMA SlotSamples ==
    ASSUME NEW e \in Entry
    PROVE  /\ Admit(e).state = e.state /\ Admit(e).results = e.results
           /\ Returned(e).state = e.state /\ Returned(e).results = e.results
  BY DEF Admit, Returned, Entry

\* A version check starts the entry over or is not heard.
LEMMA VersionSamples ==
    ASSUME NEW e \in Entry, NEW v \in Nat
    PROVE  LET f == checkAndResetOnVersionChange(e, v) IN
           \/ f.state = "Closed" /\ f.results = <<>>
           \/ f.state = e.state /\ f.results = e.results
<1>1. CASE VersionChanged(e, v)
  BY <1>1, VersionReset
<1>2. CASE ~VersionChanged(e, v)
  BY <1>2 DEF checkAndResetOnVersionChange, Entry
<1> QED
  BY <1>1, <1>2

\* What any step but a recorded sample does to an entry.
Unheard(e, f) ==
    /\ Clean(e) => Clean(f)
    /\ e.state = "HalfOpen" /\ Clean(e) => f.state # "Open" /\ f.results \in {e.results, <<>>}

\* An entry keeps its samples or starts over, its state no worse.
LEMMA UnheardForms ==
    ASSUME NEW e, NEW f, \/ f.state = "Closed" /\ f.results = <<>>
                         \/ f.state = e.state /\ f.results = e.results
    PROVE  Unheard(e, f)
  BY DEF Unheard, Clean

\* A recorded sample leaves no failure behind in a half-open entry.
LEMMA RecordClean ==
    ASSUME NEW e \in Entry, NEW success \in BOOLEAN, NEW now \in Nat, NEW p \in Policy
    PROVE  Clean(recordLocked(e, success, now, p))
<1> DEFINE f == [e EXCEPT !.par = ParamsOf(p)]
           g == computeState(f, now)
           h == AddSample(g, success, now)
<1>1. f \in Entry
  BY ParamsType, UpdateParams
<1>2. g \in Entry
  BY <1>1, ComputeMoves DEF Moves
<1>3. h \in Entry
  BY <1>2, SampleMoves DEF Moves
<1>4. recordLocked(e, success, now, p) = computeState(h, now)
  BY DEF recordLocked
<1> HIDE DEF h
<1> QED
  BY <1>3, <1>4, ComputeClean

(***************************************************************************)
(* The theorems.                                                           *)
(***************************************************************************)
IndInv ==
    /\ Inv(entry, lease)
    /\ clock \in Nat /\ starts \in Nat /\ resets \in Nat

\* The invariant holds initially.
LEMMA InitInv == Init => IndInv
<1> SUFFICES ASSUME Init PROVE IndInv
  OBVIOUS
<1>1. NewEntry \in Entry
  <2>1. <<>> \in Seq(BOOLEAN) /\ <<>> \in Seq([at : Nat, ok : BOOLEAN])
    OBVIOUS
  <2> QED
    BY <2>1 DEF NewEntry, Entry, States, Params
<1>2. /\ NewEntry.permitToken = 0 /\ NewEntry.activeCalls = 0 /\ NewEntry.nextToken = 0
      /\ NewEntry.attemptEpoch = 0 /\ NewEntry.state = "Closed"
  BY DEF NewEntry
<1>3. /\ entry \in [Keys -> Entry] /\ \A k \in Keys : entry[k] = NewEntry
      /\ lease \in [Leases -> Lease] /\ \A l \in Leases : lease[l] = IdleLease
  BY <1>1, IdleType DEF Init
<1>4. \A k \in Keys : SlotOK(entry[k])
  BY <1>2, <1>3 DEF SlotOK
<1>5. \A l \in Leases : PcOK(lease[l])
  BY <1>3, IdlePermits
<1>6. \A l \in Leases, y \in Layers : PermitOK(lease[l], y, entry[Key(lease[l], y)])
  <2> TAKE l \in Leases, y \in Layers
  <2>1. Key(lease[l], y) \in Keys
    BY <1>3, IdleType, LeaseFields
  <2> QED
    BY <2>1, <1>2, <1>3, IdlePermits, NoPermitOK
<1>7. UniqueTokens(lease)
  BY <1>3, IdlePermits DEF UniqueTokens, NoPermit
<1>8. Held(entry, lease)
  BY <1>2, <1>3 DEF Held
<1>9. clock \in Nat /\ starts \in Nat /\ resets \in Nat
  BY DEF Init
<1> QED
  BY <1>3, <1>4, <1>5, <1>6, <1>7, <1>8, <1>9 DEF IndInv, Inv

\* Every step keeps the invariant.
LEMMA NextInv == IndInv /\ [Next]_vars => IndInv'
<1> SUFFICES ASSUME IndInv, [Next]_vars PROVE IndInv'
  OBVIOUS
<1>1. Inv(entry, lease) /\ clock \in Nat /\ starts \in Nat /\ resets \in Nat
  BY DEF IndInv
<1>2. clock' \in Nat /\ starts' \in Nat /\ resets' \in Nat
  <2>1. ASSUME NEW l \in Leases, LeaseStep(l) PROVE UNCHANGED <<clock, starts, resets>>
    BY Zenon, <2>1 DEF LeaseStep, Acquire, Release, Cancel, Outcome, Record, RecordAfterReset
  <2>2. ASSUME NEW l \in Leases, NEW ep \in Endpoints, NEW pols \in PolicyLists, Start(l, ep, pols)
        PROVE  UNCHANGED <<clock, resets>> /\ starts' = starts + 1
    BY <2>2 DEF Start
  <2>3. ASSUME NEW k \in Keys, \/ \E now \in 0..clock : Refresh(k, now)
                              \/ Reset(k) \/ \E v \in Versions : VersionCheck(k, v)
        PROVE  UNCHANGED <<clock, starts>> /\ (resets' = resets \/ resets' = resets + 1)
    BY <2>3 DEF Refresh, Reset, VersionCheck
  <2>4. CASE Tick \/ UNCHANGED vars
    BY <1>1, <2>4 DEF Tick, vars
  <2> QED
    BY <1>1, <2>1, <2>2, <2>3, <2>4 DEF Next
<1>3. Inv(entry', lease')
  <2>1. ASSUME NEW l \in Leases, LeaseStep(l) PROVE Inv(entry', lease')
    BY <1>1, <2>1, AcquireKeeps, ReleaseKeeps, CancelKeeps, OutcomeKeeps, RecordKeeps,
       RecordAfterResetKeeps DEF LeaseStep
  <2>2. ASSUME NEW l \in Leases, NEW ep \in Endpoints, NEW pols \in PolicyLists, Start(l, ep, pols)
        PROVE  Inv(entry', lease')
    BY <1>1, <2>2, StartKeeps
  <2>3. ASSUME NEW k \in Keys, \/ \E now \in 0..clock : Refresh(k, now)
                              \/ Reset(k) \/ \E v \in Versions : VersionCheck(k, v)
        PROVE  Inv(entry', lease')
    BY <1>1, <2>3, OthersKeep
  <2>4. CASE Tick \/ UNCHANGED vars
    BY <1>1, <2>4 DEF Tick, vars
  <2> QED
    BY <2>1, <2>2, <2>3, <2>4 DEF Next
<1> QED
  BY <1>2, <1>3 DEF IndInv

\* Lease l may be heard by the half-open entry of key k.
MayBeHeard(l, k) ==
    Recording(l, k) /\ (Holds(l, k) \/ VisitedBefore(lease[l], LayerAt(lease[l].n)))

\* A step is not heard by the entry of key k, or it is a lease's sample.
Hears(k) ==
    \/ Unheard(entry[k], entry'[k])
    \/ /\ Clean(entry'[k])
       /\ entry[k].state = "HalfOpen" => \E l \in Leases : MayBeHeard(l, k)

\* When one entry changes in a way that is not heard, nothing is heard.
LEMMA OneUnheard ==
    ASSUME entry \in [Keys -> Entry], NEW k \in Keys, NEW f, Unheard(entry[k], f),
           entry' = [entry EXCEPT ![k] = f]
    PROVE  \A j \in Keys : Hears(j)
<1> TAKE j \in Keys
<1>1. CASE j = k
  BY <1>1 DEF Hears
<1>2. CASE j # k
  <2>1. entry'[j] = entry[j]
    BY <1>2
  <2> QED
    BY Zenon, <2>1, UnheardForms DEF Hears
<1> QED
  BY <1>1, <1>2

\* When no entry changes, nothing is heard.
LEMMA NoneUnheard ==
    ASSUME entry' = entry
    PROVE  \A j \in Keys : Hears(j)
<1> TAKE j \in Keys
<1>1. entry'[j] = entry[j]
  OBVIOUS
<1> QED
  BY Zenon, <1>1, UnheardForms DEF Hears

\* Acquire and Release are not heard.
LEMMA SlotHears ==
    ASSUME Inv(entry, lease), clock \in Nat, NEW l \in Leases, NEW y \in Layers,
           Acquire(l, y) \/ Release(l, y)
    PROVE  \A j \in Keys : Hears(j)
<1> DEFINE k == Key(lease[l], y)
           e == entry[k]
           f == computeState(e, clock)
<1>1. entry \in [Keys -> Entry] /\ k \in Keys /\ e \in Entry
  BY InvTypes
<1>2. f \in Entry
  BY <1>1, ComputeMoves DEF Moves
<1>3. entry' = [entry EXCEPT ![k] = f] \/ entry' = [entry EXCEPT ![k] = Admit(f)]
      \/ entry' = [entry EXCEPT ![k] = Returned(e)] \/ entry' = entry
  BY <1>1 DEF Acquire, Release, Key
<1>4. Clean(f) /\ (e.state = "HalfOpen" /\ Clean(e) => f.state # "Open" /\ f.results = e.results)
  BY <1>1, ComputeClean
<1> HIDE DEF k, e, f
<1>5. Admit(f).state = f.state /\ Admit(f).results = f.results
      /\ Returned(e).state = e.state /\ Returned(e).results = e.results
  BY <1>1, <1>2, SlotSamples
<1>6. Unheard(e, f)
  BY <1>4 DEF Unheard
<1>7. Unheard(e, Admit(f))
  BY <1>4, <1>5 DEF Unheard, Clean
<1>8. Unheard(e, Returned(e))
  BY <1>5, UnheardForms
<1> QED
  BY Zenon, <1>1, <1>3, <1>6, <1>7, <1>8, OneUnheard, NoneUnheard DEF e

\* Refresh, Reset and VersionCheck are not heard.
LEMMA OthersHear ==
    ASSUME Inv(entry, lease), clock \in Nat, NEW k \in Keys,
           (\E now \in 0..clock : Refresh(k, now)) \/ Reset(k) \/ \E v \in Versions : VersionCheck(k, v)
    PROVE  \A j \in Keys : Hears(j)
<1>1. entry \in [Keys -> Entry] /\ entry[k] \in Entry
  BY DEF Inv
<1>2. ASSUME NEW now \in 0..clock, Refresh(k, now)
      PROVE  \A j \in Keys : Hears(j)
  <2> DEFINE f == computeState(entry[k], now)
  <2>1. entry' = [entry EXCEPT ![k] = f] /\ now \in Nat
    BY <1>1, <1>2 DEF Refresh
  <2>2. Unheard(entry[k], f)
    BY <1>1, <2>1, ComputeClean DEF Unheard
  <2> HIDE DEF f
  <2> QED
    BY <1>1, <2>1, <2>2, OneUnheard
<1>3. CASE Reset(k)
  <2>1. entry' = [entry EXCEPT ![k] = reset(entry[k])]
    BY <1>1, <1>3 DEF Reset
  <2>2. Unheard(entry[k], reset(entry[k]))
    BY Zenon, <1>1, ResetFields, UnheardForms
  <2> QED
    BY <1>1, <2>1, <2>2, OneUnheard
<1>4. ASSUME NEW v \in Versions, VersionCheck(k, v)
      PROVE  \A j \in Keys : Hears(j)
  <2> DEFINE f == checkAndResetOnVersionChange(entry[k], v)
  <2>1. v \in Nat
    BY VersionsNat
  <2>2. entry' = [entry EXCEPT ![k] = f]
    BY <1>1, <1>4 DEF VersionCheck
  <2>3. Unheard(entry[k], f)
    BY Zenon, <1>1, <2>1, VersionSamples, UnheardForms
  <2> HIDE DEF f
  <2> QED
    BY <1>1, <2>2, <2>3, OneUnheard
<1> QED
  BY <1>2, <1>3, <1>4

\* Record and RecordAfterReset: a sample is heard by a half-open entry only from
\* a lease whose permit there is still good, or that has been there before.
LEMMA RecordHears ==
    ASSUME Inv(entry, lease), NEW l \in Leases, Record(l) \/ RecordAfterReset(l)
    PROVE  \A j \in Keys : Hears(j)
<1> DEFINE L == lease[l]
           y == LayerAt(L.n)
           k == Key(L, y)
           v == PolicyAt(L, L.n).version
           checked == checkAndResetOnVersionChange(entry[k], v)
           after(e) == Recorded(L, e)
<1>1. L.pc \in {"record", "recordAfterReset"}
  BY Zenon DEF Record, RecordAfterReset
<1>2. L \in Lease /\ PcOK(L) /\ entry \in [Keys -> Entry]
  BY DEF Inv
<1>3. L.n \in 1..(2 * Len(L.pols))
  BY <1>1, <1>2, VisitRange DEF PcOK
<1>4. PolicyAt(L, L.n) \in Policy /\ v \in Nat /\ y \in Layers
  BY <1>2, <1>3, PolicyVisit
<1>5. k \in Keys /\ entry[k] \in Entry /\ L.ok \in BOOLEAN /\ L.now \in Nat
  BY <1>2, <1>4, LeaseFields
<1>6. checked \in Entry
  BY <1>4, <1>5, VersionMoves DEF Moves
<1>7. Clean(after(checked)) /\ Clean(after(entry[k]))
  BY Zenon, <1>4, <1>5, <1>6, RecordClean DEF Recorded
<1>8. PermitOK(L, y, entry[k])
  BY Zenon, <1>4 DEF Inv
<1>9. \/ entry' = entry
      \/ entry' = [entry EXCEPT ![k] = checked]
      \/ /\ Matches(L.permit[y], entry[k])
         /\ entry' = [entry EXCEPT ![k] = after(checked)] \/ entry' = [entry EXCEPT ![k] = after(entry[k])]
  BY Zenon DEF Record, RecordAfterReset, Key
<1>10. CASE entry' = entry
  BY <1>10, NoneUnheard
<1>11. CASE entry' = [entry EXCEPT ![k] = checked]
  <2>1. Unheard(entry[k], checked)
    BY Zenon, <1>4, <1>5, VersionSamples, UnheardForms
  <2> HIDE DEF checked, k
  <2> QED
    BY <1>2, <1>5, <1>11, <2>1, OneUnheard
<1>12. ASSUME NEW f, Clean(f), Matches(L.permit[y], entry[k]), entry' = [entry EXCEPT ![k] = f]
       PROVE  \A j \in Keys : Hears(j)
  <2> TAKE j \in Keys
  <2>1. Recording(l, k)
    BY Zenon, <1>1 DEF Recording, Key
  <2>2. L.permit[y].epoch = entry[k].attemptEpoch
    BY <1>12 DEF Matches
  <2>3. ASSUME entry[k].state = "HalfOpen" PROVE MayBeHeard(l, k)
    <3>1. CASE VisitedBefore(L, y)
      BY Zenon, <2>1, <3>1 DEF MayBeHeard
    <3>2. CASE ~VisitedBefore(L, y)
      <4>1. Due(L, y)
        BY Zenon, <1>1, <3>2 DEF Due
      <4>2. Returnable(L.permit[y], entry[k])
        BY Zenon, <1>8, <2>2, <2>3, <4>1 DEF PermitOK
      <4>3. Holds(l, k)
        BY Zenon, <1>4, <4>2 DEF Holds, Key
      <4> QED
        BY <2>1, <4>3 DEF MayBeHeard
    <3> QED
      BY <3>1, <3>2
  <2> HIDE DEF k, y, L
  <2>4. CASE j = k
    <3>1. entry'[k] = f
      BY <1>2, <1>5, <1>12
    <3> QED
      BY Zenon, <1>12, <2>3, <2>4, <3>1 DEF Hears
  <2>5. CASE j # k
    <3>1. entry'[j] = entry[j]
      BY <1>2, <1>12, <2>5
    <3> QED
      BY Zenon, <3>1, UnheardForms DEF Hears
  <2> QED
    BY <2>4, <2>5
<1> HIDE DEF k, checked, after, y, L
<1> QED
  BY Zenon, <1>7, <1>9, <1>10, <1>11, <1>12

\* Every step is unheard by every entry, or a sample it may hear.
LEMMA NextHears ==
    ASSUME IndInv, [Next]_vars
    PROVE  \A j \in Keys : Hears(j)
<1>1. Inv(entry, lease) /\ clock \in Nat
  BY DEF IndInv
<1>2. ASSUME NEW l \in Leases, LeaseStep(l) PROVE \A j \in Keys : Hears(j)
  <2>1. CASE \E y \in Layers : Acquire(l, y) \/ Release(l, y)
    BY Zenon, <1>1, <2>1, SlotHears
  <2>2. CASE Cancel(l) \/ \E ok \in BOOLEAN, matched \in SUBSET DOMAIN lease[l].pols : Outcome(l, ok, matched)
    <3>1. entry' = entry
      BY Zenon, <2>2 DEF Cancel, Outcome
    <3> QED
      BY <3>1, NoneUnheard
  <2>3. CASE Record(l) \/ RecordAfterReset(l)
    BY Zenon, <1>1, <2>3, RecordHears
  <2> QED
    BY Zenon, <1>2, <2>1, <2>2, <2>3 DEF LeaseStep
<1>3. ASSUME NEW k \in Keys, \/ \E now \in 0..clock : Refresh(k, now)
                            \/ Reset(k) \/ \E v \in Versions : VersionCheck(k, v)
      PROVE  \A j \in Keys : Hears(j)
  BY <1>1, <1>3, OthersHear
<1>4. CASE Tick \/ UNCHANGED vars \/ \E l \in Leases, ep \in Endpoints, pols \in PolicyLists : Start(l, ep, pols)
  <2>1. entry' = entry
    BY Zenon, <1>4 DEF Tick, Start, vars
  <2> QED
    BY <2>1, NoneUnheard
<1> QED
  BY Zenon, <1>2, <1>3, <1>4 DEF Next

\* The inductive invariant holds in every reachable state.
THEOREM Invariance == Spec => []IndInv
  BY InitInv, NextInv, PTL DEF Spec

\* Every variable of the breaker keeps its type; above all activeCalls never
\* goes below zero, whatever the order of releases and resets.
THEOREM TypeCorrect == Spec => []TypeOK
<1>1. IndInv => TypeOK
  BY DEF IndInv, Inv, TypeOK
<1> QED
  BY <1>1, Invariance, PTL

\* releasePermits and invalidateAttempts never lose the probe slot: an entry
\* that counts a call in flight has a lease that will return that very permit.
THEOREM NoLeak == Spec => []NoPermitLeak
<1>1. IndInv => NoPermitLeak
  <2> SUFFICES ASSUME IndInv, NEW k \in Keys
               PROVE  /\ entry[k].activeCalls = (IF entry[k].permitToken = 0 THEN 0 ELSE 1)
                      /\ entry[k].permitToken # 0 =>
                            entry[k].state = "HalfOpen" /\ \E l \in Leases : Holds(l, k)
    BY DEF NoPermitLeak
  <2>1. SlotOK(entry[k]) /\ Held(entry, lease)
    BY DEF IndInv, Inv
  <2> QED
    BY <2>1 DEF SlotOK, Held, Holds, Key
<1> QED
  BY <1>1, Invariance, PTL

\* AcquireAttempt lets at most one attempt of the current epoch through a
\* half-open breaker, however many requests race for it.
THEOREM SingleProbe == Spec => []OneProbe
<1>1. IndInv => OneProbe
  <2> SUFFICES ASSUME IndInv, NEW k \in Keys, entry[k].state = "HalfOpen",
                      NEW l1 \in Leases, NEW l2 \in Leases,
                      \A l \in {l1, l2} : \E y \in Layers :
                         /\ KeyOf(lease[l].ep, y) = k /\ Admitted(l, y)
                         /\ lease[l].permit[y].epoch = entry[k].attemptEpoch
               PROVE  l1 = l2
    BY DEF OneProbe
  <2>1. /\ lease \in [Leases -> Lease] /\ UniqueTokens(lease)
        /\ \A l \in Leases, y \in Layers : PermitOK(lease[l], y, entry[Key(lease[l], y)])
    BY DEF IndInv, Inv
  <2>2. PICK y1 \in Layers : /\ Key(lease[l1], y1) = k /\ Due(lease[l1], y1)
                             /\ lease[l1].permit[y1].epoch = entry[k].attemptEpoch
    BY DEF Key, Admitted, Due
  <2>3. PICK y2 \in Layers : /\ Key(lease[l2], y2) = k /\ Due(lease[l2], y2)
                             /\ lease[l2].permit[y2].epoch = entry[k].attemptEpoch
    BY DEF Key, Admitted, Due
  <2>4. y1 = y2
    BY SMTT(30), <2>1, <2>2, <2>3, SameLayer
  <2>5. Returnable(lease[l1].permit[y1], entry[k]) /\ Returnable(lease[l2].permit[y2], entry[k])
    BY <2>1, <2>2, <2>3 DEF PermitOK
  <2> QED
    BY <2>1, <2>2, <2>3, <2>4, <2>5, UniqueAt
<1> QED
  BY <1>1, Invariance, PTL

\* No failure stays behind in a half-open breaker.
AllClean == \A k \in Keys : Clean(entry[k])

\* computeState turns every failure a half-open breaker has heard into Open
\* under the same lock: no other actor ever sees it half-open with a failure.
THEOREM CleanHalfOpen == Spec => []AllClean
<1>1. Init => AllClean
  BY DEF Init, AllClean, NewEntry, Clean
<1>2. IndInv /\ AllClean /\ [Next]_vars => AllClean'
  BY Zenon, NextHears DEF AllClean, Hears, Unheard
<1> QED
  BY <1>1, <1>2, Invariance, PTL DEF Spec

\* recordOutcome's epoch test: a half-open breaker takes a sample from the lease
\* that holds its slot, or from one whose earlier policy recorded there before.
THEOREM ProbeSamples == Spec => ProbeSamplesOnly
<1> DEFINE A == \A k \in Keys :
                  /\ entry[k].state = "HalfOpen"
                  /\ entry'[k].state = "Open" \/ entry'[k].results \notin {entry[k].results, <<>>}
                  => \E l \in Leases :
                        /\ Recording(l, k)
                        /\ Holds(l, k) \/ VisitedBefore(lease[l], LayerAt(lease[l].n))
<1>1. IndInv /\ AllClean /\ [Next]_vars => [A]_vars
  <2> SUFFICES ASSUME IndInv, AllClean, [Next]_vars, NEW k \in Keys, entry[k].state = "HalfOpen",
                      entry'[k].state = "Open" \/ entry'[k].results \notin {entry[k].results, <<>>}
               PROVE  \E l \in Leases :
                         /\ Recording(l, k)
                         /\ Holds(l, k) \/ VisitedBefore(lease[l], LayerAt(lease[l].n))
    BY Zenon
  <2>1. ~Unheard(entry[k], entry'[k])
    BY Zenon DEF Unheard, AllClean
  <2> QED
    BY Zenon, <2>1, NextHears DEF Hears, MayBeHeard
<1> HIDE DEF A
<1>2. Spec => [][A]_vars
  BY <1>1, Invariance, CleanHalfOpen, PTL DEF Spec
<1> QED
  BY <1>2 DEF ProbeSamplesOnly, A
=============================================================================
