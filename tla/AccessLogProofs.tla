-------------------------- MODULE AccessLogProofs --------------------------
(***************************************************************************)
(* Proofs about AccessLog, for any number of processes, records, retries   *)
(* and faults:                                                             *)
(*   PendingHeld    every pending entry is in the hands of a worker as     *)
(*                  long as nothing has failed and nobody was shut down;   *)
(*   Refinement     the pipeline implements Delivery: no accepted record   *)
(*                  disappears without a fault.                            *)
(* Both rest on the inductive invariant Inv of AccessLogStepProofs; this   *)
(* module shows that it survives the other steps of the workers, and       *)
(* concludes.                                                              *)
(***************************************************************************)
EXTENDS AccessLogStepProofs

-----------------------------------------------------------------------------
(* The workers: failures, reading and acknowledging.                       *)

\* There is always a stamp to take.
LEMMA FreshStampType == FreshStamp \in Stamps
<1> DEFINE used == {m.stamp : m \in delayed}
                   \cup UNION {{m.stamp : m \in Range(worker[w].due)} : w \in Workers}
<1>1. 1 \in Stamps
  <2>1. IsFiniteSet(Items)  BY QueueAssumption, FS_Union, Zenon DEF Items
  <2>2. Cardinality(Items) \in Nat /\ Cardinality(Workers) \in Nat
    BY <2>1, QueueAssumption, FS_CardinalityType
  <2>3. \A a \in Nat : \A b \in Nat : \A c \in Nat : a * b * c \in Nat  OBVIOUS
  <2>4. Cardinality(Items) * Cardinality(Workers) * MaxRetries \in Nat  BY <2>2, <2>3, QueueAssumption
  <2>5. \A n \in Nat : 1 \in 1..(1 + n)  OBVIOUS
  <2> QED  BY <2>4, <2>5, Zenon DEF Stamps
<1>2. \E s \in Stamps : s \in used => Stamps \subseteq used
  <2> HIDE DEF used
  <2>1. CASE Stamps \subseteq used  BY <1>1, <2>1, Zenon
  <2>2. CASE ~(Stamps \subseteq used)
    <3>1. PICK s \in Stamps : s \notin used  BY <2>2
    <3> QED  BY <3>1, Zenon
  <2> QED  BY <2>1, <2>2
<1>3. FreshStamp = CHOOSE s \in Stamps : s \in used => Stamps \subseteq used  BY Zenon DEF FreshStamp
<1> HIDE DEF used
<1> QED  BY <1>2, <1>3, Zenon

\* The next attempt is scheduled before the entry is acknowledged.
LEMMA HandleFailureStep ==
  ASSUME Inv, NEW w \in Workers, HandleFailure(w), UNCHANGED <<logVars, load>>
  PROVE  Inv'
<1>1. /\ Types /\ WorkerShape /\ stops' = stops /\ accepted' = accepted /\ load' = load
      /\ dlq \in Seq(CompensationTask) /\ delayed \subseteq Member /\ IsFiniteSet(delayed)
      /\ DeadLettered \subseteq accepted
  BY DEF Inv, Types, QueueTypes, logVars
<1>2. /\ UNCHANGED <<stream, pending, cancelled, outages, written>>
      /\ worker[w].pc = "failed" /\ Goto(w, "ack")
  BY DEF HandleFailure
<1>3. PICK h : h = Head(worker[w].batch)  OBVIOUS
<1>4. h \in Known /\ h \in Entry /\ h.task \in CompensationTask /\ h.attempt \in Nat
      /\ h.task.payload \subseteq accepted
  BY <1>1, <1>2, <1>3, HeadBatch, KnownFields
<1> DEFINE n == h.attempt + 1
           e == [h EXCEPT !.attempt = n]
<1>5. PICK o \in Outcomes(w) :
         /\ Charge(w, o)
         /\ IF n >= MaxRetries
            THEN /\ dlq' = IF Executed(o) THEN Append(dlq, e.task) ELSE dlq
                 /\ UNCHANGED delayed
            ELSE /\ delayed' = IF Executed(o)
                       THEN delayed \cup {[entry |-> e, left |-> n * n, stamp |-> FreshStamp]}
                       ELSE delayed
                 /\ UNCHANGED dlq
  BY <1>3, Zenon DEF HandleFailure
<1>6. n \in Nat /\ e.task = h.task /\ e.attempt = n /\ (n < MaxRetries => e \in Known)
  <2>1. n \in Nat  BY <1>4
  <2>2. h = [task |-> h.task, attempt |-> h.attempt]  BY <1>4 DEF Entry
  <2>3. e = [task |-> h.task, attempt |-> n]  BY <1>4 DEF Entry
  <2>4. n < MaxRetries => n \in 0..MaxRetries  BY <2>1, QueueAssumption
  <2>5. n < MaxRetries => e \in Entry  BY <1>4, <2>3, <2>4 DEF Entry
  <2>6. e.task = h.task /\ e.attempt = n  BY <2>3
  <2> HIDE DEF e, n
  <2> QED  BY <1>4, <2>1, <2>5, <2>6 DEF Known
<1>7. /\ faults' \in Nat /\ faults' <= faults
      /\ ~Broken' /\ w \notin cancelled => o = "ok"
  BY <1>1, <1>5, Charged
<1>8. /\ Moved(w, "ack", worker[w].due, worker[w].batch)
      /\ worker[w].due \in Seq(Member) /\ worker[w].batch \in Seq(Known)
  BY <1>1, <1>2, GotoMoved, Zenon
<1>9. worker[w].batch # <<>> /\ Len(worker[w].batch) <= ReadCount  BY <1>1, <1>2 DEF WorkerShape
<1>10. worker'[w].batch = worker[w].batch  BY <1>1, <1>8 DEF Types, QueueTypes, Moved
<1>11. "ack" \in PC  BY DEF PC
<1>12. Known' = Known /\ Member' = Member  BY <1>1, StoreSame
<1>a. SUFFICES /\ dlq' \in Seq(CompensationTask) /\ DeadLettered \subseteq DeadLettered'
               /\ DeadLettered' \subseteq accepted
               /\ delayed' \subseteq Member /\ IsFiniteSet(delayed') /\ delayed \subseteq delayed'
               /\ o = "ok" => \A i \in h.task.payload : i \in Done' \/ Safe(i, n, n)'
  <2>1. StoreTypes'  BY <1>1, <1>2, <1>12, <1>a, StoreSame DEF StoreTypes
  <2>2. Keeps
    <3>1. Done \subseteq Done'  BY <1>2, <1>a DEF Done
    <3>2. Ahead' = Ahead  BY <1>2, Zenon DEF Ahead
    <3>3. Delayed \subseteq Delayed'  BY <1>a, Zenon DEF Delayed
    <3> QED  BY <3>1, <3>2, <3>3, SafeGrows
  <2>3. ASSUME ~Broken', w \notin cancelled PROVE AckSafe(w)'
    <3>1. Head(worker'[w].batch) = h  BY <1>3, <1>10, Zenon
    <3>2. \A i \in h.task.payload : Safe(i, h.attempt + 1, h.attempt + 1)'
      BY <1>7, <1>a, <2>3, Zenon DEF Safe
    <3> QED  BY <3>1, <3>2, Zenon DEF AckSafe
  <2> QED  BY <1>2, <1>7, <1>8, <1>9, <1>11, <2>1, <2>2, <2>3, WorkerSide, Zenon
<1> HIDE DEF e, n
<1>13. CASE n >= MaxRetries
  <2>1. delayed' = delayed /\ dlq' = IF Executed(o) THEN Append(dlq, h.task) ELSE dlq
    BY <1>5, <1>6, <1>13
  <2>2. CASE ~Executed(o)
    <3>1. DeadLettered' = DeadLettered  BY <2>1, <2>2, Zenon DEF DeadLettered
    <3> QED  BY <1>1, <2>1, <2>2, <3>1 DEF Executed
  <2>3. CASE Executed(o)
    <3>1. dlq' = Append(dlq, h.task)  BY <2>1, <2>3, Zenon
    <3>2. Range(dlq') = Range(dlq) \cup {h.task}  BY <1>1, <1>4, <3>1, RangeAppend
    <3>3. DeadLettered' = DeadLettered \cup h.task.payload  BY <3>2 DEF DeadLettered
    <3>4. dlq' \in Seq(CompensationTask)  BY <1>1, <1>4, <3>1
    <3>5. h.task.payload \subseteq Done'  BY <3>3 DEF Done
    <3> QED  BY <1>1, <1>4, <2>1, <3>3, <3>4, <3>5
  <2> QED  BY <2>2, <2>3
<1>14. CASE ~(n >= MaxRetries)
  <2>0. n < MaxRetries  BY <1>6, <1>14, QueueAssumption
  <2>1. dlq' = dlq /\ delayed' = IF Executed(o)
                       THEN delayed \cup {[entry |-> e, left |-> n * n, stamp |-> FreshStamp]}
                       ELSE delayed
    BY <1>5, <1>14, Zenon
  <2>2. DeadLettered' = DeadLettered  BY <2>1, Zenon DEF DeadLettered
  <2>3. CASE ~Executed(o)  BY <1>1, <2>1, <2>2, <2>3 DEF Executed
  <2>4. CASE Executed(o)
    <3>1. PICK m : m = [entry |-> e, left |-> n * n, stamp |-> FreshStamp]  BY Zenon
    <3>2. delayed' = delayed \cup {m}  BY <2>1, <2>4, <3>1
    <3>3. n * n \in Nat  BY <1>6
    <3>4. m \in Member /\ m.entry = e  BY <1>6, <2>0, <3>1, <3>3, FreshStampType DEF Member
    <3>5. IsFiniteSet(delayed')  BY <1>1, <3>2, FS_AddElement
    <3>6. e \in Delayed'  BY <3>2, <3>4 DEF Delayed
    <3>7. e.attempt >= n  BY <1>6
    <3>8. \A i \in h.task.payload : Safe(i, n, n)'  BY <1>6, <3>6, <3>7, Zenon DEF Safe
    <3> QED  BY <1>1, <2>1, <2>2, <3>2, <3>4, <3>5, <3>8
  <2> QED  BY <2>3, <2>4
<1> QED  BY <1>13, <1>14

\* Seconds only count down.
LEMMA SecondStep ==
  ASSUME Inv, Second, UNCHANGED <<logVars, load>>
  PROVE  Inv'
<1>1. /\ Types /\ WorkerShape /\ LoopShape /\ Accounts /\ Held /\ faults \in Nat
      /\ delayed \subseteq Member /\ IsFiniteSet(delayed) /\ worker \in [Workers -> WorkerState]
  BY DEF Inv, Types, QueueTypes
<1>2. UNCHANGED <<stream, pending, dlq, worker, cancelled, faults, outages, written>>  BY DEF Second
<1> DEFINE down(m) == [m EXCEPT !.left = IF m.left > 0 THEN m.left - 1 ELSE 0]
<1>3. delayed' = {down(m) : m \in delayed}  BY Zenon DEF Second
<1>4. \A m \in Member : down(m) \in Member /\ down(m).entry = m.entry
  <2> SUFFICES ASSUME NEW m \in Member PROVE down(m) \in Member /\ down(m).entry = m.entry  BY Zenon
  <2>1. PICK k : k = IF m.left > 0 THEN m.left - 1 ELSE 0  BY Zenon
  <2>2. k \in Nat  BY <2>1 DEF Member
  <2>3. [m EXCEPT !.left = k] \in Member /\ [m EXCEPT !.left = k].entry = m.entry  BY <2>2 DEF Member
  <2> QED  BY <2>1, <2>3, Zenon
<1>5. IsFiniteSet(delayed')
  <2> DEFINE f == [m \in delayed |-> down(m)]
  <2>1. f \in Surjection(delayed, delayed')
    <3>1. f \in [delayed -> delayed']  BY <1>3, Zenon
    <3>2. \A t \in delayed' : \E m \in delayed : f[m] = t  BY <1>3, Zenon
    <3> HIDE DEF f
    <3> QED  BY <3>1, <3>2, Zenon DEF Surjection
  <2> HIDE DEF f, down
  <2> QED  BY <1>1, <2>1, FS_Surjection, Zenon
<1> HIDE DEF down
<1>6. Delayed' = Delayed
  <2>1. \A m \in delayed : down(m).entry = m.entry  BY <1>1, <1>4, Zenon
  <2>2. Delayed' \subseteq Delayed
    <3> SUFFICES ASSUME NEW e \in Delayed' PROVE e \in Delayed  BY Zenon
    <3>1. PICK t \in delayed' : e = t.entry  BY Zenon DEF Delayed
    <3>2. PICK m \in delayed : t = down(m)  BY <1>3, <3>1, Zenon
    <3> QED  BY <2>1, <3>1, <3>2, Zenon DEF Delayed
  <2>3. Delayed \subseteq Delayed'
    <3> SUFFICES ASSUME NEW e \in Delayed PROVE e \in Delayed'  BY Zenon
    <3>1. PICK m \in delayed : e = m.entry  BY Zenon DEF Delayed
    <3>2. down(m) \in delayed'  BY <1>3, <3>1, Zenon
    <3> QED  BY <2>1, <3>1, <3>2, Zenon DEF Delayed
  <2> QED  BY <2>2, <2>3, Zenon
<1>7. StoreTypes' /\ DeadLettered' = DeadLettered
  <2>1. delayed' \subseteq Member  BY <1>1, <1>3, <1>4, Zenon
  <2> QED  BY <1>1, <1>2, <1>5, <2>1, StoreSame DEF StoreTypes
<1>8. Keeps
  <2>1. Done' = Done /\ Ahead' = Ahead  BY <1>2, <1>7, Zenon DEF Done, Ahead
  <2> QED  BY <1>6, <2>1, SafeGrows
<1>9. WorkerShape'  BY <1>1, <1>2, Zenon DEF WorkerShape
<1>10. Held'
  <2>1. Clean' = Clean  BY <1>2, Zenon DEF Clean
  <2> QED  BY <1>1, <1>2, <2>1, HeldSame
<1>11. faults' \in Nat /\ faults' <= faults /\ worker' \in [Workers -> WorkerState]  BY <1>1, <1>2
<1>12. /\ \A v \in Workers : worker'[v].pc = "remove" =>
            worker[v].pc = "remove" /\ worker'[v].due = worker[v].due
       /\ \A v \in Workers \ cancelled : worker'[v].pc = "ack" =>
            worker[v].pc = "ack" /\ worker'[v].batch = worker[v].batch
  BY <1>2, Zenon
<1>13. cancelled' = cancelled  BY <1>2
<1> QED  BY <1>7, <1>8, <1>9, <1>10, <1>11, <1>12, <1>13, QueueSide, Zenon

\* Where the workers of W hold e, and where a batch does.
HeldIn(W, e) ==
    {h \in Workers \X (1..ReadCount) : h[2] \in DOMAIN W[h[1]].batch /\ W[h[1]].batch[h[2]] = e}

Elsewhere(W, w, e) == {h \in HeldIn(W, e) : h[1] # w}

Places(s, e) == {k \in DOMAIN s : s[k] = e}

\* The places of an entry are those in one batch and those elsewhere.
LEMMA HeldInSplit ==
  ASSUME NEW S, NEW w \in Workers, NEW W, NEW e,
         W[w].batch \in Seq(S), Len(W[w].batch) <= ReadCount
  PROVE  /\ Cardinality(Elsewhere(W, w, e)) \in Nat
         /\ Cardinality(Places(W[w].batch, e)) \in Nat
         /\ Cardinality(HeldIn(W, e)) = Cardinality(Elsewhere(W, w, e)) + Cardinality(Places(W[w].batch, e))
<1> DEFINE others == Elsewhere(W, w, e)
           here == Places(W[w].batch, e)
<1>1. IsFiniteSet(Workers \X (1..ReadCount))
  <2>1. IsFiniteSet(1..ReadCount)  BY QueueAssumption, FS_Interval
  <2> QED  BY <2>1, QueueAssumption, FS_Product, Zenon
<1>2. others \subseteq Workers \X (1..ReadCount)  BY DEF Elsewhere, HeldIn
<1>3. IsFiniteSet(others) /\ Cardinality(others) \in Nat
  <2> HIDE DEF others
  <2> QED  BY <1>1, <1>2, FS_Subset, FS_CardinalityType, Zenon
<1>4. DOMAIN W[w].batch = 1..Len(W[w].batch) /\ Len(W[w].batch) \in Nat  OBVIOUS
<1>5. here \subseteq 1..ReadCount  BY <1>4, QueueAssumption DEF Places
<1>6. IsFiniteSet(here) /\ Cardinality(here) \in Nat
  <2>1. IsFiniteSet(DOMAIN W[w].batch)  BY FiniteIndices
  <2>2. here \subseteq DOMAIN W[w].batch  BY DEF Places
  <2> HIDE DEF here
  <2> QED  BY <2>1, <2>2, FS_Subset, FS_CardinalityType, Zenon
<1>7. HeldIn(W, e) = others \cup ({w} \X here)
  <2>1. HeldIn(W, e) \subseteq others \cup ({w} \X here)
    <3> SUFFICES ASSUME NEW h \in HeldIn(W, e), h[1] = w PROVE h \in {w} \X here
      BY Zenon DEF Elsewhere
    <3>1. h \in Workers \X (1..ReadCount) /\ h[2] \in DOMAIN W[w].batch /\ W[w].batch[h[2]] = e
      BY Zenon DEF HeldIn
    <3>2. h[2] \in here  BY <3>1, Zenon DEF Places
    <3>3. h = <<w, h[2]>>  BY <3>1
    <3> HIDE DEF here
    <3> QED  BY <3>2, <3>3
  <2>2. {w} \X here \subseteq HeldIn(W, e)
    <3> SUFFICES ASSUME NEW k \in here PROVE <<w, k>> \in HeldIn(W, e)
      <4> HIDE DEF here
      <4> QED  OBVIOUS
    <3>1. k \in 1..ReadCount /\ k \in DOMAIN W[w].batch /\ W[w].batch[k] = e
      BY <1>5, Zenon DEF Places
    <3>2. <<w, k>> \in Workers \X (1..ReadCount) /\ <<w, k>>[1] = w /\ <<w, k>>[2] = k  BY <3>1
    <3> QED  BY <3>1, <3>2, Zenon DEF HeldIn
  <2>3. others \subseteq HeldIn(W, e)  BY Zenon DEF Elsewhere
  <2> HIDE DEF others, here
  <2> QED  BY <2>1, <2>2, <2>3
<1>8. others \cap ({w} \X here) = {}
  <2>1. \A h \in others : h[1] # w  BY Zenon DEF Elsewhere
  <2> HIDE DEF others, here
  <2> QED  BY <2>1
<1>9. IsFiniteSet({w} \X here) /\ Cardinality({w} \X here) = Cardinality(here)
  <2>1. IsFiniteSet({w}) /\ Cardinality({w}) = 1  BY FS_Singleton, Zenon
  <2> HIDE DEF here
  <2>2. IsFiniteSet({w} \X here) /\ Cardinality({w} \X here) = Cardinality({w}) * Cardinality(here)
    BY <1>6, <2>1, FS_Product, Zenon
  <2> QED  BY <1>6, <2>1, <2>2
<1> HIDE DEF others, here
<1>10. Cardinality(HeldIn(W, e)) = Cardinality(others) + Cardinality({w} \X here) - Cardinality({})
  BY <1>3, <1>7, <1>8, <1>9, FS_Union
<1>11. Cardinality({}) = 0  BY FS_EmptySet
<1>12. Cardinality(HeldIn(W, e)) = Cardinality(others) + Cardinality(here)
  BY <1>3, <1>6, <1>9, <1>10, <1>11
<1> QED  BY <1>3, <1>6, <1>12 DEF others, here

\* A list of entries that fits.
Fits(s) == s \in Seq(Known) /\ Len(s) <= ReadCount

\* When the batch of one worker changes, the count of holders does by as much.
LEMMA HeldInMove ==
  ASSUME NEW w \in Workers, NEW W, NEW V, NEW e, Fits(W[w].batch), Fits(V[w].batch),
         \A v \in Workers \ {w} : V[v] = W[v]
  PROVE  /\ Cardinality(HeldIn(W, e)) \in Nat /\ Cardinality(HeldIn(V, e)) \in Nat
         /\ Cardinality(Places(W[w].batch, e)) \in Nat /\ Cardinality(Places(V[w].batch, e)) \in Nat
         /\ Cardinality(HeldIn(V, e)) + Cardinality(Places(W[w].batch, e))
              = Cardinality(HeldIn(W, e)) + Cardinality(Places(V[w].batch, e))
<1>1. Elsewhere(V, w, e) = Elsewhere(W, w, e)
  <2>1. \A h \in Workers \X (1..ReadCount) : h[1] # w => V[h[1]] = W[h[1]]
    <3>1. \A h \in Workers \X (1..ReadCount) : h[1] \in Workers  OBVIOUS
    <3> QED  BY <3>1
  <2> QED  BY <2>1, Zenon DEF Elsewhere, HeldIn
<1>2. ASSUME NEW X, Fits(X[w].batch)
      PROVE  /\ Cardinality(Elsewhere(X, w, e)) \in Nat
             /\ Cardinality(Places(X[w].batch, e)) \in Nat
             /\ Cardinality(HeldIn(X, e)) = Cardinality(Elsewhere(X, w, e)) + Cardinality(Places(X[w].batch, e))
  BY <1>2, HeldInSplit DEF Fits
<1>3. /\ Cardinality(Elsewhere(W, w, e)) \in Nat /\ Cardinality(Places(W[w].batch, e)) \in Nat
      /\ Cardinality(HeldIn(W, e)) = Cardinality(Elsewhere(W, w, e)) + Cardinality(Places(W[w].batch, e))
  BY <1>2, Zenon
<1>4. /\ Cardinality(Places(V[w].batch, e)) \in Nat
      /\ Cardinality(HeldIn(V, e)) = Cardinality(Elsewhere(V, w, e)) + Cardinality(Places(V[w].batch, e))
  BY <1>2, Zenon
<1>5. ASSUME NEW a \in Nat, NEW b \in Nat, NEW c \in Nat
      PROVE  a + b \in Nat /\ a + c \in Nat /\ (a + c) + b = (a + b) + c
  OBVIOUS
<1> HIDE DEF Places, HeldIn
<1> QED  BY <1>1, <1>3, <1>4, <1>5

\* The first element is one place more.
LEMMA PlacesTail ==
  ASSUME NEW S, NEW s \in Seq(S), s # <<>>, NEW e
  PROVE  /\ Cardinality(Places(Tail(s), e)) \in Nat
         /\ Cardinality(Places(s, e)) = Cardinality(Places(Tail(s), e)) + (IF e = Head(s) THEN 1 ELSE 0)
<1>1. /\ Tail(s) \in Seq(S) /\ Len(s) \in Nat \ {0} /\ Head(s) = s[1]
      /\ DOMAIN s = 1..Len(s) /\ DOMAIN Tail(s) = 1..(Len(s) - 1)
      /\ \A i \in 1..(Len(s) - 1) : Tail(s)[i] = s[i + 1]
  OBVIOUS
<1> DEFINE A == Places(Tail(s), e)
           B == Places(s, e) \ {1}
           f == [i \in A |-> i + 1]
<1>2. IsFiniteSet(A) /\ Cardinality(A) \in Nat
  <2>1. IsFiniteSet(DOMAIN Tail(s))  BY <1>1, FiniteIndices, Zenon
  <2>2. A \subseteq DOMAIN Tail(s)  BY DEF Places
  <2> HIDE DEF A
  <2> QED  BY <2>1, <2>2, FS_Subset, FS_CardinalityType, Zenon
<1>3. IsFiniteSet(Places(s, e))
  <2>1. IsFiniteSet(DOMAIN s)  BY FiniteIndices
  <2>2. Places(s, e) \subseteq DOMAIN s  BY DEF Places
  <2> QED  BY <2>1, <2>2, FS_Subset, Zenon
<1>4. \A i \in A : i \in 1..(Len(s) - 1) /\ s[i + 1] = e  BY <1>1 DEF Places
<1>5. \A j \in B : j \in 1..Len(s) /\ j # 1 /\ s[j] = e  BY <1>1 DEF Places
<1>6. \A i \in 1..(Len(s) - 1) : s[i + 1] = e => i \in A  BY <1>1 DEF Places
<1>7. \A j \in 1..Len(s) : j # 1 /\ s[j] = e => j \in B  BY <1>1 DEF Places
<1>8. (1 \in Places(s, e)) <=> e = Head(s)  BY <1>1 DEF Places
<1> HIDE DEF A, B
<1>9. f \in Bijection(A, B)
  <2>1. \A i \in A : i + 1 \in B  BY <1>1, <1>4, <1>7
  <2>2. f \in [A -> B]  BY <2>1
  <2>3. \A j \in B : \E i \in A : f[i] = j
    <3> SUFFICES ASSUME NEW j \in B PROVE \E i \in A : f[i] = j  OBVIOUS
    <3>1. j - 1 \in 1..(Len(s) - 1) /\ (j - 1) + 1 = j  BY <1>1, <1>5
    <3>2. j - 1 \in A  BY <1>5, <1>6, <3>1
    <3> QED  BY <3>1, <3>2
  <2>4. \A i, j \in A : f[i] = f[j] => i = j  BY <1>4
  <2>5. DOMAIN f = A  OBVIOUS
  <2> HIDE DEF f
  <2> QED  BY <2>2, <2>3, <2>4, <2>5, Zenon DEF Bijection, Injection, Surjection, IsInjective
<1>10. Cardinality(B) = Cardinality(A)
  <2> HIDE DEF f
  <2> QED  BY <1>2, <1>9, FS_Bijection DEF ExistsBijection
<1>11. Cardinality(B) = IF 1 \in Places(s, e) THEN Cardinality(Places(s, e)) - 1 ELSE Cardinality(Places(s, e))
  BY <1>3, FS_RemoveElement, Zenon DEF B
<1>12. Cardinality(Places(s, e)) \in Nat  BY <1>3, FS_CardinalityType
<1> QED  BY <1>2, <1>8, <1>10, <1>11, <1>12 DEF A

\* What is delivered becomes pending and is in the worker's hands.
LEMMA ReadGroupStep ==
  ASSUME Inv, NEW w \in Workers, ReadGroup(w), UNCHANGED <<logVars, load>>
  PROVE  Inv'
<1>1. /\ Types /\ WorkerShape /\ Accounts /\ Held /\ stops' = stops /\ load' = load
      /\ stream \in Seq(Known) /\ worker \in [Workers -> WorkerState]
      /\ pending \in [DOMAIN pending -> Nat \ {0}] /\ DOMAIN pending \subseteq Known
  BY DEF Inv, Types, QueueTypes, logVars
<1>2. UNCHANGED <<delayed, dlq, cancelled, outages, written>> /\ worker[w].pc = "read"
  BY DEF ReadGroup
<1>3. PICK n : n = IF Len(stream) < ReadCount THEN Len(stream) ELSE ReadCount  OBVIOUS
<1>4. n \in 0..Len(stream) /\ n <= ReadCount /\ n \in Nat  BY <1>1, <1>3, QueueAssumption
<1>5. PICK taken : taken = SubSeq(stream, 1, n)  BY Zenon
<1>6. PICK o \in Outcomes(w) :
         /\ Charge(w, o)
         /\ IF Executed(o) THEN stream' = SubSeq(stream, n + 1, Len(stream)) /\ Deliver(taken)
            ELSE UNCHANGED <<stream, pending>>
         /\ worker' = [worker EXCEPT
                ![w].pc = IF o = "ok" /\ n > 0 THEN "handle" ELSE "idle",
                ![w].batch = IF o = "ok" THEN taken ELSE <<>>]
  BY <1>3, <1>5, Zenon DEF ReadGroup
<1>7. /\ taken \in Seq(Known) /\ Len(taken) = n /\ SubSeq(stream, n + 1, Len(stream)) \in Seq(Known)
      /\ Range(stream) = Range(taken) \cup Range(SubSeq(stream, n + 1, Len(stream)))
  BY <1>1, <1>4, <1>5, RangeCut, Zenon
<1>8. PICK a : a = IF o = "ok" /\ n > 0 THEN "handle" ELSE "idle"  BY Zenon
<1>9. PICK b : b = IF o = "ok" THEN taken ELSE <<>>  BY Zenon
<1>10. /\ Moved(w, a, worker[w].due, b)
       /\ worker[w].due \in Seq(Member) /\ worker[w].batch \in Seq(Known)
  BY <1>1, <1>6, <1>8, <1>9, GotoMoved, Zenon
<1>11. b \in Seq(Known) /\ Len(b) <= ReadCount /\ (a = "handle" <=> b # <<>>) /\ a \in {"handle", "idle"}
  <2>1. CASE o = "ok"
    <3>1. taken = <<>> <=> n = 0  BY <1>7
    <3> QED  BY <1>4, <1>7, <1>8, <1>9, <2>1, <3>1
  <2>2. CASE o # "ok"
    <3>1. Len(<<>>) <= ReadCount /\ <<>> \in Seq(Known)  BY QueueAssumption
    <3> QED  BY <1>8, <1>9, <2>2, <3>1
  <2> QED  BY <2>1, <2>2
<1>12. worker[w].batch = <<>> /\ Len(worker[w].batch) <= ReadCount  BY <1>1, <1>2 DEF WorkerShape
<1>13. /\ worker'[w].batch = b
       /\ \A v \in Workers \ {w} : worker'[v] = worker[v]
  BY <1>1, <1>10 DEF Moved
<1>14. /\ faults' \in Nat /\ faults' <= faults /\ (o # "ok" => ~Clean')
       /\ o \in {"ok", "err", "late"}
  BY <1>1, <1>6, Charged
<1>15. /\ stream' \in Seq(Known) /\ pending' \in [DOMAIN pending' -> Nat \ {0}]
       /\ DOMAIN pending' \subseteq Known /\ Ahead' = Ahead
       /\ \A e : /\ Copies(e) \in Nat
                 /\ Copies(e)' = Copies(e) + (IF Executed(o) THEN Cardinality(Places(taken, e)) ELSE 0)
  <2>1. CASE Executed(o)
    <3>1. stream' = SubSeq(stream, n + 1, Len(stream)) /\ Deliver(taken)  BY <1>6, <2>1
    <3>2. /\ pending' \in [DOMAIN pending' -> Nat \ {0}] /\ DOMAIN pending' = DOMAIN pending \cup Range(taken)
          /\ \A e : Copies(e)' = Copies(e) + Cardinality(Places(taken, e))
          /\ \A e : Copies(e) \in Nat
      BY <1>1, <1>7, <3>1, Delivery1, Zenon DEF Places
    <3>3. Range(taken) \subseteq Known  BY <1>7 DEF Range
    <3>4. Ahead' = Ahead  BY <1>7, <3>1, <3>2 DEF Ahead
    <3> QED  BY <1>1, <1>7, <2>1, <3>1, <3>2, <3>3, <3>4
  <2>2. CASE ~Executed(o)
    <3>1. stream' = stream /\ pending' = pending  BY <1>6, <2>2
    <3>2. Ahead' = Ahead  BY <3>1, Zenon DEF Ahead
    <3>3. \A e : Copies(e)' = Copies(e)  BY <3>1, Zenon DEF Copies
    <3>4. \A e : Copies(e) \in Nat  BY <1>1 DEF Copies
    <3>5. \A c \in Nat : c + 0 = c  OBVIOUS
    <3> QED  BY <1>1, <2>2, <3>1, <3>2, <3>3, <3>4, <3>5
  <2> QED  BY <2>1, <2>2
<1>16. Held'
  <2> SUFFICES ASSUME NEW e \in Entry
               PROVE  /\ Cardinality(HeldIn(worker', e)) <= Copies(e)'
                      /\ Clean' => Cardinality(HeldIn(worker', e)) = Copies(e)'
    BY Zenon DEF Held, Holders, HeldIn
  <2>1. /\ Cardinality(HeldIn(worker, e)) <= Copies(e)
        /\ Clean => Cardinality(HeldIn(worker, e)) = Copies(e)
    BY <1>1, Zenon DEF Held, Holders, HeldIn
  <2>2. Paid  BY <1>1, <1>14, PaidSame
  <2>3. Clean' => Clean  BY <1>1, <2>2, PaidFaults
  <2>4. PICK p, q, r, s : /\ p = Cardinality(HeldIn(worker, e)) /\ q = Cardinality(HeldIn(worker', e))
                          /\ r = Cardinality(Places(worker[w].batch, e)) /\ s = Cardinality(Places(b, e))
    BY Zenon
  <2>5. p \in Nat /\ q \in Nat /\ r \in Nat /\ s \in Nat /\ q + r = p + s
    <3>1. Fits(worker'[w].batch)  BY <1>11, <1>13 DEF Fits
    <3>2. /\ Cardinality(HeldIn(worker, e)) \in Nat /\ Cardinality(HeldIn(worker', e)) \in Nat
          /\ Cardinality(Places(worker[w].batch, e)) \in Nat
          /\ Cardinality(Places(worker'[w].batch, e)) \in Nat
          /\ Cardinality(HeldIn(worker', e)) + Cardinality(Places(worker[w].batch, e))
              = Cardinality(HeldIn(worker, e)) + Cardinality(Places(worker'[w].batch, e))
      <4>1. Fits(worker[w].batch)  BY <1>10, <1>12 DEF Fits
      <4>2. \A v \in Workers \ {w} : worker'[v] = worker[v]  BY <1>13
      <4> QED  BY ONLY <3>1, <4>1, <4>2, w \in Workers, HeldInMove
    <3> QED  BY <1>13, <2>4, <3>2
  <2>6. r = 0
    <3>1. Places(<<>>, e) = {}  BY DEF Places
    <3> QED  BY <1>12, <2>4, <3>1, FS_EmptySet, Zenon
  <2>7. CASE o = "ok"
    <3>1. Copies(e)' = Copies(e) + s  BY <1>9, <1>15, <2>4, <2>7 DEF Executed
    <3> QED  BY <1>15, <2>1, <2>3, <2>4, <2>5, <2>6, <3>1
  <2>8. CASE o # "ok"
    <3>1. s = 0
      <4>1. Places(<<>>, e) = {}  BY DEF Places
      <4> QED  BY <1>9, <2>4, <2>8, <4>1, FS_EmptySet, Zenon
    <3>2. Cardinality(Places(taken, e)) \in Nat
      <4>1. IsFiniteSet(DOMAIN taken)  BY <1>7, FiniteIndices
      <4>2. Places(taken, e) \subseteq DOMAIN taken  BY DEF Places
      <4> QED  BY <4>1, <4>2, FS_Subset, FS_CardinalityType, Zenon
    <3>3. Copies(e)' \in Nat /\ Copies(e)' >= Copies(e)  BY <1>15, <3>2
    <3> QED  BY <1>14, <1>15, <2>1, <2>4, <2>5, <2>6, <2>8, <3>1, <3>3
  <2> QED  BY <2>7, <2>8
<1>17. StoreTypes' /\ Delayed' = Delayed /\ DeadLettered' = DeadLettered
  BY <1>1, <1>2, <1>15, StoreSame DEF StoreTypes
<1>18. Keeps
  <2>1. Done' = Done  BY <1>2, <1>17, Zenon DEF Done
  <2> QED  BY <1>15, <1>17, <2>1, SafeGrows
<1>19. /\ a \in PC /\ a \notin {"claim", "remove", "failed", "ack"} /\ cancelled' = cancelled
  BY <1>2, <1>11 DEF PC
<1> QED  BY <1>10, <1>11, <1>14, <1>16, <1>17, <1>18, <1>19, WorkerSide

\* What is acknowledged was pending, and is done or scheduled.
LEMMA AckStep ==
  ASSUME Inv, NEW w \in Workers, Ack(w), UNCHANGED <<logVars, load>>
  PROVE  Inv'
<1>1. /\ Types /\ WorkerShape /\ Accounts /\ Held /\ Acking /\ stops' = stops /\ load' = load
      /\ worker \in [Workers -> WorkerState] /\ cancelled \subseteq Workers
      /\ pending \in [DOMAIN pending -> Nat \ {0}] /\ DOMAIN pending \subseteq Known
  BY DEF Inv, Types, QueueTypes, logVars
<1>2. UNCHANGED <<stream, delayed, dlq, cancelled, outages, written>> /\ worker[w].pc = "ack"
  BY DEF Ack
<1>3. PICK x : x = Head(worker[w].batch)  OBVIOUS
<1>4. PICK o \in Outcomes(w) :
         /\ Charge(w, o)
         /\ IF Executed(o) THEN Acknowledge(x) ELSE UNCHANGED pending
  BY <1>3, Zenon DEF Ack
<1>5. /\ worker[w].batch \in Seq(Known) /\ worker[w].batch # <<>> /\ x \in Known /\ x.attempt \in Nat
      /\ Len(worker[w].batch) <= ReadCount
  BY <1>1, <1>2, <1>3, HeadBatch DEF WorkerShape
<1>6. PICK b : b = Tail(worker[w].batch)  BY Zenon
<1>7. PICK a : a = IF Len(worker[w].batch) = 1 THEN "idle" ELSE "handle"  OBVIOUS
<1>8. Moved(w, a, worker[w].due, b) /\ worker[w].due \in Seq(Member)
  <2>1. worker' = [worker EXCEPT ![w].pc = a, ![w].batch = b]  BY <1>6, <1>7, Zenon DEF Ack
  <2> QED  BY <1>1, <2>1, GotoMoved, Zenon
<1>9. b \in Seq(Known) /\ Len(b) <= ReadCount /\ (a = "handle" <=> b # <<>>) /\ a \in {"handle", "idle"}
  <2>1. b \in Seq(Known) /\ Len(b) = Len(worker[w].batch) - 1  BY <1>5, <1>6, RangeTail
  <2>2. Len(worker[w].batch) \in Nat \ {0} /\ ReadCount \in Nat  BY <1>5, QueueAssumption
  <2>3. b = <<>> <=> Len(b) = 0  BY <2>1, EmptyLength, Zenon
  <2> QED  BY <1>5, <1>7, <2>1, <2>2, <2>3
<1>10. worker'[w].batch = b /\ \A v \in Workers \ {w} : worker'[v] = worker[v]
  BY <1>1, <1>8 DEF Moved
<1>11. /\ faults' \in Nat /\ faults' <= faults /\ (o # "ok" => ~Clean')
       /\ w \in cancelled => ~Executed(o)
  BY <1>1, <1>4, Charged DEF Executed
<1>12. Paid  BY <1>1, <1>11, PaidSame
<1>13. (Clean' => Clean) /\ (~Broken' => ~Broken)  BY <1>1, <1>12, PaidFaults
<1>14. ASSUME NEW e
       PROVE  /\ Cardinality(HeldIn(worker, e)) \in Nat /\ Cardinality(HeldIn(worker', e)) \in Nat
              /\ Cardinality(HeldIn(worker, e))
                   = Cardinality(HeldIn(worker', e)) + (IF e = x THEN 1 ELSE 0)
  <2>1. Fits(worker[w].batch) /\ Fits(worker'[w].batch)  BY <1>5, <1>9, <1>10 DEF Fits
  <2>2. /\ Cardinality(HeldIn(worker, e)) \in Nat /\ Cardinality(HeldIn(worker', e)) \in Nat
        /\ Cardinality(Places(worker[w].batch, e)) \in Nat
        /\ Cardinality(Places(worker'[w].batch, e)) \in Nat
        /\ Cardinality(HeldIn(worker', e)) + Cardinality(Places(worker[w].batch, e))
            = Cardinality(HeldIn(worker, e)) + Cardinality(Places(worker'[w].batch, e))
    <3>1. \A v \in Workers \ {w} : worker'[v] = worker[v]  BY <1>10
    <3> QED  BY ONLY <2>1, <3>1, w \in Workers, HeldInMove
  <2>3. Cardinality(Places(worker[w].batch, e))
          = Cardinality(Places(b, e)) + (IF e = x THEN 1 ELSE 0)
    BY <1>3, <1>5, <1>6, PlacesTail
  <2> QED  BY <1>10, <2>2, <2>3
<1>15. /\ pending' \in [DOMAIN pending' -> Nat \ {0}]
       /\ DOMAIN pending' \subseteq DOMAIN pending /\ DOMAIN pending \subseteq DOMAIN pending' \cup {x}
       /\ \A e : Copies(e) \in Nat
       /\ \A e : e # x => Copies(e)' = Copies(e)
       /\ Copies(x)' = IF Executed(o) THEN Copies(x) - 1 ELSE Copies(x)
  <2>1. \A e : Copies(e) \in Nat  BY <1>1 DEF Copies
  <2>2. CASE Executed(o)
    <3>1. Acknowledge(x)  BY <1>4, <2>2
    <3>2. Copies(x) > 0
      <4>1. Cardinality(HeldIn(worker, x)) >= 1  BY <1>14
      <4>2. Cardinality(HeldIn(worker, x)) <= Copies(x)
        <5>1. x \in Entry  BY <1>5 DEF Known
        <5> QED  BY <1>1, <5>1, Zenon DEF Held, Holders, HeldIn
      <4>3. Cardinality(HeldIn(worker, x)) \in Nat  BY <1>14
      <4> QED  BY <2>1, <4>1, <4>2, <4>3
    <3> QED  BY <1>1, <2>1, <2>2, <3>1, <3>2, Acknowledge1
  <2>3. CASE ~Executed(o)
    <3>1. pending' = pending  BY <1>4, <2>3
    <3>2. \A e : Copies(e)' = Copies(e)  BY <3>1, Zenon DEF Copies
    <3> QED  BY <1>1, <2>1, <2>3, <3>1, <3>2
  <2> QED  BY <2>2, <2>3
<1>16. Held'
  <2> SUFFICES ASSUME NEW e \in Entry
               PROVE  /\ Cardinality(HeldIn(worker', e)) <= Copies(e)'
                      /\ Clean' => Cardinality(HeldIn(worker', e)) = Copies(e)'
    BY Zenon DEF Held, Holders, HeldIn
  <2>1. /\ Cardinality(HeldIn(worker, e)) <= Copies(e)
        /\ Clean => Cardinality(HeldIn(worker, e)) = Copies(e)
    BY <1>1, Zenon DEF Held, Holders, HeldIn
  <2>2. /\ Cardinality(HeldIn(worker, e)) \in Nat /\ Cardinality(HeldIn(worker', e)) \in Nat
        /\ Cardinality(HeldIn(worker, e))
             = Cardinality(HeldIn(worker', e)) + (IF e = x THEN 1 ELSE 0)
    BY <1>14
  <2>3. Clean' => Executed(o)  BY <1>11 DEF Executed
  <2>4. CASE e = x
    <3>1. Copies(e)' = IF Executed(o) THEN Copies(e) - 1 ELSE Copies(e)  BY <1>15, <2>4
    <3>2. Copies(e) \in Nat  BY <1>15
    <3> QED  BY <1>13, <2>1, <2>2, <2>3, <2>4, <3>1, <3>2
  <2>5. CASE e # x
    <3>1. Copies(e)' = Copies(e)  BY <1>15, <2>5
    <3>2. Cardinality(HeldIn(worker, e)) = Cardinality(HeldIn(worker', e))  BY <2>2, <2>5
    <3> QED  BY <1>13, <2>1, <3>1, <3>2
  <2> QED  BY <2>4, <2>5
<1>17. StoreTypes' /\ Delayed' = Delayed /\ DeadLettered' = DeadLettered
  <2>1. DOMAIN pending' \subseteq Known  BY <1>1, <1>15
  <2> QED  BY <1>1, <1>2, <1>15, <2>1, StoreSame DEF StoreTypes
<1>18. Done' = Done  BY <1>2, <1>17, Zenon DEF Done
<1>19. Ahead \subseteq Ahead' \cup {x}  BY <1>2, <1>15 DEF Ahead
<1>20. Broken' \/ Keeps
  <2> SUFFICES ASSUME ~Broken', NEW i \in Logs, NEW k \in Nat, NEW c \in {k, k + 1}, Safe(i, k, c)
               PROVE  Safe(i, k, c)'
    BY Zenon DEF Keeps
  <2>1. CASE i \in Done \/ \E e \in Delayed : i \in e.task.payload /\ e.attempt >= c
    BY <1>17, <1>18, <2>1, Zenon DEF Safe
  <2>2. CASE \E e \in Ahead : i \in e.task.payload /\ e.attempt >= k
    <3>1. PICK e \in Ahead : i \in e.task.payload /\ e.attempt >= k  BY <2>2
    <3>2. CASE e \in Ahead'  BY <3>1, <3>2, Zenon DEF Safe
    <3>3. CASE e \notin Ahead'
      <4>1. e = x  BY <1>19, <3>1, <3>3
      <4>2. Executed(o)
        <5> SUFFICES ASSUME ~Executed(o) PROVE Ahead' = Ahead  BY <3>1, <3>3
        <5>1. pending' = pending  BY <1>4
        <5> QED  BY <1>2, <5>1, Zenon DEF Ahead
      <4>3. Safe(i, x.attempt + 1, x.attempt + 1)
        <5>1. w \in Workers \ cancelled  BY <1>11, <4>2
        <5>2. AckSafe(w)  BY <1>1, <1>2, <1>13, <5>1 DEF Acking
        <5> QED  BY <1>3, <3>1, <4>1, <5>2, Zenon DEF AckSafe
      <4>4. CASE i \in Done  BY <1>18, <4>4, Zenon DEF Safe
      <4>5. CASE \E f \in Ahead : i \in f.task.payload /\ f.attempt >= x.attempt + 1
        <5>1. PICK f \in Ahead : i \in f.task.payload /\ f.attempt >= x.attempt + 1  BY <4>5
        <5>2. f \in Known  BY <1>1 DEF Ahead, Types, QueueTypes, Range
        <5>3. f.attempt \in Nat  BY <5>2, KnownFields
        <5>4. f.attempt >= k /\ f.attempt # x.attempt  BY <1>5, <3>1, <4>1, <5>1, <5>3
        <5>5. f \in Ahead'  BY <1>19, <5>4
        <5> QED  BY <5>1, <5>4, <5>5, Zenon DEF Safe
      <4>6. CASE \E f \in Delayed : i \in f.task.payload /\ f.attempt >= x.attempt + 1
        <5>1. PICK f \in Delayed : i \in f.task.payload /\ f.attempt >= x.attempt + 1  BY <4>6
        <5>2. f \in Known  BY <1>1 DEF Delayed, Types, QueueTypes, Member
        <5>3. f.attempt \in Nat  BY <5>2, KnownFields
        <5>4. f.attempt >= c  BY <1>5, <3>1, <4>1, <5>1, <5>3
        <5> QED  BY <1>17, <5>1, <5>4, Zenon DEF Safe
      <4> QED  BY <4>3, <4>4, <4>5, <4>6, Zenon DEF Safe
    <3> QED  BY <3>2, <3>3
  <2> QED  BY <2>1, <2>2, Zenon DEF Safe
<1>21. a \in PC /\ a \notin {"claim", "remove", "failed", "ack"} /\ cancelled' = cancelled
  BY <1>2, <1>9 DEF PC
<1> QED  BY <1>8, <1>9, <1>11, <1>16, <1>17, <1>20, <1>21, WorkerSide

-----------------------------------------------------------------------------
(* Invariance.                                                             *)

\* The processes start in the invariant.
LEMMA InitInv ==
  ASSUME Init
  PROVE  Inv
<1>1. /\ load \in Workloads /\ load.faults \in Nat /\ load.outages \in Nat
      /\ stream = <<>> /\ pending = <<>> /\ delayed = {} /\ dlq = <<>>
      /\ worker = [w \in Workers |-> Idle] /\ cancelled = {}
      /\ faults = load.faults /\ outages = load.outages /\ written = [i \in Items |-> 0]
      /\ proc = [p \in Workers |-> "up"] /\ logChan = [p \in Workers |-> <<>>]
      /\ batch = [p \in Workers |-> {}] /\ loop = [p \in Workers |-> "run"]
      /\ seen = {} /\ accepted = {} /\ stops = 0
  BY AccessLogAssumption DEF Init, QueueInit
<1>2. DOMAIN pending = {}  BY <1>1
<1>3. \A w \in Workers : worker[w].pc = "idle" /\ worker[w].due = <<>> /\ worker[w].batch = <<>>
  BY <1>1 DEF Idle
<1>4. DeadLettered = {} /\ Taken = {}  BY <1>1 DEF DeadLettered, Taken, Range
<1>5. QueueTypes
  <2>1. pending \in [DOMAIN pending -> Nat \ {0}]  BY <1>1, <1>2
  <2>2. IsFiniteSet(delayed)  BY <1>1, FS_EmptySet
  <2>3. worker \in [Workers -> WorkerState]
    <3>1. Idle \in WorkerState  BY DEF Idle, WorkerState, PC
    <3> QED  BY <1>1, <3>1
  <2>4. stream \in Seq(Known) /\ dlq \in Seq(CompensationTask)  BY <1>1
  <2>5. written \in [Items -> Nat] /\ \A i \in Items : ~(written[i] > 0)  BY <1>1
  <2> QED  BY <1>1, <1>2, <1>4, <2>1, <2>2, <2>3, <2>4, <2>5 DEF QueueTypes
<1>6. LogTypes
  <2>1. <<>> \in Seq(Taken)  OBVIOUS
  <2> QED  BY <1>1, <2>1 DEF LogTypes
<1>7. WorkerShape
  <2>1. Len(<<>>) <= ReadCount  BY QueueAssumption
  <2> QED  BY <1>3, <2>1 DEF WorkerShape
<1>8. LoopShape  BY <1>1 DEF LoopShape
<1>9. Accounts
  <2>1. load.faults - faults >= stops  BY <1>1
  <2> QED  BY <1>1, <2>1 DEF Accounts
<1>10. Held
  <2> SUFFICES ASSUME NEW e \in Entry PROVE Cardinality(Holders(e)) = 0 /\ Copies(e) = 0  BY DEF Held
  <2>1. Holders(e) = {}
    <3>1. \A h \in Workers \X (1..ReadCount) : h[1] \in Workers  OBVIOUS
    <3>2. DOMAIN <<>> = {}  OBVIOUS
    <3> QED  BY <1>3, <3>1, <3>2 DEF Holders
  <2>2. Copies(e) = 0  BY <1>2 DEF Copies
  <2> QED  BY <2>1, <2>2, FS_EmptySet
<1>11. Conserved /\ Removing /\ Acking  BY <1>3, <1>4 DEF Conserved, Removing, Acking
<1> QED  BY <1>5, <1>6, <1>7, <1>8, <1>9, <1>10, <1>11 DEF Inv, Types

\* A step of nobody preserves it.
LEMMA StutterInv ==
  ASSUME Inv, UNCHANGED <<vars, load>>
  PROVE  Inv'
<1>1. /\ UNCHANGED <<queueVars, logVars, load>>  BY DEF vars
<1>2. /\ stream' = stream /\ pending' = pending /\ delayed' = delayed /\ dlq' = dlq
      /\ worker' = worker /\ cancelled' = cancelled /\ faults' = faults /\ outages' = outages
      /\ written' = written /\ seen' = seen /\ accepted' = accepted /\ stops' = stops /\ load' = load
      /\ proc' = proc /\ logChan' = logChan /\ batch' = batch /\ loop' = loop
  BY <1>1 DEF queueVars, logVars
<1>3. /\ proc \in [Workers -> {"up", "stopping", "closing", "down"}]
      /\ logChan \in [Workers -> Seq(Taken)] /\ batch \in [Workers -> SUBSET Taken]
      /\ loop \in [Workers -> {"run", "flush", "drain", "drainFlush", "lastFlush", "done"}]
      /\ LoopShape
  BY DEF Inv, Types, LogTypes
<1>4. LoopShape' /\ InMemory' = InMemory  BY <1>2, <1>3, Zenon DEF LoopShape, InMemory
<1> QED  BY <1>1, <1>2, <1>3, <1>4, QuietProcess

\* Every step preserves it.
LEMMA NextInv ==
  ASSUME Inv, [Next]_<<vars, load>>
  PROVE  Inv'
<1>1. CASE UNCHANGED <<vars, load>>  BY <1>1, StutterInv
<1>2. CASE Next
  <2>1. load' = load /\ Step  BY <1>2 DEF Next
  <2>2. CASE Second /\ UNCHANGED logVars  BY <2>1, <2>2, SecondStep
  <2>3. CASE \E p \in Workers :
               \/ \E i \in NextRequest(p) : OnResponse(p, i) \/ CriticalFilterFailed(p, i)
               \/ LoopStep(p) \/ StopTasks(p) \/ Close(p) \/ Crash(p) \/ Restart(p)
               \/ proc[p] # "down" /\ WorkerStep(p) /\ UNCHANGED logVars
    <3>1. PICK p \in Workers :
             \/ \E i \in NextRequest(p) : OnResponse(p, i) \/ CriticalFilterFailed(p, i)
             \/ LoopStep(p) \/ StopTasks(p) \/ Close(p) \/ Crash(p) \/ Restart(p)
             \/ proc[p] # "down" /\ WorkerStep(p) /\ UNCHANGED logVars
      BY <2>3
    <3>2. CASE \E i \in NextRequest(p) : OnResponse(p, i) \/ CriticalFilterFailed(p, i)
      BY <2>1, <3>2, OnResponseStep, CriticalFilterFailedStep, Zenon
    <3>3. CASE LoopStep(p)
      BY <2>1, <3>3, ReceiveStep, TickerFlushStep, DrainStep, FlushStep, Zenon DEF LoopStep
    <3>4. CASE StopTasks(p)  BY <2>1, <3>4, StopTasksStep, Zenon
    <3>5. CASE Close(p)  BY <2>1, <3>5, CloseAccessLogStep, ProcessExitStep, Zenon DEF Close
    <3>6. CASE Crash(p)  BY <2>1, <3>6, CrashStep, Zenon
    <3>7. CASE Restart(p)  BY <2>1, <3>7, RestartStep, Zenon
    <3>8. CASE WorkerStep(p) /\ UNCHANGED logVars
      <4>1. UNCHANGED <<logVars, load>>  BY <2>1, <3>8
      <4> QED  BY <3>8, <4>1, ClaimRangeStep, ClaimAddStep, ClaimRemoveStep, ReadGroupStep,
                  CompensateStep, NoCompensatorStep, HandleFailureStep, AckStep, WorkerExitStep,
                  Zenon DEF WorkerStep
    <3> QED  BY <3>1, <3>2, <3>3, <3>4, <3>5, <3>6, <3>7, <3>8, Zenon
  <2> QED  BY <2>1, <2>2, <2>3, Zenon DEF Step
<1> QED  BY <1>1, <1>2

\* Inv is an inductive invariant: where every accepted record, every pending
\* entry and every delayed task is, whatever the workers, the batch loops,
\* failing commands, crashes and shutdowns do.
THEOREM Invariance == Spec => []Inv
<1>1. Init => Inv  BY InitInv
<1>2. Inv /\ [Next]_<<vars, load>> => Inv'  BY NextInv
<1> QED  BY <1>1, <1>2, PTL DEF Spec

\* HandleMessage acknowledges whatever it was handed: as long as no command
\* failed and no process crashed or was shut down, the pending entries of the
\* consumer group are exactly those in the batches of the workers, each as often
\* as it is there.
THEOREM PendingHeld == Spec => []PendingInHand
<1>1. Inv => PendingInHand
  <2> SUFFICES ASSUME Inv, ~Broken, stops = 0, NEW e \in DOMAIN pending
               PROVE  pending[e] = Cardinality(Holders(e))
    BY DEF PendingInHand
  <2>1. Types /\ Accounts /\ Held  BY DEF Inv
  <2>2. PICK n : n = load.faults  OBVIOUS
  <2>3. n \in Nat /\ faults \in Nat /\ n - faults >= 0 /\ ~(n - faults > 0)
    BY <2>1, <2>2, AccessLogAssumption DEF Types, QueueTypes, LogTypes, Accounts, Broken
  <2>4. Clean  BY <2>2, <2>3 DEF Clean
  <2>5. e \in Entry  BY <2>1 DEF Types, QueueTypes, Known
  <2> QED  BY <2>1, <2>4, <2>5 DEF Held, Copies
<1> QED  BY <1>1, Invariance, PTL

-----------------------------------------------------------------------------
(* The refinement of Delivery.                                             *)

\* Every step pays for its fault.
LEMMA PaidStep ==
  ASSUME Inv, Next
  PROVE  Paid
<1>1. Types /\ Accounts /\ faults \in Nat  BY DEF Inv, Types, QueueTypes
<1>2. load' = load /\ Step  BY DEF Next
<1>3. ASSUME stops' = stops, faults' = faults PROVE Paid  BY <1>1, <1>2, <1>3, PaidSame
<1>4. ASSUME UNCHANGED <<queueVars, stops>> PROVE Paid  BY <1>3, <1>4 DEF queueVars
<1>5. ASSUME UNCHANGED logVars PROVE stops' = stops  BY <1>5 DEF logVars
<1>6. ASSUME stops' = stops, NEW e, NEW o, Enqueue(e, o) PROVE Paid  BY <1>1, <1>2, <1>6, EnqueueOutcome
<1>7. ASSUME stops' = stops, NEW w \in Workers, NEW o \in Outcomes(w), Charge(w, o) PROVE Paid
  <2>1. faults' \in Nat /\ faults' <= faults  BY <1>2, <1>7, Charged
  <2> QED  BY <1>1, <1>2, <1>7, <2>1, PaidSame
<1>8. CASE Second /\ UNCHANGED logVars  BY <1>3, <1>5, <1>8 DEF Second
<1>9. ASSUME NEW p \in Workers, NEW i, OnResponse(p, i) PROVE Paid
  <2>1. stops' = stops  BY <1>9 DEF OnResponse
  <2>2. faults' = faults \/ \E o \in {"ok", "err", "late"} : Enqueue(NewEntry("access_log", {i}), o)
    BY <1>9 DEF OnResponse
  <2> QED  BY <1>3, <1>6, <2>1, <2>2, Zenon
<1>10. ASSUME NEW p \in Workers, NEW i, CriticalFilterFailed(p, i) PROVE Paid
  <2>1. stops' = stops  BY <1>10 DEF CriticalFilterFailed
  <2>2. \E o \in {"ok", "err", "late"} : Enqueue(NewEntry("token_settlement", {i}), o)
    BY <1>10, Zenon DEF CriticalFilterFailed
  <2> QED  BY <1>6, <2>1, <2>2, Zenon
<1>11. ASSUME NEW p \in Workers, LoopStep(p) PROVE Paid
  <2>1. CASE Receive(p)  BY <1>4, <2>1 DEF Receive
  <2>2. CASE TickerFlush(p)  BY <1>4, <2>2 DEF TickerFlush
  <2>3. CASE Drain(p)  BY <1>4, <2>3 DEF Drain
  <2>4. CASE Flush(p)
    <3>1. stops' = stops  BY <2>4 DEF Flush
    <3>2. faults' = faults \/ \E o \in {"ok", "err", "late"} : Enqueue(NewEntry("access_log", batch[p]), o)
      BY <2>4 DEF Flush
    <3> QED  BY <1>3, <1>6, <3>1, <3>2, Zenon
  <2> QED  BY <1>11, <2>1, <2>2, <2>3, <2>4 DEF LoopStep
<1>12. ASSUME NEW p \in Workers, StopTasks(p) \/ Close(p) \/ Crash(p) \/ Restart(p) PROVE Paid
  <2>1. CASE StopTasks(p)  BY <1>1, <1>2, <2>1, FaultPaid DEF StopTasks
  <2>2. CASE Close(p)  BY <1>4, <2>2 DEF Close, CloseAccessLog, ProcessExit
  <2>3. CASE Crash(p)  BY <1>1, <1>2, <2>3, FaultPaid DEF Crash
  <2>4. CASE Restart(p)  BY <1>3, <2>4 DEF Restart
  <2> QED  BY <1>12, <2>1, <2>2, <2>3, <2>4
<1>13. ASSUME NEW p \in Workers, WorkerStep(p), UNCHANGED logVars PROVE Paid
  <2>0. stops' = stops  BY <1>5, <1>13
  <2>1. CASE \E o \in Outcomes(p) : Charge(p, o)  BY <1>7, <2>0, <2>1
  <2>2. CASE faults' = faults  BY <1>3, <2>0, <2>2
  <2>3. ClaimRange(p) => \E o \in Outcomes(p) : Charge(p, o)  BY Zenon DEF ClaimRange
  <2>4. ClaimAdd(p) => \E o \in Outcomes(p) : Charge(p, o)  BY Zenon DEF ClaimAdd
  <2>5. ClaimRemove(p) => \E o \in Outcomes(p) : Charge(p, o)  BY Zenon DEF ClaimRemove
  <2>6. ReadGroup(p) => \E o \in Outcomes(p) : Charge(p, o)  BY Zenon DEF ReadGroup
  <2>7. HandleFailure(p) => \E o \in Outcomes(p) : Charge(p, o)  BY Zenon DEF HandleFailure
  <2>8. Ack(p) => \E o \in Outcomes(p) : Charge(p, o)  BY Zenon DEF Ack
  <2>9. NoCompensator(p) \/ WorkerExit(p) => faults' = faults  BY DEF NoCompensator, WorkerExit
  <2>10. CASE Compensate(p)
    <3>1. \/ faults' = faults
          \/ \E o \in Outcomes(p) \cup {"err"} :
               p \notin cancelled /\ Write(Head(worker[p].batch).task.payload, o)
      BY <2>10, Zenon DEF Compensate
    <3>2. faults' = faults \/ (faults' = faults - 1 /\ faults > 0)
      BY <3>1 DEF Write, Outcomes
    <3>3. CASE faults' = faults - 1 /\ faults > 0  BY <1>1, <1>2, <2>0, <3>3, FaultPaid
    <3> QED  BY <2>2, <3>2, <3>3
  <2> QED  BY <1>13, <2>1, <2>2, <2>3, <2>4, <2>5, <2>6, <2>7, <2>8, <2>9, <2>10, Zenon DEF WorkerStep
<1> QED  BY <1>2, <1>8, <1>9, <1>10, <1>11, <1>12, <1>13, Zenon DEF Step

\* What a worker has in hand is pending.
LEMMA HandPending ==
  ASSUME Inv, NEW w \in Workers, worker[w].pc \in {"handle", "failed", "ack"}
  PROVE  Head(worker[w].batch) \in DOMAIN pending
<1>1. Types /\ WorkerShape /\ Held  BY DEF Inv
<1>2. PICK x : x = Head(worker[w].batch)  OBVIOUS
<1>3. worker[w].batch \in Seq(Known) /\ worker[w].batch # <<>> /\ x \in Known  BY <1>1, <1>2, HeadBatch
<1>4. Len(worker[w].batch) <= ReadCount  BY <1>1 DEF WorkerShape
<1>5. /\ 1 \in DOMAIN worker[w].batch /\ worker[w].batch[1] = x /\ 1 \in 1..ReadCount
  BY <1>2, <1>3, <1>4, QueueAssumption
<1>6. <<w, 1>> \in Holders(x)
  <2>1. <<w, 1>> \in Workers \X (1..ReadCount) /\ <<w, 1>>[1] = w /\ <<w, 1>>[2] = 1  BY <1>5
  <2> QED  BY <1>5, <2>1, Zenon DEF Holders
<1>7. IsFiniteSet(Holders(x))  BY HoldersFinite
<1>8. Cardinality(Holders(x)) \in Nat /\ Cardinality(Holders(x)) # 0
  BY <1>6, <1>7, FS_CardinalityType, FS_EmptySet
<1>9. x \in Entry  BY <1>3 DEF Known
<1>10. Cardinality(Holders(x)) <= Copies(x)  BY <1>1, <1>9 DEF Held
<1>11. x \in DOMAIN pending
  <2> SUFFICES ASSUME x \notin DOMAIN pending PROVE FALSE  OBVIOUS
  <2>1. Copies(x) = 0  BY Zenon DEF Copies
  <2> QED  BY <1>8, <1>10, <2>1
<1> QED  BY <1>2, <1>11

\* What is written is done.
LEMMA LandDone ==
  ASSUME Types, NEW S, S \subseteq accepted, written' = Land(S), dlq' = dlq
  PROVE  Done' = Done \cup S
<1>1. written \in [Items -> Nat] /\ S \subseteq Items  BY DEF Types, QueueTypes, LogTypes
<1>2. \A i \in Items : written'[i] = IF i \in S THEN written[i] + 1 ELSE written[i]  BY DEF Land
<1>3. \A i \in Items : written'[i] > 0 <=> (i \in S \/ written[i] > 0)  BY <1>1, <1>2
<1>4. DeadLettered' = DeadLettered  BY Zenon DEF DeadLettered
<1> QED  BY <1>1, <1>3, <1>4 DEF Done

\* The payload of what a worker has in hand is accepted and in the queue.
LEMMA HandQueued ==
  ASSUME Inv, NEW w \in Workers, worker[w].pc \in {"handle", "failed", "ack"}
  PROVE  /\ Head(worker[w].batch).task.payload \subseteq accepted \cap Queued
         /\ Head(worker[w].batch).task \in CompensationTask
<1>1. Head(worker[w].batch) \in DOMAIN pending  BY HandPending
<1>2. Head(worker[w].batch) \in Known  BY <1>1 DEF Inv, Types, QueueTypes
<1>3. Head(worker[w].batch) \in QueuedEntries  BY <1>1 DEF QueuedEntries
<1>4. Head(worker[w].batch).task.payload \subseteq Queued  BY <1>3, Zenon DEF Queued
<1> QED  BY <1>2, <1>4, KnownFields

\* A step finishes records that were on their way, or one record is accepted.
Finishes == /\ Taken' = Taken /\ Done \subseteq Done'
            /\ Done' \subseteq Done \cup (accepted \cap (InMemory \cup Queued))

Accepts == Done' = Done /\ \E i \in Logs \ accepted : Taken' = Taken \cup {i}

\* What a request does to the records.
LEMMA RequestEffect ==
  ASSUME Inv, NEW p \in Workers, NEW i \in NextRequest(p), OnResponse(p, i) \/ CriticalFilterFailed(p, i)
  PROVE  Finishes \/ Accepts
<1>1. i \notin accepted  BY RequestItem DEF Inv, Types, LogTypes
<1>2. written' = written /\ dlq' = dlq  BY DEF OnResponse, CriticalFilterFailed
<1>3. Done' = Done  BY <1>2, Zenon DEF Done, DeadLettered
<1>4. CASE OnResponse(p, i)
  <2>1. i \in Logs /\ (accepted' = accepted \/ accepted' = accepted \cup {i})  BY <1>4 DEF OnResponse
  <2>2. Taken' = Taken \/ Taken' = Taken \cup {i}  BY <2>1 DEF Taken
  <2> QED  BY <1>1, <1>3, <2>1, <2>2 DEF Finishes, Accepts
<1>5. CASE CriticalFilterFailed(p, i)
  <2>1. i \notin Logs  BY <1>5, QueueAssumption DEF CriticalFilterFailed
  <2>2. accepted' = accepted \/ accepted' = accepted \cup {i}  BY <1>5 DEF CriticalFilterFailed
  <2>3. Taken' = Taken  BY <2>1, <2>2 DEF Taken
  <2> QED  BY <1>3, <2>3 DEF Finishes
<1> QED  BY <1>4, <1>5

\* What the batch loop does to the records.
LEMMA LoopEffect ==
  ASSUME Inv, NEW p \in Workers, LoopStep(p)
  PROVE  Finishes
<1>1. accepted' = accepted  BY DEF LoopStep, Receive, TickerFlush, Drain, Flush
<1>2. Taken' = Taken  BY <1>1 DEF Taken
<1>3. dlq' = dlq  BY DEF LoopStep, Receive, TickerFlush, Drain, Flush, queueVars
<1>4. CASE written' = written
  <2>1. Done' = Done  BY <1>3, <1>4, Zenon DEF Done, DeadLettered
  <2> QED  BY <1>2, <2>1 DEF Finishes
<1>5. CASE written' = Land(batch[p])
  <2>1. Types /\ batch[p] \subseteq accepted  BY DEF Inv, Types, LogTypes, Taken
  <2>2. Done' = Done \cup batch[p]  BY <1>3, <1>5, <2>1, LandDone
  <2>3. batch[p] \subseteq InMemory  BY DEF InMemory
  <2> QED  BY <1>2, <2>1, <2>2, <2>3 DEF Finishes
<1>6. written' = written \/ written' = Land(batch[p])
  BY DEF LoopStep, Receive, TickerFlush, Drain, Flush, queueVars
<1> QED  BY <1>4, <1>5, <1>6

\* What a worker does to the records.
LEMMA WorkerEffect ==
  ASSUME Inv, NEW p \in Workers, WorkerStep(p), UNCHANGED logVars
  PROVE  Finishes
<1>1. Types /\ Taken' = Taken  BY DEF Inv, Taken, logVars
<1>2. CASE written' = written /\ dlq' = dlq
  <2>1. Done' = Done  BY <1>2, Zenon DEF Done, DeadLettered
  <2> QED  BY <1>1, <2>1 DEF Finishes
<1>3. CASE Compensate(p)
  <2>1. PICK S : S = Head(worker[p].batch).task.payload  OBVIOUS
  <2>2. S \subseteq accepted \cap Queued
    <3>1. worker[p].pc = "handle"  BY <1>3 DEF Compensate
    <3> QED  BY <2>1, <3>1, HandQueued
  <2>3. dlq' = dlq /\ (written' = written \/ written' = Land(S))
    <3>1. CASE p \in cancelled  BY <1>3, <3>1 DEF Compensate
    <3>2. CASE p \notin cancelled
      <4>1. PICK o \in Outcomes(p) \cup {"err"} : Write(S, o)  BY <1>3, <2>1, <3>2, Zenon DEF Compensate
      <4>2. dlq' = dlq  BY <1>3 DEF Compensate
      <4> QED  BY <4>1, <4>2 DEF Write
    <3> QED  BY <3>1, <3>2
  <2>4. CASE written' = Land(S)
    <3>1. S \subseteq accepted  BY <2>2
    <3>2. Done' = Done \cup S  BY <1>1, <2>3, <2>4, <3>1, LandDone
    <3> QED  BY <1>1, <2>2, <3>2 DEF Finishes
  <2> QED  BY <1>2, <2>3, <2>4
<1>4. CASE HandleFailure(p)
  <2>1. PICK h : h = Head(worker[p].batch)  OBVIOUS
  <2>2. worker[p].pc = "failed" /\ written' = written  BY <1>4 DEF HandleFailure
  <2>3. h.task.payload \subseteq accepted \cap Queued /\ h.task \in CompensationTask  BY <2>1, <2>2, HandQueued
  <2>4. h \in Entry
    <3>1. h \in Known  BY <1>1, <2>1, <2>2, HeadBatch DEF Inv
    <3> QED  BY <3>1 DEF Known
  <2>5. \A n : [h EXCEPT !.attempt = n].task = h.task  BY <2>4 DEF Entry
  <2>6. dlq' = dlq \/ \E n : dlq' = Append(dlq, [h EXCEPT !.attempt = n].task)
    BY <1>4, <2>1, Zenon DEF HandleFailure
  <2>7. dlq' = dlq \/ dlq' = Append(dlq, h.task)  BY <2>5, <2>6, Zenon
  <2>8. CASE dlq' = Append(dlq, h.task)
    <3>1. dlq \in Seq(CompensationTask)  BY <1>1 DEF Types, QueueTypes
    <3>2. Range(dlq') = Range(dlq) \cup {h.task}  BY <2>3, <2>8, <3>1, RangeAppend
    <3>3. DeadLettered' = DeadLettered \cup h.task.payload  BY <3>2 DEF DeadLettered
    <3>4. Done' = Done \cup h.task.payload  BY <2>2, <3>3 DEF Done
    <3> QED  BY <1>1, <2>3, <3>4 DEF Finishes
  <2> QED  BY <1>2, <2>2, <2>7, <2>8
<1>5. ~Compensate(p) /\ ~HandleFailure(p) => written' = written /\ dlq' = dlq
  BY Zenon DEF WorkerStep, ClaimRange, ClaimAdd, ClaimRemove, ReadGroup, NoCompensator, Ack, WorkerExit
<1> QED  BY <1>2, <1>3, <1>4, <1>5

\* What any step does to the records.
LEMMA StepEffect ==
  ASSUME Inv, Next
  PROVE  Finishes \/ Accepts
<1>1. ASSUME UNCHANGED <<accepted, written, dlq>> PROVE Finishes
  <2>1. Done' = Done /\ Taken' = Taken  BY <1>1, Zenon DEF Done, DeadLettered, Taken
  <2> QED  BY <2>1 DEF Finishes
<1>2. CASE Second /\ UNCHANGED logVars  BY <1>1, <1>2 DEF Second, logVars
<1>3. ASSUME NEW p \in Workers, StopTasks(p) \/ Close(p) \/ Crash(p) \/ Restart(p)
      PROVE  UNCHANGED <<accepted, written, dlq>>
  BY <1>3 DEF StopTasks, Close, CloseAccessLog, ProcessExit, Crash, Restart, queueVars
<1>4. Step  BY DEF Next
<1> QED  BY <1>1, <1>2, <1>3, <1>4, RequestEffect, LoopEffect, WorkerEffect, Zenon DEF Step

\* Unless a fault interfered, what is owed is what was accepted and is not done.
LEMMA OwedTaken ==
  Inv => /\ Done \cap Logs \subseteq Taken
         /\ ~Broken => Owed \cap Logs = Taken \ Done
<1> SUFFICES ASSUME Inv
             PROVE  /\ Done \cap Logs \subseteq Taken
                    /\ ~Broken => Owed \cap Logs = Taken \ Done
  OBVIOUS
<1>1. Done \subseteq accepted  BY DEF Inv, Types, QueueTypes, Done
<1>2. Done \cap Logs \subseteq Taken  BY <1>1 DEF Taken
<1>3. ASSUME ~Broken, NEW i \in Taken \ Done PROVE i \in Owed
  <2>1. i \in InMemory \/ Safe(i, 0, 0)  BY <1>3 DEF Inv, Conserved
  <2>2. Safe(i, 0, 0) => i \in Queued
    <3>1. i \notin Done  BY <1>3
    <3>2. Ahead \subseteq QueuedEntries /\ Delayed \subseteq QueuedEntries
      BY Zenon DEF Ahead, Delayed, QueuedEntries
    <3> QED  BY <3>1, <3>2, Zenon DEF Safe, Queued
  <2>3. i \in accepted  BY <1>3 DEF Taken
  <2> QED  BY <1>3, <2>1, <2>2, <2>3 DEF Owed
<1>4. Owed \cap Logs \subseteq Taken \ Done  BY DEF Owed, Taken
<1>5. Taken \ Done \subseteq Logs  BY DEF Taken
<1> QED  BY <1>2, <1>3, <1>4, <1>5

\* Every step is a step of Delivery, or none.
LEMMA StepRefines ==
  ASSUME Inv, Inv', [Next]_<<vars, load>>,
         /\ Done' \cap Logs \subseteq Taken'
         /\ ~Broken' => Owed' \cap Logs = Taken' \ Done'
  PROVE  [Promise!Next]_Promise!vars
<1>1. CASE UNCHANGED <<vars, load>>
  <2>a. /\ stream' = stream /\ pending' = pending /\ delayed' = delayed /\ dlq' = dlq /\ load' = load
        /\ faults' = faults /\ written' = written /\ accepted' = accepted /\ stops' = stops
        /\ logChan' = logChan /\ batch' = batch
    BY <1>1 DEF vars, queueVars, logVars
  <2>b. Done' = Done /\ InMemory' = InMemory /\ Queued' = Queued
    BY <2>a, Zenon DEF Done, InMemory, Queued, QueuedEntries, DeadLettered
  <2>1. Owed' = Owed /\ Done' = Done /\ Broken' = Broken
    BY <2>a, <2>b, Zenon DEF Owed, Broken
  <2> QED  BY <2>1, Zenon DEF Promise!vars
<1>2. CASE Next
  <2>1. Paid /\ (Finishes \/ Accepts)  BY <1>2, PaidStep, StepEffect
  <2>2. Broken => Broken'  BY <2>1, PaidFaults DEF Inv
  <2>3. Done \subseteq Done'  BY <2>1 DEF Finishes, Accepts
  <2>4. CASE Broken'
    <3>1. Broken' = TRUE  BY <2>4
    <3>2. Done \cap Logs \subseteq Done' \cap Logs  BY <2>3
    <3>3. Done' \cap Logs \subseteq (Done \cap Logs) \cup (Owed \cap Logs)
      BY <2>1 DEF Finishes, Accepts, Owed
    <3>4. Owed' \cap Logs \in SUBSET Logs /\ (Owed' \cap Logs) \cap (Done' \cap Logs) = {}
      BY DEF Owed
    <3>5. Promise!Fail  BY <3>1, <3>2, <3>3, <3>4 DEF Promise!Fail
    <3> QED  BY <3>5 DEF Promise!Next
  <2>5. CASE ~Broken'
    <3>0. ~Broken  BY <2>2, <2>5
    <3>1. ~Broken /\ Broken' = Broken  BY <2>5, <3>0 DEF Broken
    <3>2. /\ Owed \cap Logs = Taken \ Done /\ Done \cap Logs \subseteq Taken
          /\ Owed' \cap Logs = Taken' \ Done'
      BY <2>5, <3>1, OwedTaken
    <3>3. CASE Finishes
      <4> DEFINE R == (Done' \ Done) \cap Logs
      <4>1. R \in SUBSET Logs /\ R \subseteq Owed \cap Logs  BY <3>2, <3>3 DEF Finishes
      <4>2. Owed' \cap Logs = (Owed \cap Logs) \ R  BY <3>2, <3>3 DEF Finishes, Taken
      <4>3. Done' \cap Logs = (Done \cap Logs) \cup R  BY <2>3
      <4> HIDE DEF R
      <4>4. Promise!Finish(R)  BY <3>1, <4>1, <4>2, <4>3 DEF Promise!Finish
      <4> QED  BY <4>1, <4>4 DEF Promise!Next
    <3>4. CASE Accepts
      <4>1. PICK i \in Logs \ accepted : Taken' = Taken \cup {i}  BY <3>4 DEF Accepts
      <4>2. {i} \in SUBSET Logs  BY <4>1
      <4>3. i \notin Taken  BY <4>1 DEF Taken
      <4>4. {i} \cap ((Owed \cap Logs) \cup (Done \cap Logs)) = {}  BY <3>2, <4>3
      <4>5. Done' = Done  BY <3>4 DEF Accepts
      <4>6. i \notin Done  BY <3>2, <4>1, <4>3
      <4>7. Owed' \cap Logs = (Owed \cap Logs) \cup {i}  BY <3>2, <4>1, <4>5, <4>6
      <4>8. Promise!Accept({i})  BY <3>1, <4>4, <4>5, <4>7 DEF Promise!Accept
      <4> QED  BY <4>2, <4>8 DEF Promise!Next
    <3> QED  BY <2>1, <3>3, <3>4
  <2> QED  BY <2>4, <2>5
<1> QED  BY <1>1, <1>2

\* The initial states are those of Delivery.
LEMMA InitRefines ==
  ASSUME Init
  PROVE  Promise!Init
<1>1. /\ load.faults \in Nat /\ faults = load.faults /\ stops = 0
      /\ dlq = <<>> /\ written = [i \in Items |-> 0] /\ accepted = {}
  BY AccessLogAssumption DEF Init, QueueInit
<1>2. Owed = {}  BY <1>1 DEF Owed
<1>3. Done = {}  BY <1>1 DEF Done, DeadLettered, Range
<1>4. Broken = FALSE  BY <1>1 DEF Broken
<1> QED  BY <1>2, <1>3, <1>4 DEF Promise!Init

\* The access-log pipeline keeps the promise of Delivery: a record the filter
\* accepted stays owed until it is written to ClickHouse or on the dead-letter
\* stream, through the channel, the batches, the overflow path, the stream, the
\* retries of any number of workers, and orderly shutdowns; it can be lost only
\* after a failing Redis command, a lost reply or a crash.
THEOREM Refinement == Spec => KeepsPromise
<1>1. Init => Promise!Init  BY InitRefines
<1>2. Inv => /\ Done \cap Logs \subseteq Taken
             /\ ~Broken => Owed \cap Logs = Taken \ Done
  BY OwedTaken
<1>3. Inv' => (/\ Done \cap Logs \subseteq Taken
               /\ ~Broken => Owed \cap Logs = Taken \ Done)'
  BY <1>2, PTL
<1>4. Inv /\ Inv' /\ [Next]_<<vars, load>> => [Promise!Next]_Promise!vars
  BY <1>3, StepRefines
<1> QED  BY <1>1, <1>4, Invariance, PTL DEF Spec, KeepsPromise, Promise!Spec

=============================================================================
