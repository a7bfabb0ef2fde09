------------------------ MODULE AccessLogStepProofs ------------------------
(***************************************************************************)
(* The inductive invariant of AccessLog, for any number of processes,      *)
(* records, retries and faults, and that it survives the steps of requests,*)
(* of the batch loops, of shutdowns, crashes and restarts, and those by    *)
(* which a worker claims a delayed item and compensates it.                *)
(***************************************************************************)
EXTENDS AccessLog, FiniteSetTheorems, TLAPS

-----------------------------------------------------------------------------
(* The inductive invariant.                                                *)

\* The entries that can be in the queue: their items have been accepted, and
\* are access-log records or not as the filter says.
Known ==
    {e \in Entry : /\ e.task.payload \subseteq accepted
                   /\ e.task.filter = "access_log" => e.task.payload \subseteq Logs
                   /\ e.task.filter # "access_log" => e.task.payload \subseteq Settlements}

Member == [entry : Known, left : Nat, stamp : Stamps]

PC == {"idle", "claim", "remove", "read", "handle", "failed", "ack", "exited"}

WorkerState == [pc : PC, due : Seq(Member), batch : Seq(Known)]

\* The records of the access log that have been accepted.
Taken == Logs \cap accepted

QueueTypes ==
    /\ stream \in Seq(Known)
    /\ pending \in [DOMAIN pending -> Nat \ {0}] /\ DOMAIN pending \subseteq Known
    /\ delayed \subseteq Member /\ IsFiniteSet(delayed)
    /\ dlq \in Seq(CompensationTask) /\ DeadLettered \subseteq accepted
    /\ worker \in [Workers -> WorkerState]
    /\ cancelled \subseteq Workers
    /\ faults \in Nat /\ outages \in Nat
    /\ written \in [Items -> Nat]
    /\ \A i \in Items : written[i] > 0 => i \in accepted

LogTypes ==
    /\ proc \in [Workers -> {"up", "stopping", "closing", "down"}]
    /\ logChan \in [Workers -> Seq(Taken)]
    /\ batch \in [Workers -> SUBSET Taken]
    /\ loop \in [Workers -> {"run", "flush", "drain", "drainFlush", "lastFlush", "done"}]
    /\ seen \subseteq Items /\ accepted \subseteq seen
    /\ stops \in Nat
    /\ load \in Workloads

Types == QueueTypes /\ LogTypes

\* What a worker holds at each of its steps.
WorkerShape ==
    \A w \in Workers :
        /\ Len(worker[w].batch) <= ReadCount
        /\ worker[w].pc \in {"claim", "remove"} => worker[w].due # <<>>
        /\ worker[w].pc \in {"handle", "failed", "ack"} => worker[w].batch # <<>>
        /\ worker[w].pc \notin {"handle", "failed", "ack"} => worker[w].batch = <<>>

\* The loop drains only a closed filter, and has nothing left when it returns.
LoopShape ==
    \A p \in Workers :
        /\ loop[p] \in {"drain", "drainFlush", "lastFlush", "done"} => proc[p] \in {"closing", "down"}
        /\ loop[p] \in {"lastFlush", "done"} => logChan[p] = <<>>
        /\ loop[p] = "done" => batch[p] = {}
        /\ proc[p] = "down" => loop[p] = "done"

\* Nothing has failed, nobody crashed or was shut down.
Clean == faults = load.faults

\* A shutdown is paid for like a fault, and only they cancel a worker.
Accounts ==
    /\ load.faults - faults >= stops
    /\ Clean => cancelled = {} /\ \A p \in Workers : proc[p] = "up"

\* What workers hold is pending; in a clean run nothing else is.
Held ==
    \A e \in Entry :
        /\ Cardinality(Holders(e)) <= Copies(e)
        /\ Clean => Cardinality(Holders(e)) = Copies(e)

\* The entries a worker will still be handed or has in hand.
Ahead == Range(stream) \cup DOMAIN pending

Delayed == {m.entry : m \in delayed}

\* Item i is done, or on its way: in the stream or pending with at least a
\* attempts behind it, or delayed with at least b.
Safe(i, a, b) ==
    \/ i \in Done
    \/ \E e \in Ahead : i \in e.task.payload /\ e.attempt >= a
    \/ \E e \in Delayed : i \in e.task.payload /\ e.attempt >= b

\* Without a fault no accepted record is lost.
Conserved == ~Broken => \A i \in Taken : i \in InMemory \/ Safe(i, 0, 0)

\* A member that is about to be removed from the delayed set is on the stream,
\* or has moved on from there.
RemoveSafe(w) ==
    LET e == Head(worker[w].due).entry
    IN  \A i \in e.task.payload \cap Logs : Safe(i, e.attempt, e.attempt + 1)

Removing == ~Broken => \A w \in Workers : worker[w].pc = "remove" => RemoveSafe(w)

\* An entry that is about to be acknowledged is done, or its next attempt is on
\* its way.  A worker whose context is cancelled cannot acknowledge.
AckSafe(w) ==
    LET e == Head(worker[w].batch)
    IN  \A i \in e.task.payload \cap Logs : Safe(i, e.attempt + 1, e.attempt + 1)

Acking == ~Broken => \A w \in Workers \ cancelled : worker[w].pc = "ack" => AckSafe(w)

Inv == /\ Types /\ WorkerShape /\ LoopShape /\ Accounts
       /\ Held /\ Conserved /\ Removing /\ Acking

-----------------------------------------------------------------------------
(* Sequences and pending entries.                                                     *)

\* Appending adds one element.
LEMMA RangeAppend ==
  ASSUME NEW S, NEW s \in Seq(S), NEW e \in S
  PROVE  Range(Append(s, e)) = Range(s) \cup {e}
<1>2. DOMAIN Append(s, e) = 1..(Len(s) + 1)  OBVIOUS
<1>3. \A i \in 1..Len(s) : Append(s, e)[i] = s[i]  OBVIOUS
<1>4. Append(s, e)[Len(s) + 1] = e  OBVIOUS
<1>5. DOMAIN s = 1..Len(s)  OBVIOUS
<1>6. Len(s) \in Nat  OBVIOUS
<1>7. (1..(Len(s) + 1)) = (1..Len(s)) \cup {Len(s) + 1}  BY <1>6
<1> QED  BY ONLY <1>2, <1>3, <1>4, <1>5, <1>7 DEF Range

\* Head and tail of a sequence have its elements.
LEMMA RangeTail ==
  ASSUME NEW S, NEW s \in Seq(S), s # <<>>
  PROVE  /\ Range(s) = {Head(s)} \cup Range(Tail(s))
         /\ Head(s) \in S /\ Tail(s) \in Seq(S)
         /\ Len(Tail(s)) = Len(s) - 1
<1>1. Head(s) \in S /\ Tail(s) \in Seq(S) /\ Len(Tail(s)) = Len(s) - 1  OBVIOUS
<1>2. Head(s) = s[1]  OBVIOUS
<1>3. Len(s) \in Nat \ {0}  OBVIOUS
<1>4. \A i \in 1..(Len(s) - 1) : Tail(s)[i] = s[i + 1]  OBVIOUS
<1>5. DOMAIN Tail(s) = 1..(Len(s) - 1)  OBVIOUS
<1>6. DOMAIN s = 1..Len(s)  OBVIOUS
<1>7. Range(s) \subseteq {Head(s)} \cup Range(Tail(s))
  <2> SUFFICES ASSUME NEW i \in 1..Len(s)
               PROVE  s[i] = Head(s) \/ \E j \in 1..(Len(s) - 1) : Tail(s)[j] = s[i]
    BY <1>5, <1>6, Zenon DEF Range
  <2>1. CASE i = 1  BY <2>1, <1>2
  <2>2. CASE i # 1
    <3>1. i - 1 \in 1..(Len(s) - 1)  BY <2>2, <1>3
    <3>2. Tail(s)[i - 1] = s[i]  BY <3>1, <1>4, <1>3
    <3> QED  BY <3>1, <3>2, Zenon
  <2> QED  BY <2>1, <2>2
<1>8. Range(Tail(s)) \subseteq Range(s)  BY <1>3, <1>4, <1>5, <1>6 DEF Range
<1>9. Head(s) \in Range(s)  BY <1>2, <1>3, <1>6 DEF Range
<1> QED  BY <1>1, <1>7, <1>8, <1>9

\* A sequence over a set is one over every larger set.
LEMMA SeqWider ==
  ASSUME NEW S, NEW T, S \subseteq T
  PROVE  Seq(S) \subseteq Seq(T)
  OBVIOUS

\* Only the empty sequence has no elements.
LEMMA EmptyLength ==
  ASSUME NEW S, NEW s \in Seq(S)
  PROVE  s = <<>> <=> Len(s) = 0
  OBVIOUS

\* A sequence cut in two.
LEMMA RangeCut ==
  ASSUME NEW S, NEW s \in Seq(S), NEW n \in 0..Len(s)
  PROVE  /\ SubSeq(s, 1, n) \in Seq(S) /\ SubSeq(s, n + 1, Len(s)) \in Seq(S)
         /\ Len(SubSeq(s, 1, n)) = n
         /\ Range(s) = Range(SubSeq(s, 1, n)) \cup Range(SubSeq(s, n + 1, Len(s)))
<1> DEFINE a == SubSeq(s, 1, n)
           b == SubSeq(s, n + 1, Len(s))
<1>1. Len(s) \in Nat /\ n \in Nat /\ n <= Len(s)  OBVIOUS
<1>2. a \in Seq(S) /\ b \in Seq(S)  BY <1>1
<1>3. Len(a) = n /\ Len(b) = Len(s) - n  BY <1>1
<1>4. \A i \in 1..n : a[i] = s[i]  BY <1>1
<1>5. \A i \in 1..(Len(s) - n) : b[i] = s[n + i]  BY <1>1
<1>6. DOMAIN a = 1..n /\ DOMAIN b = 1..(Len(s) - n) /\ DOMAIN s = 1..Len(s)  BY <1>2, <1>3
<1> HIDE DEF a, b
<1>7. Range(s) \subseteq Range(a) \cup Range(b)
  <2> SUFFICES ASSUME NEW i \in 1..Len(s)
               PROVE  (\E j \in 1..n : a[j] = s[i]) \/ (\E j \in 1..(Len(s) - n) : b[j] = s[i])
    BY <1>6, Zenon DEF Range
  <2>1. CASE i <= n  BY <2>1, <1>1, <1>4
  <2>2. CASE i > n
    <3>1. i - n \in 1..(Len(s) - n) /\ n + (i - n) = i  BY <2>2, <1>1
    <3> QED  BY <3>1, <1>5, Zenon
  <2> QED  BY <2>1, <2>2, <1>1
<1>8. Range(a) \subseteq Range(s)  BY <1>1, <1>4, <1>6 DEF Range
<1>9. Range(b) \subseteq Range(s)
  <2> SUFFICES ASSUME NEW i \in 1..(Len(s) - n) PROVE \E j \in 1..Len(s) : s[j] = b[i]
    BY <1>6, Zenon DEF Range
  <2>1. n + i \in 1..Len(s)  BY <1>1
  <2> QED  BY <2>1, <1>5
<1>10. Range(s) = Range(a) \cup Range(b)  BY <1>7, <1>8, <1>9
<1> QED  BY <1>2, <1>3, <1>10 DEF a, b

\* A sequence has finitely many indices.
LEMMA FiniteIndices ==
  ASSUME NEW S, NEW s \in Seq(S)
  PROVE  IsFiniteSet(DOMAIN s)
<1>1. DOMAIN s = 1..Len(s) /\ Len(s) \in Int  OBVIOUS
<1>2. IsFiniteSet(1..Len(s))  BY <1>1, FS_Interval
<1> QED  BY <1>1, <1>2

\* What becomes of the pending entries when some are delivered.
LEMMA Delivery1 ==
  ASSUME NEW S, NEW s \in Seq(S), pending \in [DOMAIN pending -> Nat \ {0}], Deliver(s)
  PROVE  /\ pending' \in [DOMAIN pending' -> Nat \ {0}] /\ DOMAIN pending' = DOMAIN pending \cup Range(s)
         /\ \A y : Copies(y)' = Copies(y) + Cardinality({k \in DOMAIN s : s[k] = y})
         /\ \A y : Copies(y) \in Nat
<1> DEFINE At(y) == {k \in DOMAIN s : s[k] = y}
<1>1. \A y : IsFiniteSet(At(y))
  <2>1. IsFiniteSet(DOMAIN s)  BY FiniteIndices
  <2> QED  BY <2>1, FS_Subset
<1>2. \A y : Cardinality(At(y)) \in Nat  BY <1>1, FS_CardinalityType, Zenon
<1>3. \A y : y \in Range(s) <=> At(y) # {}  BY Zenon DEF Range
<1>4. \A y : y \in Range(s) <=> Cardinality(At(y)) # 0
  <2> HIDE DEF At
  <2> QED  BY <1>1, <1>3, FS_EmptySet
<1>5. \A y : Copies(y) \in Nat  BY DEF Copies
<1>6. \A y \in DOMAIN pending : Copies(y) \in Nat \ {0}  BY DEF Copies
<1>7. pending' = [y \in DOMAIN pending \cup Range(s) |-> Copies(y) + Cardinality(At(y))]  BY DEF Deliver
<1> HIDE DEF At
<1>8. DOMAIN pending' = DOMAIN pending \cup Range(s)  BY <1>7
<1>9. \A y \in DOMAIN pending' : pending'[y] = Copies(y) + Cardinality(At(y))  BY <1>7, <1>8
<1>10. \A y \in DOMAIN pending' : Copies(y) + Cardinality(At(y)) \in Nat \ {0}
  BY <1>2, <1>4, <1>5, <1>6, <1>8
<1>11. pending' \in [DOMAIN pending' -> Nat \ {0}]  BY <1>7, <1>8, <1>9, <1>10
<1>12. ASSUME NEW y PROVE Copies(y)' = Copies(y) + Cardinality(At(y))
  <2>1. CASE y \in DOMAIN pending'  BY <2>1, <1>9 DEF Copies
  <2>2. CASE y \notin DOMAIN pending'
    <3>1. Copies(y)' = 0 /\ Copies(y) = 0  BY <2>2, <1>8 DEF Copies
    <3>2. Cardinality(At(y)) = 0  BY <2>2, <1>4, <1>8
    <3> QED  BY <3>1, <3>2
  <2> QED  BY <2>1, <2>2
<1> QED  BY <1>5, <1>8, <1>11, <1>12 DEF At

\* What becomes of them when one is acknowledged.
LEMMA Acknowledge1 ==
  ASSUME NEW x, pending \in [DOMAIN pending -> Nat \ {0}], Acknowledge(x)
  PROVE  /\ pending' \in [DOMAIN pending' -> Nat \ {0}]
         /\ DOMAIN pending' \subseteq DOMAIN pending /\ DOMAIN pending \subseteq DOMAIN pending' \cup {x}
         /\ \A y : y # x => Copies(y)' = Copies(y)
         /\ Copies(x) > 0 => Copies(x)' = Copies(x) - 1
<1> DEFINE D == {e \in DOMAIN pending : e # x \/ pending[e] > 1}
<1>1. pending' = [e \in D |-> IF e = x THEN pending[e] - 1 ELSE pending[e]]  BY DEF Acknowledge
<1>2. D \subseteq DOMAIN pending /\ DOMAIN pending \subseteq D \cup {x}  OBVIOUS
<1>3. \A e \in D : e # x \/ pending[e] > 1  OBVIOUS
<1>4. x \in DOMAIN pending => x \in D \/ pending[x] = 1  OBVIOUS
<1> HIDE DEF D
<1>5. DOMAIN pending' = D  BY <1>1
<1>6. \A e \in D : pending'[e] = IF e = x THEN pending[e] - 1 ELSE pending[e]  BY <1>1
<1>7. pending' \in [D -> Nat \ {0}]  BY <1>1, <1>2, <1>3
<1>8. ASSUME NEW y, y # x PROVE Copies(y)' = Copies(y)  BY <1>2, <1>5, <1>6, <1>8 DEF Copies
<1>9. ASSUME Copies(x) > 0 PROVE Copies(x)' = Copies(x) - 1
  <2>1. x \in DOMAIN pending /\ Copies(x) = pending[x]  BY <1>9 DEF Copies
  <2>2. CASE x \in D  BY <2>1, <2>2, <1>5, <1>6 DEF Copies
  <2>3. CASE x \notin D  BY <2>1, <2>3, <1>4, <1>5 DEF Copies
  <2> QED  BY <2>2, <2>3
<1> QED  BY <1>2, <1>5, <1>7, <1>8, <1>9

-----------------------------------------------------------------------------
(* How the parts of the invariant carry over.                              *)

\* Worker w goes to pc a with the lists d and b.
Moved(w, a, d, b) == worker' = [worker EXCEPT ![w] = [pc |-> a, due |-> d, batch |-> b]]

\* Every failure, crash and shutdown is paid for.
Paid == /\ load' = load
        /\ faults' \in Nat /\ faults' <= faults
        /\ stops' \in Nat /\ faults - faults' >= stops' - stops

\* What was safe is.
Keeps ==
    \A i \in Logs : \A a \in Nat : \A b \in {a, a + 1} : Safe(i, a, b) => Safe(i, a, b)'

\* More accepted items, more entries.
LEMMA KnownGrows ==
  ASSUME accepted \subseteq accepted'
  PROVE  /\ Known \subseteq Known' /\ Member \subseteq Member' /\ Taken \subseteq Taken'
         /\ Seq(Known) \subseteq Seq(Known') /\ Seq(Member) \subseteq Seq(Member')
         /\ Seq(Taken) \subseteq Seq(Taken')
<1>1. Known \subseteq Known'  BY DEF Known
<1>2. Member \subseteq Member'
  <2> HIDE DEF Known
  <2> QED  BY <1>1 DEF Member, Stamps
<1>3. Taken \subseteq Taken'  BY DEF Taken
<1> HIDE DEF Known, Member, Taken
<1> QED  BY <1>1, <1>2, <1>3, SeqWider, Zenon

\* Types carries over to more accepted items.
LEMMA TypesGrow ==
  ASSUME Types, accepted \subseteq accepted'
  PROVE  /\ stream \in Seq(Known') /\ DOMAIN pending \subseteq Known' /\ delayed \subseteq Member'
         /\ worker \in [Workers -> WorkerState']
         /\ logChan \in [Workers -> Seq(Taken')] /\ batch \in [Workers -> SUBSET Taken']
<1>1. /\ stream \in Seq(Known) /\ DOMAIN pending \subseteq Known /\ delayed \subseteq Member
      /\ worker \in [Workers -> WorkerState]
      /\ logChan \in [Workers -> Seq(Taken)] /\ batch \in [Workers -> SUBSET Taken]
  BY DEF Types, QueueTypes, LogTypes
<1>2. WorkerState \subseteq WorkerState'
  <2>1. Seq(Known) \subseteq Seq(Known') /\ Seq(Member) \subseteq Seq(Member')  BY KnownGrows
  <2> QED  BY <2>1 DEF WorkerState, PC
<1>3. stream \in Seq(Known') /\ DOMAIN pending \subseteq Known' /\ delayed \subseteq Member'
  BY <1>1, KnownGrows
<1>4. worker \in [Workers -> WorkerState']  BY <1>1, <1>2
<1>5. logChan \in [Workers -> Seq(Taken')]
  <2>1. Seq(Taken) \subseteq Seq(Taken')  BY KnownGrows
  <2> QED  BY <2>1, <1>1
<1>6. batch \in [Workers -> SUBSET Taken']
  <2>1. Taken \subseteq Taken'  BY KnownGrows
  <2> QED  BY <2>1, <1>1
<1> QED  BY <1>3, <1>4, <1>5, <1>6

\* A step of the queue leaves the filter alone.
LEMMA LogSame ==
  ASSUME Types, LoopShape, UNCHANGED logVars, load' = load
  PROVE  /\ LogTypes' /\ LoopShape' /\ Known' = Known /\ Member' = Member /\ Taken' = Taken
         /\ WorkerState' = WorkerState /\ InMemory' = InMemory /\ stops' = stops
         /\ proc' = proc /\ accepted' = accepted
<1>1. /\ proc' = proc /\ logChan' = logChan /\ batch' = batch /\ loop' = loop /\ seen' = seen
      /\ accepted' = accepted /\ stops' = stops  BY DEF logVars
<1>2. Known' = Known  BY <1>1 DEF Known
<1>3. Member' = Member  BY <1>2 DEF Member
<1>4. Taken' = Taken  BY <1>1 DEF Taken
<1>5. WorkerState' = WorkerState  BY <1>2, <1>3 DEF WorkerState
<1>6. InMemory' = InMemory  BY <1>1 DEF InMemory
<1>7. LogTypes'  BY <1>1, <1>4 DEF Types, LogTypes
<1>8. LoopShape'  BY <1>1 DEF LoopShape
<1> QED  BY <1>1, <1>2, <1>3, <1>4, <1>5, <1>6, <1>7, <1>8

\* Where one worker moves.
LEMMA MovedShape ==
  ASSUME Types, WorkerShape, NEW w \in Workers, NEW a \in PC, NEW d \in Seq(Member'), NEW b \in Seq(Known'),
         accepted \subseteq accepted', Moved(w, a, d, b), Len(b) <= ReadCount,
         a \in {"claim", "remove"} => d # <<>>, a \in {"handle", "failed", "ack"} <=> b # <<>>
  PROVE  /\ worker' \in [Workers -> WorkerState'] /\ WorkerShape'
         /\ worker'[w].pc = a /\ worker'[w].due = d /\ worker'[w].batch = b
         /\ \A v \in Workers \ {w} : worker'[v] = worker[v]
<1>1. worker \in [Workers -> WorkerState']  BY TypesGrow
<1>2. [pc |-> a, due |-> d, batch |-> b] \in WorkerState'  BY DEF WorkerState, PC
<1>3. worker' \in [Workers -> WorkerState']  BY <1>1, <1>2 DEF Moved
<1>4. worker'[w] = [pc |-> a, due |-> d, batch |-> b]  BY <1>1 DEF Moved
<1>5. \A v \in Workers \ {w} : worker'[v] = worker[v]  BY <1>1 DEF Moved
<1>6. worker'[w].pc = a /\ worker'[w].due = d /\ worker'[w].batch = b  BY <1>4
<1>7. WorkerShape'  BY <1>5, <1>6 DEF WorkerShape
<1> QED  BY <1>3, <1>5, <1>6, <1>7

\* A worker that stays where it is.
LEMMA StayShape ==
  ASSUME Types, WorkerShape, worker' = worker, accepted \subseteq accepted'
  PROVE  worker' \in [Workers -> WorkerState'] /\ WorkerShape'
<1>1. worker \in [Workers -> WorkerState']  BY TypesGrow
<1>2. WorkerShape'  BY DEF WorkerShape
<1> QED  BY <1>1, <1>2

\* The arithmetic behind Paid.
LEMMA PaidArithmetic ==
  ASSUME NEW n \in Nat, NEW f \in Nat, NEW g \in Nat, NEW s \in Nat, NEW t \in Nat,
         n - f >= s, g <= f, f - g >= t - s
  PROVE  n - g >= t /\ (n - f > s => n - g > t) /\ (g = n => f = n)
  OBVIOUS

\* Without a shutdown, spending faults pays.
LEMMA PaidSame ==
  ASSUME Types, load' = load, stops' = stops, faults' \in Nat, faults' <= faults
  PROVE  Paid
<1>1. faults \in Nat /\ stops \in Nat  BY DEF Types, QueueTypes, LogTypes
<1>2. ASSUME NEW f \in Nat, NEW g \in Nat, NEW s \in Nat, g <= f PROVE f - g >= s - s  BY <1>2
<1>3. faults - faults' >= stops - stops  BY <1>1, <1>2, Zenon
<1> QED  BY <1>1, <1>3, Zenon DEF Paid

\* Broken is for good, and a run that is clean was clean.
LEMMA PaidFaults ==
  ASSUME Types, Accounts, Paid
  PROVE  load.faults - faults' >= stops' /\ (Broken => Broken') /\ (Clean' => Clean)
<1>1. load.faults \in Nat  BY AccessLogAssumption DEF Types, LogTypes
<1>2. faults \in Nat /\ stops \in Nat  BY DEF Types, QueueTypes, LogTypes
<1>3. PICK n : n = load.faults  OBVIOUS
<1>4. n - faults >= stops  BY <1>3 DEF Accounts
<1>5. /\ faults' \in Nat /\ faults' <= faults
      /\ stops' \in Nat /\ faults - faults' >= stops' - stops
  BY Zenon DEF Paid
<1>6. load'.faults = n  BY <1>3, Zenon DEF Paid
<1>0. n \in Nat  BY <1>1, <1>3, Zenon
<1>7. /\ n - faults' >= stops'
      /\ n - faults > stops => n - faults' > stops'
      /\ faults' = n => faults = n
  BY <1>0, <1>2, <1>4, <1>5, PaidArithmetic, Zenon
<1> QED  BY <1>3, <1>6, <1>7 DEF Broken, Clean

\* A record stays safe when nothing is taken away.
LEMMA SafeGrows ==
  ASSUME Done \subseteq Done', Ahead \subseteq Ahead', Delayed \subseteq Delayed'
  PROVE  Keeps
<1> SUFFICES ASSUME NEW i \in Logs, NEW a \in Nat, NEW b \in {a, a + 1}, Safe(i, a, b)
             PROVE  Safe(i, a, b)'
  BY Zenon DEF Keeps
<1> QED  BY Zenon DEF Safe

\* Held only concerns the pending entries and the batches in hand.
LEMMA HeldSame ==
  ASSUME Held, pending' = pending, \A w \in Workers : worker'[w].batch = worker[w].batch, Clean' => Clean
  PROVE  Held'
<1>1. ASSUME NEW e PROVE Holders(e)' = Holders(e)
  <2>1. \A h \in Workers \X (1..ReadCount) : h[1] \in Workers  OBVIOUS
  <2> QED  BY <2>1, Zenon DEF Holders
<1>2. ASSUME NEW e PROVE Copies(e)' = Copies(e)  BY DEF Copies
<1> QED  BY <1>1, <1>2 DEF Held

\* The fields of an entry.
LEMMA KnownFields ==
  ASSUME NEW e \in Known
  PROVE  /\ e \in Entry /\ e.task \in CompensationTask /\ e.attempt \in Nat
         /\ e.attempt \in 0..MaxRetries /\ e.task.payload \subseteq accepted
<1>1. e \in Entry /\ e.task.payload \subseteq accepted  BY DEF Known
<1>2. e.task \in CompensationTask /\ e.attempt \in 0..MaxRetries  BY <1>1 DEF Entry
<1>3. e.attempt \in Nat  BY <1>2, QueueAssumption
<1> QED  BY <1>1, <1>2, <1>3

\* The attempt count of what a worker has in hand.
LEMMA HeadDue ==
  ASSUME Types, WorkerShape, NEW w \in Workers, worker[w].pc \in {"claim", "remove"}
  PROVE  /\ worker[w].due \in Seq(Member) /\ worker[w].due # <<>>
         /\ Head(worker[w].due) \in Member
         /\ Head(worker[w].due).entry \in Known /\ Head(worker[w].due).entry.attempt \in Nat
<1>1. worker[w].due \in Seq(Member) /\ worker[w].due # <<>>
  BY DEF Types, QueueTypes, WorkerState, WorkerShape
<1>2. Head(worker[w].due) \in Member  BY <1>1
<1>3. Head(worker[w].due).entry \in Known  BY <1>2 DEF Member
<1>4. Head(worker[w].due).entry.attempt \in Nat  BY <1>3, KnownFields
<1> QED  BY <1>1, <1>2, <1>3, <1>4

\* The same for the batch.
LEMMA HeadBatch ==
  ASSUME Types, WorkerShape, NEW w \in Workers, worker[w].pc \in {"handle", "failed", "ack"}
  PROVE  /\ worker[w].batch \in Seq(Known) /\ worker[w].batch # <<>>
         /\ Head(worker[w].batch) \in Known /\ Head(worker[w].batch).attempt \in Nat
<1>1. worker[w].batch \in Seq(Known) /\ worker[w].batch # <<>>
  BY DEF Types, QueueTypes, WorkerState, WorkerShape
<1>2. Head(worker[w].batch) \in Known  BY <1>1
<1>3. Head(worker[w].batch).attempt \in Nat  BY <1>2, KnownFields
<1> QED  BY <1>1, <1>2, <1>3

\* The fate of records, from one step to the next.
LEMMA FateKept ==
  ASSUME Inv, Paid, Broken' \/ Keeps,
         ~Broken' => \A i \in Taken' : \/ i \in Taken \ InMemory
                                       \/ i \in InMemory' \/ Safe(i, 0, 0)',
         ~Broken' => \A v \in Workers : worker'[v].pc = "remove" =>
             (worker[v].pc = "remove" /\ worker'[v].due = worker[v].due) \/ RemoveSafe(v)',
         ~Broken' => \A v \in Workers \ cancelled' : worker'[v].pc = "ack" =>
             \/ v \notin cancelled /\ worker[v].pc = "ack" /\ worker'[v].batch = worker[v].batch
             \/ AckSafe(v)'
  PROVE  Conserved' /\ Removing' /\ Acking'
<1>1. CASE Broken'  BY <1>1, Zenon DEF Conserved, Removing, Acking
<1>2. CASE ~Broken'
  <2>1. ~Broken /\ Keeps  BY <1>2, PaidFaults DEF Inv
  <2>2. ASSUME NEW i \in Taken' PROVE i \in InMemory' \/ Safe(i, 0, 0)'
    <3>1. CASE i \in Taken \ InMemory
      <4>1. Safe(i, 0, 0)  BY <2>1, <3>1 DEF Inv, Conserved
      <4>2. i \in Logs  BY <3>1 DEF Taken
      <4> QED  BY <2>1, <4>1, <4>2 DEF Keeps
    <3> QED  BY <1>2, <2>2, <3>1
  <2>3. ASSUME NEW v \in Workers, worker'[v].pc = "remove" PROVE RemoveSafe(v)'
    <3> SUFFICES ASSUME worker[v].pc = "remove", worker'[v].due = worker[v].due PROVE RemoveSafe(v)'
      BY <1>2, <2>3, Zenon
    <3>1. PICK e : e = Head(worker[v].due).entry  OBVIOUS
    <3>2. e.attempt \in Nat  BY <3>1, HeadDue DEF Inv
    <3>3. ASSUME NEW i \in e.task.payload \cap Logs PROVE Safe(i, e.attempt, e.attempt + 1)'
      <4>1. Safe(i, e.attempt, e.attempt + 1)  BY <2>1, <3>1, Zenon DEF Inv, Removing, RemoveSafe
      <4> QED  BY <2>1, <3>2, <4>1, Zenon DEF Keeps
    <3> QED  BY <3>1, <3>3, Zenon DEF RemoveSafe
  <2>4. ASSUME NEW v \in Workers \ cancelled', worker'[v].pc = "ack" PROVE AckSafe(v)'
    <3> SUFFICES ASSUME v \notin cancelled, worker[v].pc = "ack", worker'[v].batch = worker[v].batch
                 PROVE  AckSafe(v)'
      BY <1>2, <2>4, Zenon
    <3>1. PICK e : e = Head(worker[v].batch)  OBVIOUS
    <3>2. e.attempt + 1 \in Nat  BY <3>1, HeadBatch DEF Inv
    <3>3. ASSUME NEW i \in e.task.payload \cap Logs PROVE Safe(i, e.attempt + 1, e.attempt + 1)'
      <4>1. Safe(i, e.attempt + 1, e.attempt + 1)  BY <2>1, <3>1, Zenon DEF Inv, Acking, AckSafe
      <4> QED  BY <2>1, <3>2, <4>1, Zenon DEF Keeps
    <3> QED  BY <3>1, <3>3, Zenon DEF AckSafe
  <2> QED  BY <2>2, <2>3, <2>4, Zenon DEF Conserved, Removing, Acking
<1> QED  BY <1>1, <1>2

-----------------------------------------------------------------------------
(* The filter and the processes.                                           *)

\* A new entry has its items.
LEMMA NewKnown ==
  ASSUME NEW S, S \subseteq accepted', accepted' \subseteq Items
  PROVE  /\ S \subseteq Logs => NewEntry("access_log", S) \in Known'
         /\ S \subseteq Settlements => NewEntry("token_settlement", S) \in Known'
         /\ \A f : NewEntry(f, S).task.payload = S /\ NewEntry(f, S).attempt = 0
<1>1. \A f \in FilterName : NewEntry(f, S) \in Entry
  BY QueueAssumption DEF NewEntry, Entry, CompensationTask
<1>2. \A f : /\ NewEntry(f, S).task.payload = S /\ NewEntry(f, S).attempt = 0
             /\ NewEntry(f, S).task.filter = f
  BY DEF NewEntry
<1>3. S \subseteq Logs => NewEntry("access_log", S) \in Known'
  BY <1>1, <1>2 DEF Known, FilterName
<1>4. S \subseteq Settlements => NewEntry("token_settlement", S) \in Known'
  BY <1>1, <1>2 DEF Known, FilterName
<1> QED  BY <1>2, <1>3, <1>4

\* An entry at the end of the stream is safe.
LEMMA AppendSafe ==
  ASSUME NEW T, stream \in Seq(T), NEW e \in T, stream' = Append(stream, e)
  PROVE  /\ Ahead \subseteq Range(stream') \cup DOMAIN pending
         /\ \A i \in e.task.payload : \A a, b : e.attempt >= a => Safe(i, a, b)'
<1>1. Range(stream') = Range(stream) \cup {e}  BY RangeAppend
<1>2. e \in Ahead'  BY <1>1 DEF Ahead
<1>3. Ahead \subseteq Range(stream') \cup DOMAIN pending  BY <1>1 DEF Ahead
<1>4. ASSUME NEW i \in e.task.payload, NEW a, NEW b, e.attempt >= a PROVE Safe(i, a, b)'
  BY <1>2, <1>4, Zenon DEF Safe
<1> QED  BY <1>3, <1>4

\* Enqueue adds the entry or breaks the run.
LEMMA EnqueueOutcome ==
  ASSUME Types, Accounts, NEW e, NEW o, Enqueue(e, o), stops' = stops, load' = load
  PROVE  /\ Paid
         /\ stream' = (IF Executed(o) THEN Append(stream, e) ELSE stream)
         /\ Executed(o) \/ Broken'
<1>1. PICK n : n = load.faults  OBVIOUS
<1>2. n \in Nat  BY <1>1, AccessLogAssumption DEF Types, LogTypes
<1>3. faults \in Nat /\ stops \in Nat /\ n - faults >= stops
  BY <1>1 DEF Types, QueueTypes, LogTypes, Accounts
<1>4. stream' = (IF Executed(o) THEN Append(stream, e) ELSE stream)  BY DEF Enqueue, XAdd
<1>5. \/ o = "ok" /\ faults' = faults
      \/ o # "ok" /\ faults > 0 /\ faults' = faults - 1
  BY DEF Enqueue
<1>6. faults' \in Nat /\ faults' <= faults  BY <1>3, <1>5
<1>7. Paid  BY <1>6, PaidSame
<1>8. Executed(o) \/ Broken'
  <2> SUFFICES ASSUME o = "err" PROVE Broken'  BY DEF Executed
  <2>1. faults' = faults - 1  BY <1>5
  <2>2. n - (faults - 1) > stops  BY <1>2, <1>3
  <2> QED  BY <2>1, <2>2, <1>1 DEF Broken
<1> QED  BY <1>4, <1>7, <1>8

\* A step of the filter leaves the workers alone and at most adds to the stream.
LEMMA FilterSide ==
  ASSUME Inv, Paid, accepted \subseteq accepted', accepted' \subseteq Items,
         pending' = pending, delayed' = delayed, dlq' = dlq, worker' = worker,
         stream' = stream \/ (\E e \in Known' : stream' = Append(stream, e)),
         written' \in [Items -> Nat], \A i \in Items : written'[i] >= written[i],
         \A i \in Items : written'[i] > 0 => i \in accepted',
         outages' \in Nat, cancelled \subseteq cancelled', cancelled' \subseteq Workers,
         ~Broken' => \A i \in Taken' : i \in Taken \ InMemory \/ i \in InMemory' \/ Safe(i, 0, 0)'
  PROVE  QueueTypes' /\ WorkerShape' /\ Held' /\ Conserved' /\ Removing' /\ Acking'
<1>1. Types /\ WorkerShape /\ Held /\ Accounts  BY DEF Inv
<1>2. stream \in Seq(Known')  BY <1>1, TypesGrow
<1>3. stream' \in Seq(Known')  BY <1>2
<1>4. /\ pending' \in [DOMAIN pending' -> Nat \ {0}] /\ DOMAIN pending' \subseteq Known'
      /\ delayed' \subseteq Member' /\ IsFiniteSet(delayed')
  BY <1>1, TypesGrow DEF Types, QueueTypes
<1>5. worker' \in [Workers -> WorkerState'] /\ WorkerShape'  BY <1>1, StayShape
<1>6. DeadLettered' = DeadLettered  BY DEF DeadLettered
<1>7. dlq' \in Seq(CompensationTask) /\ DeadLettered' \subseteq accepted'
  BY <1>1, <1>6 DEF Types, QueueTypes
<1>8. faults' \in Nat  BY DEF Paid
<1>9. QueueTypes'  BY <1>3, <1>4, <1>5, <1>7, <1>8 DEF QueueTypes
<1>10. Held'  BY <1>1, PaidFaults, HeldSame
<1>11. Done \subseteq Done'
  <2>1. \A i \in Items : written[i] > 0 => written'[i] > 0  BY <1>1 DEF Types, QueueTypes
  <2> QED  BY <2>1, <1>6 DEF Done
<1>12. Ahead \subseteq Ahead'
  <2>1. CASE stream' = stream  BY <2>1 DEF Ahead
  <2>2. CASE \E e \in Known' : stream' = Append(stream, e)
    <3>1. PICK e \in Known' : stream' = Append(stream, e)  BY <2>2
    <3> QED  BY <3>1, <1>2, AppendSafe DEF Ahead
  <2> QED  BY <2>1, <2>2
<1>13. Delayed' = Delayed  BY DEF Delayed
<1>14. Keeps  BY <1>11, <1>12, <1>13, SafeGrows
<1>15. Conserved' /\ Removing' /\ Acking'  BY <1>14, FateKept
<1> QED  BY <1>5, <1>9, <1>10, <1>15

\* Accounts holds after a step that pays.
LEMMA AccountsKept ==
  ASSUME Types, Accounts, Paid, (cancelled' = cancelled /\ proc' = proc) \/ ~Clean'
  PROVE  Accounts'
<1>1. load.faults - faults' >= stops' /\ (Clean' => Clean)  BY PaidFaults
<1>2. load' = load  BY DEF Paid
<1>3. (load.faults - faults >= stops)'  BY <1>1, <1>2
<1>4. Clean' => cancelled' = {} /\ \A p \in Workers : proc'[p] = "up"
  BY <1>1, Zenon DEF Accounts
<1> QED  BY <1>3, <1>4, Zenon DEF Accounts

\* The next item of a process is new.
LEMMA RequestItem ==
  ASSUME Types, NEW p \in Workers, NEW i \in NextRequest(p)
  PROVE  i \in Items /\ i \notin seen
<1>1. load.items[p] \in Seq(Items)  BY AccessLogAssumption DEF Types, LogTypes
<1>2. PICK k \in DOMAIN load.items[p] : i = load.items[p][k] /\ i \notin seen  BY DEF NextRequest
<1> QED  BY <1>1, <1>2

\* A record is put on the channel, or falls back to the queue when the channel is full.
LEMMA OnResponseStep ==
  ASSUME Inv, NEW p \in Workers, NEW i \in NextRequest(p), OnResponse(p, i), load' = load
  PROVE  Inv'
<1>1. Types /\ LoopShape /\ Accounts  BY DEF Inv
<1>2. i \in Logs /\ i \in Items /\ proc[p] # "down"  BY RequestItem, <1>1 DEF OnResponse
<1>3. /\ pending' = pending /\ delayed' = delayed /\ dlq' = dlq /\ worker' = worker
      /\ cancelled' = cancelled /\ outages' = outages /\ written' = written
      /\ proc' = proc /\ batch' = batch /\ loop' = loop /\ stops' = stops
      /\ seen' = seen \cup {i}
  BY DEF OnResponse
<1>4. /\ faults \in Nat /\ outages \in Nat /\ accepted \subseteq seen /\ seen \subseteq Items
      /\ cancelled \subseteq Workers /\ load \in Workloads /\ stops \in Nat
      /\ written \in [Items -> Nat] /\ (\A j \in Items : written[j] > 0 => j \in accepted)
      /\ logChan \in [Workers -> Seq(Taken)] /\ batch \in [Workers -> SUBSET Taken]
      /\ proc \in [Workers -> {"up", "stopping", "closing", "down"}]
      /\ loop \in [Workers -> {"run", "flush", "drain", "drainFlush", "lastFlush", "done"}]
  BY <1>1 DEF Types, QueueTypes, LogTypes
<1>5. seen' \subseteq Items /\ seen \subseteq seen' /\ i \in seen'  BY <1>2, <1>3, <1>4
<1>a. SUFFICES /\ Paid /\ accepted \subseteq accepted' /\ accepted' \subseteq seen'
               /\ stream' = stream \/ (\E e \in Known' : stream' = Append(stream, e))
               /\ logChan' \in [Workers -> Seq(Taken')]
               /\ \A q \in Workers : logChan'[q] = logChan[q] \/ proc[q] \notin {"closing", "down"}
               /\ ~Broken' => \A j \in Taken' : j \in Taken \ InMemory \/ j \in InMemory' \/ Safe(j, 0, 0)'
  <2>1. QueueTypes' /\ WorkerShape' /\ Held' /\ Conserved' /\ Removing' /\ Acking'
    <3>1. \A j \in Items : written'[j] >= written[j]  BY <1>3, <1>4
    <3> QED  BY <1>3, <1>4, <1>5, <1>a, <3>1, FilterSide
  <2>2. batch \in [Workers -> SUBSET Taken']  BY <1>1, <1>a, TypesGrow
  <2>3. LogTypes'  BY <1>3, <1>4, <1>5, <1>a, <2>2 DEF LogTypes
  <2>4. LoopShape'  BY <1>1, <1>3, <1>a, Zenon DEF LoopShape
  <2>5. Accounts'  BY <1>1, <1>3, <1>a, AccountsKept
  <2> QED  BY <2>1, <2>3, <2>4, <2>5 DEF Inv, Types
<1>6. \A j \in Taken : j \in Taken \ InMemory \/ j \in InMemory  OBVIOUS
<1>7. CASE proc[p] = "closing"
  <2>1. UNCHANGED <<logChan, accepted, stream, faults>>  BY <1>7 DEF OnResponse
  <2>2. Paid  BY <1>1, <1>3, <1>4, <2>1, PaidSame
  <2>3. Taken' = Taken /\ InMemory' = InMemory  BY <2>1, <1>3 DEF Taken, InMemory
  <2> QED  BY <2>1, <2>2, <2>3, <1>4, <1>5
<1>8. CASE proc[p] # "closing" /\ Len(logChan[p]) < Capacity(p)
  <2>1. /\ logChan' = [logChan EXCEPT ![p] = Append(@, i)] /\ accepted' = accepted \cup {i}
        /\ stream' = stream /\ faults' = faults
    BY <1>8 DEF OnResponse
  <2>2. Paid  BY <1>1, <1>3, <1>4, <2>1, PaidSame
  <2>3. Taken' = Taken \cup {i}  BY <2>1, <1>2 DEF Taken
  <2>4. logChan \in [Workers -> Seq(Taken')]  BY <1>1, <2>1, TypesGrow
  <2>5. logChan'[p] = Append(logChan[p], i) /\ \A q \in Workers \ {p} : logChan'[q] = logChan[q]
    BY <1>4, <2>1
  <2>6. logChan' \in [Workers -> Seq(Taken')]
    <3>1. Append(logChan[p], i) \in Seq(Taken')  BY <2>3, <2>4
    <3> QED  BY <3>1, <2>1, <2>4
  <2>7. Range(logChan'[p]) = Range(logChan[p]) \cup {i}
    <3>1. logChan[p] \in Seq(Taken') /\ i \in Taken'  BY <2>3, <2>4
    <3> QED  BY <2>5, <3>1, RangeAppend
  <2>8. InMemory \subseteq InMemory' /\ i \in InMemory'
    <3>1. \A q \in Workers : Range(logChan[q]) \cup batch[q] \subseteq Range(logChan'[q]) \cup batch'[q]
      BY <1>3, <2>5, <2>7, Zenon
    <3>2. i \in Range(logChan'[p]) \cup batch'[p]  BY <2>7
    <3> QED  BY <3>1, <3>2, Zenon DEF InMemory
  <2> QED  BY <1>2, <1>4, <1>5, <1>8, <2>1, <2>2, <2>3, <2>5, <2>6, <2>8
<1>9. CASE proc[p] # "closing" /\ ~(Len(logChan[p]) < Capacity(p))
  <2>1. /\ \E o \in {"ok", "err", "late"} : Enqueue(NewEntry("access_log", {i}), o)
        /\ accepted' = accepted \cup {i} /\ logChan' = logChan
    BY <1>9 DEF OnResponse
  <2>2. PICK o \in {"ok", "err", "late"} : Enqueue(NewEntry("access_log", {i}), o)  BY <2>1
  <2> DEFINE e == NewEntry("access_log", {i})
  <2>3. e \in Known' /\ e.task.payload = {i} /\ e.attempt = 0
    <3>1. {i} \subseteq accepted' /\ accepted' \subseteq Items /\ {i} \subseteq Logs  BY <1>2, <1>4, <2>1
    <3> QED  BY <3>1, NewKnown, Zenon
  <2> HIDE DEF e
  <2>4. Paid /\ stream' = (IF Executed(o) THEN Append(stream, e) ELSE stream) /\ (Executed(o) \/ Broken')
    BY <1>1, <1>3, <2>2, EnqueueOutcome DEF e
  <2>5. stream \in Seq(Known') /\ logChan' \in [Workers -> Seq(Taken')]  BY <1>1, <2>1, TypesGrow
  <2>6. Taken' = Taken \cup {i} /\ InMemory' = InMemory  BY <1>2, <1>3, <2>1 DEF Taken, InMemory
  <2>7. ASSUME ~Broken' PROVE Safe(i, 0, 0)'
    <3>1. stream' = Append(stream, e)  BY <2>4, <2>7
    <3>2. i \in e.task.payload /\ e.attempt >= 0  BY <2>3
    <3> QED  BY <2>3, <2>5, <3>1, <3>2, AppendSafe, Zenon
  <2> QED  BY <1>4, <1>5, <2>1, <2>3, <2>4, <2>5, <2>6, <2>7
<1> QED  BY <1>7, <1>8, <1>9

\* A settlement is no access-log record.
LEMMA CriticalFilterFailedStep ==
  ASSUME Inv, NEW p \in Workers, NEW i \in NextRequest(p), CriticalFilterFailed(p, i), load' = load
  PROVE  Inv'
<1>1. Types /\ LoopShape /\ Accounts  BY DEF Inv
<1>2. i \in Settlements /\ i \in Items  BY RequestItem, <1>1 DEF CriticalFilterFailed
<1>3. /\ pending' = pending /\ delayed' = delayed /\ dlq' = dlq /\ worker' = worker
      /\ cancelled' = cancelled /\ outages' = outages /\ written' = written
      /\ proc' = proc /\ logChan' = logChan /\ batch' = batch /\ loop' = loop /\ stops' = stops
      /\ seen' = seen \cup {i}
  BY DEF CriticalFilterFailed
<1>4. /\ outages \in Nat /\ accepted \subseteq seen /\ seen \subseteq Items
      /\ cancelled \subseteq Workers /\ load \in Workloads /\ stops \in Nat
      /\ written \in [Items -> Nat] /\ (\A j \in Items : written[j] > 0 => j \in accepted)
      /\ proc \in [Workers -> {"up", "stopping", "closing", "down"}]
      /\ loop \in [Workers -> {"run", "flush", "drain", "drainFlush", "lastFlush", "done"}]
  BY <1>1 DEF Types, QueueTypes, LogTypes
<1>5. PICK o \in {"ok", "err", "late"} :
         /\ Enqueue(NewEntry("token_settlement", {i}), o)
         /\ accepted' = IF Executed(o) THEN accepted \cup {i} ELSE accepted
  BY DEF CriticalFilterFailed
<1> DEFINE e == NewEntry("token_settlement", {i})
<1>6. accepted \subseteq accepted' /\ accepted' \subseteq seen' /\ seen' \subseteq Items
  BY <1>2, <1>3, <1>4, <1>5
<1>7. Executed(o) => e \in Known'
  <2> SUFFICES ASSUME Executed(o) PROVE e \in Known'  OBVIOUS
  <2>1. {i} \subseteq accepted' /\ accepted' \subseteq Items /\ {i} \subseteq Settlements
    BY <1>2, <1>5, <1>6
  <2> QED  BY <2>1, NewKnown, Zenon
<1> HIDE DEF e
<1>8. Paid /\ stream' = (IF Executed(o) THEN Append(stream, e) ELSE stream)
  BY <1>1, <1>3, <1>5, EnqueueOutcome DEF e
<1>9. stream' = stream \/ (\E f \in Known' : stream' = Append(stream, f))  BY <1>7, <1>8
<1>10. Taken' = Taken
  <2>1. i \notin Logs  BY <1>2, QueueAssumption
  <2> QED  BY <1>5, <2>1 DEF Taken
<1>11. InMemory' = InMemory  BY <1>3 DEF InMemory
<1>12. QueueTypes' /\ WorkerShape' /\ Held' /\ Conserved' /\ Removing' /\ Acking'
  <2>1. \A j \in Items : written'[j] >= written[j]  BY <1>3, <1>4
  <2>2. \A j \in Items : written'[j] > 0 => j \in accepted'  BY <1>3, <1>4, <1>6
  <2>3. accepted' \subseteq Items /\ written' \in [Items -> Nat] /\ outages' \in Nat
        /\ cancelled \subseteq cancelled' /\ cancelled' \subseteq Workers
    BY <1>3, <1>4, <1>6
  <2>4. \A j \in Taken' : j \in Taken \ InMemory \/ j \in InMemory'  BY <1>10, <1>11
  <2> QED  BY <1>3, <1>6, <1>8, <1>9, <2>1, <2>2, <2>3, <2>4, FilterSide
<1>13. LogTypes'
  <2>1. logChan \in [Workers -> Seq(Taken')] /\ batch \in [Workers -> SUBSET Taken']
    BY <1>1, <1>6, TypesGrow
  <2> QED  BY <1>3, <1>4, <1>6, <2>1 DEF LogTypes
<1>14. LoopShape'  BY <1>1, <1>3, Zenon DEF LoopShape
<1>15. Accounts'  BY <1>1, <1>3, <1>8, AccountsKept
<1> QED  BY <1>12, <1>13, <1>14, <1>15 DEF Inv, Types

\* A step of one process that does not touch the queue.
LEMMA QuietProcess ==
  ASSUME Inv, UNCHANGED <<queueVars, seen, accepted, stops, load>>, proc' = proc \/ ~Clean,
         proc' \in [Workers -> {"up", "stopping", "closing", "down"}],
         logChan' \in [Workers -> Seq(Taken)], batch' \in [Workers -> SUBSET Taken],
         loop' \in [Workers -> {"run", "flush", "drain", "drainFlush", "lastFlush", "done"}],
         LoopShape', InMemory \subseteq InMemory'
  PROVE  Inv'
<1>1. Types /\ Accounts  BY DEF Inv
<1>2. /\ stream' = stream /\ pending' = pending /\ delayed' = delayed /\ dlq' = dlq
      /\ worker' = worker /\ cancelled' = cancelled /\ faults' = faults /\ outages' = outages
      /\ written' = written /\ seen' = seen /\ accepted' = accepted /\ stops' = stops /\ load' = load
  BY DEF queueVars
<1>3. /\ outages \in Nat /\ accepted \subseteq seen /\ seen \subseteq Items /\ faults \in Nat
      /\ cancelled \subseteq Workers /\ load \in Workloads /\ stops \in Nat
      /\ written \in [Items -> Nat] /\ (\A j \in Items : written[j] > 0 => j \in accepted)
  BY <1>1 DEF Types, QueueTypes, LogTypes
<1>4. Paid  BY <1>1, <1>2, <1>3, PaidSame
<1>5. Taken' = Taken  BY <1>2 DEF Taken
<1>6. LogTypes'  BY <1>2, <1>3, <1>5 DEF LogTypes
<1>7. QueueTypes' /\ WorkerShape' /\ Held' /\ Conserved' /\ Removing' /\ Acking'
  <2>1. \A j \in Items : written'[j] >= written[j]  BY <1>2, <1>3
  <2>2. \A j \in Taken' : j \in Taken \ InMemory \/ j \in InMemory'  BY <1>5
  <2>3. accepted' \subseteq Items  BY <1>2, <1>3
  <2> QED  BY <1>2, <1>3, <1>4, <2>1, <2>2, <2>3, FilterSide
<1>8. Clean' = Clean  BY <1>2 DEF Clean
<1>9. Accounts'  BY <1>1, <1>2, <1>4, <1>8, AccountsKept
<1> QED  BY <1>6, <1>7, <1>9 DEF Inv, Types

\* A record moves from the channel to the batch.
LEMMA ReceiveStep ==
  ASSUME Inv, NEW p \in Workers, Receive(p), load' = load
  PROVE  Inv'
<1>1. /\ LoopShape
      /\ proc \in [Workers -> {"up", "stopping", "closing", "down"}]
      /\ logChan \in [Workers -> Seq(Taken)] /\ batch \in [Workers -> SUBSET Taken]
      /\ loop \in [Workers -> {"run", "flush", "drain", "drainFlush", "lastFlush", "done"}]
  BY DEF Inv, Types, LogTypes
<1>2. UNCHANGED <<queueVars, proc, seen, accepted, stops>>  BY DEF Receive
<1>3. loop[p] \in {"run", "drain"} /\ logChan[p] # <<>>  BY DEF Receive
<1>4. /\ Range(logChan[p]) = {Head(logChan[p])} \cup Range(Tail(logChan[p]))
      /\ Head(logChan[p]) \in Taken /\ Tail(logChan[p]) \in Seq(Taken)
  BY <1>1, <1>3, RangeTail
<1>5. /\ logChan'[p] = Tail(logChan[p]) /\ batch'[p] = batch[p] \cup {Head(logChan[p])}
      /\ loop'[p] \in {IF loop[p] = "run" THEN "flush" ELSE "drainFlush", loop[p]}
      /\ \A q \in Workers \ {p} : logChan'[q] = logChan[q] /\ batch'[q] = batch[q] /\ loop'[q] = loop[q]
  BY <1>1 DEF Receive
<1>6. logChan' \in [Workers -> Seq(Taken)]  BY <1>1, <1>4 DEF Receive
<1>7. batch' \in [Workers -> SUBSET Taken]  BY <1>1, <1>4 DEF Receive
<1>8. loop' \in [Workers -> {"run", "flush", "drain", "drainFlush", "lastFlush", "done"}]
  BY <1>1 DEF Receive
<1>9. LoopShape'  BY <1>1, <1>2, <1>3, <1>5 DEF LoopShape
<1>10. InMemory \subseteq InMemory'
  <2>1. \A q \in Workers : Range(logChan[q]) \cup batch[q] \subseteq Range(logChan'[q]) \cup batch'[q]
    BY <1>4, <1>5
  <2> QED  BY <2>1, Zenon DEF InMemory
<1> QED  BY <1>1, <1>2, <1>6, <1>7, <1>8, <1>9, <1>10, QuietProcess

\* The ticker only starts a flush.
LEMMA TickerFlushStep ==
  ASSUME Inv, NEW p \in Workers, TickerFlush(p), load' = load
  PROVE  Inv'
<1>1. /\ LoopShape
      /\ proc \in [Workers -> {"up", "stopping", "closing", "down"}]
      /\ logChan \in [Workers -> Seq(Taken)] /\ batch \in [Workers -> SUBSET Taken]
      /\ loop \in [Workers -> {"run", "flush", "drain", "drainFlush", "lastFlush", "done"}]
  BY DEF Inv, Types, LogTypes
<1>2. UNCHANGED <<queueVars, proc, logChan, batch, seen, accepted, stops>> /\ loop[p] = "run"
  BY DEF TickerFlush
<1>3. loop'[p] = "flush" /\ \A q \in Workers \ {p} : loop'[q] = loop[q]  BY <1>1 DEF TickerFlush
<1>4. loop' \in [Workers -> {"run", "flush", "drain", "drainFlush", "lastFlush", "done"}]
  BY <1>1 DEF TickerFlush
<1>5. LoopShape'  BY <1>1, <1>2, <1>3 DEF LoopShape
<1>6. InMemory' = InMemory  BY <1>2 DEF InMemory
<1> QED  BY <1>1, <1>2, <1>4, <1>5, <1>6, QuietProcess

\* The loop returns with an empty channel and an empty batch.
LEMMA DrainStep ==
  ASSUME Inv, NEW p \in Workers, Drain(p), load' = load
  PROVE  Inv'
<1>1. /\ LoopShape
      /\ proc \in [Workers -> {"up", "stopping", "closing", "down"}]
      /\ logChan \in [Workers -> Seq(Taken)] /\ batch \in [Workers -> SUBSET Taken]
      /\ loop \in [Workers -> {"run", "flush", "drain", "drainFlush", "lastFlush", "done"}]
  BY DEF Inv, Types, LogTypes
<1>2. UNCHANGED <<queueVars, proc, logChan, batch, seen, accepted, stops>>  BY DEF Drain
<1>3. /\ \/ loop[p] = "run" /\ proc[p] = "closing" /\ loop'[p] = "drain"
         \/ /\ loop[p] = "drain" /\ logChan[p] = <<>>
            /\ loop'[p] = IF batch[p] = {} THEN "done" ELSE "lastFlush"
      /\ \A q \in Workers \ {p} : loop'[q] = loop[q]
  BY <1>1 DEF Drain
<1>4. loop' \in [Workers -> {"run", "flush", "drain", "drainFlush", "lastFlush", "done"}]
  BY <1>1 DEF Drain
<1>5. LoopShape'  BY <1>1, <1>2, <1>3 DEF LoopShape
<1>6. InMemory' = InMemory  BY <1>2 DEF InMemory
<1> QED  BY <1>1, <1>2, <1>4, <1>5, <1>6, QuietProcess

\* The batch is written, or queued as one task.
LEMMA FlushStep ==
  ASSUME Inv, NEW p \in Workers, Flush(p), load' = load
  PROVE  Inv'
<1>1. Types /\ LoopShape /\ Accounts  BY DEF Inv
<1>2. /\ proc \in [Workers -> {"up", "stopping", "closing", "down"}]
      /\ logChan \in [Workers -> Seq(Taken)] /\ batch \in [Workers -> SUBSET Taken]
      /\ loop \in [Workers -> {"run", "flush", "drain", "drainFlush", "lastFlush", "done"}]
      /\ outages \in Nat /\ accepted \subseteq seen /\ seen \subseteq Items /\ faults \in Nat
      /\ cancelled \subseteq Workers /\ load \in Workloads /\ stops \in Nat
      /\ written \in [Items -> Nat] /\ (\A j \in Items : written[j] > 0 => j \in accepted)
      /\ stream \in Seq(Known)
  BY <1>1 DEF Types, QueueTypes, LogTypes
<1>3. /\ pending' = pending /\ delayed' = delayed /\ dlq' = dlq /\ worker' = worker
      /\ cancelled' = cancelled /\ proc' = proc /\ logChan' = logChan /\ seen' = seen
      /\ accepted' = accepted /\ stops' = stops
  BY DEF Flush
<1>4. Taken' = Taken /\ Known' = Known /\ batch[p] \subseteq Logs /\ batch[p] \subseteq accepted
  BY <1>2, <1>3 DEF Taken, Known
<1>5. batch'[p] = {} /\ \A q \in Workers \ {p} : batch'[q] = batch[q]  BY <1>2 DEF Flush
<1>6. batch' \in [Workers -> SUBSET Taken]  BY <1>2 DEF Flush
<1>7. /\ \/ loop[p] = "flush" /\ loop'[p] = "run"
         \/ loop[p] = "drainFlush" /\ loop'[p] = "drain"
         \/ loop[p] = "lastFlush" /\ loop'[p] = "done"
      /\ \A q \in Workers \ {p} : loop'[q] = loop[q]
  BY <1>2 DEF Flush
<1>8. loop' \in [Workers -> {"run", "flush", "drain", "drainFlush", "lastFlush", "done"}]
  BY <1>2 DEF Flush
<1>9. LoopShape'  BY <1>1, <1>3, <1>5, <1>7 DEF LoopShape
<1>10. LogTypes'  BY <1>2, <1>3, <1>4, <1>6, <1>8 DEF LogTypes
<1>11. InMemory \subseteq InMemory' \cup batch[p]
  <2>1. \A q \in Workers : Range(logChan[q]) \cup batch[q] \subseteq (Range(logChan'[q]) \cup batch'[q]) \cup batch[p]
    BY <1>3, <1>5
  <2> QED  BY <2>1, Zenon DEF InMemory
<1>a. SUFFICES /\ Paid
               /\ stream' = stream \/ (\E e \in Known' : stream' = Append(stream, e))
               /\ written' \in [Items -> Nat] /\ \A i \in Items : written'[i] >= written[i]
               /\ \A i \in Items : written'[i] > 0 => i \in accepted
               /\ outages' \in Nat
               /\ ~Broken' => \A i \in batch[p] : Safe(i, 0, 0)'
  <2>1. ~Broken' => \A i \in Taken' : i \in Taken \ InMemory \/ i \in InMemory' \/ Safe(i, 0, 0)'
    BY <1>4, <1>11, <1>a, Zenon
  <2>2. accepted' \subseteq Items  BY <1>2, <1>3
  <2>3. QueueTypes' /\ WorkerShape' /\ Held' /\ Conserved' /\ Removing' /\ Acking'
    BY <1>2, <1>3, <1>a, <2>1, <2>2, FilterSide
  <2>4. Accounts'  BY <1>1, <1>3, <1>a, AccountsKept
  <2> QED  BY <1>9, <1>10, <2>3, <2>4 DEF Inv, Types
<1>12. CASE written' = Land(batch[p]) /\ UNCHANGED <<stream, faults, outages>>
  <2>1. \A i \in Items : written'[i] = IF i \in batch[p] THEN written[i] + 1 ELSE written[i]
    BY <1>12 DEF Land
  <2>2. written' \in [Items -> Nat]  BY <1>2, <1>12 DEF Land
  <2>3. \A i \in Items : written'[i] >= written[i] /\ (i \in batch[p] => written'[i] > 0)
    BY <1>2, <2>1
  <2>4. \A i \in Items : written'[i] > 0 => i \in accepted  BY <1>2, <1>4, <2>1
  <2>5. \A i \in batch[p] : Safe(i, 0, 0)'
    <3>1. \A i \in batch[p] : i \in Items  BY <1>4 DEF Items
    <3>2. batch[p] \subseteq Done'  BY <2>3, <3>1 DEF Done
    <3> QED  BY <3>2, Zenon DEF Safe
  <2>6. Paid  BY <1>1, <1>2, <1>3, <1>12, PaidSame
  <2> QED  BY <1>2, <1>12, <2>2, <2>3, <2>4, <2>5, <2>6
<1>13. CASE /\ outages > 0 /\ outages' = outages - 1
            /\ \E o \in {"ok", "err", "late"} : Enqueue(NewEntry("access_log", batch[p]), o)
            /\ UNCHANGED written
  <2>1. PICK o \in {"ok", "err", "late"} : Enqueue(NewEntry("access_log", batch[p]), o)  BY <1>13
  <2> DEFINE e == NewEntry("access_log", batch[p])
  <2>2. e \in Known' /\ e.task.payload = batch[p] /\ e.attempt = 0
    <3>1. batch[p] \subseteq accepted' /\ accepted' \subseteq Items  BY <1>2, <1>3, <1>4
    <3> QED  BY <1>4, <3>1, NewKnown, Zenon
  <2> HIDE DEF e
  <2>3. Paid /\ stream' = (IF Executed(o) THEN Append(stream, e) ELSE stream) /\ (Executed(o) \/ Broken')
    BY <1>1, <1>3, <2>1, EnqueueOutcome DEF e
  <2>4. ASSUME ~Broken' PROVE \A i \in batch[p] : Safe(i, 0, 0)'
    <3>1. stream' = Append(stream, e)  BY <2>3, <2>4
    <3>2. e.attempt >= 0 /\ stream \in Seq(Known')  BY <1>2, <1>4, <2>2
    <3> QED  BY <2>2, <3>1, <3>2, AppendSafe, Zenon
  <2>5. outages' \in Nat  BY <1>2, <1>13
  <2>6. \A i \in Items : written'[i] >= written[i]  BY <1>2, <1>13
  <2> QED  BY <1>2, <1>13, <2>2, <2>3, <2>4, <2>5, <2>6
<1>14. CASE /\ written' = Land(batch[p])
            /\ Enqueue(NewEntry("access_log", batch[p]), "late")
            /\ UNCHANGED outages
  <2> DEFINE e == NewEntry("access_log", batch[p])
  <2>1. \A i \in Items : written'[i] = IF i \in batch[p] THEN written[i] + 1 ELSE written[i]
    BY <1>14 DEF Land
  <2>2. written' \in [Items -> Nat]  BY <1>2, <1>14 DEF Land
  <2>3. \A i \in Items : written'[i] >= written[i] /\ (i \in batch[p] => written'[i] > 0)
    BY <1>2, <2>1
  <2>4. \A i \in Items : written'[i] > 0 => i \in accepted  BY <1>2, <1>4, <2>1
  <2>5. \A i \in batch[p] : Safe(i, 0, 0)'
    <3>1. \A i \in batch[p] : i \in Items  BY <1>4 DEF Items
    <3>2. batch[p] \subseteq Done'  BY <2>3, <3>1 DEF Done
    <3> QED  BY <3>2, Zenon DEF Safe
  <2>6. e \in Known'
    <3>1. batch[p] \subseteq accepted' /\ accepted' \subseteq Items  BY <1>2, <1>3, <1>4
    <3> QED  BY <1>4, <3>1, NewKnown, Zenon
  <2> HIDE DEF e
  <2>7. Paid /\ stream' = (IF Executed("late") THEN Append(stream, e) ELSE stream)
    BY <1>1, <1>3, <1>14, EnqueueOutcome DEF e
  <2>8. stream' = stream \/ (\E x \in Known' : stream' = Append(stream, x))  BY <2>6, <2>7
  <2>9. outages' \in Nat  BY <1>2, <1>14
  <2> QED  BY <2>2, <2>3, <2>4, <2>5, <2>7, <2>8, <2>9, Zenon
<1> QED  BY <1>12, <1>13, <1>14 DEF Flush

\* A fault that is not a shutdown breaks the run; a shutdown leaves it dirty.
LEMMA FaultPaid ==
  ASSUME Types, Accounts, faults > 0, faults' = faults - 1, load' = load,
         stops' = stops \/ stops' = stops + 1
  PROVE  Paid /\ ~Clean' /\ (stops' = stops => Broken')
<1>1. PICK n : n = load.faults  OBVIOUS
<1>2. n \in Nat  BY <1>1, AccessLogAssumption DEF Types, LogTypes
<1>3. faults \in Nat /\ stops \in Nat /\ n - faults >= stops
  BY <1>1 DEF Types, QueueTypes, LogTypes, Accounts
<1>4. ASSUME NEW m \in Nat, NEW f \in Nat, NEW s \in Nat, f > 0, m - f >= s
      PROVE  /\ f - 1 \in Nat /\ f - 1 <= f /\ s + 1 \in Nat /\ f - (f - 1) >= (s + 1) - s
             /\ f - (f - 1) >= s - s /\ m - (f - 1) > s /\ f - 1 # m
  BY <1>4
<1>5. /\ faults - 1 \in Nat /\ faults - 1 <= faults /\ stops + 1 \in Nat
      /\ faults - (faults - 1) >= (stops + 1) - stops
      /\ faults - (faults - 1) >= stops - stops /\ n - (faults - 1) > stops /\ faults - 1 # n
  BY <1>2, <1>3, <1>4, Zenon
<1>6. Paid  BY <1>3, <1>5, Zenon DEF Paid
<1> QED  BY <1>1, <1>5, <1>6, Zenon DEF Clean, Broken

\* A shutdown cancels the worker and counts as one.
LEMMA StopTasksStep ==
  ASSUME Inv, NEW p \in Workers, StopTasks(p), load' = load
  PROVE  Inv'
<1>1. Types /\ LoopShape /\ Accounts  BY DEF Inv
<1>2. /\ proc \in [Workers -> {"up", "stopping", "closing", "down"}]
      /\ logChan \in [Workers -> Seq(Taken)] /\ batch \in [Workers -> SUBSET Taken]
      /\ loop \in [Workers -> {"run", "flush", "drain", "drainFlush", "lastFlush", "done"}]
      /\ outages \in Nat /\ accepted \subseteq seen /\ seen \subseteq Items
      /\ cancelled \subseteq Workers /\ load \in Workloads /\ stops \in Nat
      /\ written \in [Items -> Nat] /\ (\A j \in Items : written[j] > 0 => j \in accepted)
  BY <1>1 DEF Types, QueueTypes, LogTypes
<1>3. /\ stream' = stream /\ pending' = pending /\ delayed' = delayed /\ dlq' = dlq /\ worker' = worker
      /\ outages' = outages /\ written' = written /\ logChan' = logChan /\ batch' = batch
      /\ loop' = loop /\ seen' = seen /\ accepted' = accepted
      /\ faults > 0 /\ faults' = faults - 1 /\ stops' = stops + 1 /\ proc[p] = "up"
      /\ cancelled' = cancelled \cup {p}
  BY DEF StopTasks
<1>4. Paid /\ ~Clean'  BY <1>1, <1>3, FaultPaid
<1>5. proc'[p] = "stopping" /\ \A q \in Workers \ {p} : proc'[q] = proc[q]  BY <1>2 DEF StopTasks
<1>6. proc' \in [Workers -> {"up", "stopping", "closing", "down"}]  BY <1>2 DEF StopTasks
<1>7. Taken' = Taken /\ InMemory' = InMemory  BY <1>3 DEF Taken, InMemory
<1>8. stops' \in Nat  BY <1>4 DEF Paid
<1>9. LogTypes'  BY <1>2, <1>3, <1>6, <1>7, <1>8 DEF LogTypes
<1>10. LoopShape'  BY <1>1, <1>3, <1>5 DEF LoopShape
<1>11. Accounts'  BY <1>1, <1>4, AccountsKept
<1>12. QueueTypes' /\ WorkerShape' /\ Held' /\ Conserved' /\ Removing' /\ Acking'
  <2>1. \A j \in Items : written'[j] >= written[j]  BY <1>2, <1>3
  <2>2. \A j \in Taken' : j \in Taken \ InMemory \/ j \in InMemory'  BY <1>7
  <2>3. accepted' \subseteq Items /\ cancelled \subseteq cancelled' /\ cancelled' \subseteq Workers
    BY <1>2, <1>3
  <2> QED  BY <1>2, <1>3, <1>4, <2>1, <2>2, <2>3, FilterSide
<1> QED  BY <1>9, <1>10, <1>11, <1>12 DEF Inv, Types

\* Closing the filter loses nothing.
LEMMA CloseAccessLogStep ==
  ASSUME Inv, NEW p \in Workers, CloseAccessLog(p), load' = load
  PROVE  Inv'
<1>1. /\ LoopShape /\ Accounts
      /\ proc \in [Workers -> {"up", "stopping", "closing", "down"}]
      /\ logChan \in [Workers -> Seq(Taken)] /\ batch \in [Workers -> SUBSET Taken]
      /\ loop \in [Workers -> {"run", "flush", "drain", "drainFlush", "lastFlush", "done"}]
  BY DEF Inv, Types, LogTypes
<1>2. UNCHANGED <<queueVars, logChan, batch, loop, seen, accepted, stops>> /\ proc[p] = "stopping"
  BY DEF CloseAccessLog
<1>3. proc'[p] = "closing" /\ \A q \in Workers \ {p} : proc'[q] = proc[q]
  BY <1>1 DEF CloseAccessLog
<1>4. proc' \in [Workers -> {"up", "stopping", "closing", "down"}]  BY <1>1 DEF CloseAccessLog
<1>5. ~Clean  BY <1>1, <1>2 DEF Accounts
<1>6. LoopShape'  BY <1>1, <1>2, <1>3 DEF LoopShape
<1>7. InMemory' = InMemory  BY <1>2 DEF InMemory
<1> QED  BY <1>1, <1>2, <1>4, <1>5, <1>6, <1>7, QuietProcess

\* A process that has drained has nothing to lose.
LEMMA ProcessExitStep ==
  ASSUME Inv, NEW p \in Workers, ProcessExit(p), load' = load
  PROVE  Inv'
<1>1. /\ LoopShape /\ Accounts
      /\ proc \in [Workers -> {"up", "stopping", "closing", "down"}]
      /\ logChan \in [Workers -> Seq(Taken)] /\ batch \in [Workers -> SUBSET Taken]
      /\ loop \in [Workers -> {"run", "flush", "drain", "drainFlush", "lastFlush", "done"}]
  BY DEF Inv, Types, LogTypes
<1>2. UNCHANGED <<queueVars, loop, seen, accepted, stops>> /\ proc[p] = "closing" /\ loop[p] = "done"
  BY DEF ProcessExit
<1>3. proc'[p] = "down" /\ \A q \in Workers \ {p} : proc'[q] = proc[q]
  BY <1>1 DEF ProcessExit
<1>4. proc' \in [Workers -> {"up", "stopping", "closing", "down"}]  BY <1>1 DEF ProcessExit
<1>5. logChan[p] = <<>> /\ batch[p] = {}  BY <1>1, <1>2 DEF LoopShape
<1>6. logChan' = logChan /\ batch' = batch  BY <1>1, <1>5 DEF ProcessExit
<1>7. ~Clean  BY <1>1, <1>2 DEF Accounts
<1>8. LoopShape'  BY <1>1, <1>2, <1>3, <1>6 DEF LoopShape
<1>9. InMemory' = InMemory  BY <1>6 DEF InMemory
<1> QED  BY <1>1, <1>2, <1>4, <1>6, <1>7, <1>8, <1>9, QuietProcess

\* Finitely many places can hold an entry.
LEMMA HoldersFinite ==
  ASSUME NEW e
  PROVE  IsFiniteSet(Holders(e))
<1>1. IsFiniteSet(1..ReadCount)  BY QueueAssumption, FS_Interval
<1>2. IsFiniteSet(Workers)  BY QueueAssumption
<1>3. IsFiniteSet(Workers \X (1..ReadCount))  BY <1>1, <1>2, FS_Product, Zenon
<1>4. Holders(e) \subseteq Workers \X (1..ReadCount)  BY DEF Holders
<1> QED  BY <1>3, <1>4, FS_Subset

\* A process that goes down or comes up has nothing in hand.
LEMMA EmptyHanded ==
  ASSUME Inv, NEW p \in Workers, NEW c \in {"idle", "exited"}, Moved(p, c, <<>>, <<>>),
         Paid, ~Clean', load' = load,
         UNCHANGED <<stream, pending, delayed, dlq, outages, written, accepted>>,
         cancelled' \subseteq Workers
  PROVE  /\ QueueTypes' /\ WorkerShape' /\ Held' /\ Keeps
         /\ worker'[p].pc = c /\ \A v \in Workers \ {p} : worker'[v] = worker[v]
<1>1. Types /\ WorkerShape /\ Held  BY DEF Inv
<1>2. /\ worker' \in [Workers -> WorkerState'] /\ WorkerShape'
      /\ worker'[p].pc = c /\ worker'[p].batch = <<>>
      /\ \A v \in Workers \ {p} : worker'[v] = worker[v]
  <2>1. <<>> \in Seq(Known') /\ <<>> \in Seq(Member') /\ Len(<<>>) <= ReadCount /\ c \in PC
    BY QueueAssumption DEF PC
  <2> QED  BY <1>1, <2>1, MovedShape, Zenon
<1>3. Known' = Known /\ Member' = Member  BY Zenon DEF Known, Member, Stamps
<1>4. DeadLettered' = DeadLettered  BY Zenon DEF DeadLettered
<1>5. QueueTypes'  BY <1>1, <1>2, <1>3, <1>4 DEF Types, QueueTypes, Paid
<1>6. Held'
  <2> SUFFICES ASSUME NEW e \in Entry PROVE Cardinality(Holders(e))' <= Copies(e)'  BY DEF Held
  <2>1. Holders(e)' \subseteq Holders(e)
    <3> SUFFICES ASSUME NEW h \in Holders(e)' PROVE h \in Holders(e)  BY Zenon
    <3>1. /\ h \in Workers \X (1..ReadCount) /\ h[1] \in Workers
          /\ h[2] \in DOMAIN worker'[h[1]].batch /\ worker'[h[1]].batch[h[2]] = e
      BY DEF Holders
    <3>2. h[1] # p  BY <1>2, <3>1
    <3>3. worker'[h[1]] = worker[h[1]]  BY <1>2, <3>1, <3>2
    <3> QED  BY <3>1, <3>3, Zenon DEF Holders
  <2>2. IsFiniteSet(Holders(e))  BY HoldersFinite
  <2>3. /\ Cardinality(Holders(e)') \in Nat /\ Cardinality(Holders(e)) \in Nat
        /\ Cardinality(Holders(e)') <= Cardinality(Holders(e))
    BY <2>1, <2>2, FS_Subset, FS_CardinalityType
  <2>4. Copies(e)' = Copies(e) /\ Copies(e) \in Nat /\ Cardinality(Holders(e)) <= Copies(e)
    BY <1>1 DEF Copies, Held, Types, QueueTypes
  <2> QED  BY <2>3, <2>4
<1>7. Done' = Done /\ Ahead' = Ahead /\ Delayed' = Delayed  BY <1>4 DEF Done, Ahead, Delayed
<1>8. Keeps  BY <1>7, SafeGrows
<1> QED  BY <1>2, <1>5, <1>6, <1>8

\* A crash is a fault.
LEMMA CrashStep ==
  ASSUME Inv, NEW p \in Workers, Crash(p), load' = load
  PROVE  Inv'
<1>1. Types /\ LoopShape /\ Accounts  BY DEF Inv
<1>2. /\ proc \in [Workers -> {"up", "stopping", "closing", "down"}]
      /\ logChan \in [Workers -> Seq(Taken)] /\ batch \in [Workers -> SUBSET Taken]
      /\ loop \in [Workers -> {"run", "flush", "drain", "drainFlush", "lastFlush", "done"}]
      /\ accepted \subseteq seen /\ seen \subseteq Items /\ cancelled \subseteq Workers
      /\ load \in Workloads /\ stops \in Nat
  BY <1>1 DEF Types, QueueTypes, LogTypes
<1>3. /\ UNCHANGED <<stream, pending, delayed, dlq, outages, written, seen, accepted, stops>>
      /\ faults > 0 /\ faults' = faults - 1 /\ cancelled' = cancelled \cup {p}
  BY DEF Crash
<1>4. Paid /\ ~Clean' /\ Broken'  BY <1>1, <1>3, FaultPaid
<1>5. Moved(p, "exited", <<>>, <<>>)
  <2>1. [Idle EXCEPT !.pc = "exited"] = [pc |-> "exited", due |-> <<>>, batch |-> <<>>]  BY DEF Idle
  <2> QED  BY <2>1, Zenon DEF Crash, Moved
<1>6. QueueTypes' /\ WorkerShape' /\ Held'
  <2>1. cancelled' \subseteq Workers  BY <1>2, <1>3
  <2> QED  BY <1>3, <1>4, <1>5, <2>1, EmptyHanded
<1>7. Conserved' /\ Removing' /\ Acking'  BY <1>4, FateKept, Zenon
<1>8. Taken' = Taken  BY <1>3 DEF Taken
<1>9. /\ proc' \in [Workers -> {"up", "stopping", "closing", "down"}]
      /\ logChan' \in [Workers -> Seq(Taken)] /\ batch' \in [Workers -> SUBSET Taken]
      /\ loop' \in [Workers -> {"run", "flush", "drain", "drainFlush", "lastFlush", "done"}]
  BY <1>2 DEF Crash
<1>10. LogTypes'  BY <1>2, <1>3, <1>8, <1>9 DEF LogTypes
<1>11. /\ proc'[p] = "down" /\ logChan'[p] = <<>> /\ batch'[p] = {} /\ loop'[p] = "done"
       /\ \A q \in Workers \ {p} : /\ proc'[q] = proc[q] /\ logChan'[q] = logChan[q]
                                   /\ batch'[q] = batch[q] /\ loop'[q] = loop[q]
  BY <1>2 DEF Crash
<1>12. LoopShape'  BY <1>1, <1>11 DEF LoopShape
<1>13. Accounts'  BY <1>1, <1>4, AccountsKept
<1> QED  BY <1>6, <1>7, <1>10, <1>12, <1>13 DEF Inv, Types

\* The next process starts with nothing in hand.
LEMMA RestartStep ==
  ASSUME Inv, NEW p \in Workers, Restart(p), load' = load
  PROVE  Inv'
<1>1. Types /\ LoopShape /\ Accounts  BY DEF Inv
<1>2. /\ proc \in [Workers -> {"up", "stopping", "closing", "down"}]
      /\ logChan \in [Workers -> Seq(Taken)] /\ batch \in [Workers -> SUBSET Taken]
      /\ loop \in [Workers -> {"run", "flush", "drain", "drainFlush", "lastFlush", "done"}]
      /\ accepted \subseteq seen /\ seen \subseteq Items /\ cancelled \subseteq Workers
      /\ load \in Workloads /\ stops \in Nat /\ faults \in Nat
  BY <1>1 DEF Types, QueueTypes, LogTypes
<1>3. /\ UNCHANGED <<stream, pending, delayed, dlq, faults, outages, written,
                     logChan, batch, seen, accepted, stops>>
      /\ proc[p] = "down" /\ cancelled' = cancelled \ {p}
  BY DEF Restart
<1>4. Paid  BY <1>1, <1>2, <1>3, PaidSame
<1>5. ~Clean'
  <2>1. ~Clean  BY <1>1, <1>3 DEF Accounts
  <2> QED  BY <1>3, <2>1 DEF Clean
<1>6. Moved(p, "idle", <<>>, <<>>)  BY DEF Restart, Moved, Idle
<1>7. /\ QueueTypes' /\ WorkerShape' /\ Held' /\ Keeps
      /\ worker'[p].pc = "idle" /\ \A v \in Workers \ {p} : worker'[v] = worker[v]
  <2>1. cancelled' \subseteq Workers  BY <1>2, <1>3
  <2> QED  BY <1>3, <1>4, <1>5, <1>6, <2>1, EmptyHanded
<1>8. Taken' = Taken /\ InMemory' = InMemory  BY <1>3 DEF Taken, InMemory
<1>9. Conserved' /\ Removing' /\ Acking'
  <2>1. \A i \in Taken' : i \in Taken \ InMemory \/ i \in InMemory'  BY <1>8
  <2>2. \A v \in Workers : worker'[v].pc = "remove" =>
           worker[v].pc = "remove" /\ worker'[v].due = worker[v].due
    BY <1>7, Zenon
  <2>3. \A v \in Workers \ cancelled' : worker'[v].pc = "ack" =>
           v \notin cancelled /\ worker[v].pc = "ack" /\ worker'[v].batch = worker[v].batch
    BY <1>3, <1>7
  <2> QED  BY <1>4, <1>7, <2>1, <2>2, <2>3, FateKept
<1>10. /\ proc' \in [Workers -> {"up", "stopping", "closing", "down"}]
       /\ loop' \in [Workers -> {"run", "flush", "drain", "drainFlush", "lastFlush", "done"}]
  BY <1>2 DEF Restart
<1>11. LogTypes'  BY <1>2, <1>3, <1>8, <1>10 DEF LogTypes
<1>12. /\ proc'[p] = "up" /\ loop'[p] = "run"
       /\ \A q \in Workers \ {p} : proc'[q] = proc[q] /\ loop'[q] = loop[q]
  BY <1>2 DEF Restart
<1>13. LoopShape'  BY <1>1, <1>3, <1>12 DEF LoopShape
<1>14. Accounts'  BY <1>1, <1>4, <1>5, AccountsKept
<1> QED  BY <1>7, <1>9, <1>11, <1>13, <1>14 DEF Inv, Types

-----------------------------------------------------------------------------
(* The workers: claiming what is due and compensating it.                  *)

\* The types of what is in Redis and ClickHouse.
StoreTypes ==
    /\ stream \in Seq(Known)
    /\ pending \in [DOMAIN pending -> Nat \ {0}] /\ DOMAIN pending \subseteq Known
    /\ delayed \subseteq Member /\ IsFiniteSet(delayed)
    /\ dlq \in Seq(CompensationTask) /\ DeadLettered \subseteq accepted
    /\ outages \in Nat
    /\ written \in [Items -> Nat]
    /\ \A i \in Items : written[i] > 0 => i \in accepted

\* A step of the queue, with what it must keep.
LEMMA QueueSide ==
  ASSUME Inv, UNCHANGED <<logVars, load, cancelled>>, faults' \in Nat, faults' <= faults,
         StoreTypes', worker' \in [Workers -> WorkerState], WorkerShape', Held', Broken' \/ Keeps,
         ~Broken' => \A v \in Workers : worker'[v].pc = "remove" =>
             (worker[v].pc = "remove" /\ worker'[v].due = worker[v].due) \/ RemoveSafe(v)',
         ~Broken' => \A v \in Workers \ cancelled : worker'[v].pc = "ack" =>
             \/ worker[v].pc = "ack" /\ worker'[v].batch = worker[v].batch
             \/ AckSafe(v)'
  PROVE  Inv'
<1>1. Types /\ LoopShape /\ Accounts  BY DEF Inv
<1>2. /\ LogTypes' /\ LoopShape' /\ Taken' = Taken /\ WorkerState' = WorkerState
      /\ InMemory' = InMemory /\ stops' = stops /\ proc' = proc
  BY <1>1, LogSame
<1>3. Paid  BY <1>1, <1>2, PaidSame
<1>4. Accounts'  BY <1>1, <1>2, <1>3, AccountsKept
<1>5. QueueTypes'
  <2>1. cancelled' \subseteq Workers  BY <1>1 DEF Types, QueueTypes
  <2> QED  BY <1>2, <2>1, Zenon DEF QueueTypes, StoreTypes
<1>6. Conserved' /\ Removing' /\ Acking'
  <2>1. \A i \in Taken' : i \in Taken \ InMemory \/ i \in InMemory'  BY <1>2
  <2>2. ~Broken' => \A v \in Workers \ cancelled' : worker'[v].pc = "ack" =>
             \/ v \notin cancelled /\ worker[v].pc = "ack" /\ worker'[v].batch = worker[v].batch
             \/ AckSafe(v)'
    <3>1. cancelled' = cancelled  OBVIOUS
    <3> QED  BY <3>1, Zenon
  <2> QED  BY <1>3, <2>1, <2>2, FateKept, Zenon
<1> QED  BY <1>2, <1>4, <1>5, <1>6, Zenon DEF Inv, Types

\* One worker takes a step.
LEMMA WorkerSide ==
  ASSUME Inv, UNCHANGED <<logVars, load, cancelled>>, faults' \in Nat, faults' <= faults, StoreTypes',
         NEW w \in Workers, NEW a \in PC, NEW d \in Seq(Member), NEW b \in Seq(Known),
         Moved(w, a, d, b), Len(b) <= ReadCount,
         a \in {"claim", "remove"} => d # <<>>, a \in {"handle", "failed", "ack"} <=> b # <<>>,
         (pending' = pending /\ b = worker[w].batch) \/ Held', Broken' \/ Keeps,
         ~Broken' /\ a = "remove" => RemoveSafe(w)',
         ~Broken' /\ a = "ack" /\ w \notin cancelled => AckSafe(w)'
  PROVE  Inv'
<1>1. Types /\ LoopShape /\ WorkerShape /\ Accounts /\ Held  BY DEF Inv
<1>2. /\ Known' = Known /\ Member' = Member /\ accepted' = accepted /\ WorkerState' = WorkerState
      /\ stops' = stops
  BY <1>1, LogSame
<1>3. /\ worker' \in [Workers -> WorkerState'] /\ WorkerShape'
      /\ worker'[w].pc = a /\ worker'[w].due = d /\ worker'[w].batch = b
      /\ \A v \in Workers \ {w} : worker'[v] = worker[v]
  <2>1. d \in Seq(Member') /\ b \in Seq(Known') /\ accepted \subseteq accepted'  BY <1>2, Zenon
  <2> QED  BY <1>1, <2>1, MovedShape
<1>4. Held'
  <2> SUFFICES ASSUME pending' = pending, b = worker[w].batch PROVE Held'  BY Zenon
  <2>1. \A v \in Workers : worker'[v].batch = worker[v].batch  BY <1>3, Zenon
  <2>2. Paid  BY <1>1, <1>2, PaidSame
  <2>3. Clean' => Clean  BY <1>1, <2>2, PaidFaults
  <2> QED  BY <1>1, <2>1, <2>3, HeldSame
<1>5. ~Broken' => \A v \in Workers : worker'[v].pc = "remove" =>
             (worker[v].pc = "remove" /\ worker'[v].due = worker[v].due) \/ RemoveSafe(v)'
  BY <1>3, Zenon
<1>6. ~Broken' => \A v \in Workers \ cancelled : worker'[v].pc = "ack" =>
             \/ worker[v].pc = "ack" /\ worker'[v].batch = worker[v].batch
             \/ AckSafe(v)'
  BY <1>3, Zenon
<1>7. worker' \in [Workers -> WorkerState]  BY <1>2, <1>3, Zenon
<1> QED  BY <1>3, <1>4, <1>5, <1>6, <1>7, QueueSide, Zenon

\* A worker changes its program counter, with a list or without.
LEMMA GotoMoved ==
  ASSUME Types, NEW w \in Workers, NEW a
  PROVE  /\ Goto(w, a) => Moved(w, a, worker[w].due, worker[w].batch)
         /\ \A d : worker' = [worker EXCEPT ![w].pc = a, ![w].due = d] => Moved(w, a, d, worker[w].batch)
         /\ \A b : worker' = [worker EXCEPT ![w].pc = a, ![w].batch = b] => Moved(w, a, worker[w].due, b)
         /\ worker[w].due \in Seq(Member) /\ worker[w].batch \in Seq(Known)
<1>1. worker \in [Workers -> WorkerState]  BY DEF Types, QueueTypes
<1>2. worker[w] \in [pc : PC, due : Seq(Member), batch : Seq(Known)]  BY <1>1 DEF WorkerState
<1>3. [worker[w] EXCEPT !.pc = a] = [pc |-> a, due |-> worker[w].due, batch |-> worker[w].batch]
  BY <1>2
<1>4. Goto(w, a) => Moved(w, a, worker[w].due, worker[w].batch)
  BY <1>1, <1>3, Zenon DEF Goto, Moved
<1>5. ASSUME NEW d, worker' = [worker EXCEPT ![w].pc = a, ![w].due = d]
      PROVE  Moved(w, a, d, worker[w].batch)
  <2>1. [[pc |-> a, due |-> worker[w].due, batch |-> worker[w].batch] EXCEPT !.due = d] = [pc |-> a, due |-> d, batch |-> worker[w].batch]
    OBVIOUS
  <2>2. [[worker[w] EXCEPT !.pc = a] EXCEPT !.due = d] = [pc |-> a, due |-> d, batch |-> worker[w].batch]
    BY <1>3, <2>1, Zenon
  <2> QED  BY <1>1, <1>5, <2>2, Zenon DEF Moved
<1>6. ASSUME NEW b, worker' = [worker EXCEPT ![w].pc = a, ![w].batch = b]
      PROVE  Moved(w, a, worker[w].due, b)
  <2>1. [[pc |-> a, due |-> worker[w].due, batch |-> worker[w].batch] EXCEPT !.batch = b] = [pc |-> a, due |-> worker[w].due, batch |-> b]
    OBVIOUS
  <2>2. [[worker[w] EXCEPT !.pc = a] EXCEPT !.batch = b] = [pc |-> a, due |-> worker[w].due, batch |-> b]
    BY <1>3, <2>1, Zenon
  <2> QED  BY <1>1, <1>6, <2>2, Zenon DEF Moved
<1>7. worker[w].due \in Seq(Member) /\ worker[w].batch \in Seq(Known)  BY <1>2
<1> QED  BY <1>4, <1>5, <1>6, <1>7

\* A command of a worker that fails or whose reply is lost: a fault, unless the
\* context was cancelled, which a shutdown or a crash has done.
LEMMA Charged ==
  ASSUME Inv, NEW w \in Workers, NEW o \in Outcomes(w), Charge(w, o), stops' = stops, load' = load
  PROVE  /\ faults' \in Nat /\ faults' <= faults /\ o \in {"ok", "err", "late"}
         /\ o # "ok" => ~Clean'
         /\ o # "ok" /\ w \notin cancelled => Broken'
         /\ w \in cancelled => o = "err"
<1>1. Types /\ Accounts /\ faults \in Nat  BY DEF Inv, Types, QueueTypes
<1>2. CASE w \in cancelled
  <2>1. o = "err" /\ faults' = faults  BY <1>2 DEF Outcomes, Charge
  <2>2. ~Clean'  BY <1>1, <1>2, <2>1 DEF Accounts, Clean
  <2> QED  BY <1>1, <1>2, <2>1, <2>2
<1>3. CASE w \notin cancelled /\ o = "ok"
  <2>1. faults' = faults  BY <1>3 DEF Charge
  <2> QED  BY <1>1, <1>3, <2>1
<1>4. CASE w \notin cancelled /\ o # "ok"
  <2>1. faults > 0 /\ faults' = faults - 1 /\ o \in {"err", "late"}  BY <1>4 DEF Outcomes, Charge
  <2>2. ~Clean' /\ Broken'  BY <1>1, <2>1, FaultPaid
  <2>3. faults' \in Nat /\ faults' <= faults  BY <1>1, <2>1
  <2> QED  BY <1>4, <2>1, <2>2, <2>3
<1> QED  BY <1>2, <1>3, <1>4

\* What a worker leaves as it is has its types.
LEMMA StoreSame ==
  ASSUME Types, UNCHANGED logVars
  PROVE  /\ Known' = Known /\ Member' = Member /\ stops' = stops /\ accepted' = accepted
         /\ stream' = stream => stream' \in Seq(Known') /\ Range(stream') = Range(stream)
         /\ pending' = pending => /\ pending' \in [DOMAIN pending' -> Nat \ {0}]
                                  /\ DOMAIN pending' \subseteq Known'
         /\ delayed' = delayed => /\ delayed' \subseteq Member' /\ IsFiniteSet(delayed')
                                  /\ Delayed' = Delayed
         /\ dlq' = dlq => /\ dlq' \in Seq(CompensationTask) /\ DeadLettered' \subseteq accepted'
                          /\ DeadLettered' = DeadLettered
         /\ outages' = outages => outages' \in Nat
         /\ written' = written => /\ written' \in [Items -> Nat]
                                  /\ \A i \in Items : written'[i] > 0 => i \in accepted'
<1>1. accepted' = accepted /\ stops' = stops  BY DEF logVars
<1>2. Known' = Known  BY <1>1 DEF Known
<1>3. Member' = Member  BY <1>2 DEF Member
<1>4. delayed' = delayed => Delayed' = Delayed  BY Zenon DEF Delayed
<1>5. dlq' = dlq => DeadLettered' = DeadLettered  BY Zenon DEF DeadLettered
<1> QED  BY <1>1, <1>2, <1>3, <1>4, <1>5 DEF Types, QueueTypes

\* A worker that returns has nothing in hand.
LEMMA WorkerExitStep ==
  ASSUME Inv, NEW w \in Workers, WorkerExit(w), UNCHANGED <<logVars, load>>
  PROVE  Inv'
<1>1. Types /\ WorkerShape /\ faults \in Nat  BY DEF Inv, Types, QueueTypes
<1>2. UNCHANGED <<stream, pending, delayed, dlq, cancelled, faults, outages, written>>
  BY DEF WorkerExit
<1>3. worker[w].pc = "idle" /\ Goto(w, "exited")  BY DEF WorkerExit
<1>4. /\ Moved(w, "exited", worker[w].due, worker[w].batch)
      /\ worker[w].due \in Seq(Member) /\ worker[w].batch \in Seq(Known)
  BY <1>1, <1>3, GotoMoved, Zenon
<1>5. worker[w].batch = <<>> /\ Len(worker[w].batch) <= ReadCount  BY <1>1, <1>3 DEF WorkerShape
<1>6. StoreTypes' /\ Delayed' = Delayed /\ DeadLettered' = DeadLettered
  BY <1>1, <1>2, StoreSame DEF StoreTypes
<1>7. Keeps
  <2>1. Done' = Done /\ Ahead' = Ahead  BY <1>2, <1>6 DEF Done, Ahead
  <2> QED  BY <1>6, <2>1, SafeGrows
<1>8. "exited" \in PC /\ faults' \in Nat /\ faults' <= faults  BY <1>1, <1>2 DEF PC
<1> QED  BY <1>2, <1>4, <1>5, <1>6, <1>7, <1>8, WorkerSide, Zenon

\* A task without compensator carries no access-log record.
LEMMA NoCompensatorStep ==
  ASSUME Inv, NEW w \in Workers, NoCompensator(w), UNCHANGED <<logVars, load>>
  PROVE  Inv'
<1>1. Types /\ WorkerShape /\ faults \in Nat  BY DEF Inv, Types, QueueTypes
<1>2. UNCHANGED <<stream, pending, delayed, dlq, cancelled, faults, outages, written>>
  BY DEF NoCompensator
<1>3. /\ worker[w].pc = "handle" /\ Goto(w, "ack")
      /\ Head(worker[w].batch).task.filter # "access_log"
  BY DEF NoCompensator, HasCompensator
<1>4. /\ Moved(w, "ack", worker[w].due, worker[w].batch)
      /\ worker[w].due \in Seq(Member) /\ worker[w].batch \in Seq(Known)
  BY <1>1, <1>3, GotoMoved, Zenon
<1>5. worker[w].batch # <<>> /\ Len(worker[w].batch) <= ReadCount  BY <1>1, <1>3 DEF WorkerShape
<1>6. StoreTypes' /\ Delayed' = Delayed /\ DeadLettered' = DeadLettered
  BY <1>1, <1>2, StoreSame DEF StoreTypes
<1>7. Keeps
  <2>1. Done' = Done /\ Ahead' = Ahead  BY <1>2, <1>6 DEF Done, Ahead
  <2> QED  BY <1>6, <2>1, SafeGrows
<1>8. AckSafe(w)'
  <2>1. worker'[w].batch = worker[w].batch  BY <1>1, <1>4 DEF Types, QueueTypes, Moved
  <2>2. Head(worker[w].batch) \in Known  BY <1>1, <1>3, HeadBatch
  <2>3. Head(worker[w].batch).task.payload \cap Logs = {}
    BY <1>3, <2>2, QueueAssumption DEF Known
  <2> QED  BY <2>1, <2>3, Zenon DEF AckSafe
<1>9. "ack" \in PC /\ faults' \in Nat /\ faults' <= faults  BY <1>1, <1>2 DEF PC
<1> QED  BY <1>2, <1>4, <1>5, <1>6, <1>7, <1>8, <1>9, WorkerSide

\* The due members are read.
LEMMA ClaimRangeStep ==
  ASSUME Inv, NEW w \in Workers, ClaimRange(w), UNCHANGED <<logVars, load>>
  PROVE  Inv'
<1>1. /\ Types /\ WorkerShape /\ delayed \subseteq Member /\ IsFiniteSet(delayed)
      /\ stops' = stops
  BY DEF Inv, Types, QueueTypes, logVars
<1>2. UNCHANGED <<stream, pending, delayed, dlq, cancelled, outages, written>> /\ worker[w].pc = "idle"
  BY DEF ClaimRange
<1>3. PICK o \in Outcomes(w), members \in Bijection(1..Cardinality(Due), Due) :
         /\ Charge(w, o)
         /\ worker' = IF o = "ok" /\ members # <<>>
                      THEN [worker EXCEPT ![w].pc = "claim", ![w].due = members]
                      ELSE [worker EXCEPT ![w].pc = "read", ![w].due = <<>>]
  BY Zenon DEF ClaimRange
<1>4. members \in Seq(Member)
  <2>1. Due \subseteq Member /\ IsFiniteSet(Due)  BY <1>1, FS_Subset DEF Due
  <2>2. Cardinality(Due) \in Nat  BY <2>1, FS_CardinalityType
  <2>3. members \in [1..Cardinality(Due) -> Due]  BY Zenon DEF Bijection, Injection
  <2>4. members \in Seq(Due)  BY <2>2, <2>3
  <2> QED  BY <2>1, <2>4, SeqWider, Zenon
<1>5. faults' \in Nat /\ faults' <= faults  BY <1>1, <1>3, Charged
<1>6. PICK a \in {"claim", "read"}, d \in Seq(Member) :
         Moved(w, a, d, worker[w].batch) /\ (a = "claim" => d # <<>>)
  <2>1. <<>> \in Seq(Member)  OBVIOUS
  <2> QED  BY <1>1, <1>3, <1>4, <2>1, GotoMoved, Zenon
<1>7. worker[w].batch = <<>> /\ Len(worker[w].batch) <= ReadCount /\ worker[w].batch \in Seq(Known)
  BY <1>1, <1>2, GotoMoved, Zenon DEF WorkerShape
<1>8. StoreTypes' /\ Delayed' = Delayed /\ DeadLettered' = DeadLettered
  BY <1>1, <1>2, StoreSame DEF StoreTypes
<1>9. Keeps
  <2>1. Done' = Done /\ Ahead' = Ahead  BY <1>2, <1>8 DEF Done, Ahead
  <2> QED  BY <1>8, <2>1, SafeGrows
<1>10. a \in PC /\ a \notin {"remove", "ack", "handle", "failed"}  BY DEF PC
<1> QED  BY <1>2, <1>5, <1>6, <1>7, <1>8, <1>9, <1>10, WorkerSide, Zenon

\* A due member is on the stream before it is removed.
LEMMA ClaimAddStep ==
  ASSUME Inv, NEW w \in Workers, ClaimAdd(w), UNCHANGED <<logVars, load>>
  PROVE  Inv'
<1>1. Types /\ WorkerShape /\ stops' = stops /\ stream \in Seq(Known)
  BY DEF Inv, Types, QueueTypes, logVars
<1>2. UNCHANGED <<pending, delayed, dlq, cancelled, outages, written>> /\ worker[w].pc = "claim"
  BY DEF ClaimAdd
<1>3. PICK m : m = Head(worker[w].due).entry  OBVIOUS
<1>4. PICK o \in Outcomes(w) :
         /\ Charge(w, o) /\ XAdd(m, o)
         /\ worker' = IF o = "ok" THEN [worker EXCEPT ![w].pc = "remove"]
                      ELSE [worker EXCEPT ![w].pc = "read", ![w].due = <<>>]
  BY <1>3, Zenon DEF ClaimAdd
<1>5. m \in Known /\ m.attempt \in Nat /\ worker[w].due \in Seq(Member) /\ worker[w].due # <<>>
  BY <1>1, <1>2, <1>3, HeadDue
<1>6. faults' \in Nat /\ faults' <= faults /\ o \in {"ok", "err", "late"}
  BY <1>1, <1>4, Charged
<1>7. stream' = stream \/ stream' = Append(stream, m)  BY <1>4 DEF XAdd
<1>8. PICK a \in {"remove", "read"}, d \in Seq(Member) :
         /\ Moved(w, a, d, worker[w].batch)
         /\ a = "remove" => d = worker[w].due /\ stream' = Append(stream, m)
  <2>1. CASE o = "ok"
    <3>1. Moved(w, "remove", worker[w].due, worker[w].batch)  BY <1>1, <1>4, <2>1, GotoMoved, Zenon DEF Goto
    <3>2. stream' = Append(stream, m)  BY <1>4, <2>1 DEF XAdd, Executed
    <3> QED  BY <1>5, <3>1, <3>2
  <2>2. CASE o # "ok"
    <3>1. Moved(w, "read", <<>>, worker[w].batch)  BY <1>1, <1>4, <2>2, GotoMoved, Zenon
    <3>2. <<>> \in Seq(Member)  OBVIOUS
    <3> QED  BY <3>1, <3>2, Zenon
  <2> QED  BY <2>1, <2>2
<1>9. worker[w].batch = <<>> /\ Len(worker[w].batch) <= ReadCount /\ worker[w].batch \in Seq(Known)
  BY <1>1, <1>2, GotoMoved, Zenon DEF WorkerShape
<1>10. Known' = Known /\ Delayed' = Delayed /\ DeadLettered' = DeadLettered
  BY <1>1, <1>2, StoreSame
<1>11. StoreTypes'
  <2>1. stream' \in Seq(Known')  BY <1>1, <1>5, <1>7, <1>10
  <2> QED  BY <1>1, <1>2, <2>1, StoreSame DEF StoreTypes
<1>12. Keeps
  <2>1. Done' = Done  BY <1>2, <1>10, Zenon DEF Done
  <2>2. Ahead \subseteq Ahead'
    <3>1. CASE stream' = stream  BY <1>2, <3>1, Zenon DEF Ahead
    <3>2. CASE stream' = Append(stream, m)  BY <1>1, <1>2, <1>5, <3>2, AppendSafe DEF Ahead
    <3> QED  BY <1>7, <3>1, <3>2
  <2> QED  BY <1>10, <2>1, <2>2, SafeGrows
<1>13. ASSUME a = "remove" PROVE RemoveSafe(w)'
  <2>1. worker'[w].due = worker[w].due  BY <1>1, <1>8, <1>13 DEF Types, QueueTypes, Moved
  <2>2. \A i \in m.task.payload : Safe(i, m.attempt, m.attempt + 1)'
    <3>1. stream' = Append(stream, m) /\ m.attempt >= m.attempt  BY <1>5, <1>8, <1>13
    <3> QED  BY <1>1, <1>5, <3>1, AppendSafe, Zenon
  <2>3. Head(worker'[w].due).entry = m  BY <1>3, <2>1, Zenon
  <2> QED  BY <2>2, <2>3, Zenon DEF RemoveSafe
<1>14. a \in PC /\ a \notin {"claim", "ack", "handle", "failed"}  BY DEF PC
<1>15. a = "remove" => d # <<>>  BY <1>5, <1>8
<1> QED  BY <1>2, <1>6, <1>8, <1>9, <1>11, <1>12, <1>13, <1>14, <1>15, WorkerSide, Zenon

\* A removed member is on the stream or has moved on.
LEMMA ClaimRemoveStep ==
  ASSUME Inv, NEW w \in Workers, ClaimRemove(w), UNCHANGED <<logVars, load>>
  PROVE  Inv'
<1>1. Types /\ WorkerShape /\ Accounts /\ Removing /\ stops' = stops /\ load' = load
  BY DEF Inv, logVars
<1>2. UNCHANGED <<stream, pending, dlq, cancelled, outages, written>> /\ worker[w].pc = "remove"
  BY DEF ClaimRemove
<1>3. /\ worker[w].due \in Seq(Member) /\ worker[w].due # <<>>
      /\ Head(worker[w].due).entry \in Known
  BY <1>1, <1>2, HeadDue
<1>m. PICK m : m = Head(worker[w].due)  OBVIOUS
<1>o. PICK o \in Outcomes(w) :
         LET rest == IF o = "ok" THEN Tail(worker[w].due) ELSE <<>>
         IN  /\ Charge(w, o)
             /\ delayed' = IF Executed(o) THEN {n \in delayed : ~SameMember(m, n)} ELSE delayed
             /\ worker' = [worker EXCEPT
                    ![w].pc = IF rest = <<>> THEN "read" ELSE "claim", ![w].due = rest]
  BY <1>m, Zenon DEF ClaimRemove
<1>r. PICK rest : rest = IF o = "ok" THEN Tail(worker[w].due) ELSE <<>>  BY Zenon
<1>4. /\ Charge(w, o)
      /\ delayed' = IF Executed(o) THEN {n \in delayed : ~SameMember(m, n)} ELSE delayed
      /\ worker' = [worker EXCEPT
             ![w].pc = IF rest = <<>> THEN "read" ELSE "claim", ![w].due = rest]
  BY <1>o, <1>r, Zenon
<1>5. faults' \in Nat /\ faults' <= faults  BY <1>1, <1>4, Charged
<1>6. rest \in Seq(Member)  BY <1>3, <1>r
<1>7. PICK a : a = IF rest = <<>> THEN "read" ELSE "claim"  OBVIOUS
<1>8. Moved(w, a, rest, worker[w].batch)  BY <1>1, <1>4, <1>7, GotoMoved, Zenon
<1>9. worker[w].batch = <<>> /\ Len(worker[w].batch) <= ReadCount /\ worker[w].batch \in Seq(Known)
  BY <1>1, <1>2, GotoMoved, Zenon DEF WorkerShape
<1>10. delayed' \subseteq delayed  BY <1>4
<1>11. StoreTypes' /\ DeadLettered' = DeadLettered
  <2>1. delayed' \subseteq Member /\ IsFiniteSet(delayed')
    BY <1>1, <1>10, FS_Subset DEF Types, QueueTypes
  <2> QED  BY <1>1, <1>2, <2>1, StoreSame DEF StoreTypes
<1>12. Done' = Done /\ Ahead' = Ahead  BY <1>2, <1>11, Zenon DEF Done, Ahead
<1>13. Broken' \/ Keeps
  <2> SUFFICES ASSUME ~Broken', NEW i \in Logs, NEW k \in Nat, NEW b \in {k, k + 1}, Safe(i, k, b)
               PROVE  Safe(i, k, b)'
    BY Zenon DEF Keeps
  <2>1. CASE i \in Done \/ \E e \in Ahead : i \in e.task.payload /\ e.attempt >= k
    BY <1>12, <2>1, Zenon DEF Safe
  <2>2. CASE \E e \in Delayed : i \in e.task.payload /\ e.attempt >= b
    <3>1. PICK n \in delayed : i \in n.entry.task.payload /\ n.entry.attempt >= b
      BY <2>2, Zenon DEF Delayed
    <3>2. CASE n \in delayed'
      <4>1. n.entry \in Delayed'  BY <3>2, Zenon DEF Delayed
      <4> QED  BY <3>1, <4>1, Zenon DEF Safe
    <3>3. CASE n \notin delayed'
      <4>1. n.entry = m.entry  BY <1>4, <3>1, <3>3 DEF SameMember
      <4>2. ~Broken
        <5>1. Paid  BY <1>1, <1>5, PaidSame
        <5> QED  BY <1>1, <5>1, PaidFaults
      <4>3. PICK f : f = m.entry  OBVIOUS
      <4>4. f.attempt \in Nat /\ f.attempt >= b /\ i \in f.task.payload
        <5>1. f \in Known  BY <1>3, <1>m, <4>3
        <5> QED  BY <3>1, <4>1, <4>3, <5>1, KnownFields
      <4>5. Safe(i, f.attempt, f.attempt + 1)
        BY <1>1, <1>2, <1>m, <4>2, <4>3, <4>4, Zenon DEF Removing, RemoveSafe
      <4>6. CASE i \in Done  BY <1>12, <4>6, Zenon DEF Safe
      <4>7. CASE \E e \in Ahead : i \in e.task.payload /\ e.attempt >= f.attempt
        <5>1. PICK e \in Ahead : i \in e.task.payload /\ e.attempt >= f.attempt  BY <4>7
        <5>2. e \in Known  BY <1>1 DEF Ahead, Types, QueueTypes, Range
        <5>3. e.attempt \in Nat  BY <5>2, KnownFields
        <5>4. e.attempt >= k  BY <4>4, <5>1, <5>3
        <5> QED  BY <1>12, <5>1, <5>4, Zenon DEF Safe
      <4>8. CASE \E e \in Delayed : i \in e.task.payload /\ e.attempt >= f.attempt + 1
        <5>1. PICK q \in delayed : i \in q.entry.task.payload /\ q.entry.attempt >= f.attempt + 1
          BY <4>8, Zenon DEF Delayed
        <5>2. q.entry \in Known  BY <1>1 DEF Types, QueueTypes, Member
        <5>3. q.entry.attempt \in Nat  BY <5>2, KnownFields
        <5>4. q.entry.attempt >= b /\ q.entry.attempt # f.attempt  BY <4>4, <5>1, <5>3
        <5>5. q \in delayed'  BY <1>4, <4>3, <5>4 DEF SameMember
        <5>6. q.entry \in Delayed'  BY <5>5, Zenon DEF Delayed
        <5> QED  BY <5>1, <5>4, <5>6, Zenon DEF Safe
      <4> QED  BY <4>5, <4>6, <4>7, <4>8, Zenon DEF Safe
    <3> QED  BY <3>2, <3>3
  <2> QED  BY <2>1, <2>2, Zenon DEF Safe
<1>14. a \in PC /\ a \in {"read", "claim"} /\ (a = "claim" => rest # <<>>)  BY <1>7 DEF PC
<1> QED  BY <1>2, <1>5, <1>6, <1>8, <1>9, <1>11, <1>13, <1>14, WorkerSide, Zenon

\* What is written may be acknowledged.
LEMMA CompensateStep ==
  ASSUME Inv, NEW w \in Workers, Compensate(w), UNCHANGED <<logVars, load>>
  PROVE  Inv'
<1>1. /\ Types /\ WorkerShape /\ Accounts /\ faults \in Nat /\ outages \in Nat
      /\ written \in [Items -> Nat] /\ (\A i \in Items : written[i] > 0 => i \in accepted)
  BY DEF Inv, Types, QueueTypes
<1>2. UNCHANGED <<stream, pending, delayed, dlq, cancelled>> /\ worker[w].pc = "handle"
  BY DEF Compensate
<1>3. PICK S : S = Head(worker[w].batch).task.payload  OBVIOUS
<1>4. S \subseteq accepted /\ S \subseteq Items
  <2>1. Head(worker[w].batch) \in Known  BY <1>1, <1>2, HeadBatch
  <2>2. accepted \subseteq Items  BY <1>1 DEF Types, LogTypes
  <2> QED  BY <1>3, <2>1, <2>2, KnownFields
<1>5. PICK a \in {"ack", "failed"} :
         /\ Goto(w, a)
         /\ a = "ack" => written' = Land(S)
         /\ written' = Land(S) \/ written' = written
         /\ outages' \in Nat /\ faults' \in Nat /\ faults' <= faults
  <2>1. CASE w \in cancelled
    <3>1. Goto(w, "failed") /\ UNCHANGED <<written, outages, faults>>  BY <2>1 DEF Compensate
    <3> QED  BY <1>1, <3>1
  <2>2. CASE w \notin cancelled
    <3>1. PICK o \in Outcomes(w) \cup {"err"} :
             Write(S, o) /\ Goto(w, IF o = "ok" THEN "ack" ELSE "failed")
      BY <1>3, <2>2, Zenon DEF Compensate
    <3>2. o \in {"ok", "err"} \/ (o = "late" /\ faults > 0)  BY <2>2 DEF Outcomes
    <3>3. outages' \in Nat /\ faults' \in Nat /\ faults' <= faults  BY <1>1, <3>1, <3>2 DEF Write
    <3>4. /\ o = "ok" => written' = Land(S)
          /\ written' = Land(S) \/ written' = written
      BY <3>1 DEF Write, Executed
    <3>5. CASE o = "ok"  BY <3>1, <3>3, <3>4, <3>5
    <3>6. CASE o # "ok"  BY <3>1, <3>3, <3>4, <3>6
    <3> QED  BY <3>5, <3>6
  <2> QED  BY <2>1, <2>2
<1>6. /\ Moved(w, a, worker[w].due, worker[w].batch)
      /\ worker[w].due \in Seq(Member) /\ worker[w].batch \in Seq(Known)
  BY <1>1, <1>5, GotoMoved, Zenon
<1>7. worker[w].batch # <<>> /\ Len(worker[w].batch) <= ReadCount  BY <1>1, <1>2 DEF WorkerShape
<1>8. Land(S) = [i \in Items |-> IF i \in S THEN written[i] + 1 ELSE written[i]]  BY Zenon DEF Land
<1>9. /\ written' \in [Items -> Nat]
      /\ \A i \in Items : written[i] > 0 => written'[i] > 0
      /\ \A i \in Items : written'[i] > 0 => i \in accepted
      /\ a = "ack" => \A i \in S : written'[i] > 0
  <2>1. CASE written' = Land(S)
    <3>1. \A i \in Items : written'[i] = IF i \in S THEN written[i] + 1 ELSE written[i]  BY <1>8, <2>1
    <3>2. written' \in [Items -> Nat]  BY <1>1, <1>8, <2>1
    <3> QED  BY <1>1, <1>4, <3>1, <3>2
  <2>2. CASE written' = written /\ a # "ack"  BY <1>1, <2>2
  <2> QED  BY <1>5, <2>1, <2>2
<1>10. /\ StoreTypes' /\ Delayed' = Delayed /\ DeadLettered' = DeadLettered
  <2>1. accepted' = accepted  BY DEF logVars
  <2> QED  BY <1>1, <1>2, <1>5, <1>9, <2>1, StoreSame DEF StoreTypes
<1>11. Keeps
  <2>1. Done \subseteq Done'  BY <1>9, <1>10 DEF Done
  <2>2. Ahead' = Ahead  BY <1>2, Zenon DEF Ahead
  <2> QED  BY <1>10, <2>1, <2>2, SafeGrows
<1>12. ASSUME a = "ack" PROVE AckSafe(w)'
  <2>1. worker'[w].batch = worker[w].batch  BY <1>1, <1>6 DEF Types, QueueTypes, Moved
  <2>2. S \subseteq Done'  BY <1>4, <1>9, <1>12 DEF Done
  <2>3. Head(worker'[w].batch).task.payload = S  BY <1>3, <2>1, Zenon
  <2> QED  BY <2>2, <2>3, Zenon DEF AckSafe, Safe
<1>13. a \in PC /\ a \in {"handle", "failed", "ack"}  BY DEF PC
<1> QED  BY <1>2, <1>5, <1>6, <1>7, <1>10, <1>11, <1>12, <1>13, WorkerSide, Zenon
=============================================================================
