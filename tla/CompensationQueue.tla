------------------------- MODULE CompensationQueue -------------------------
(***************************************************************************)
(* The compensation queue (pkg/compensation): a Redis stream read through  *)
(* one consumer group, a sorted set of tasks waiting for their next try, a *)
(* dead-letter stream, and the workers that move tasks between them.       *)
(*                                                                         *)
(* One action is one Redis command (or one compensation) of one worker, so *)
(* that everything two workers, a failing Redis or a crash can do between  *)
(* two commands happens.  A command has one of three outcomes: it is       *)
(* executed, it fails, or it is executed and its reply is lost.  The last  *)
(* two are bounded by "faults"; a worker whose context was cancelled only  *)
(* sees commands fail.                                                     *)
(***************************************************************************)
EXTENDS Naturals, FiniteSets, Sequences, Functions

CONSTANTS
    Workers,      \* one compensation worker per gateway process
    Logs,         \* access-log records, the payload of "access_log" tasks
    Settlements,  \* payloads of tasks of the other critical filters
    MaxRetries,   \* RedisQueueConfig.MaxRetries
    ReadCount     \* Count of the XREADGROUP

ASSUME QueueAssumption ==
    /\ IsFiniteSet(Workers) /\ IsFiniteSet(Logs) /\ IsFiniteSet(Settlements)
    /\ Logs \cap Settlements = {}
    /\ MaxRetries \in Nat \ {0}
    /\ ReadCount \in Nat \ {0}

VARIABLES
    stream,     \* entries the consumer group has not delivered yet, in order
    pending,    \* delivered entries that are not acknowledged, with how many of each
    delayed,    \* the sorted set: members with the seconds left to their score
    dlq,        \* the dead-letter stream
    worker,     \* the program counter and local lists of each worker
    cancelled,  \* workers whose context is cancelled
    faults,     \* failures still allowed
    outages,    \* refusals of ClickHouse still allowed
    written,    \* how often the effect of an item has landed (history)
    load        \* the workload, chosen once; its bounds: load.outages writes are
                \* refused, load.faults commands fail, replies are lost, processes
                \* crash or are shut down

queueVars == <<stream, pending, delayed, dlq, worker, cancelled, faults, outages, written>>

Items == Logs \cup Settlements

FilterName == {"access_log", "token_settlement"}

CompensationTask == [filter : FilterName, payload : SUBSET Items]

\* A stream entry is the JSON of a task; of its fields only the attempt count
\* is read again (NextRetryAt is overwritten before it is used).
Entry == [task : CompensationTask, attempt : 0 .. MaxRetries]

NewEntry(filter, items) ==
    [task |-> [filter |-> filter, payload |-> items], attempt |-> 0]

\* NextRetryAt is part of the JSON, so two members are equal only when they
\* are the same scheduling: "stamp" tells them apart.
Stamps == 1 .. (1 + Cardinality(Items) * Cardinality(Workers) * MaxRetries)

Idle == [pc |-> "idle", due |-> <<>>, batch |-> <<>>]

QueueInit ==
    /\ stream = <<>>
    /\ pending = <<>>
    /\ delayed = {}
    /\ dlq = <<>>
    /\ worker = [w \in Workers |-> Idle]
    /\ cancelled = {}
    /\ faults = load.faults
    /\ outages = load.outages
    /\ written = [i \in Items |-> 0]

-----------------------------------------------------------------------------
(* Redis and ClickHouse as the code sees them.                             *)

Outcomes(w) ==
    IF w \in cancelled THEN {"err"}
    ELSE {"ok"} \cup (IF faults > 0 THEN {"err", "late"} ELSE {})

Charge(w, o) ==
    faults' = IF o = "ok" \/ w \in cancelled THEN faults ELSE faults - 1

Executed(o) == o # "err"

Land(items) == [i \in Items |-> IF i \in items THEN written[i] + 1 ELSE written[i]]

\* XADD of an entry to the main stream.
XAdd(e, o) == stream' = IF Executed(o) THEN Append(stream, e) ELSE stream

\* Enqueue (used by AccessLogFilter and by Engine.enqueueCompensation, both
\* with a context of their own that is not cancelled by the shutdown).
Enqueue(e, o) ==
    /\ o \in {"ok"} \cup (IF faults > 0 THEN {"err", "late"} ELSE {})
    /\ faults' = IF o = "ok" THEN faults ELSE faults - 1
    /\ XAdd(e, o)

SameMember(m, n) == <<m.entry, m.stamp>> = <<n.entry, n.stamp>>

FreshStamp ==
    LET used == {m.stamp : m \in delayed}
                \cup UNION {{m.stamp : m \in Range(worker[w].due)} : w \in Workers}
    IN  CHOOSE s \in Stamps : s \in used => Stamps \subseteq used

Goto(w, pc) == worker' = [worker EXCEPT ![w].pc = pc]

-----------------------------------------------------------------------------
(* runCycle: ClaimDelayed, then ProcessBatch.                              *)

Due == {m \in delayed : m.left = 0}

\* ZRANGEBYSCORE: the members that are due, in the order of their scores, which
\* are past and therefore not kept: any order.  Cycles that would find nothing to
\* claim or read, and cycles whose every command fails because the context is
\* cancelled, change nothing and are left out.
ClaimRange(w) ==
    /\ worker[w].pc = "idle" /\ w \notin cancelled
    /\ Due # {} \/ stream # <<>>
    /\ \E o \in Outcomes(w) : \E members \in Bijection(1..Cardinality(Due), Due) :
         /\ Charge(w, o)
         /\ worker' = IF o = "ok" /\ members # <<>>
                      THEN [worker EXCEPT ![w].pc = "claim", ![w].due = members]
                      ELSE [worker EXCEPT ![w].pc = "read", ![w].due = <<>>]
    /\ UNCHANGED <<stream, pending, delayed, dlq, cancelled, outages, written>>

\* XADD of the next due member; an error ends the claim.
ClaimAdd(w) ==
    /\ worker[w].pc = "claim"
    /\ \E o \in Outcomes(w) :
         /\ Charge(w, o)
         /\ XAdd(Head(worker[w].due).entry, o)
         /\ worker' = IF o = "ok" THEN [worker EXCEPT ![w].pc = "remove"]
                      ELSE [worker EXCEPT ![w].pc = "read", ![w].due = <<>>]
    /\ UNCHANGED <<pending, delayed, dlq, cancelled, outages, written>>

\* Mutant: the ZREM is missing.
ClaimRemoveForgotten(w) ==
    /\ worker[w].pc = "remove"
    /\ LET rest == Tail(worker[w].due)
       IN  worker' = [worker EXCEPT
               ![w].pc = IF rest = <<>> THEN "read" ELSE "claim", ![w].due = rest]
    /\ UNCHANGED <<stream, pending, delayed, dlq, cancelled, faults, outages, written>>

\* ZREM of the member just added; an error ends the claim.
ClaimRemove(w) ==
    /\ worker[w].pc = "remove"
    /\ \E o \in Outcomes(w) :
         LET m == Head(worker[w].due)
             rest == IF o = "ok" THEN Tail(worker[w].due) ELSE <<>>
         IN  /\ Charge(w, o)
             /\ delayed' = IF Executed(o) THEN {n \in delayed : ~SameMember(m, n)}
                           ELSE delayed
             /\ worker' = [worker EXCEPT
                    ![w].pc = IF rest = <<>> THEN "read" ELSE "claim",
                    ![w].due = rest]
    /\ UNCHANGED <<stream, pending, dlq, cancelled, outages, written>>

Copies(e) == IF e \in DOMAIN pending THEN pending[e] ELSE 0

Deliver(entries) ==
    pending' = [e \in DOMAIN pending \cup Range(entries) |->
                   Copies(e) + Cardinality({k \in DOMAIN entries : entries[k] = e})]

\* XREADGROUP with ">": only entries never delivered to the group, which
\* become pending.  With a lost reply they are pending and in nobody's hands.
ReadGroup(w) ==
    /\ worker[w].pc = "read"
    /\ \E o \in Outcomes(w) :
         LET n == IF Len(stream) < ReadCount THEN Len(stream) ELSE ReadCount
             taken == SubSeq(stream, 1, n)
         IN  /\ Charge(w, o)
             /\ IF Executed(o)
                THEN /\ stream' = SubSeq(stream, n + 1, Len(stream))
                     /\ Deliver(taken)
                ELSE UNCHANGED <<stream, pending>>
             /\ worker' = [worker EXCEPT
                    ![w].pc = IF o = "ok" /\ n > 0 THEN "handle" ELSE "idle",
                    ![w].batch = IF o = "ok" THEN taken ELSE <<>>]
    /\ UNCHANGED <<delayed, dlq, cancelled, outages, written>>

-----------------------------------------------------------------------------
(* HandleMessage, handleFailure and ack.                                   *)

\* Only the access-log compensator is registered (NewEngine).
HasCompensator(filter) == filter = "access_log"

\* writeBatchToClickHouse: the whole batch lands or none of it, and the reply
\* to a Send that landed can be lost.
Write(items, o) ==
    /\ written' = IF Executed(o) THEN Land(items) ELSE written
    /\ o = "err" => outages > 0
    /\ outages' = IF o = "err" THEN outages - 1 ELSE outages
    /\ faults' = IF o = "late" THEN faults - 1 ELSE faults

Compensate(w) ==
    /\ worker[w].pc = "handle"
    /\ HasCompensator(Head(worker[w].batch).task.filter)
    /\ IF w \in cancelled
       THEN Goto(w, "failed") /\ UNCHANGED <<written, outages, faults>>
       ELSE \E o \in Outcomes(w) \cup {"err"} :
              /\ Write(Head(worker[w].batch).task.payload, o)
              /\ Goto(w, IF o = "ok" THEN "ack" ELSE "failed")
    /\ UNCHANGED <<stream, pending, delayed, dlq, cancelled>>

\* "compensator not found, acking".
NoCompensator(w) ==
    /\ worker[w].pc = "handle"
    /\ ~HasCompensator(Head(worker[w].batch).task.filter)
    /\ Goto(w, "ack")
    /\ UNCHANGED <<stream, pending, delayed, dlq, cancelled, faults, outages, written>>

\* AttemptCount++, then the dead-letter stream or the delayed set, with a
\* delay of AttemptCount^2 seconds.  Either command may fail: the failure is
\* logged and the entry is acknowledged all the same.
HandleFailure(w) ==
    /\ worker[w].pc = "failed"
    /\ \E o \in Outcomes(w) :
         LET n == Head(worker[w].batch).attempt + 1
             e == [Head(worker[w].batch) EXCEPT !.attempt = n]
         IN  /\ Charge(w, o)
             /\ IF n >= MaxRetries
                THEN /\ dlq' = IF Executed(o) THEN Append(dlq, e.task) ELSE dlq
                     /\ UNCHANGED delayed
                ELSE /\ delayed' = IF Executed(o)
                           THEN delayed \cup {[entry |-> e, left |-> n * n, stamp |-> FreshStamp]}
                           ELSE delayed
                     /\ UNCHANGED dlq
    /\ Goto(w, "ack")
    /\ UNCHANGED <<stream, pending, cancelled, outages, written>>

Acknowledge(x) ==
    pending' = [e \in {e \in DOMAIN pending : e # x \/ pending[e] > 1} |->
                   IF e = x THEN pending[e] - 1 ELSE pending[e]]

\* Mutant: the entry is not acknowledged.
AckMissing(w) ==
    /\ worker[w].pc = "ack"
    /\ worker' = [worker EXCEPT
           ![w].pc = IF Len(worker[w].batch) = 1 THEN "idle" ELSE "handle",
           ![w].batch = Tail(worker[w].batch)]
    /\ UNCHANGED <<stream, pending, delayed, dlq, cancelled, faults, outages, written>>

\* XACK; a failure leaves the entry pending, and the worker moves on.
Ack(w) ==
    /\ worker[w].pc = "ack"
    /\ \E o \in Outcomes(w) :
         /\ Charge(w, o)
         /\ IF Executed(o) THEN Acknowledge(Head(worker[w].batch)) ELSE UNCHANGED pending
    /\ worker' = [worker EXCEPT
           ![w].pc = IF Len(worker[w].batch) = 1 THEN "idle" ELSE "handle",
           ![w].batch = Tail(worker[w].batch)]
    /\ UNCHANGED <<stream, delayed, dlq, cancelled, outages, written>>

\* A second passes for the scores of the delayed set.
Second ==
    /\ \E m \in delayed : m.left > 0
    /\ delayed' = {[m EXCEPT !.left = IF m.left > 0 THEN m.left - 1 ELSE 0] : m \in delayed}
    /\ UNCHANGED <<stream, pending, dlq, worker, cancelled, faults, outages, written>>

\* Run returns: stopCh or the context is seen between two cycles.
WorkerExit(w) ==
    /\ w \in cancelled
    /\ worker[w].pc = "idle"
    /\ Goto(w, "exited")
    /\ UNCHANGED <<stream, pending, delayed, dlq, cancelled, faults, outages, written>>

WorkerStep(w) ==
    \/ ClaimRange(w) \/ ClaimAdd(w) \/ ClaimRemove(w) \/ ReadGroup(w)
    \/ Compensate(w) \/ NoCompensator(w) \/ HandleFailure(w) \/ Ack(w)
    \/ WorkerExit(w)

-----------------------------------------------------------------------------
\* Where the queue still holds an item: the stream, a pending entry, the
\* delayed set, or the list a worker is about to put back on the stream.
QueuedEntries ==
    Range(stream) \cup DOMAIN pending \cup {m.entry : m \in delayed}

Queued == UNION {e.task.payload : e \in QueuedEntries}
DeadLettered == UNION {t.payload : t \in Range(dlq)}
=============================================================================
