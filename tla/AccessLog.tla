----------------------------- MODULE AccessLog -----------------------------
(***************************************************************************)
(* The access-log filter (pkg/filters/outbound/access_log.go) of several   *)
(* gateway processes in front of the compensation queue they share, and    *)
(* the shutdown, crash and restart of those processes.                     *)
(*                                                                         *)
(* Requests hand records to a bounded channel; one goroutine per process   *)
(* collects them into batches and writes the batches to ClickHouse.  A     *)
(* full channel and a failed batch fall back to the compensation queue.    *)
(***************************************************************************)
EXTENDS CompensationQueue

CONSTANTS
    BatchSize,   \* access_log.batch.batch_size of each process
    Workloads    \* values of load: the items each process produces, in the order
                 \* they arise, and the bounds

ASSUME AccessLogAssumption ==
    /\ BatchSize \in [Workers -> Nat \ {0}]
    /\ Workloads \subseteq [items : [Workers -> Seq(Items)], outages : Nat, faults : Nat]

VARIABLES
    proc,      \* "up", "stopping" (context cancelled), "closing" (filter closed), "down"
    logChan,   \* the channel of each process
    batch,     \* the batch its loop is collecting
    loop,      \* "run", "flush", "drain", "drainFlush", "lastFlush", "done"
    seen,      \* items a request has produced
    accepted,  \* items the filter or the queue took on
    stops      \* orderly shutdowns so far

logVars == <<proc, logChan, batch, loop, seen, accepted, stops>>
vars == <<queueVars, logVars>>

\* make(chan AccessLogItem, batchSize*2)
Capacity(p) == 2 * BatchSize[p]

Init ==
    /\ load \in Workloads
    /\ QueueInit
    /\ proc = [p \in Workers |-> "up"]
    /\ logChan = [p \in Workers |-> <<>>]
    /\ batch = [p \in Workers |-> {}]
    /\ loop = [p \in Workers |-> "run"]
    /\ seen = {} /\ accepted = {}
    /\ stops = 0

-----------------------------------------------------------------------------
(* The request side.                                                       *)

\* The next item of a process, if any.
NextRequest(p) ==
    LET items == load.items[p]
    IN  {items[k] : k \in {k \in DOMAIN items : /\ items[k] \notin seen
                                                /\ \A j \in 1..(k - 1) : items[j] \in seen}}

\* OnResponse under the filter's mutex: nothing once the filter is closed; the
\* channel if there is room; otherwise the compensation queue.
OnResponse(p, i) ==
    /\ i \in Logs
    /\ proc[p] # "down"
    /\ seen' = seen \cup {i}
    /\ CASE proc[p] = "closing" ->
              UNCHANGED <<logChan, accepted, stream, faults>>
         [] proc[p] # "closing" /\ Len(logChan[p]) < Capacity(p) ->
              /\ logChan' = [logChan EXCEPT ![p] = Append(@, i)]
              /\ accepted' = accepted \cup {i}
              /\ UNCHANGED <<stream, faults>>
         [] OTHER ->
              /\ \E o \in {"ok", "err", "late"} : Enqueue(NewEntry("access_log", {i}), o)
              /\ accepted' = accepted \cup {i}
              /\ UNCHANGED logChan
    /\ UNCHANGED <<pending, delayed, dlq, worker, cancelled, outages, written,
                   proc, batch, loop, stops>>

\* A critical outbound filter failed: Engine.enqueueCompensation.
CriticalFilterFailed(p, i) ==
    /\ i \in Settlements
    /\ proc[p] # "down"
    /\ seen' = seen \cup {i}
    /\ \E o \in {"ok", "err", "late"} :
         /\ Enqueue(NewEntry("token_settlement", {i}), o)
         /\ accepted' = IF Executed(o) THEN accepted \cup {i} ELSE accepted
    /\ UNCHANGED <<pending, delayed, dlq, worker, cancelled, outages, written,
                   proc, logChan, batch, loop, stops>>

-----------------------------------------------------------------------------
(* startBatchLoop.                                                         *)

\* A record is received; a full batch is flushed at once.
Receive(p) ==
    /\ loop[p] \in {"run", "drain"}
    /\ logChan[p] # <<>>
    /\ logChan' = [logChan EXCEPT ![p] = Tail(@)]
    /\ batch' = [batch EXCEPT ![p] = @ \cup {Head(logChan[p])}]
    /\ loop' = [loop EXCEPT ![p] =
           IF Cardinality(batch'[p]) < BatchSize[p] THEN @
           ELSE IF @ = "run" THEN "flush" ELSE "drainFlush"]
    /\ UNCHANGED <<queueVars, proc, seen, accepted, stops>>

\* Mutant: no ticker.
TickerFlushNever(p) == FALSE /\ UNCHANGED vars

\* The ticker; flushing an empty batch does nothing.
TickerFlush(p) ==
    /\ loop[p] = "run" /\ batch[p] # {}
    /\ loop' = [loop EXCEPT ![p] = "flush"]
    /\ UNCHANGED <<queueVars, proc, logChan, batch, seen, accepted, stops>>

\* Mutant: stopCh is seen only when the channel is empty and a batch is open.
DrainLazy(p) ==
    /\ \/ loop[p] = "run" /\ proc[p] = "closing" /\ batch[p] # {}
       \/ loop[p] = "drain" /\ logChan[p] = <<>>
    /\ loop' = [loop EXCEPT ![p] =
           IF @ = "run" THEN "drain" ELSE IF batch[p] = {} THEN "done" ELSE "lastFlush"]
    /\ UNCHANGED <<queueVars, proc, logChan, batch, seen, accepted, stops>>

\* stopCh is seen: drain without blocking, then flush once more and return.
Drain(p) ==
    /\ \/ loop[p] = "run" /\ proc[p] = "closing"
       \/ loop[p] = "drain" /\ logChan[p] = <<>>
    /\ loop' = [loop EXCEPT ![p] =
           IF @ = "run" THEN "drain" ELSE IF batch[p] = {} THEN "done" ELSE "lastFlush"]
    /\ UNCHANGED <<queueVars, proc, logChan, batch, seen, accepted, stops>>

\* Mutant: a batch ClickHouse refuses is dropped.
FlushAndForget(p) ==
    /\ loop[p] \in {"flush", "drainFlush", "lastFlush"}
    /\ \/ written' = Land(batch[p]) /\ UNCHANGED outages
       \/ outages > 0 /\ outages' = outages - 1 /\ UNCHANGED written
    /\ batch' = [batch EXCEPT ![p] = {}]
    /\ loop' = [loop EXCEPT ![p] =
           CASE @ = "flush" -> "run" [] @ = "drainFlush" -> "drain" [] OTHER -> "done"]
    /\ UNCHANGED <<stream, faults, pending, delayed, dlq, worker, cancelled,
                   proc, logChan, seen, accepted, stops>>

\* flush: writeBatchToClickHouse, on failure one compensation task for the
\* batch, which may have landed with its reply lost; whatever happens the batch
\* is emptied.
Flush(p) ==
    /\ loop[p] \in {"flush", "drainFlush", "lastFlush"}
    /\ \/ /\ written' = Land(batch[p])
          /\ UNCHANGED <<stream, faults, outages>>
       \/ /\ outages > 0 /\ outages' = outages - 1
          /\ \E o \in {"ok", "err", "late"} : Enqueue(NewEntry("access_log", batch[p]), o)
          /\ UNCHANGED written
       \/ /\ written' = Land(batch[p])
          /\ Enqueue(NewEntry("access_log", batch[p]), "late")
          /\ UNCHANGED outages
    /\ batch' = [batch EXCEPT ![p] = {}]
    /\ loop' = [loop EXCEPT ![p] =
           CASE @ = "flush" -> "run" [] @ = "drainFlush" -> "drain" [] OTHER -> "done"]
    /\ UNCHANGED <<pending, delayed, dlq, worker, cancelled,
                   proc, logChan, seen, accepted, stops>>

LoopStep(p) == Receive(p) \/ TickerFlush(p) \/ Drain(p) \/ Flush(p)

-----------------------------------------------------------------------------
(* gatewayLifetime.close, crash and restart.                               *)

\* tasks.stop cancels the context the worker runs under; worker.Close waits.
StopTasks(p) ==
    /\ proc[p] = "up" /\ faults > 0
    /\ faults' = faults - 1
    /\ proc' = [proc EXCEPT ![p] = "stopping"]
    /\ cancelled' = cancelled \cup {p}
    /\ stops' = stops + 1
    /\ UNCHANGED <<stream, pending, delayed, dlq, worker, outages, written,
                   logChan, batch, loop, seen, accepted>>

\* The worker is gone: accessLog.Close closes the filter and waits for the loop.
CloseAccessLog(p) ==
    /\ proc[p] = "stopping" /\ worker[p].pc = "exited"
    /\ proc' = [proc EXCEPT ![p] = "closing"]
    /\ UNCHANGED <<queueVars, logChan, batch, loop, seen, accepted, stops>>

\* The loop has returned; the process ends, its memory with it.
ProcessExit(p) ==
    /\ proc[p] = "closing" /\ loop[p] = "done"
    /\ proc' = [proc EXCEPT ![p] = "down"]
    /\ logChan' = [logChan EXCEPT ![p] = <<>>]
    /\ batch' = [batch EXCEPT ![p] = {}]
    /\ UNCHANGED <<queueVars, loop, seen, accepted, stops>>

Crash(p) ==
    /\ proc[p] # "down" /\ faults > 0
    /\ faults' = faults - 1
    /\ proc' = [proc EXCEPT ![p] = "down"]
    /\ cancelled' = cancelled \cup {p}
    /\ logChan' = [logChan EXCEPT ![p] = <<>>]
    /\ batch' = [batch EXCEPT ![p] = {}]
    /\ loop' = [loop EXCEPT ![p] = "done"]
    /\ worker' = [worker EXCEPT ![p] = [Idle EXCEPT !.pc = "exited"]]
    /\ UNCHANGED <<stream, pending, delayed, dlq, outages, written, seen, accepted, stops>>

\* NewAccessLogFilter and NewWorker of the next process; the consumer group
\* exists already, so nothing in Redis changes.
Restart(p) ==
    /\ proc[p] = "down"
    /\ proc' = [proc EXCEPT ![p] = "up"]
    /\ cancelled' = cancelled \ {p}
    /\ loop' = [loop EXCEPT ![p] = "run"]
    /\ worker' = [worker EXCEPT ![p] = Idle]
    /\ UNCHANGED <<stream, pending, delayed, dlq, faults, outages, written,
                   logChan, batch, seen, accepted, stops>>

Close(p) == CloseAccessLog(p) \/ ProcessExit(p)

Step ==
    \/ \E p \in Workers :
         \/ \E i \in NextRequest(p) : OnResponse(p, i) \/ CriticalFilterFailed(p, i)
         \/ LoopStep(p) \/ StopTasks(p) \/ Close(p) \/ Crash(p) \/ Restart(p)
         \/ proc[p] # "down" /\ WorkerStep(p) /\ UNCHANGED logVars
    \/ Second /\ UNCHANGED logVars

Next == Step /\ UNCHANGED load

Spec == Init /\ [][Next]_<<vars, load>>

\* Goroutines that can run are run, and seconds pass; nothing forces a
\* request, a fault, a shutdown or a restart.
Fairness ==
    /\ WF_vars(Second /\ UNCHANGED logVars)
    /\ \A p \in Workers :
         /\ WF_vars(LoopStep(p))
         /\ WF_vars(Close(p))
         /\ WF_vars(proc[p] # "down" /\ WorkerStep(p) /\ UNCHANGED logVars)

FairSpec == Spec /\ Fairness
-----------------------------------------------------------------------------
(* Properties.                                                             *)

InMemory == UNION {Range(logChan[p]) \cup batch[p] : p \in Workers}
Done == {i \in Items : written[i] > 0} \cup DeadLettered
Owed == (accepted \cap (InMemory \cup Queued)) \ Done
Broken == load.faults - faults > stops

Promise == INSTANCE Delivery WITH
    Record <- Logs,
    owed <- Owed \cap Logs,
    done <- Done \cap Logs,
    broken <- Broken

\* Refinement of Delivery: a record OnResponse accepted is in the channel, in
\* the batch or in the queue until it is written or dead-lettered, whatever two
\* workers, the overflow path and orderly shutdowns do; only a failing Redis
\* command, a lost reply or a crash can make it disappear.
KeepsPromise == Promise!Spec

\* ClaimDelayed adds to the stream before it removes from the delayed set, so
\* each worker can put a due task back once: without faults and shutdowns a record is
\* written or dead-lettered at most |Workers|^(MaxRetries - 1) times, which
\* is once when a single process runs.
DuplicatesBounded ==
    (~Broken /\ stops = 0) => \A i \in Items :
        written[i] + Cardinality({k \in DOMAIN dlq : i \in dlq[k].payload})
            <= Cardinality(Workers)^(MaxRetries - 1)

\* The places at which workers hold an entry they have read.
Holders(e) ==
    {h \in Workers \X (1..ReadCount) : h[2] \in DOMAIN worker[h[1]].batch /\ worker[h[1]].batch[h[2]] = e}

\* HandleMessage acknowledges what it has handled: with no fault and no
\* shutdown, every pending entry is in the hands of a live worker, which is
\* what makes reading only new entries (">") safe.
PendingInHand ==
    (~Broken /\ stops = 0) => \A e \in DOMAIN pending : pending[e] = Cardinality(Holders(e))

\* Every accepted record is eventually written or dead-lettered, unless a
\* fault, a crash or a shutdown interfered.
EventuallyDone ==
    \A i \in Logs : (i \in accepted) ~> (i \in Done \/ Broken \/ stops > 0)

\* gatewayLifetime.close returns: the worker finishes its cycle under the
\* cancelled context and the batch loop drains, however the writes fare.
ShutdownCompletes ==
    \A p \in Workers : (proc[p] = "stopping") ~> (proc[p] = "down")
=============================================================================
