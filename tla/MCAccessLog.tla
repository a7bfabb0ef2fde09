---------------------------- MODULE MCAccessLog ----------------------------
(* Instances of AccessLog for TLC.                                         *)
EXTENDS AccessLog, TLC

CONSTANTS p1, p2

\* One process flushes every record at once, the other collects pairs.
MixedBatches == (p1 :> 1) @@ (p2 :> 2)

\* Three records overflow the channel of the first process (capacity 2).
Overflowing == [items |-> (p1 :> <<1, 2, 3>>) @@ (p2 :> <<>>), outages |-> 1, faults |-> 1]

\* One record each; the writes fail until a task is dead-lettered.
OneEach == [items |-> (p1 :> <<1>>) @@ (p2 :> <<2>>), outages |-> 3, faults |-> 1]

\* The second process also queues a failed critical filter.
Critical == [items |-> (p1 :> <<1>>) @@ (p2 :> <<4>>), outages |-> 1, faults |-> 1]

MCWorkloads == {Overflowing, OneEach, Critical}
=============================================================================
