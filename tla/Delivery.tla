------------------------------ MODULE Delivery ------------------------------
(***************************************************************************)
(* What the access-log pipeline promises about the records it accepts: a   *)
(* record is owed from then on, and stops being owed only because it is    *)
(* done (written, or put where an operator can see it) or after a fault.   *)
(***************************************************************************)
CONSTANT Record

VARIABLES owed, done, broken

vars == <<owed, done, broken>>

Init == owed = {} /\ done = {} /\ broken = FALSE

\* Records are taken on, or finished, in batches.
Accept(R) ==
    /\ R \cap (owed \cup done) = {}
    /\ owed' = owed \cup R
    /\ UNCHANGED <<done, broken>>

Finish(R) ==
    /\ R \subseteq owed
    /\ owed' = owed \ R
    /\ done' = done \cup R
    /\ UNCHANGED broken

\* A fault, or a step after one: records may be lost, never un-done.
Fail ==
    /\ broken' = TRUE
    /\ done \subseteq done' /\ done' \subseteq done \cup owed
    /\ owed' \in SUBSET Record /\ owed' \cap done' = {}

Next == Fail \/ (\E R \in SUBSET Record : Accept(R) \/ Finish(R))

Spec == Init /\ [][Next]_vars
=============================================================================
