---------------------- MODULE MCCircuitBreakerHistory ----------------------
(***************************************************************************)
(* Small instances of CircuitBreakerHistory for TLC.                       *)
(***************************************************************************)
EXTENDS MCCircuitBreaker, CircuitBreakerHistory
=============================================================================
