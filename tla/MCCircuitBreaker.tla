-------------------------- MODULE MCCircuitBreaker --------------------------
(***************************************************************************)
(* CircuitBreaker for TLC: RunFromDB and Run, the two goroutines a daemon    *)
(* starts, with the defaults of NewCircuitBreaker (3 failures, 5 minutes to  *)
(* an hour).                                                               *)
(***************************************************************************)
EXTENDS CircuitBreaker

MCThreshold    == 3
MCBaseCooldown == 1
MCBackoffMax   == 12
MCMaxCycles    == 5
=============================================================================
