--------------------------- MODULE MCServerRecovery ---------------------------
(* An instance of ServerRecovery for TLC. *)
EXTENDS ServerRecovery

FairRecoverySpec == RecoverySpec /\ RecoveryFairness
===============================================================================
