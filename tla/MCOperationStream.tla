--------------------------- MODULE MCOperationStream ---------------------------
(* An instance of OperationStream for TLC. *)
EXTENDS OperationStream, TLC

CONSTANTS o1, a1, c1

Alone == o1 :> a1
===============================================================================
