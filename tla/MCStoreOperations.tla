--------------------------- MODULE MCStoreOperations ---------------------------
(* Instances of StoreOperations for TLC. *)
EXTENDS StoreOperations, TLC

CONSTANTS o1, o2, a1

\* Two operations of one app.
TwoOfOneApp == o1 :> a1 @@ o2 :> a1

\* A single operation.
Alone == o1 :> a1
===============================================================================
