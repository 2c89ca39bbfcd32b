---------------------------- MODULE MCAppDeployment ----------------------------
(* Instances of AppDeployment for TLC. *)
EXTENDS AppDeployment, TLC

CONSTANTS a1, a2

\* Every operation for one app, beside a neighbour that competes for its port.
WithNeighbour == a1 :> Kind @@ a2 :> {"install"}

\* One app, every operation.
Alone == a1 :> Kind
===============================================================================
