----------------------------- MODULE MCOperations -----------------------------
(***************************************************************************)
(* An instance of OperationStream for TLC. Of four operations a behaviour  *)
(* has one, followed by clients, or two of one app, or three that meet at  *)
(* the limit, these without clients and without patches of their bodies.   *)
(***************************************************************************)
EXTENDS OperationStream, TLC

CONSTANTS o1, o2, o3, o4, a1, a2, a3

AppOfEach == o1 :> a1 @@ o2 :> a1 @@ o3 :> a2 @@ o4 :> a3

VARIABLE taking     \* the operations that are asked for

OperationsInit == StreamInit /\ taking \in {{o1}, {o1, o2}, {o1, o3, o4}}

OperationsNext ==
    /\ StreamNext /\ UNCHANGED taking
    /\ \A o \in Op \ taking : phase'[o] = "idle"
    /\ taking # {o1} =>
          UNCHANGED stream /\ \A o \in Op : steps'[o] = 0 /\ ticks'[o] = 0

OperationsSpec == OperationsInit /\ [][OperationsNext]_<<streamVars, taking>>
===============================================================================
