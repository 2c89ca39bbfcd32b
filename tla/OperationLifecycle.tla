-------------------------- MODULE OperationLifecycle --------------------------
(***************************************************************************)
(* What the app-operation service promises to its callers: an operation is *)
(* accepted only while no other operation of the same app is open and      *)
(* fewer than MaxConcurrent operations are open, and an operation that has *)
(* ended never opens again.  A server restart ends every open operation at *)
(* once.  doc/architecture.md:122 and doc/modules/apps.md:69 state the     *)
(* per-app promise, doc/api-reference.md:56 the two rejections.            *)
(***************************************************************************)
EXTENDS Integers, FiniteSets

CONSTANTS
    Op,             \* the operation ids
    App,            \* the applications
    AppOf,          \* AppOf[o] is the application operation o is about
    MaxConcurrent   \* STORE_MAX_CONCURRENT_OPERATIONS

VARIABLE status     \* status[o] is the life of operation o so far

TypeOK == status \in [Op -> {"new", "open", "ended"}]

Open == {o \in Op : status[o] = "open"}

Init == status = [o \in Op |-> "new"]

Accept(o) ==
    /\ status[o] = "new"
    /\ \A p \in Open : AppOf[p] # AppOf[o]
    /\ Cardinality(Open) < MaxConcurrent
    /\ status' = [status EXCEPT ![o] = "open"]

End(o) ==
    /\ status[o] = "open"
    /\ status' = [status EXCEPT ![o] = "ended"]

EndAll == status' = [o \in Op |-> IF status[o] = "open" THEN "ended" ELSE status[o]]

Next == (\E o \in Op : Accept(o) \/ End(o)) \/ EndAll

Spec == Init /\ [][Next]_status
===============================================================================
