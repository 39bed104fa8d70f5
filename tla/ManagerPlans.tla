------------------------------ MODULE ManagerPlans ------------------------------
(***************************************************************************)
(* What the managers of a repository have in common: an operation plans a  *)
(* change and ends, the user looks at the plan, and the invocation applies *)
(* it, or not.  Some of them take the lock of the project's local data.    *)
(***************************************************************************)
CONSTANTS
    Invocations,    \* of the command line
    Nobody,         \* holds the lock when it is free
    Absent          \* a file, or an item of a file, that is not there

VARIABLES
    planPc,         \* where each invocation is
    planLoc,        \* what it has planned or read
    planLock        \* holder of the project-data lock

PlanAt(p, point) == planPc' = [planPc EXCEPT ![p] = point]
=============================================================================
