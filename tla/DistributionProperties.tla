------------------------ MODULE DistributionProperties ------------------------
(* What must hold of the standalone runtime.                               *)
EXTENDS RuntimeDistribution

(* The runtime the launcher starts, and the one a rollback would return    *)
(* to, are whole, at every moment and after every crash.                   *)
PointersWhole ==
    /\ Whole(current)
    /\ previous # NoSlot => Whole(previous)

(* Between the move of current and its verification, and while a failure   *)
(* is undone, the operation has not happened yet.                          *)
Tentative ==
    {p \in Procs : pc[p] \in {"switch", "verify", "verify_back", "consume",
                              "undo_current", "undo_previous", "undo_staged"}}

VersionOf(slot) == IF slots[slot] = "complete" THEN version[slot] ELSE "broken"

Gone == moved = Parts /\ \A p \in Procs : pc[p] # "move"

Broken == moved # {} /\ ~Gone /\ \A p \in Procs : pc[p] \notin {"move", "move_back"}

CurrentNow ==
    IF Tentative = {} THEN current
    ELSE loc[CHOOSE p \in Tentative : TRUE].current

PreviousNow ==
    IF Tentative = {} THEN previous
    ELSE loc[CHOOSE p \in Tentative : TRUE].previous

Runtime == INSTANCE InstalledRuntime WITH
    installed <- IF Gone THEN None
                 ELSE IF Broken THEN "broken" ELSE VersionOf(CurrentNow),
    fallback <- IF Gone \/ PreviousNow \in {NoSlot, CurrentNow} THEN None
                ELSE VersionOf(PreviousNow),
    Broken <- "broken"

(* Update, rollback and uninstall happen completely or not at all: a       *)
(* failure that is undone restores both the installed version and the one  *)
(* to roll back to, a crash or an undo that fails as well loses at most    *)
(* the latter unless it is of an uninstall, and a rollback uses it up.     *)
ImplementsInstalledRuntimeStep == [Runtime!Next]_(Runtime!vars)

ImplementsInstalledRuntime == Runtime!Init /\ [][ImplementsInstalledRuntimeStep]_vars
=============================================================================
