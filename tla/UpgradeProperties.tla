--------------------------- MODULE UpgradeProperties ---------------------------
(* What must hold of upgrades and their recovery points.                   *)
EXTENDS UpgradeRecovery

UpgradeTypeOK ==
    /\ files \in [ManagedPaths -> Contents]
    /\ DOMAIN points \subseteq Ids /\ \A id \in DOMAIN points : points[id] \in Point
    /\ DOMAIN original \subseteq DOMAIN points
    /\ planLock \in Invocations \cup {Nobody}
    /\ \A p \in Invocations : planLoc[p] \in [id : Ids, before : PartialContents,
                                    after : PartialContents]
    /\ \A p \in Invocations : planPc[p] \in {"saved", "rolled_back"} <=> planLock = p

(* A rollback replaces nothing but what the upgrade wrote, by bytes of     *)
(* which that upgrade makes what was there, whatever was planned, declined,*)
(* edited or interrupted in between.  They are the bytes that the last     *)
(* upgrade of this id replaced, unless another one has been begun since    *)
(* that, or since the rollback was reviewed: configurations that differ in *)
(* their runtime version alone have one result, and one recovery point.    *)
RollbackIsExact ==
    [][\A id \in DOMAIN points, p \in Invocations :
           planLoc[p].id = id /\ Rollback(p) =>
               /\ Agree(id)
               /\ \A path \in DOMAIN id : Upgraded[files'[path]] = id[path]
               /\ id \in DOMAIN original /\ planLoc[p].after = points[id].before =>
                      \A path \in DOMAIN id : files'[path] = original[id][path]]_upgradeVars

(* The last upgrade of an id can be rolled back, to what it has replaced,  *)
(* until another upgrade to the same result is begun.                      *)
UpgradeIsUndoable ==
    \A id \in DOMAIN original :
        /\ id \in DOMAIN points
        /\ points[id].before = original[id]
        /\ ~points[id].rolledBack
=============================================================================
