-------------------------- MODULE PlacementProperties --------------------------
(* What must hold of the placement of local data.                          *)
EXTENDS StoragePlacement

(* A record as the clone that works on it sees it. *)
Visible(t) == Manifest(RootOf(OwnerOf[t]))[t]

Rank == [absent |-> 0, draft |-> 1, done |-> 2]

(* No record is ever lost or set back for the clone that works on it,      *)
(* whatever clones migrate, fail, crash, roll back or write meanwhile.     *)
RecordsSurvive ==
    [][\A t \in Tasks : Rank[Visible(t)] <= Rank[Visible(t)']]_placementVars

(* A clone moves only while none of its tasks is unfinished, and finds the *)
(* records it had.                                                         *)
OnlyFinishedTasksMove ==
    [][\A t \in Tasks : mode'[OwnerOf[t]] # mode[OwnerOf[t]] =>
           Visible(t) # "draft" /\ Visible(t)' = Visible(t)]_placementVars

(* What a writer writes is what its clone sees from then on: a binding     *)
(* that a migration made invalid is noticed before anything is written.    *)
WritesAreSeen ==
    [][\A p \in Invocations, t \in Tasks :
           Write(p) /\ t = plan[p].task => Visible(t)' # Visible(t)]_placementVars

(* Invocations do not wait for each other in a circle: a writer takes the  *)
(* lock of its clone and of one root, a migration that of its clone and of *)
(* two roots, in whatever order clones migrate to and fro.                 *)
WaitsFor(p, q) ==
    \/ at[p] \in {"bound", "planned"} /\ opLock[plan[p].clone] = q
    \/ at[p] = "lock_roots" /\ \E root \in plan[p].need : rootLock[root] = q

NoCircularWait == \A p, q \in Invocations : ~(WaitsFor(p, q) /\ WaitsFor(q, p))
=============================================================================
