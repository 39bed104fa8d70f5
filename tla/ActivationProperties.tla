------------------------- MODULE ActivationProperties -------------------------
(* What must hold of the modules that a task begins with.                  *)
EXTENDS ModuleActivation

Activated == {i \in DOMAIN recorded : recorded[i].state = "activated"}

CostOf(decision) == IF decision.state = "activated" THEN decision.manifest.cost ELSE 0

(* What decisions give to a task, together. *)
Given(decisions) ==
    LET sum[n \in 0 .. Len(decisions)] ==
            IF n = 0 THEN 0 ELSE sum[n - 1] + CostOf(decisions[n])
    IN  sum[Len(decisions)]

(* The contexts that a task is given fit into the budget together, in      *)
(* whatever order modules come and whatever has been enabled, although     *)
(* each decision looks at one module (modules/manager.py                   *)
(* activation_decisions).                                                  *)
ContextWithinBudget == Given(recorded) <= ContextBudget

(* A local manifest that is given to a task is one that a user has enabled *)
(* after a review: edits of the file, whenever they happen between the     *)
(* plan, the apply, the reading of the lock and the reading of the file,   *)
(* never reach a task by themselves.                                       *)
ContextWasReviewed ==
    \A i \in Activated : recorded[i].source = "local" => recorded[i].manifest \in reviewed

(* What a task is given has been reviewed and fits into its budget.        *)
ContextIsSound == ContextWithinBudget /\ ContextWasReviewed

(* When Doctor finds the hashes in order, a task can begin, and a module   *)
(* is what the lock has pinned: a local one always, a builtin when the     *)
(* item of its id is a builtin's.                                          *)
DoctorForesees ==
    LET statuses == Statuses(locked)
    IN  HashesValid =>
            /\ Listable(locked)
            /\ \A i \in DOMAIN statuses :
                   LET status == statuses[i]
                       item == locked[status.manifest.id]
                   IN  item # Absent /\ item.source = status.source =>
                           item.sha256 = status.manifest

(* "modules.lock pins source, version and hash": what is activated has the *)
(* source and the hash of the item that the start has read                 *)
(* (docs/adaptive-harness-prd.md:621).  Not so: a builtin comes with the   *)
(* runtime, whatever the lock says of its hash.                            *)
ActivatedAsPinned ==
    \A p \in Invocations :
        \A i \in DOMAIN planLoc[p].decisions :
            LET decision == planLoc[p].decisions[i]
                item == planLoc[p].lock[decision.manifest.id]
            IN  decision.state = "activated" =>
                    item # Absent /\ item.source = decision.source
                                 /\ item.sha256 = decision.manifest
=============================================================================
