--------------------------- MODULE ReviewProperties ---------------------------
(* What must hold of the commands that a user gives.                       *)
EXTENDS CommandReview

(* Who is asked to confirm a change has been shown it (README.md:421).     *)
(* Not so: prune, pin, export and approve ask first and show afterwards.   *)
ShownBeforeConfirmed == stage = "asking" => run.shown

(* Nobody has to be there for a command with --yes or --json: it ends.     *)
Unattended == run.yes \/ run.json

UnattendedEnds == stage # "done" /\ Unattended ~> stage = "done"
=============================================================================
