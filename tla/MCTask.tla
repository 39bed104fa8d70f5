------------------------------- MODULE MCTask -------------------------------
(* Small instances of the task kernel for TLC. *)
EXTENDS TaskProperties

Symmetry == Permutations(Procs)

Once == [c \in Caps |-> 1]
Twice == [c \in Caps |-> 2]
WriteNothing == [c \in Caps |-> {}]
WriteAll == [c \in Caps |-> Paths]
Positions == 1..24
=============================================================================
