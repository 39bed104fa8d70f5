--------------------------- MODULE CompletionGate ---------------------------
(***************************************************************************)
(* What the kernel promises about a task, without records, events, locks   *)
(* or processes: a task is completed only when every capability it         *)
(* requires has passed since the last amendment and no command it ever     *)
(* launched is unaccounted for; an outcome is final; what is required only *)
(* grows.                                                                  *)
(***************************************************************************)
CONSTANTS
    Tasks, Caps,
    Commands        \* identities a launched command can be given

VARIABLES
    phase,          \* where each task is in its life
    required,       \* capabilities whose acceptance is required
    passed,         \* of those, the ones that passed at this revision
    outstanding     \* commands launched and not reported

vars == <<phase, required, passed, outstanding>>

Init ==
    /\ phase = [t \in Tasks |-> "absent"]
    /\ required = [t \in Tasks |-> {}]
    /\ passed = [t \in Tasks |-> {}]
    /\ outstanding = [t \in Tasks |-> {}]

Open(t) ==
    /\ phase[t] = "absent"
    /\ phase' = [phase EXCEPT ![t] = "open"]
    /\ \E R \in (SUBSET Caps) \ {{}} : required' = [required EXCEPT ![t] = R]
    /\ UNCHANGED <<passed, outstanding>>

(* Every amendment makes the evidence gathered so far stale. *)
Amend(t) ==
    /\ phase[t] = "open"
    /\ \E R \in SUBSET Caps : required' = [required EXCEPT ![t] = @ \cup R]
    /\ passed' = [passed EXCEPT ![t] = {}]
    /\ UNCHANGED <<phase, outstanding>>

Launch(t) ==
    /\ phase[t] = "open"
    /\ \E a \in Commands \ outstanding[t] :
           outstanding' = [outstanding EXCEPT ![t] = @ \cup {a}]
    /\ UNCHANGED <<phase, required, passed>>

(* The latest report on a capability is the one that counts. *)
Report(t) ==
    /\ phase[t] = "open"
    /\ \E a \in outstanding[t] :
           outstanding' = [outstanding EXCEPT ![t] = @ \ {a}]
    /\ \E c \in required[t] :
           \/ passed' = [passed EXCEPT ![t] = @ \cup {c}]
           \/ passed' = [passed EXCEPT ![t] = @ \ {c}]
    /\ UNCHANGED <<phase, required>>

Complete(t) ==
    /\ phase[t] = "open"
    /\ passed[t] = required[t]
    /\ outstanding[t] = {}
    /\ phase' = [phase EXCEPT ![t] = "completed"]
    /\ UNCHANGED <<required, passed, outstanding>>

AcceptRisk(t) ==
    /\ phase[t] = "open"
    /\ phase' = [phase EXCEPT ![t] = "accepted_with_risk"]
    /\ UNCHANGED <<required, passed, outstanding>>

Abandon(t) ==
    /\ phase[t] = "open"
    /\ phase' = [phase EXCEPT ![t] = "abandoned"]
    /\ UNCHANGED <<required, passed, outstanding>>

Next ==
    \E t \in Tasks :
        \/ Open(t) \/ Amend(t) \/ Launch(t) \/ Report(t)
        \/ Complete(t) \/ AcceptRisk(t) \/ Abandon(t)

Spec == Init /\ [][Next]_vars
=============================================================================
