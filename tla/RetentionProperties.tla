------------------------- MODULE RetentionProperties -------------------------
(* What must hold of the retention index and of what it indexes; of each   *)
(* step, where the name says so.                                           *)
EXTENDS StorageRetention

RetentionTypeOK ==
    /\ DOMAIN index \subseteq Items /\ \A id \in DOMAIN index : index[id] \in Entry
    /\ aged \subseteq Items
    /\ stored \subseteq Places
    /\ links \subseteq stored
    /\ planLock \in Invocations \cup {Nobody}
    /\ \A p \in Invocations : planPc[p] = "pruning" <=> planLock = p
    /\ \A p \in Invocations : planPc[p] = "idle" => planLoc[p] = NoPlan

(* There is no file where an item marked expired was stored, whatever was  *)
(* registered anew between a plan and its apply, and whatever the apply was*)
(* interrupted at.                                                         *)
ExpiredIsGone ==
    \A id \in Registered : index[id].expired => index[id].place \notin stored

(* An item stays pinned until it is registered anew: no apply writes back  *)
(* an index in which another invocation's pin is missing.                  *)
PinsSurvive ==
    [][\A id \in Registered :
           \/ ~index[id].pinned
           \/ index'[id].pinned
           \/ \E p \in Invocations, entry \in NewEntries : Register(p, id, entry)]_retentionVars
=============================================================================
