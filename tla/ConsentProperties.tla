-------------------------- MODULE ConsentProperties --------------------------
(* What must hold of consent to the commands of a task.                    *)
EXTENDS CapabilityConsent

Authorized == EventsOf("command.authorized")

(* A command that does more than read, that cannot be undone, or whose     *)
(* declaration asks for it.                                                *)
NeedsConsent(d) ==
    \/ d.effects \ {"filesystem_read"} # {}
    \/ d.writes # {} \/ d.outbound \/ d.listener
    \/ d.reversibility = "irreversible"
    \/ d.policy = "ask"

(* Grant i is consent to command j: shown before, for the same places and  *)
(* effects.                                                                *)
Consents(i, j) ==
    LET grant == task.events[i]
        command == task.events[j]
    IN  /\ i < j
        /\ grant.approval = command.approval
        /\ grant.cap = command.cap
        /\ Binding(grant.decl) = Binding(command.decl)

(* Whatever is edited, committed, amended or killed, and whenever: what    *)
(* was authorized stays within the policy and the scope of its task, a     *)
(* human has seen its places and effects before if they matter, and no     *)
(* grant pays for more commands than it says (core/gateway.py authorize,   *)
(* core/task_service.py grant_approval).                                   *)
EffectsConsented ==
    /\ \A j \in Authorized :
           LET d == task.events[j].decl IN
           /\ task.events[j].cap \in task.requested
           /\ d.writes \subseteq task.scope
           /\ ~d.outbound /\ ~d.listener
           /\ d.environment \notin {"staging", "production"}
           /\ d.policy # "deny"
           /\ NeedsConsent(d) => \E i \in EventsOf("approval.granted") : Consents(i, j)
    /\ \A i \in EventsOf("approval.granted") :
           Cardinality(UsesOf(task.events[i].approval)) <= task.events[i].uses
=============================================================================
