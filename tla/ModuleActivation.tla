--------------------------- MODULE ModuleActivation ---------------------------
(***************************************************************************)
(* Which modules a task begins with (modules/manager.py list and           *)
(* activation_decisions, modules/model.py, modules/registry.py,            *)
(* TaskService.start in core/task_service.py): the lock file names what    *)
(* the user has enabled after a review, by the hash of its manifest;       *)
(* builtins come with the runtime, local manifests are files anybody edits.*)
(* A start reads the lock, then the manifests, decides, and records its    *)
(* decisions one by one.                                                   *)
(*                                                                         *)
(* A manifest and its hash are one value.  Trials are in ModuleTrials.     *)
(***************************************************************************)
EXTENDS Integers, Sequences, FiniteSets, SequencesExt, ManagerPlans

CONSTANTS
    ModuleIds,      \* ids of modules, in the order of the lock file
    Builtins,       \* ids of builtins, in the order of the registry
    Manifests,      \* bound: manifests of builtins and of local modules
    Shipped,        \* bound: what runtimes come with, by id
    Traits, Capabilities,
    Chosen,         \* bound: policies that users choose
    ContextBudget,
    MaxChanges      \* bound: edits, other runtimes and applied changes

ActivationPolicies == {"auto", "suggest", "manual", "disabled"}

(* ModuleManifest, as far as decisions read it. *)
Manifest ==
    [id : ToSet(ModuleIds), content : STRING,
     applies : SUBSET Traits, excludes : SUBSET Traits, needs : SUBSET Capabilities,
     cost : Nat, policy : ActivationPolicies]

AnyManifests ==
    Manifests \cup {runtime[id] : runtime \in Shipped, id \in ToSet(Builtins)}

(* An item of the lock. *)
LockItem ==
    [source : {"builtin", "local"}, sha256 : AnyManifests, enabled : BOOLEAN,
     policy : ActivationPolicies]

ActivationAssumption ==
    /\ ModuleIds \in Seq(ToSet(ModuleIds)) /\ IsInjective(ModuleIds)
    /\ Builtins \in Seq(ToSet(ModuleIds)) /\ IsInjective(Builtins) /\ Builtins # <<>>
    /\ \A m \in AnyManifests : m.cost \in Nat /\ m.policy \in ActivationPolicies
    /\ \A runtime \in Shipped : \A id \in ToSet(Builtins) : runtime[id].id = id
    /\ Absent \notin AnyManifests \cup LockItem
    /\ Chosen \subseteq ActivationPolicies
    /\ ContextBudget \in Nat

VARIABLES
    shipped,    \* the builtins of the runtime in use
    local,      \* the manifest file of every id, or Absent
    locked,     \* modules.lock.json: an item, or Absent
    recorded,   \* the decisions recorded for the task
    reviewed,   \* every manifest that a user has enabled after a review
    changes

activationVars == <<shipped, local, locked, recorded, reviewed, planPc, planLoc, changes>>

NoStart == [lock |-> <<>>, after |-> <<>>, enabled |-> {}, decisions |-> <<>>]

ActivationInit ==
    /\ shipped \in Shipped
    /\ local = [id \in ToSet(ModuleIds) |-> Absent]
    /\ locked = [id \in ToSet(ModuleIds) |-> Absent]
    /\ recorded = <<>>
    /\ reviewed = {}
    /\ planPc = [p \in Invocations |-> "idle"]
    /\ planLoc = [p \in Invocations |-> NoStart]
    /\ changes = 0

EndModules(p) == PlanAt(p, "idle") /\ planLoc' = [planLoc EXCEPT ![p] = NoStart]

----------------------------------------------------------------------------
(* Enabling and disabling: a plan, a review, an apply *)

Plan(p, after, enabled) ==
    /\ planPc[p] = "idle"
    /\ PlanAt(p, "planned")
    /\ planLoc' = [planLoc EXCEPT ![p] = [NoStart EXCEPT !.lock = locked, !.after = after,
                                                  !.enabled = enabled]]
    /\ UNCHANGED <<shipped, local, locked, recorded, reviewed, changes>>

PinnedItem(manifest, source, policy) ==
    [source |-> source, sha256 |-> manifest, enabled |-> TRUE, policy |-> policy]

PlanEnableBuiltin(p, id, policy) ==
    Plan(p, [locked EXCEPT ![id] = PinnedItem(shipped[id], "builtin", policy)], {shipped[id]})

PlanEnableLocal(p, id, policy) ==
    /\ local[id] # Absent
    /\ Plan(p, [locked EXCEPT ![id] = PinnedItem(local[id], "local", policy)], {local[id]})

PlanDisableModule(p, id) ==
    /\ locked[id] # Absent
    /\ Plan(p, [locked EXCEPT ![id].enabled = FALSE], {})

ApplyModules(p) ==
    /\ planPc[p] = "planned"
    /\ changes < MaxChanges
    /\ locked = planLoc[p].lock
    /\ locked' = planLoc[p].after
    /\ reviewed' = reviewed \cup planLoc[p].enabled
    /\ changes' = changes + 1
    /\ EndModules(p)
    /\ UNCHANGED <<shipped, local, recorded>>

(* Declined, refused because the lock has changed, or killed. *)
AbandonModules(p) ==
    /\ planPc[p] # "idle"
    /\ EndModules(p)
    /\ UNCHANGED <<shipped, local, locked, recorded, reviewed, changes>>

----------------------------------------------------------------------------
(* ModuleManager.list *)

(* Mutant: a local manifest is taken as it is. *)
AnyManifest(item, id) == local[id] # Absent

(* _load_locked_local. *)
LoadsAsLocked(item, id) == local[id] # Absent /\ local[id] = item.sha256

(* One local item that has changed, enabled or not, fails the whole list.  *)
Listable(items) ==
    \A id \in ToSet(ModuleIds) :
        items[id] # Absent /\ items[id].source = "local" => LoadsAsLocked(items[id], id)

(* A builtin takes the state of whatever item has its id. *)
BuiltinStatus(items, id) ==
    IF items[id] = Absent
    THEN [manifest |-> shipped[id], source |-> "builtin", enabled |-> FALSE,
          policy |-> shipped[id].policy]
    ELSE [manifest |-> shipped[id], source |-> "builtin", enabled |-> items[id].enabled,
          policy |-> items[id].policy]

LocalStatus(items, id) ==
    [manifest |-> local[id], source |-> "local", enabled |-> items[id].enabled,
     policy |-> items[id].policy]

IsLocal(item) == item # Absent /\ item.source = "local"

LocalStatuses(items) ==
    LET found[n \in 0 .. Len(ModuleIds)] ==
            IF n = 0 THEN <<>>
            ELSE IF IsLocal(items[ModuleIds[n]])
                 THEN Append(found[n - 1], LocalStatus(items, ModuleIds[n]))
                 ELSE found[n - 1]
    IN  found[Len(ModuleIds)]

Statuses(items) ==
    [i \in DOMAIN Builtins |-> BuiltinStatus(items, Builtins[i])] \o LocalStatuses(items)

----------------------------------------------------------------------------
(* decide_activation and activation_decisions *)

(* The conditions of a decision in the order of the code: the first that   *)
(* holds decides.                                                          *)
StateOf(status, traits, available, requested, remaining) ==
    LET m == status.manifest
    IN  CASE ~status.enabled -> "installed"
          [] status.enabled /\ \/ status.policy = "disabled"
                               \/ m.excludes \cap traits # {}
                               \/ ~(m.applies \subseteq traits) -> "enabled"
          [] OTHER ->
               IF ~(m.needs \subseteq available) \/ m.cost > remaining THEN "blocked"
               ELSE IF status.policy = "suggest" THEN "suggested"
               ELSE IF status.policy = "manual" /\ m.id \notin requested THEN "enabled"
               ELSE "activated"

Spending(sofar, decision) ==
    [remaining |-> IF decision.state = "activated"
                   THEN sofar.remaining - decision.manifest.cost ELSE sofar.remaining,
     decisions |-> Append(sofar.decisions, decision)]

DecisionOn(status, traits, available, requested, remaining) ==
    [manifest |-> status.manifest, source |-> status.source,
     state |-> StateOf(status, traits, available, requested, remaining)]

Decisions(statuses, traits, available, requested) ==
    LET sofar[n \in 0 .. Len(statuses)] ==
            IF n = 0 THEN [remaining |-> ContextBudget, decisions |-> <<>>]
            ELSE Spending(sofar[n - 1],
                          DecisionOn(statuses[n], traits, available, requested,
                                     sofar[n - 1].remaining))
    IN  sofar[Len(statuses)].decisions

----------------------------------------------------------------------------
(* TaskService.start *)

(* list reads the lock ... *)
BeginStart(p) ==
    /\ planPc[p] = "idle" /\ recorded = <<>>
    /\ \A q \in Invocations :       \* the operation lock
           planPc[q] \notin {"listing", "recording"}
    /\ PlanAt(p, "listing")
    /\ planLoc' = [planLoc EXCEPT ![p].lock = locked]
    /\ UNCHANGED <<shipped, local, locked, recorded, reviewed, changes>>

(* ... then the manifests it names. *)
Decide(p, traits, available, requested) ==
    LET statuses == Statuses(planLoc[p].lock)
    IN  /\ planPc[p] = "listing"
        /\ Listable(planLoc[p].lock)
        /\ requested \subseteq {statuses[i].manifest.id : i \in DOMAIN statuses}
        /\ PlanAt(p, "recording")
        /\ planLoc' = [planLoc EXCEPT ![p].decisions =
                                          Decisions(statuses, traits, available, requested)]
        /\ UNCHANGED <<shipped, local, locked, recorded, reviewed, changes>>

StartFails(p) ==
    /\ planPc[p] = "listing"
    /\ ~Listable(planLoc[p].lock)
    /\ EndModules(p)
    /\ UNCHANGED <<shipped, local, locked, recorded, reviewed, changes>>

(* The task exists from its first decision on; a kill leaves it with fewer.*)
RecordDecision(p) ==
    /\ planPc[p] = "recording"
    /\ recorded' = Append(recorded, planLoc[p].decisions[Len(recorded) + 1])
    /\ IF Len(recorded') = Len(planLoc[p].decisions) THEN EndModules(p)
       ELSE UNCHANGED <<planPc, planLoc>>
    /\ UNCHANGED <<shipped, local, locked, reviewed, changes>>

----------------------------------------------------------------------------
(* Doctor._check_module_hashes *)

(* Mutant: Doctor looks for local files only. *)
FilesExist == \A id \in ToSet(ModuleIds) : IsLocal(locked[id]) => local[id] # Absent

HashesValid ==
    \A id \in ToSet(ModuleIds) :
        locked[id] # Absent =>
            IF locked[id].source = "local" THEN local[id] = locked[id].sha256
            ELSE id \in ToSet(Builtins) /\ shipped[id] = locked[id].sha256

----------------------------------------------------------------------------

EditLocal(id, content) ==
    /\ changes < MaxChanges
    /\ content # local[id]
    /\ local' = [local EXCEPT ![id] = content]
    /\ changes' = changes + 1
    /\ UNCHANGED <<shipped, locked, recorded, reviewed, planPc, planLoc>>

(* Another runtime; a command that runs keeps the one it has loaded. *)
OtherRuntime(runtime) ==
    /\ changes < MaxChanges
    /\ runtime # shipped
    /\ \A p \in Invocations : planPc[p] = "idle"
    /\ shipped' = runtime
    /\ changes' = changes + 1
    /\ UNCHANGED <<local, locked, recorded, reviewed, planPc, planLoc>>

ActivationNext ==
    \/ \E p \in Invocations :
           \/ \E id \in ToSet(ModuleIds) :
                  \/ \E policy \in Chosen :
                         \/ id \in ToSet(Builtins) /\ PlanEnableBuiltin(p, id, policy)
                         \/ PlanEnableLocal(p, id, policy)
                  \/ PlanDisableModule(p, id)
           \/ ApplyModules(p) \/ AbandonModules(p) \/ BeginStart(p)
           \/ \E traits \in SUBSET Traits, available \in SUBSET Capabilities,
                 requested \in SUBSET ToSet(ModuleIds) : Decide(p, traits, available, requested)
           \/ StartFails(p) \/ RecordDecision(p)
    \/ \E id \in ToSet(ModuleIds) :
           \E content \in {m \in Manifests : m.id = id} \cup {Absent} : EditLocal(id, content)
    \/ \E runtime \in Shipped : OtherRuntime(runtime)

ActivationSpec == ActivationInit /\ [][ActivationNext]_activationVars
=============================================================================
