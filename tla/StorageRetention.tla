--------------------------- MODULE StorageRetention ---------------------------
(***************************************************************************)
(* StorageManager (storage/manager.py): the retention index of a project's *)
(* local data, pins, and pruning in two stages, plan (shown to the user)   *)
(* and apply.                                                              *)
(*                                                                         *)
(* Every method runs under the project-data lock, so a method that changes *)
(* one file is one step.  apply_prune removes files one by one before it   *)
(* writes the index once: its loop is a step per item, and it can be left  *)
(* by an exception or a crash in the middle.  Nothing is locked between a  *)
(* plan and its apply.                                                     *)
(***************************************************************************)
EXTENDS Integers, FiniteSets, Functions, ManagerPlans

CONSTANTS
    Items,          \* ids of the index
    Places,         \* paths an item can be stored at
    NewEntries,     \* bound: what is registered
    Operations,     \* bound: the operations invocations make
    Mishaps         \* bound: what else happens: "crash", "symlink"

RetentionAssumption ==
    /\ NewEntries \subseteq [place : Places, guarded : BOOLEAN,
                             pinned : BOOLEAN, cited : BOOLEAN,
                             expired : {FALSE}]
    /\ Nobody \notin Invocations
    /\ Operations \subseteq {"register", "pin", "prune"}
    /\ Mishaps \subseteq {"crash", "symlink"}

VARIABLES
    index,      \* storage-index.json: an entry by id
    aged,       \* items created before the cutoff of their category
    stored,     \* the places where there is a file
    links       \* those that are symbolic links by now

retentionVars == <<index, aged, stored, links, planLock, planPc, planLoc>>

(* guarded: the task state is active, blocked or waiting_approval.  cited: *)
(* recommendation_ref is set.                                              *)
Entry == [place : Places, guarded : BOOLEAN, pinned : BOOLEAN,
          cited : BOOLEAN, expired : BOOLEAN]

NoIndex == [id \in {} |-> {}]

(* The plan of an invocation, and the index it has loaded.                *)
NoPlan == [before |-> NoIndex, plan |-> NoIndex]

RetentionInit ==
    /\ index = NoIndex
    /\ aged = {}
    /\ stored = {}
    /\ links = {}
    /\ planLock = Nobody
    /\ planPc = [p \in Invocations |-> "idle"]
    /\ planLoc = [p \in Invocations |-> NoPlan]

EndRetention(p) ==
    /\ PlanAt(p, "idle")
    /\ planLoc' = [planLoc EXCEPT ![p] = NoPlan]

Registered == DOMAIN index

----------------------------------------------------------------------------

(* The index alone: the file is the caller's affair, before or after, and  *)
(* several items may name one place.  An entry of the same id is replaced  *)
(* altogether, its pin included.                                           *)
Register(p, id, entry) ==
    /\ "register" \in Operations
    /\ planPc[p] = "idle" /\ planLock = Nobody
    /\ index' = [i \in Registered \cup {id} |-> IF i = id THEN entry ELSE index[i]]
    /\ aged' = aged \ {id}
    /\ UNCHANGED <<stored, links, planLock, planPc, planLoc>>

(* Whoever registers items writes files, under the lock as any writer of   *)
(* local data does, and not where an item has been pruned.                 *)
Store(place) ==
    /\ planLock = Nobody
    /\ \A id \in Registered : index[id].expired => index[id].place # place
    /\ stored' = stored \cup {place}
    /\ UNCHANGED <<index, aged, links, planLock, planPc, planLoc>>

Pinned(entries, id, cited) ==
    [entries EXCEPT ![id].pinned = TRUE, ![id].cited = @ \/ cited]

(* plan_pin keeps the whole index as it was read and as it will be.        *)
PlanPin(p, id, cited) ==
    /\ "pin" \in Operations
    /\ planPc[p] = "idle" /\ planLock = Nobody
    /\ id \in Registered
    /\ PlanAt(p, "pin_planned")
    /\ planLoc' = [planLoc EXCEPT ![p] =
          [before |-> index, plan |-> Pinned(index, id, cited)]]
    /\ UNCHANGED <<index, aged, stored, links, planLock>>

(* Mutant: the index is not compared with the one reviewed. *)
PinAnyway(p) == index # NoIndex

PinReviewed(p) == index = planLoc[p].before

ApplyPin(p) ==
    /\ planPc[p] = "pin_planned" /\ planLock = Nobody
    /\ PinReviewed(p)
    /\ index' = planLoc[p].plan
    /\ EndRetention(p)
    /\ UNCHANGED <<aged, stored, links, planLock>>

RefusePin(p) ==
    /\ planPc[p] = "pin_planned" /\ planLock = Nobody
    /\ ~PinReviewed(p)
    /\ EndRetention(p)
    /\ UNCHANGED <<index, aged, stored, links, planLock>>

----------------------------------------------------------------------------

Prunable(id) ==
    /\ ~index[id].pinned /\ ~index[id].cited /\ ~index[id].guarded
    /\ ~index[id].expired /\ id \in aged

(* The plan keeps ids and paths. *)
PlanPrune(p) ==
    /\ "prune" \in Operations
    /\ planPc[p] = "idle" /\ planLock = Nobody
    /\ \E id \in Registered : Prunable(id)
    /\ PlanAt(p, "prune_planned")
    /\ planLoc' = [planLoc EXCEPT ![p].plan =
                  Restrict(index, {id \in Registered : Prunable(id)})]
    /\ UNCHANGED <<index, aged, stored, links, planLock>>

BeginPrune(p) ==
    /\ planPc[p] = "prune_planned" /\ planLock = Nobody
    /\ planLock' = p
    /\ PlanAt(p, "pruning")
    /\ planLoc' = [planLoc EXCEPT ![p].before = index]
    /\ UNCHANGED <<index, aged, stored, links>>

(* Entries of the loaded index still to be marked. *)
Left(p) == {id \in DOMAIN planLoc[p].plan : ~planLoc[p].plan[id].expired}

Marked(entries, id) == [entries EXCEPT ![id].expired = TRUE]

(* Mutant: the path is not compared. *)
SameId(p, id) ==
    /\ id \in DOMAIN planLoc[p].before
    /\ planLoc[p].plan[id].place \notin links

(* Only the path is looked at again: not the pin, the task state or the    *)
(* age.                                                                    *)
SameItem(p, id) ==
    /\ id \in DOMAIN planLoc[p].before
    /\ planLoc[p].before[id].place = planLoc[p].plan[id].place
    /\ planLoc[p].plan[id].place \notin links

PruneOne(p, id) ==
    /\ planPc[p] = "pruning"
    /\ id \in Left(p)
    /\ SameItem(p, id)
    /\ stored' = stored \ {planLoc[p].plan[id].place}
    /\ planLoc' = [planLoc EXCEPT ![p] =
          [before |-> Marked(@.before, id), plan |-> Marked(@.plan, id)]]
    /\ UNCHANGED <<index, aged, links, planLock, planPc>>

(* An exception leaves the loop, and the index unwritten. *)
PruneRefused(p, id) ==
    /\ planPc[p] = "pruning"
    /\ id \in Left(p)
    /\ ~SameItem(p, id)
    /\ planLock' = Nobody
    /\ EndRetention(p)
    /\ UNCHANGED <<index, aged, stored, links>>

WriteIndex(p) ==
    /\ planPc[p] = "pruning"
    /\ Left(p) = {}
    /\ index' = planLoc[p].before
    /\ planLock' = Nobody
    /\ EndRetention(p)
    /\ UNCHANGED <<aged, stored, links>>

----------------------------------------------------------------------------

DeclineRetention(p) ==
    /\ planPc[p] \in {"pin_planned", "prune_planned"}
    /\ EndRetention(p)
    /\ UNCHANGED <<index, aged, stored, links, planLock>>

CrashPruning(p) ==
    /\ "crash" \in Mishaps
    /\ planPc[p] = "pruning"
    /\ planLock' = Nobody
    /\ EndRetention(p)
    /\ UNCHANGED <<index, aged, stored, links>>

(* Time passes the retention period of an item. *)
Age(id) ==
    /\ id \in Registered \ aged
    /\ aged' = aged \cup {id}
    /\ UNCHANGED <<index, stored, links, planLock, planPc, planLoc>>

Link(place) ==
    /\ "symlink" \in Mishaps
    /\ place \in stored
    /\ links' = links \cup {place}
    /\ UNCHANGED <<index, aged, stored, planLock, planPc, planLoc>>

RetentionNext ==
    \/ \E p \in Invocations :
           \/ \E id \in Items :
                  \/ \E entry \in NewEntries : Register(p, id, entry)
                  \/ \E cited \in BOOLEAN : PlanPin(p, id, cited)
                  \/ PruneOne(p, id) \/ PruneRefused(p, id)
           \/ ApplyPin(p) \/ RefusePin(p)
           \/ PlanPrune(p) \/ BeginPrune(p) \/ WriteIndex(p)
           \/ DeclineRetention(p) \/ CrashPruning(p)
    \/ \E id \in Items : Age(id)
    \/ \E place \in Places : Store(place) \/ Link(place)

RetentionSpec == RetentionInit /\ [][RetentionNext]_retentionVars
=============================================================================
