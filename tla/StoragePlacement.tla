--------------------------- MODULE StoragePlacement ---------------------------
(***************************************************************************)
(* Where the local data of a clone lives, and how it moves                 *)
(* (storage/location.py, storage/migration.py).  A clone is in one of two  *)
(* modes: its data lies in the user-data root, which all clones of one     *)
(* repository share, or in a root of its own inside the Git common         *)
(* directory.  A migration is planned without a lock, shown to the user,   *)
(* and applied under the operation lock of the clone and the write locks   *)
(* of both roots: copy, verify, install, switch the mode.                  *)
(*                                                                         *)
(* Writers (TaskService, FeedbackStore, StorageManager, UpgradeManager)    *)
(* bind to a root when they are created and check the binding under the    *)
(* operation lock before each write.                                       *)
(***************************************************************************)
EXTENDS Integers, FiniteSets

CONSTANTS
    Invocations, Nobody,
    Clones,         \* clones of the repository on this host
    UserData,       \* the root they share
    NoRoot,         \* a root that does not exist
    Tasks, NoTask,  \* records
    OwnerOf,        \* the clone that works on each of them
    Mishaps         \* bound: what else happens: "crash", "fail", "archive"

Modes == {"user-data", "repository-local"}

Other(m) == IF m = "user-data" THEN "repository-local" ELSE "user-data"

Roots == Clones \cup {UserData}

RootFor(c, m) == IF m = "user-data" THEN UserData ELSE c

(* What a task goes through: no record, a draft, a terminal state.         *)
States == {"absent", "draft", "done"}

Records == [Tasks -> States]

NoRecords == [t \in Tasks |-> "absent"]

PlacementAssumption ==
    /\ Nobody \notin Invocations
    /\ UserData \notin Clones
    /\ NoTask \notin Tasks
    /\ OwnerOf \in [Tasks -> Clones]
    /\ NoRoot \notin Records
    /\ Mishaps \subseteq {"crash", "fail", "archive"}

VARIABLES
    mode,       \* harness.storageMode in the local Git configuration
    data,       \* the content of every root
    opLock,     \* holder of each clone's operation lock
    rootLock,   \* holder of each root's write lock
    at,         \* where each invocation is
    plan        \* and what it has planned, or is bound to

placementVars == <<mode, data, opLock, rootLock, at, plan>>

RootOf(c) == RootFor(c, mode[c])

(* _manifest: a root that does not exist looks like an empty one. *)
Manifest(root) == IF data[root] = NoRoot THEN NoRecords ELSE data[root]

(* need: write locks still to be taken. *)
Locals(c, root, task, target, items, reuse, conflict) ==
    [clone |-> c, root |-> root, task |-> task, target |-> target,
     items |-> items, reuse |-> reuse, conflict |-> conflict,
     need |-> {root, target}]

NoPlan == Locals(UserData, UserData, NoTask, UserData, NoRecords, FALSE, FALSE)

PlacementInit ==
    /\ mode = [c \in Clones |-> "user-data"]
    /\ data = [root \in Roots |-> NoRoot]
    /\ opLock = [c \in Clones |-> Nobody]
    /\ rootLock = [root \in Roots |-> Nobody]
    /\ at = [p \in Invocations |-> "idle"]
    /\ plan = [p \in Invocations |-> NoPlan]

Reach(p, point) == at' = [at EXCEPT ![p] = point]

(* Leaving the locks' blocks, or being killed inside them. *)
Leave(p) ==
    /\ Reach(p, "idle")
    /\ plan' = [plan EXCEPT ![p] = NoPlan]
    /\ opLock' = [c \in Clones |-> IF opLock[c] = p THEN Nobody ELSE opLock[c]]
    /\ rootLock' =
         [root \in Roots |-> IF rootLock[root] = p THEN Nobody ELSE rootLock[root]]

----------------------------------------------------------------------------
(* Writers *)

(* The binding is read without a lock. *)
Bind(p, task) ==
    LET c == OwnerOf[task]
    IN  /\ at[p] = "idle"
        /\ Reach(p, "bound")
        /\ plan' = [plan EXCEPT ![p] =
              Locals(c, RootOf(c), task, RootOf(c), NoRecords, FALSE, FALSE)]
        /\ UNCHANGED <<mode, data, opLock, rootLock>>

(* Mutant: the operation lock is looked at and not taken. *)
LockNothing(p) ==
    /\ at[p] \in {"bound", "planned"}
    /\ opLock[plan[p].clone] = Nobody
    /\ Reach(p, IF at[p] = "bound" THEN "bound_locked" ELSE "lock_roots")
    /\ UNCHANGED <<mode, data, opLock, rootLock, plan>>

LockClone(p) ==
    /\ at[p] \in {"bound", "planned"}
    /\ opLock[plan[p].clone] = Nobody
    /\ opLock' = [opLock EXCEPT ![plan[p].clone] = p]
    /\ Reach(p, IF at[p] = "bound" THEN "bound_locked" ELSE "lock_roots")
    /\ UNCHANGED <<mode, data, rootLock, plan>>

(* Mutant: the binding is trusted. *)
Trusted(p) == plan[p].root \in Roots

BindingHolds(p) == RootOf(plan[p].clone) = plan[p].root

CheckBinding(p) ==
    /\ at[p] = "bound_locked"
    /\ BindingHolds(p)
    /\ Reach(p, "lock_roots")
    /\ UNCHANGED <<mode, data, opLock, rootLock, plan>>

BindingInvalid(p) ==
    /\ at[p] = "bound_locked"
    /\ ~BindingHolds(p)
    /\ Leave(p)
    /\ UNCHANGED <<mode, data>>

(* A migration takes its two locks in the order of their paths; any order  *)
(* will do, since every holder has the operation lock of its clone and no  *)
(* two clones share more than one root.                                    *)
LockRoot(p, root) ==
    /\ at[p] = "lock_roots"
    /\ root \in plan[p].need
    /\ rootLock[root] = Nobody
    /\ rootLock' = [rootLock EXCEPT ![root] = p]
    /\ plan' = [plan EXCEPT ![p].need = @ \ {root}]
    /\ UNCHANGED <<mode, data, opLock, at>>

Locked(p) == at[p] = "lock_roots" /\ plan[p].need = {}

Writing(p) == Locked(p) /\ plan[p].target = plan[p].root

(* One operation of a task: it is started, or it ends. *)
Write(p) ==
    /\ Writing(p)
    /\ \E state \in {"draft", "done"} :
           /\ Manifest(plan[p].root)[plan[p].task] =
                  IF state = "draft" THEN "absent" ELSE "draft"
           /\ data' = [data EXCEPT ![plan[p].root] =
                  [Manifest(plan[p].root) EXCEPT ![plan[p].task] = state]]
    /\ Leave(p)
    /\ UNCHANGED mode

WriteNothing(p) ==
    /\ Writing(p)
    /\ Leave(p)
    /\ UNCHANGED <<mode, data>>

----------------------------------------------------------------------------
(* StorageMigrator *)

(* Mutant: the state of the tasks is not looked at. *)
NeverUnfinished(root) == root \notin Roots

(* _reject_unfinished_tasks: the tasks of every worktree in the root. *)
Unfinished(root) == \E t \in Tasks : Manifest(root)[t] = "draft"

PlanMigration(p, c, rollback) ==
    LET source == RootOf(c)
        target == RootFor(c, Other(mode[c]))
    IN  /\ at[p] = "idle"
        /\ ~Unfinished(source)
        /\ rollback => /\ Manifest(target) = Manifest(source)
                       /\ data[target] # NoRoot \/ Manifest(source) = NoRecords
        /\ Reach(p, "planned")
        /\ plan' = [plan EXCEPT ![p] =
              Locals(c, source, NoTask, target, Manifest(source),
                     rollback, ~rollback /\ data[target] # NoRoot)]
        /\ UNCHANGED <<mode, data, opLock, rootLock>>

Decline(p) ==
    /\ at[p] = "planned"
    /\ Leave(p)
    /\ UNCHANGED <<mode, data>>

(* Mutant: what is copied or reused is not compared with the plan again. *)
PresumedAsPlanned(p) == plan[p].items \in Records

AsPlanned(p) ==
    /\ Manifest(plan[p].root) = plan[p].items
    /\ plan[p].reuse => Manifest(plan[p].target) = plan[p].items

Migratable(p) ==
    /\ RootOf(plan[p].clone) = plan[p].root
    /\ ~plan[p].conflict
    /\ ~plan[p].reuse => data[plan[p].target] = NoRoot
    /\ AsPlanned(p)
    /\ ~Unfinished(plan[p].root)

Migrating(p) == Locked(p) /\ plan[p].target # plan[p].root

RefuseMigration(p) ==
    /\ Migrating(p)
    /\ ~Migratable(p)
    /\ Leave(p)
    /\ UNCHANGED <<mode, data>>

(* The copy is made beside the target, verified, and renamed.  An empty    *)
(* source is copied to an empty directory.                                 *)
Reuse(p) ==
    /\ Migrating(p) /\ Migratable(p)
    /\ plan[p].reuse
    /\ Reach(p, "switch")
    /\ UNCHANGED <<mode, data, opLock, rootLock, plan>>

Install(p) ==
    /\ Migrating(p) /\ Migratable(p)
    /\ ~plan[p].reuse
    /\ data' = [data EXCEPT ![plan[p].target] = Manifest(plan[p].root)]
    /\ Reach(p, "switch")
    /\ UNCHANGED <<mode, opLock, rootLock, plan>>

SwitchMode(p) ==
    /\ at[p] = "switch"
    /\ mode' = [mode EXCEPT ![plan[p].clone] = Other(@)]
    /\ Leave(p)
    /\ UNCHANGED data

(* git config fails: the target just installed is removed again. *)
SwitchModeFails(p) ==
    /\ "fail" \in Mishaps
    /\ at[p] = "switch"
    /\ data' = IF plan[p].reuse THEN data
               ELSE [data EXCEPT ![plan[p].target] = NoRoot]
    /\ Leave(p)
    /\ UNCHANGED mode

----------------------------------------------------------------------------

Killed(p) ==
    /\ "crash" \in Mishaps
    /\ at[p] \notin {"idle", "planned", "bound"}
    /\ Leave(p)
    /\ UNCHANGED <<mode, data>>

(* The user puts away a root that no clone uses, as the README tells him   *)
(* to before he migrates back.                                             *)
Archive(root) ==
    /\ "archive" \in Mishaps
    /\ \A c \in Clones : RootOf(c) # root
    /\ rootLock[root] = Nobody
    /\ data' = [data EXCEPT ![root] = NoRoot]
    /\ UNCHANGED <<mode, opLock, rootLock, at, plan>>

Advance(p) ==
    \/ LockClone(p) \/ CheckBinding(p) \/ BindingInvalid(p)
    \/ \E root \in Roots : LockRoot(p, root)
    \/ Write(p) \/ WriteNothing(p)
    \/ RefuseMigration(p) \/ Reuse(p) \/ Install(p) \/ SwitchMode(p) \/ SwitchModeFails(p)

PlacementNext ==
    \/ \E p \in Invocations :
           \/ \E task \in Tasks : Bind(p, task)
           \/ \E c \in Clones, rollback \in BOOLEAN : PlanMigration(p, c, rollback)
           \/ Decline(p) \/ Advance(p) \/ Killed(p)
    \/ \E root \in Roots : Archive(root)

PlacementSpec == PlacementInit /\ [][PlacementNext]_placementVars
=============================================================================
