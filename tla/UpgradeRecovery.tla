---------------------------- MODULE UpgradeRecovery ----------------------------
(***************************************************************************)
(* UpgradeManager (upgrade/manager.py): the configuration of a repository  *)
(* is upgraded by a repository transaction, after a recovery point with    *)
(* the bytes before has been saved in the project's local data; a rollback *)
(* is another transaction, after which the point is marked.                *)
(*                                                                         *)
(* A transaction is one step here: it replaces all of its files from what  *)
(* was reviewed, or none (ReviewedUpdate).  Users edit the files at any    *)
(* time.  plan reads the files twice and holds no lock.                    *)
(***************************************************************************)
EXTENDS Integers, FiniteSets, Functions, ManagerPlans

CONSTANTS
    ManagedPaths,   \* the configuration and the managed projections
    Config,         \* .harness/config.json
    Contents,
    Upgraded,       \* what this runtime makes of a content
    Incompatible,   \* configurations of a newer or another major runtime
    InitialFiles,   \* contents of the files at first
    Disturbances    \* bound: "crash", "edit", "meddle"

UpgradeAssumption ==
    /\ Nobody \notin Invocations
    /\ Config \in ManagedPaths
    /\ Upgraded \in [Contents -> Contents]
    /\ \A c \in Contents : Upgraded[Upgraded[c]] = Upgraded[c]
    /\ Incompatible \subseteq Contents
    /\ InitialFiles \subseteq [ManagedPaths -> Contents]
    /\ Disturbances \subseteq {"crash", "edit", "meddle"}

PartialContents == UNION {[D -> Contents] : D \in SUBSET ManagedPaths}

(* upgrade-<version>-<digest of the contents after>: as good as the        *)
(* contents after themselves.                                              *)
Ids == PartialContents

VARIABLES
    files,
    points,     \* recovery points by id
    original    \* history: by id, what its last upgrade replaced, until the
                \* next one begins or it is rolled back

upgradeVars == <<files, points, original, planLock, planPc, planLoc>>

NoContents == [path \in {} |-> Config]

NoUpgrade == [id |-> NoContents, before |-> NoContents, after |-> NoContents]

Point == [before : PartialContents, rolledBack : BOOLEAN]

UpgradeInit ==
    /\ files \in InitialFiles
    /\ points = NoContents
    /\ original = NoContents
    /\ planLock = Nobody
    /\ planPc = [p \in Invocations |-> "idle"]
    /\ planLoc = [p \in Invocations |-> NoUpgrade]

(* Leaving the block of the lock, if it was entered. *)
EndUpgrade(p) ==
    /\ PlanAt(p, "idle")
    /\ planLoc' = [planLoc EXCEPT ![p] = NoUpgrade]
    /\ planLock' = IF planLock = p THEN Nobody ELSE planLock

With(f, key, value) == [k \in DOMAIN f \cup {key} |-> IF k = key THEN value ELSE f[k]]

Without(f, key) == Restrict(f, DOMAIN f \ {key})

Agree(contents) == \A path \in DOMAIN contents : files[path] = contents[path]

(* RepositoryTransaction.apply refuses what changed after review. *)
Transact(p) == files' = [path \in ManagedPaths |->
    IF path \in DOMAIN planLoc[p].after THEN planLoc[p].after[path] ELSE files[path]]

----------------------------------------------------------------------------
(* upgrade plan and apply *)

(* _load_config and the managed projections are read, and upgraded. *)
PlanUpgrade(p) ==
    /\ planPc[p] = "idle"
    /\ files[Config] \notin Incompatible
    /\ PlanAt(p, "candidates")
    /\ planLoc' = [planLoc EXCEPT ![p].after = [path \in ManagedPaths |-> Upgraded[files[path]]]]
    /\ UNCHANGED <<files, points, original, planLock>>

(* _changes reads every file again. *)
Compare(p) ==
    LET changed == {path \in ManagedPaths : files[path] # planLoc[p].after[path]}
        after == Restrict(planLoc[p].after, changed)
    IN  /\ planPc[p] = "candidates"
        /\ PlanAt(p, "upgrade_planned")
        /\ planLoc' = [planLoc EXCEPT ![p] = [id |-> after, after |-> after,
                                      before |-> Restrict(files, changed)]]
        /\ UNCHANGED <<files, points, original, planLock>>

DeclineUpgrade(p) ==
    /\ planPc[p] \in {"upgrade_planned", "rollback_planned"}
    /\ EndUpgrade(p)
    /\ UNCHANGED <<files, points, original>>

NothingToUpgrade(p) ==
    /\ planPc[p] = "upgrade_planned"
    /\ DOMAIN planLoc[p].after = {}
    /\ EndUpgrade(p)
    /\ UNCHANGED <<files, points, original>>

(* Mutant: a point that exists is kept. *)
SavedOnce(p) ==
    IF planLoc[p].id \in DOMAIN points THEN points
    ELSE With(points, planLoc[p].id, [before |-> planLoc[p].before, rolledBack |-> FALSE])

Saved(p) == With(points, planLoc[p].id, [before |-> planLoc[p].before, rolledBack |-> FALSE])

SavePoint(p) ==
    /\ planPc[p] = "upgrade_planned" /\ planLock = Nobody
    /\ DOMAIN planLoc[p].after # {}
    /\ planLock' = p
    /\ points' = Saved(p)
    /\ original' = Without(original, planLoc[p].id)
    /\ PlanAt(p, "saved")
    /\ UNCHANGED <<files, planLoc>>

Upgrade(p) ==
    /\ planPc[p] = "saved"
    /\ Agree(planLoc[p].before)
    /\ Transact(p)
    /\ original' = With(original, planLoc[p].id, planLoc[p].before)
    /\ EndUpgrade(p)
    /\ UNCHANGED points

UpgradeDrifted(p) ==
    /\ planPc[p] = "saved"
    /\ ~Agree(planLoc[p].before)
    /\ EndUpgrade(p)
    /\ UNCHANGED <<files, points, original>>

----------------------------------------------------------------------------
(* upgrade rollback *)

(* Mutant: the upgraded files are not looked at. *)
Assumed(id) == ~points[id].rolledBack

Unedited(id) == ~points[id].rolledBack /\ Agree(id)

(* Any point: the one the user names, or the last in the order of ids.     *)
PlanRollback(p, id) ==
    /\ planPc[p] = "idle" /\ planLock = Nobody
    /\ Unedited(id)
    /\ PlanAt(p, "rollback_planned")
    /\ planLoc' = [planLoc EXCEPT ![p] = [id |-> id, before |-> Restrict(files, DOMAIN id),
                                  after |-> points[id].before]]
    /\ UNCHANGED <<files, points, original, planLock>>

Rollback(p) ==
    /\ planPc[p] = "rollback_planned" /\ planLock = Nobody
    /\ Agree(planLoc[p].before)
    /\ planLock' = p
    /\ Transact(p)
    /\ original' = Without(original, planLoc[p].id)
    /\ PlanAt(p, "rolled_back")
    /\ UNCHANGED <<points, planLoc>>

RollbackDrifted(p) ==
    /\ planPc[p] = "rollback_planned" /\ planLock = Nobody
    /\ ~Agree(planLoc[p].before)
    /\ EndUpgrade(p)
    /\ UNCHANGED <<files, points, original>>

Mark(p) ==
    /\ planPc[p] = "rolled_back"
    /\ points' = [points EXCEPT ![planLoc[p].id].rolledBack = TRUE]
    /\ EndUpgrade(p)
    /\ UNCHANGED <<files, original>>

----------------------------------------------------------------------------

CrashUpgrade(p) ==
    /\ "crash" \in Disturbances
    /\ planPc[p] \in {"saved", "rolled_back"}
    /\ EndUpgrade(p)
    /\ UNCHANGED <<files, points, original>>

(* "edit" is a user who waits while a plan reads the files. *)
Edit(path, content) ==
    /\ \/ "meddle" \in Disturbances
       \/ "edit" \in Disturbances /\ \A p \in Invocations : planPc[p] # "candidates"
    /\ content # files[path]
    /\ files' = [files EXCEPT ![path] = content]
    /\ UNCHANGED <<points, original, planLock, planPc, planLoc>>

UpgradeNext ==
    \/ \E p \in Invocations :
           \/ PlanUpgrade(p) \/ Compare(p) \/ NothingToUpgrade(p)
           \/ SavePoint(p) \/ Upgrade(p) \/ UpgradeDrifted(p)
           \/ \E id \in DOMAIN points : PlanRollback(p, id)
           \/ Rollback(p) \/ RollbackDrifted(p) \/ Mark(p)
           \/ DeclineUpgrade(p) \/ CrashUpgrade(p)
    \/ \E path \in ManagedPaths, content \in Contents : Edit(path, content)

UpgradeSpec == UpgradeInit /\ [][UpgradeNext]_upgradeVars
=============================================================================
