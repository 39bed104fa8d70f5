------------------------------ MODULE ModuleTrials ------------------------------
(***************************************************************************)
(* ModuleManager (modules/manager.py): the module lock of a repository and *)
(* the trials it records.  Every operation is a plan, computed from the    *)
(* document by its load, and an apply.  The plan reads the file again for  *)
(* the bytes that the transaction will insist on; no lock is held at any   *)
(* time.                                                                   *)
(*                                                                         *)
(* Applying a reviewed change is one step here (RepositoryTransaction is   *)
(* its detail).  Modules come from the registry, whose manifests never     *)
(* change while a command runs.                                            *)
(***************************************************************************)
EXTENDS Integers, FiniteSets, Sequences, SequencesExt, ManagerPlans

CONSTANTS
    Modules,
    Tasks,
    Policies,
    ManifestPolicy, \* by module, as the registry ships it
    InitialLocks,   \* locks at first, by module
    TaskBudget,     \* milliseconds a trial may spend for each matching task
    MatchingTasks,  \* numbers of tasks a trial is asked for
    Overheads,      \* milliseconds a result reports
    MaxTrials,      \* bound: trials ever started
    Overlap         \* may a file be replaced between the two reads of a plan

Item == [enabled : BOOLEAN, policy : Policies]

TrialsAssumption ==
    /\ Absent \notin Item
    /\ ManifestPolicy \in [Modules -> Policies]
    /\ InitialLocks \subseteq [Modules -> Item \cup {Absent}]
    /\ TaskBudget \in Nat /\ Overheads \subseteq Nat
    /\ MatchingTasks \subseteq Nat \ {0}
    /\ MaxTrials \in Nat
    /\ Overlap \in BOOLEAN

VARIABLES
    document,   \* .harness/modules.lock.json
    replaced    \* history: by trial, the item that was in the lock before it

trialsVars == <<document, replaced, planPc, planLoc>>

TrialStates == {"trial", "promoted", "rejected", "rolled_back"}

Result == [task : Tasks, beneficial : BOOLEAN, overhead : Overheads]

EmptyDocument == [modules |-> [m \in Modules |-> Absent], trials |-> <<>>]

NoChange == [before |-> EmptyDocument, after |-> EmptyDocument, starts |-> FALSE]

TrialsInit ==
    /\ \E locked \in InitialLocks : document = [modules |-> locked, trials |-> <<>>]
    /\ replaced = <<>>
    /\ planPc = [p \in Invocations |-> "idle"]
    /\ planLoc = [p \in Invocations |-> NoChange]

----------------------------------------------------------------------------
(* Trials of a document, by their position *)

TrialsOf(d, m) == {i \in DOMAIN d.trials : d.trials[i].module = m}

ActiveStates == {"trial", "promoted"}

HasActiveTrial(d, m) == \E i \in TrialsOf(d, m) : d.trials[i].state \in ActiveStates

OpenTrials(d, m) == {i \in TrialsOf(d, m) : d.trials[i].state = "trial"}

ActiveTrial(d, m) == Max(OpenTrials(d, m))

LatestTrial(d, m) == Max(TrialsOf(d, m))

Spent(results) ==
    LET sum[n \in 0 .. Len(results)] ==
            IF n = 0 THEN 0 ELSE sum[n - 1] + results[n].overhead
    IN  sum[Len(results)]

Budget(trial) == TaskBudget * trial.matching

BeneficialOnes(results) == {i \in DOMAIN results : results[i].beneficial}

(* Mutant: half of the results are enough. *)
HalfBeneficial(results) == 2 * Cardinality(BeneficialOnes(results)) >= Len(results)

Beneficial(results) == 2 * Cardinality(BeneficialOnes(results)) > Len(results)

ClosedStates == {"rejected", "rolled_back"}

CanRollBack(d, m) ==
    /\ TrialsOf(d, m) # {}
    /\ d.trials[LatestTrial(d, m)].state \notin ClosedStates

----------------------------------------------------------------------------
(* What each operation makes of a document *)

Enabled(d, m, policy) ==
    [d EXCEPT !.modules[m] = [enabled |-> TRUE, policy |-> policy]]

Disabled(d, m) == [d EXCEPT !.modules[m].enabled = FALSE]

(* Mutant: what is to be put back is read after the module was enabled. *)
TriedAfresh(d, m, n) ==
    LET enabled == Enabled(d, m, ManifestPolicy[m])
    IN  [enabled EXCEPT !.trials =
            Append(@, [module |-> m, state |-> "trial", remaining |-> n, matching |-> n,
                       results |-> <<>>, previous |-> enabled.modules[m]])]

Tried(d, m, n) ==
    [modules |-> Enabled(d, m, ManifestPolicy[m]).modules,
     trials |-> Append(d.trials, [module |-> m, state |-> "trial", remaining |-> n,
                                  matching |-> n, results |-> <<>>,
                                  previous |-> d.modules[m]])]

ResultRecorded(d, m, result) ==
    LET i == ActiveTrial(d, m)
        trial == d.trials[i]
        results == Append(trial.results, result)
        recorded == [trial EXCEPT
            !.results = results,
            !.remaining = @ - 1,
            !.state = IF Spent(results) > Budget(trial) THEN "rejected" ELSE @]
    IN  [d EXCEPT !.trials[i] = recorded]

Promoted(d, m) ==
    [d EXCEPT !.trials[ActiveTrial(d, m)].state = "promoted",
              !.modules[m].enabled = TRUE]

RolledBack(d, m) ==
    LET i == LatestTrial(d, m)
    IN  [d EXCEPT !.trials[i].state = "rolled_back",
                  !.modules[m] = d.trials[i].previous]

----------------------------------------------------------------------------
(* Plans *)

(* The load, and what the operation makes of it. *)
Load(p, after, starts) ==
    /\ planPc[p] = "idle"
    /\ PlanAt(p, "loaded")
    /\ planLoc' = [planLoc EXCEPT ![p].after = after, ![p].starts = starts]
    /\ UNCHANGED <<document, replaced>>

PlanEnable(p, m, policy) == Load(p, Enabled(document, m, policy), FALSE)

PlanDisable(p, m) ==
    /\ document.modules[m] # Absent
    /\ Load(p, Disabled(document, m), FALSE)

PlanTrial(p, m, n) ==
    /\ Len(document.trials) < MaxTrials
    /\ ~HasActiveTrial(document, m)
    /\ Load(p, Tried(document, m, n), TRUE)

Awaited(trial, task) ==
    trial.remaining # 0 /\ \A i \in DOMAIN trial.results : trial.results[i].task # task

PlanRecord(p, m, result) ==
    /\ OpenTrials(document, m) # {}
    /\ Awaited(document.trials[ActiveTrial(document, m)], result.task)
    /\ Load(p, ResultRecorded(document, m, result), FALSE)

PlanPromote(p, m) ==
    /\ OpenTrials(document, m) # {}
    /\ LET trial == document.trials[ActiveTrial(document, m)]
       IN  trial.remaining = 0 /\ Beneficial(trial.results)
    /\ document.modules[m] # Absent
    /\ Load(p, Promoted(document, m), FALSE)

PlanTrialRollback(p, m) ==
    /\ CanRollBack(document, m)
    /\ Load(p, RolledBack(document, m), FALSE)

(* _plan reads the bytes that the user's review starts from. *)
ReadBefore(p) ==
    /\ planPc[p] = "loaded"
    /\ PlanAt(p, "planned")
    /\ planLoc' = [planLoc EXCEPT ![p].before = document]
    /\ UNCHANGED <<document, replaced>>

----------------------------------------------------------------------------
(* Applies *)

EndChange(p) == PlanAt(p, "idle") /\ planLoc' = [planLoc EXCEPT ![p] = NoChange]

(* Mutant: the file is written over whatever is there. *)
AnyContent(p) == TRUE

Reviewed(p) == document = planLoc[p].before

Undisturbed == Overlap \/ \A q \in Invocations : planPc[q] # "loaded"

Apply(p) ==
    /\ planPc[p] = "planned"
    /\ Undisturbed
    /\ planLoc[p].before # planLoc[p].after
    /\ Reviewed(p)
    /\ document' = planLoc[p].after
    /\ LET trials == planLoc[p].after.trials
           m == trials[Len(trials)].module
       IN  replaced' = IF planLoc[p].starts
                       THEN Append(SubSeq(replaced, 1, Len(trials) - 1), document.modules[m])
                       ELSE replaced
    /\ EndChange(p)

Drifted(p) ==
    /\ planPc[p] = "planned"
    /\ planLoc[p].before # planLoc[p].after
    /\ ~Reviewed(p)
    /\ EndChange(p)
    /\ UNCHANGED <<document, replaced>>

(* Declined, interrupted, or a plan without a change. *)
Leave(p) ==
    /\ planPc[p] # "idle"
    /\ EndChange(p)
    /\ UNCHANGED <<document, replaced>>

TrialsNext ==
    \E p \in Invocations :
        \/ \E m \in Modules :
               \/ \E policy \in Policies : PlanEnable(p, m, policy)
               \/ PlanDisable(p, m)
               \/ \E n \in MatchingTasks : PlanTrial(p, m, n)
               \/ \E result \in Result : PlanRecord(p, m, result)
               \/ PlanPromote(p, m)
               \/ PlanTrialRollback(p, m)
        \/ ReadBefore(p) \/ Apply(p) \/ Drifted(p) \/ Leave(p)

TrialsSpec == TrialsInit /\ [][TrialsNext]_trialsVars
=============================================================================
