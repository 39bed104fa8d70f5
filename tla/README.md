# Adaptive Harness, verified

This directory holds TLA+ models of Adaptive Harness (`src/`), the TLC runs that
check them on small instances, and proofs that hold for every instance.
`PROJECT.json` lists the runs, the mutants that show each property can fail, the
source lines every definition stands for, the hazards, the findings and the
theorems.

## 1. The system

Adaptive Harness puts a governed-task kernel between a coding agent and a
repository. A *task* has an envelope (what it may touch, which commands it may
run, what must pass) and an append-only history; commands run only through
declared *capabilities*, and a task is completed only by a verifier that reads
the history. Around the kernel are tools that install, configure, migrate and
clean up what the kernel uses. Every operation is one short-lived process: state
is kept in files, and concurrency is between processes.

| component | state | operations | interacts with |
|---|---|---|---|
| Task record, store (`core/store.py`) | one JSON record per task: state, envelopes, events | create, load, append_event, amend, cancel, finalize | replaced as a whole by every caller below |
| Envelope (`core/envelope.py`) | immutable revision of what a task may do | create, amend | store, gateway, verifier |
| Task service (`core/task_service.py`) | none of its own | start, amend, cancel, plan/grant approval, run_capability, verify | takes the operation lock, calls everything below |
| Gateway (`core/gateway.py`) | none (capabilities.json, history) | authorize | store |
| Executor (`core/executor.py`) | workspace lease (flock), artifact files, a child process | execute | store, verifier (same lease) |
| Verifier (`core/verifier.py`) | none | verify | store, workspace, artifacts |
| Repository transaction (`init/transaction.py`) | journal, staging directory, target files | apply, recover | used by initializer, configuration, integration, modules, templates, upgrade |
| Storage retention (`storage/manager.py`) | retention index, stored artifacts | register, pin, prune | task states |
| Storage location, migration (`storage/`) | mode file, data roots, operation locks | migrate, rollback | task records |
| Runtime distribution (`distribution/manager.py`) | version slots, launcher, manifest, lock file | update, rollback, uninstall | file system only |
| Modules and trials (`modules/`) | modules.lock.json, local manifests | plan, apply, trial lifecycle, activation decisions | repository transaction; task start |
| Upgrade (`upgrade/manager.py`) | recovery points | plan, apply, rollback | repository transaction |
| Feedback (`feedback/`) | append-only episodes | record, recommend | retention (pins) |
| Adapters, hook (`adapters/`) | managed blocks in client files | project, decide | repository transaction |
| Initializer, configuration (`init/initializer.py`, `configuration/manager.py`) | none: canonical files of the project | plan, apply | repository transaction, adapters |
| Doctor (`init/doctor.py`) | none | run | reads what all of the above write |
| Command line (`cli/__init__.py`) | none | plan, show, ask, apply and report, for every command | all of the above |
| Templates, export, scanners | none | plan, apply | repository transaction; the command line |

### What is hard about it

Concurrency is between processes that share files, so no test of one process
meets it. What can go wrong, component by component (`PROJECT.json` lists each
hazard at its line, with the properties that would notice it):

- **Kernel.** Every operation is a read-modify-write of one JSON file; events of
  other invocations lie between the read and the replacement unless the
  operation lock is held. An invocation can be killed between an authorization,
  the start event, the command and the finish event, and what it leaves behind
  must neither be run again for free nor count as evidence. Budgets, retries and
  approvals are counted over the whole history. Correct means: histories only
  grow, limits hold over crashes, and *completed* is earned at the final
  revision.
- **Command supervision.** Output, exit, timeout, cancellation and the output
  limit race; the children of a command may outlive it or ignore SIGTERM.
  Correct means: "succeeded" is never said of a command that was cut off.
- **Repository transaction.** Several files are replaced one by one, with
  failures, crashes and a user who edits in between. Correct means: all of the
  reviewed change or none of it, from exactly what was reviewed.
- **Local data.** Clones share data and move it while others write; items are
  pinned, registered again and pruned by plans made earlier. Correct means: no
  record and no pin is lost, and no two invocations wait for each other.
- **Runtime distribution.** Each step of an update, and of the undo of a failed
  one, can fail or be interrupted. Correct means: what the launcher starts is
  whole at every moment.
- **Planners** (integration, modules, upgrade). What is applied was reviewed
  earlier, against files that users and other invocations write. Correct means:
  nothing of the user's is lost, and what is recorded to be undone is what was
  there.
- **Consent.** What a human approves, what the capabilities file says when it is
  approved, and what it says when a command is authorized are three readings of a
  file that anybody edits. Correct means: what runs is within the policy and the
  scope, and its places and effects have been seen.
- **Activation.** A start reads the lock, then the manifests, then decides module
  by module under one budget. Correct means: what a task is given has been
  reviewed and fits together.
- **Doctor.** It computes for itself what other operations need. Correct means:
  what it passes they accept, and what they would leave alone it passes.
- **Command line.** Every handler plans, shows, asks, applies and reports in an
  order of its own. Correct means: what is asked has been shown, and unattended
  commands end.

## 2. The modules

```
TaskRecord <- TaskKernel <- TaskProperties <- MCTask              CompletionGate
                         ^ TaskKernelProofs <- TaskGateProofs

TaskProperties                                    \
RepositoryTransaction <- TransactionProperties     > MCProgress   ReviewedUpdate
CommandCapture        <- CaptureProperties        /
CommandReview         <- ReviewProperties        /
                         ^ ProgressProofs

StoragePlacement      <- PlacementProperties      \ MCLocalData
RuntimeDistribution   <- DistributionProperties   /               InstalledRuntime
                         ^ LocalDataProofs

ManagerPlans <- StorageRetention <- RetentionProperties   \
             <- UpgradeRecovery  <- UpgradeProperties      \
             <- ModuleTrials     <- TrialsProperties        \
CapabilityConsent     <- ConsentProperties                   \
                         ^ ManagerProofs                      > MCManagers
ManagerPlans <- ModuleActivation <- ActivationProperties     /
Recommendations       <- RecommendationProperties           /
                         ^ ModuleProofs                    /
ManagerPlans <- ClientIntegration <- HarnessHealth <- IntegrationProperties
                         ^ IntegrationProofs

InductionLemmas: used by ManagerProofs, ModuleProofs, IntegrationProofs
```

(`A <- B`: B extends or instantiates A. The rightmost modules are the abstract
specifications the properties instantiate.) Behaviour is in the left column,
what must hold of it in the `...Properties` modules, why it does in the
`...Proofs` modules, constants for TLC in the `MC...` modules. A definition
commented "Mutant" is a plausible bug: with it in place of the definition
`PROJECT.json` names, TLC finds the property violated.

They were built in the order of the table, the kernel first because everything
else serves it.

| module | code | state | a step is |
|---|---|---|---|
| `TaskRecord` | `core/store.py` (records), `core/gateway.py` and `core/verifier.py` (decisions) | none: operators on a record | - |
| `TaskKernel` | `core/task_service.py`, `store.py`, `gateway.py`, `executor.py`, `verifier.py`, `workspace.py` | records on disk, artifacts, operation lock, workspace lease, running commands, HEAD, dirty paths, clock, program point and locals of each invocation | one read, one decision or one atomic replacement of a file |
| `CommandCapture` | `core/executor.py` `_run_process`, `_capture`, `_terminate_process` | process group, pipes, buffers, selector, the flags of the loop | one iteration's check, `select`, one read, one signal |
| `RepositoryTransaction` | `init/transaction.py`, its callers' plan and apply | files, journal, staging area | one validation, staging, replacement, restore, removal |
| `StoragePlacement` | `storage/location.py`, `storage/migration.py` | mode of each clone, contents of each root, both kinds of locks | one lock, plan, copy, switch, write |
| `RuntimeDistribution` | `distribution/manager.py` | slots, the two pointers, parts moved aside, the lock file | one file operation or its failure |
| `ManagerPlans` | what retention, upgrades, trials, integration and activation share: `plan_...`, a review, `apply_...` | where each invocation is, what it has planned, the lock of the project's data | - |
| `StorageRetention` | `storage/manager.py` | index, files and links by path, project-data lock | one method, or one item of the loop of `apply_prune` |
| `UpgradeRecovery` | `upgrade/manager.py` | files, recovery points, lock | one read, one point written, one transaction |
| `ModuleActivation` | `modules/manager.py` `list`, `plan_enable`, `activation_decisions`; `modules/model.py`, `registry.py`; `TaskService.start` | builtins of the runtime, manifest files, the lock, the decisions of a task | a plan, an apply, the reading of the lock, of the manifests, one recorded decision |
| `CapabilityConsent` | `core/gateway.py`, `TaskService` `start`, `amend`, `plan_approval`, `grant_approval`, `run_capability`; `schemas/` `load_capabilities` | capabilities.json, envelope and history of a task, HEAD, clock, lock | one reading of the file, one decision, one event |
| `CommandReview` | `cli/__init__.py` | the options of one invocation and where it is | parsing, planning, showing, asking, applying, reporting |
| `HarnessHealth` | `init/doctor.py`, `adapters/clients.py` | none: operators on files and surroundings | - |
| `ModuleTrials` | `modules/manager.py` | the lock file with its trials | one of the two reads of a plan, an apply |
| `ClientIntegration` | `adapters/integration.py`, `managed.py`, `claude_hook.py`, `init/initializer.py`, `configuration/manager.py` | instruction files, settings, configuration, capabilities | one of the two reads of a plan, an apply, an edit of the user |
| `Recommendations` | `feedback/` | episodes, cooldowns, what was offered | one command |

What the abstractions are:

- An **event** keeps type, capability, revision, authorization, attempt,
  approval, uses, time and status: what the gateway and the verifier read. An
  authorization is named by its position, as in the code. The envelope keeps
  what decisions read; `TaskService` declares one required acceptance for each
  requested capability, so acceptances are capabilities. Capabilities and paths of
  an envelope only grow in `amend`, as `TaskService.amend` calls it.
- `TaskKernel` takes policy and declarations as constants and has every step of
  every operation; `CapabilityConsent` has declarations that are edited at any
  time, with the decisions about them in full, and an execution as one step. A
  declaration keeps what the decisions read; of the rest (argv, directory,
  timeout) an approval has no trace.
- In `ModuleActivation` a manifest and its hash are one value, and the lock is
  the item of every id.
- `CommandReview` is the conversation alone; which handlers show before they ask,
  take `--apply` or judge are sets of commands. What an apply compares with the
  review, changes, and leaves behind when it fails differs from manager to
  manager, and is in the manager's module.
- `StorageRetention` has an index of items and a set of paths where there is a
  file: items may share a path, and `register` writes the index alone.
- `HarnessHealth` extends the files of `ClientIntegration` by what else Doctor
  looks at: a record of surroundings, most with one thing wrong.
- `TaskKernel` with `"execute"` among its `Operations` is a program that also
  calls the exported `Executor.execute` directly, with any authorization of a
  task: it takes the workspace lease and no operation lock, so its appends race
  with those of `TaskService`. An authorization is decided with the clock of the
  decision and dated with the clock of the append.
- `CommandCapture` is the detail of the kernel's steps from `Spawn` to
  `CommandEnds`; output is counted in chunks, time is whether the deadline has
  passed.
- A **file content** is a model value. An instruction file is a sequence of
  lines, two of which are the markers; the body is left out, so a user's line
  between the markers is a block that has drifted. The settings are the sequence
  of `PreToolUse` entries, each the set of its commands and whether the rest of it
  (matcher, type, timeout, message) is not as installed (`Altered`). Digests
  identify what they are digests of.
- In the planner modules applying a reviewed change is one step, all of it or
  none: `RepositoryTransaction` is the detail of that step and `ReviewedUpdate`
  says that it is one. Downloads, signatures and the contents of a slot are
  whether the slot is complete.
- Ages and sizes of stored items are whether an item is older than its retention
  period.

The abstract specifications, each a property of a run through a refinement
mapping in the `...Properties` module:

- `CompletionGate`: what the kernel promises without records, locks or
  processes. A task is completed only when every required capability has passed
  since the last amendment and no launched command is unaccounted for; an
  outcome is final.
- `ReviewedUpdate`: a change happens all at once, from exactly the reviewed
  contents, or not at all. The mapping gives every path the content that
  `recover` would put back while a journal exists; the transaction takes effect
  when the journal goes.
- `InstalledRuntime`: one installed version, one to return to, used up by a
  rollback. A failure that is undone leaves no trace; a crash, or an undo that
  fails too, may cost the version to return to; of the installed one, only an
  uninstall that is interrupted or cannot be undone leaves something broken. The history variable `hurt` of `RuntimeDistribution` says
  whether such a thing has happened, so that the specification gives no licence
  otherwise. While an update is tentative, the mapping shows the pointers it
  started from.

## 3. The runs

Every run finishes within four minutes with two workers. `crash` is the
death of an invocation between any two steps: its flocks go, its files and (in
the kernel) its command stay. Four passing runs put systems that share no state
side by side: the first state says which one a behaviour is of. Each of these runs
extends the `...Properties` modules whose definitions it checks, so that a run
and a theorem speak of one definition.

| run | bounds | distinct states | what it shows |
|---|---|---|---|
| `TaskGate` | 2 invocations, 1 task, 2 capabilities of which each is started once at most (retry budget 0), 2 revisions, 1 module activation, edits of the worktree, crashes | 362k | types; what an invocation has read is current until it writes (`LoadedIsCurrent`); limits hold (`BudgetsRespected`); a completed task has earned it (`CompletedIsEarned`); histories only grow (`HistoryAppendOnly`); the kernel implements `CompletionGate` |
| `TaskApproval` | 2 invocations, a high-risk capability that may be started twice, 2 approvals of up to 2 uses, a clock of one tick, HEAD that moves, lost artifacts, crashes | 995k | grants pay for no more than they say, and after they have expired for one authorization at most (`ApprovalsRespected`) |
| `TaskExecutor` | 2 invocations, one capability that may be started twice, verification, direct calls of `Executor.execute` with any authorization, crashes | 814k | the lease alone keeps commands, and commands and verification, apart (`OneSupervisedCommand`, `VerifiesAlone`); no two starts of a history have one authorization (`AuthorizationsSingleUse`) |
| `Progress` | four systems, listed below; fairness of section 4 | 84k | what begins comes to an end, and 2 properties of what it does on the way |
| `LocalData` | two systems, listed below | 292k | 6 properties of them |
| `Managers` | thirteen instances of seven managers, listed below | 422k | 15 properties of them |
| `TaskOrphan`, `TransactionStuck`, `CaptureHang`, `UserRules`, `ReviewOrder`, `ActivatedAsPinned` | small | | violations: section 6 |

| system | bounds | properties |
|---|---|---|
| `Progress`: task | 2 invocations, approvals, verification, cancellation, commits, crashes | every operation ends (`OperationsEnd`) |
| `Progress`: transaction | 1 invocation at a time, 2 paths, 2 contents and "missing", plans over any subset, 2 transactions, failures, crashes also during a recovery, edits outside of a transaction | `ReviewedUpdate`; what is unfinished gets resolved if somebody recovers (`UnfinishedIsResolved`) |
| `Progress`: command | a leader and a child, limit and pipes of 2 chunks, 2 chunks a stream | success is complete (`SuccessIsComplete`), a late command ends unless its leader is gone and a child holds the pipes (`TimeoutEnds`) |
| `Progress`: review | 2 invocations in turn of any of 22 commands with any options | commands with `--yes` or `--json` end (`UnattendedEnds`) |
| `LocalData`: placement | 2 clones with a task each, 2 invocations, migrations to and fro, failures, crashes, a user who archives a left root | no record is lost or set back for its clone (`RecordsSurvive`), no unfinished task moves (`OnlyFinishedTasksMove`), writes go where they are read (`WritesAreSeen`), no circular wait (`NoCircularWait`) |
| `LocalData`: distribution | 2 invocations, 2 versions, 3 slots, failures, undo that fails part by part, crashes, removed lock files | both pointers name whole slots (`PointersWhole`), `InstalledRuntime` |

Why the bounds are enough. Two invocations of one operation each are what a race
needs; a third adds only repetitions of the interleavings of two, and the proofs
of section 5 are for any number. Two capabilities let one be stale while the other
is not; two revisions let evidence age. In `TaskGate` each is started once at most,
so that no later result replaces an earlier one and `max_executions` never
binds: a second start is in `TaskApproval` and `TaskExecutor`, and the proofs are
for any budgets. One tick of the clock between the decision and the append is what
a late authorization needs. Two paths are what a half-applied change needs, and two
transactions let the second meet what the first left. Three slots let an update
follow an update that left an old slot to clean up. A limit of 2 with 2 chunks a
stream lets the limit be met exactly by one stream, crossed by the two together, and
crossed in the middle of what is read; other capacities are the proof's.

A context budget of 3 with modules of cost 2 and 1 is met exactly and
crossed. Declarations that differ in one field each let every field be what makes
an approval void or an execution forbidden.

The instances of `MCManagers`. They write disjoint files, so nothing is lost by
running one at a time; every property is checked in every instance, and the table
says which ones an instance is for:

| instances | bounds | properties |
|---|---|---|
| `moving`; `pinning` | retention by two invocations with crashes, 2 items: registered anew at another of two paths, of unfinished tasks or not, with links; pinned and pruned where they share a path | `ExpiredIsGone`; `PinsSurvive` |
| `configuring`; `upgrading` | upgrades by two invocations with crashes and edits: one file with three configurations, two of which have one result; two files with upgrades of different extent | `RollbackIsExact`, `UpgradeIsUndoable` |
| `trying`; `deciding` | two trials of a module, the first of which gets results: two invocations; one invocation with two tasks and results over the budget | `TrialsAreSound` (one trial is open at most, an undo is exact), `PromotedIsEarned`, `TrialsProgress` |
| `writing`; `switching`; `repairing` | integration, files of up to 3 lines: a user who edits lines and up to 2 entries, one invocation at a time; two invocations that change the client, while the user declares capabilities; a user who damages markers, blocks and the hook of Claude Code, or alters its entry or adds a command to it, with a second init and config apply. Doctor is asked in 8 surroundings, two of them harmless and one harmless but for Claude Code | `UserContentKept`; `ConfigurationIsTrue`; `RepairHeals`, `DoctorIsSound` |
| `activating` | a builtin that another runtime changes, a local module that is edited, a local module with the id of the builtin; 2 invocations, 3 changes | `ContextIsSound`, `DoctorForesees` |
| `consenting` | 2 invocations, a capability that writes, one edit of the file to any of nine declarations, one of them ill-declared, one approval of up to two uses, an amendment, a HEAD that moves, one tick, kills | `EffectsConsented` |
| `grading`; `cooling` | three episodes over three tasks on one day, in one mode; two episodes of one task, two kinds of failure, 4 days with a cooldown of 2, commands with engines of their own | `RecommendationsAreSound` (a recommendation is earned, a rejection is obeyed) |

Where an instance restricts what users or invocations do, the property it is for
has no such restriction in its theorem (section 5), except where the hypothesis
column there says so; section 6 says what then goes wrong.

## 4. Fairness

- `TaskKernel!FairSpec`: an invocation inside an operation is scheduled, and so is
  the end of its command. The latter is what `Executor._capture` provides by its
  timeout unless a child holds the pipes after its leader (`CaptureHang`). Waiting
  for the operation lock needs fairness of the holder alone, for a waiter is
  outside of the operation. Users, edits, commits and time are never fair.
- `RepositoryTransaction!FairSpec`: weak fairness of a running invocation, and
  strong fairness of `Recover`: a user whom every apply refuses because of an
  unfinished transaction recovers it at some time. The property exempts
  behaviours that crash again and again.
- Commands of the command line: whatever runs goes on; nobody has to answer a
  question, and `UnattendedEnds` is of commands that need no answer.
- The specification of `MCProgress` states the fairness of each of its systems.
- `CommandCapture!FairSpec`: the loop of the harness is scheduled, and time
  passes. The command is not fair: it may hang, write or exit at any time.

## 5. Proofs

Every invariant and every action property that a passing run checks, and every
refinement, is a theorem. Each holds for every value of the constants
that satisfies the assumptions their modules name (limits are naturals, the
ids of nobody are not ids, the set of capabilities is finite, high-risk
capabilities need an approval ...), which TLC evaluates in every run of the
component. Where a theorem takes a further hypothesis, the table says so.

| theorem | states | hypothesis |
|---|---|---|
| `TypeCorrect` | `[]TypeOK` of the kernel | none |
| `LockIsHeld`, `ReadsAreCurrent` | `[]LockHeld`, `[]LoadedIsCurrent` | none; both say nothing where `"execute" \in Operations` |
| `HistoryGrows` | `HistoryAppendOnly` | `"execute" \notin Operations` |
| `SupervisedExclusion`, `VerificationExclusion`, `AuthorizationsUsedOnce` | `[]OneSupervisedCommand`, `[]VerifiesAlone`, `[]AuthorizationsSingleUse` | none |
| `ApprovalsAreRespected`, `BudgetsAreRespected`, `CompletionIsEarned` | `[]ApprovalsRespected`, `[]BudgetsRespected`, `[]CompletedIsEarned` | `"execute" \notin Operations` |
| `KernelImplementsGate` | `ImplementsGate` | `"execute" \notin Operations`, the gate has a name for every position of a history |
| `CaptureTypeCorrect`, `SuccessMeansComplete` | `[]TypeOK`, `[]SuccessIsComplete` of the supervision | none |
| `PointersStayWhole`, `DistributionImplementsInstalled` | `[]PointersWhole`, `ImplementsInstalledRuntime` | none |
| `RecordsAreKept`, `OnlyFinishedMove`, `WritesAreVisible` | `RecordsSurvive`, `OnlyFinishedTasksMove`, `WritesAreSeen` of the local data | none |
| `NobodyWaitsInACircle` | `[]NoCircularWait` of the local data | none |
| `EffectsAreConsented` | `[]EffectsConsented` | none |
| `TransactionImplementsReviewed` | `ImplementsReviewedUpdate` | one invocation, edits outside of transactions |
| `ExpiredItemsAreGone`, `PinsAreKept` | `[]ExpiredIsGone`, `PinsSurvive` of the retention | none |
| `UpgradesAreUndoable`, `RollbacksAreExact` | `[]UpgradeIsUndoable`, `RollbackIsExact` | no `"meddle"` |
| `TrialsAreUndoable`, `TrialsOnlyProgress`, `PromotionsAreEarned` | `[]TrialsAreSound`, `TrialsProgress`, `[]PromotedIsEarned` | no `Overlap` |
| `ContextsAreSound`, `DoctorForeseesStarts` | `[]ContextIsSound`, `[]DoctorForesees` of the activation | none |
| `RecommendationsAreEarned` | `RecommendationsAreSound` | none |
| `DoctorSeesWhatToRepair`, `RepairsHeal` | `[]DoctorIsSound`, `RepairHeals` of the integration | none |
| `UserContentIsKept` | `UserContentKept` | no `"meddle"` |
| `ConfigurationsAreTrue` | `[]ConfigurationIsTrue` | no `"meddle"` |

`"execute" \notin Operations` says that commands are run through `TaskService`
alone, whose operation lock is what these theorems are about. A direct call of
`Executor.execute` appends its start and its finish without that lock: an append of
somebody else in between is lost, or loses them (section 6), so a start may
disappear (and its authorization be presented once more, to a history that has no
start of it), a finish may be without one, and histories do not only grow. It does
not look at the retry budget again either, so a caller who collects authorizations
first can start more commands than the budget has. What remains then are the
theorems on the workspace lease and on the two validations around it.
One invocation, and edits outside of transactions, are what
`RepositoryTransaction` needs because nothing in `init/transaction.py` excludes
others (section 6); the theorem is over any number of transactions, failures,
crashes and recoveries.

`"meddle"` and `Overlap` are writes between the two reads of one plan: the code
takes what it reads the second time for what was reviewed, so the change is lost
(section 6). `RepairsHeal` and `DoctorSeesWhatToRepair` hold of these edits, too.

Three statements speak of histories. `original` has what an upgrade replaced until
the next upgrade to the same result is begun, which writes over the recovery
point, whatever becomes of it: `UpgradeIsUndoable` and the exact half of
`RollbackIsExact` are of that time, and section 6 says what comes after. `ConfigurationIsTrue` is of projects in which
nobody has `tampered`: a user who takes a marker or the hook away, or copies a
block, has made the configuration untrue by that alone, and a second init replaces
the configuration without removing what the first client has left.
`RecommendationsAreSound` is of the rejections that the engine at work was given:
the next command makes an engine, which has heard of none (section 6).

### The kernel

- *Lock* (`TaskKernelProofs`). An invocation inside an operation holds the
  operation lock, and what it has read is what is on disk until it writes.
  Neither is inductive alone: that the lock is kept by others says nothing
  without the currency of reads at every loaded point, and appending to a record
  that does not exist must be excluded. `HistoryInv` is types, both facts and
  `AbsentEmpty` (what does not exist has no history), where nobody calls
  `Executor.execute` directly. `Keeps(p)` says once what a
  step of `p` may do to the rest; every action is shown to be such a step, and the
  invariant to be kept by all such steps. `HistoryGrows` follows: a write extends
  the record that was read, which is the one on disk. `LeaseInv` does the same for
  the workspace lease, with `LeaseStep(p)`, and holds with direct calls, too.
- *Starts* (`TaskGateProofs`). `UseInv` takes the operation lock from operations of
  `TaskService` alone, and the lease from all. A direct execution and an operation
  may both have read the record before either writes it, so neither knows what is
  on disk. But the operation starts nothing and the execution authorizes nothing:
  what is on disk has every start the operation has read and no authorization it
  has not, and every authorization the execution has read under the lease and no
  start it has not (`Follows`, one way or the other). So whichever record is written
  over the other, the start that is appended is the only one of its authorization.
- *Records* (`TaskGateProofs`, lemmas). `Sound(r)` is the invariant of one
  record without any invocation: starts and finishes are paired with an
  authorization of their capability, grants are charged at most as often as they
  allow and once at most after they expire, budgets bound the history, and an outcome
  "completed" means that the last look was clean. `Writes(r, s, e)` lists the
  ways a record may be written, each with what the writer must have found out
  (`MayAuthorize`, `MayFinish`, `ValidAuthorization`, `WithinRetry`, `Clean`). All
  sound records stay sound under all of these writes; this is where sets of
  positions are counted.
- *Gate* (`TaskGateProofs`). `Knows(p)`: what an invocation has found out by its
  point holds of the record on disk. The lock makes it stable, since nobody else
  writes while `p` is inside; `HistoryInv` turns what was read into what is.
  `FreshApprovals`: the id an approval will get is nobody else's, although it
  was chosen before the lock was taken. `GateInv` is `HistoryInv`, soundness of
  every record, `Knows` of every invocation and `FreshApprovals`; every action is
  shown to `Learn`, and the four theorems are read off `Sound`.
- *Refinement* (`TaskGateProofs`). Every kind of write, seen as phase,
  requirements, passed capabilities and outstanding commands, is one step of
  `CompletionGate` or none (`Views...`); `GateInv` says that every step of the
  kernel is such a write of one record.

### The supervision of a command

`CaptureInv`: what was written is in the buffers or still in the pipe until
something is dropped, and `truncated` tells when (`NothingDropped`); a request to
end the command has a reason among the flags (`RequestHasReason`); what `select`
reported is still readable when it is read (`ReadyHolds`); a stream that was closed
is empty and without a writer (`ClosedIsEmpty`); the status is given at the end,
once. Success with a clear `truncated` and both streams closed then means that
buffers and output are equal.

### The placement of local data

`LocksHeld` says who has which lock by the point of each invocation and its plan,
and `PlansSound` which two roots a plan may name: that of its clone and the shared
one. Two invocations inside therefore have disjoint roots. `Footprint(p)` says
once what a step of `p` may touch, the modes and roots it has locked, and that it
turns no clone to a root it has not locked; what another invocation has found out
about its own roots then stays true (`OthersUndisturbed`). Under these locks
`BoundHolds` keeps the binding of a writer past its check, and `SwitchesReady` what
a migration has verified until it switches the mode.

Not evident, and not local to any invocation, is `NoCopyAhead`: a switch that fails
removes the copy it installed, while another clone may have been looking at that
root all the time. It loses nothing, because a root that did not exist showed that
clone no record, so that no copy of its tasks anywhere, and none in what was
installed, has one either: no copy is ever ahead of what the clone of the task
sees. `SeesTheSame` then holds of every step but a write. That nobody waits in a
circle needs no order of the root locks: two that wait for roots have different
clones, so that the only root both can want is the shared one, which one of them
would have to hold and to want.

### The standalone runtime

`DistributionInv` describes an invocation inside the lock by what it remembers:
the old pointers, which are whole for as long as it may want to restore them; a
staged slot, which is neither of them and has another version; and, point by
point, how far the pointers have moved and how far an undo has put them back
(`UpdateIsAt`, `RollbackIsAt`). The lock excludes the other invocations, any
number of them. The refinement shows the old runtime while an operation may
still be undone and the new one from its verification on, so that the whole
operation is the one step at which it is verified, or the crash that interrupts
it.

### The repository transaction

`TransactionInv`: the journal on disk is what the invocation works from, and
`Lies` says for each path of the transaction whether it has its old or its new
content, by the point the invocation has reached and by whether the path is still
to do. `Effective`, the content with the journal's old contents over it, is
therefore constant from the writing of the journal to its removal: the removal
is the one step of `ReviewedUpdate`, forwards with all paths new and backwards
with all old. A crash forgets the invocation and keeps the journal, which is all
that a recovery needs.

### Consent

Here the capabilities file, HEAD and the clock move between any two steps, and
what an invocation has read is *not* what is there when it decides. `ConsentInv`
says what is left of it: what was read came from a file that loads, so that it is
well declared (`ReadsAreLoaded`); without it a command could write without saying
so in its effects, and `RequiresApproval` would not ask (`ConsentIsAsked`). No two
grants have one id, every charge names a grant, and an id that is shown or about
to be granted is nobody else's (`GrantsApart`, `ChargesAreGranted`,
`ApprovalsFresh`): a new grant has paid for nothing yet, and what is charged to one
leaves the others alone. An envelope only widens and a history only grows
(`Extended`), so that consent once given stays given. The history is read and
extended in one step, since `TaskKernelProofs` shows that the operation lock makes it
one; `Start`, `Amend` and the clock are bounded by nothing the proof uses.

### Retention

`RetentionInv` rests on two facts about plans. A plan to pin changes no path and
no mark and takes no pin away (`PinsPlanned`), whenever it is applied, since the
apply compares the index with the one it was made from. An index that is being
pruned is the one on disk but for its marks, and where it marks something there is
no file, for a path and not for an item, since items share paths
(`PruningMarks`): a crash between a deletion and the write of the index loses
marks and no files, which is why `ExpiredIsGone` is of marks that were written.
That no one else writes in between is the lock (`PruningIsLocked`). Files come from
outside of the module (`Store`): what it asks of whoever writes them is the lock,
and not to write where an item has been pruned.

### Upgrades

The fact that makes a point worth having is `Replaces`: the id of a point is the
contents an upgrade results in, and the contents it keeps are ones that the same
upgrade turns into them. It holds of every point, used or not, and of every plan
from its first read on, since the upgrade of a path does not change by upgrades
and rollbacks of it (`CandidatesHold`): applying `Upgraded` to what it has made
changes nothing. Different contents may have one result, so `Replaces` does not
say which of them was there: `OriginalIsSaved` does, from an upgrade until a point
of the same id is written again.

### Trials

The document is a record of sequences, and each operation replaces it as a whole.
`Operation(d, a, starts)` says what a plan may have made of `d`; `PlansAreOperations`
that each plan is an operation on the document that is there when it has been
read the second time. So it suffices that operations keep the invariant of the
document: the active trial of a module is its last, and the module is in the lock
(`ActiveIsLast`); results and those awaited add up to what the trial asked for,
no two of one task, within the budget while it is open (`ResultsAreCounted`); and
what a trial will restore is what it has replaced (`ReplacedIsPrevious`).

### Activation

A start reads the lock, lists manifests and decides one by one, while manifests
and the lock change. `ActivationInv` keeps what the start has found out: the lock
it has read enables nothing that was not reviewed (`EnabledWithin`), the decisions
give no more than the budget and nothing unreviewed (`GiveWithin`), the task has
the first of them (`Starting`), and there is one start. What is listed between is
loaded by its hash, so that a file edited after the review is left out. Decisions
are recursive functions over a sequence of modules; what they compute is proved by
induction over its length (below).

### Recommendations

`FeedbackTypes` is that only finitely many episodes were recorded; of three or
more tasks there are three that differ, and a majority is one by counting
(`SharedOut`). `CooldownsAreRejections` says that an engine knows every rejection it
was given and when its cooldown ends, and nothing else; a new engine begins with
neither.

### The integration and Doctor

About the blocks: `Manageable` lines without markers or with one block; what
`Render` and `RemoveBlock` make of them has the same lines outside of the block,
rendering twice changes nothing, and a rendered block is `Current`. About the
hook: what `WithoutHook` leaves is the other entries in their order, and a
settings file in which it is installed has one hook entry, of whatever else and
wherever. So Doctor's content is not that a repair changes nothing, but that it
changes at most the entry of the hook. Three
invariants build on that. `IntegrationInv` holds whatever users do: files are of
their kinds, and what a plan sets up is healthy (`PlanIsSound`), which gives
`RepairsHeal` and, with the case analysis of the checks of a report,
`DoctorSeesWhatToRepair`. `KeepingInv` adds that a plan changes nothing of the
user's in what it has read (`PlanKeeps`). `TrueInv` adds that the configuration is
true, and would be with the plan applied to what it has read (`PlanIsTrue`), unless
somebody has tampered, which stays so (`TamperingStays`).
`StillTrue` carries that to the files at the time of the apply: the files that the
plan does *not* change may have changed in between, but the files it changes
include the configuration or leave alone whatever decides whether it is true.

### Induction

The provers cannot use the induction theorems of the library, which take a
predicate. `InductionLemmas` states induction with sets and functions in their
place: a set of numbers that has 0, and `n` with `n - 1`, has all (`Counting`, from
the well-foundedness of the naturals), and a typed base with a typed step
defines a typed function (`Recursion`). What the recursive functions of
`ModuleActivation`, `ModuleTrials` and `ClientIntegration` compute is proved with
these two.

Each of these invariants was first checked by TLC as an invariant of an instance
of its component.

### What is model-checked only

Liveness: `OperationsEnd`, `UnfinishedIsResolved`, `TimeoutEnds` and
`UnattendedEnds`, since fairness and ENABLED are beyond the provers; and the
violations of section 6, which are single behaviours. Scheduling bounds of the
`MC` modules (one invocation at a time in `writing` and `deciding`, altered entries
that have nothing but the hook in `repairing`) are restrictions of the runs alone: the theorems are of
the specifications without them.

## 6. Where code and documents part

Six disagreements have a run that shows them:

- `TaskOrphan`: the lease is a flock of the invocation
  (`core/executor.py:97`), the command runs in a session of its own (`:223`).
  When the invocation is killed the command goes on and the lease is free, so a
  second command starts beside it.
- `TransactionStuck`: `recover` is called by no command; after a crash every
  apply refuses, and the documents promise detection and recovery.
- `CaptureHang`: `_terminate_process` returns once the leader has exited
  (`core/executor.py:607`), so a background child that keeps the pipes holds the
  executor, its lease and the operation lock beyond any timeout.
- `UserRules`: init computes capabilities, lock and configuration from a scan
  and never reads what is there (`init/initializer.py:128`), so a second init
  replaces declarations of the user; and a command that a user adds to the hook's
  own entry is removed with it (`adapters/claude_hook.py:147`). The requirements
  promise that files and rules of users are kept.
- `ReviewOrder`: `capability approve`, `storage prune`, `storage pin` and `export`
  ask before they have printed what for (`cli/__init__.py:1490`); the README says
  that the change is shown before the confirmation.
- `ActivatedAsPinned`: `list` does not compare a builtin with the hash in the
  lock (`modules/manager.py:73`), so after an update of the runtime a task starts
  with a manifest the lock does not pin. Doctor reports it.

Others were met while modelling. They bound what the runs above take for granted:

- `TaskStore.append_event` says "Atomically append" (`core/store.py:294`) and
  holds no lock: without `TaskService`, two concurrent appends lose one event.
  Hence what section 5 says of histories is of tasks without direct calls of
  `Executor.execute`.
- An approval is compared with the clock before the authorization is dated
  (`core/gateway.py:457`, `core/store.py:392`): an authorization can be dated after
  the expiry of its grant, one for each grant, since the next decision sees it
  expired. The models take the clock never to go back.
- The stop condition of a capability (`stop_on_exit_codes`) is copied into the
  authorization and compared (`core/executor.py:456`), and never applied to an
  exit code.
- Two overlapping applies both pass the test for a journal
  (`init/transaction.py:65`) and mix their files; the run therefore has one
  invocation at a time. `_restore` (`:139`) overwrites what a user wrote after a
  crash, `after_sha256` is recorded and read by nobody; hence edits outside of
  transactions.
- `apply_prune` (`storage/manager.py:199`) does not look again at pins and task
  states: an item pinned by another invocation after the plan is deleted, and so
  is the file of a pinned item that shares its path with a prunable one. No
  property says otherwise. It raises at a changed item after others were deleted,
  and leaves those unmarked (`:212`).
- The undo of an uninstall is tried part by part (`distribution/manager.py:346`);
  with a part that cannot be moved back the installation is broken without a
  crash. `InstalledRuntime` allows it, and says so by `hurt`.
- What an apply compares with its review is not the same for all commands:
  `storage prune` compares the paths of items, `export` its output file
  (`storage/export.py:100`), an approval its scope, and a plan without changes
  nothing (`init/transaction.py:62`). A failed apply may fail to restore, and Doctor
  may fail after init has applied (`cli/__init__.py:526`). There is no property of
  all commands on it.
- Doctor counts the hook's entries and does not compare them
  (`adapters/claude_hook.py:138`): with a matcher that has been narrowed, or with a
  command of the user's beside the hook, it passes, and a repair replaces the
  whole entry (`:100`).
- SIGKILL goes to the group only if the leader survives the grace period
  (`core/executor.py:614`): a child that ignores SIGTERM survives an obedient
  leader.
- Recovery points are named by a digest of the contents *after* an upgrade and
  written before the transaction checks anything (`upgrade/manager.py:191`).
  Different configurations have one result, since `runtime_version` is overwritten
  and the JSON canonicalised (`:132`), and share a point: a refused upgrade from
  another one overwrites it with contents that were never upgraded, and a rollback
  that was reviewed before another upgrade puts back what its review has shown
  (`:241`). A rollback then still restores contents of which an upgrade makes what
  was there, and no more is promised.
- Plans of `modules`, `integration`, `upgrade` and the feedback mode read files
  twice, for the candidate and for the review (`modules/manager.py:369`,
  `adapters/integration.py:148`, `upgrade/manager.py:148`,
  `feedback/configuration.py:117`): what is written in between is dropped as if
  reviewed. `Overlap`, `"meddle"` allow it in the models; the runs do not.
- A trial over its budget is "rejected" with its module enabled, and
  `plan_rollback` refuses it as closed (`modules/manager.py:299`).
- A builtin takes the state of a local item of its id in the lock
  (`modules/manager.py:73`): enabling a local manifest called like a builtin
  enables both. `DoctorForesees` is stated of items of the source that the lock
  names.
- An approval is compared in places and effects, not in the command, the
  directory or the reversibility (`core/gateway.py:449`): `EffectsConsented` says
  what that comparison guarantees.
- At the end of its input a question ends in an exception that `main` does not
  turn into a message (`cli/__init__.py:97`).
- Cooldowns live in the engine, and every `suggest` makes an engine
  (`cli/__init__.py:855`), so that a rejection is forgotten with its process;
  `RecommendationsAreSound` is of the rejections of one engine.
- A migration that crashes between the installation of the copy and the switch of
  the mode leaves a target that every later migration of that clone reports as a
  conflict (`storage/migration.py:124`), and an interrupted uninstall cannot be
  retried after its lock file is removed (`distribution/manager.py:325`).

## 7. Not modelled

- Redaction and the contents of an export, wording and localization, JSON
  schemas, scanners, texts of templates: text and read-only inspection without
  state of their own. `scripts/` builds and smoke-tests releases.
- The command line of the sandbox and its probe (`core/executor.py`): whether it
  is available is a choice of the model.
- The runner of modules, and analysis and taxonomy of the feedback: only tests
  call them. The decision table of the PreToolUse hook and client detection:
  stateless tests of text.
- A KeyboardInterrupt between two adjacent statements is not told from a crash
  after them.
- Contents of a worktree at the time of a command: the code binds evidence to the
  revision of the envelope, and so does the model.

## 8. What comes next

1. The kernel's record as an item of `StorageRetention`, so that a task that is
   opened again meets a prune.
2. A detailed apply in the planner modules in place of one step, which
   `RepositoryTransaction` and its refinement justify today, so that crashes of
   one manager meet the plans of another.
3. Versions of the theorems with hypotheses for code that closes the gaps: an
   operation lock around `RepositoryTransaction`, plans that read once.
