----------------------------- MODULE TaskKernel -----------------------------
(***************************************************************************)
(* The governed-task kernel: command-line invocations (TaskService calls)  *)
(* working on the task records of one worktree.                            *)
(*                                                                         *)
(* Every TaskService operation but plan_approval runs under the operation  *)
(* lock of the clone.  The Executor beneath it is exported and does not    *)
(* take that lock itself: a program with "execute" among its Operations    *)
(* also calls Executor.execute directly, where the workspace lease is all  *)
(* that keeps it apart from the others, and its appends to the history     *)
(* race with theirs.                                                       *)
(*                                                                         *)
(* An invocation reads the record, decides, reads it again and replaces    *)
(* it; each read and each replacement is a step of its own.  It can be     *)
(* killed between any two steps (the kernel then drops its flocks); the    *)
(* command it had started survives it, unless the sandbox ties the two     *)
(* together.  HEAD, the files and the clock move on their own.             *)
(*                                                                         *)
(* An authorization is named by its position in the history, as in the     *)
(* code (authorization_event_sequence).                                    *)
(***************************************************************************)
EXTENDS TaskRecord

CONSTANTS
    Tasks,          \* task ids
    Procs,          \* concurrent invocations
    NoProc, NoTask,
    Operations,     \* the operations invocations make
    Scopes,         \* scopes a user asks for
    RetryBudgets,   \* retry budgets a user asks for
    Modes,          \* adapter modes: TRUE is "enforced", FALSE "observe"
    Disturbances,   \* bound: what else happens, of the kinds below
    Activations,    \* number of module activation decisions of a start
    MaxUses,        \* bound: largest max_uses of an approval
    MaxApprovals,   \* bound: approvals ever planned
    MaxRevision,    \* bound: revisions of an envelope
    MaxTime         \* bound: clock ticks

ASSUME KernelAssumption ==
    /\ NoProc \notin Procs
    /\ NoTask \notin Tasks
    /\ Scopes \subseteq SUBSET Paths
    /\ RetryBudgets \subseteq Nat
    /\ Modes \subseteq BOOLEAN
    /\ Disturbances \subseteq {"crash", "commit", "edit", "lose"}
    /\ Activations \in Nat
    /\ MaxUses \in Nat
    /\ MaxApprovals \in Nat
    /\ MaxRevision \in Nat
    /\ MaxTime \in Nat

VARIABLES
    store,      \* the record of every task, as on disk
    artifacts,  \* output files: <<authorization, attempt>> by task
    lock,       \* holder of the operation lock
    lease,      \* holder of the workspace lease
    pc,         \* where each invocation is
    loc,        \* what each invocation knows
    children,   \* commands running in the worktree
    head,       \* the commit HEAD points at
    dirty,      \* paths that differ from the base commit
    now,        \* the clock
    planned     \* approvals planned so far (a source of fresh ids)

disk == <<store, artifacts>>
locks == <<lock, lease>>
environment == <<head, dirty, now>>
vars == <<store, artifacts, lock, lease, pc, loc, children, head, dirty, now,
          planned>>

(* load_x is the point before the read that x decides on. *)
AfterLoad ==
    [load_create |-> "create", load_activation |-> "activation",
     load_amend |-> "amend", load_cancel |-> "cancel",
     load_grant |-> "grant", load_granted |-> "granted",
     load_authorize |-> "authorize", load_authorized |-> "authorized",
     load_execute |-> "execute", load_leased |-> "leased",
     load_started |-> "started", load_finished |-> "finished",
     load_target |-> "verify_lease", load_verify |-> "check_workspace",
     load_finalize |-> "finalize"]

LoadPoints == DOMAIN AfterLoad

Points ==
    LoadPoints
    \cup {"idle", "planned", "create", "activation", "amend", "cancel",
          "grant", "granted", "authorize", "authorized", "execute",
          "execute_lease", "leased", "started", "spawn", "running",
          "finished", "verify_lease", "check_workspace", "check_diff",
          "decide", "finalize", "release"}

NoRecord ==
    [state |-> "absent", revision |-> 0, requested |-> {}, scope |-> {},
     base |-> CHOOSE s \in Shas : TRUE, retry |-> 0, max_commands |-> 0,
     enforced |-> FALSE, events |-> <<>>]

NoLocals ==
    [task |-> NoTask, cap |-> NoCap, requested |-> {}, scope |-> {},
     retry |-> 0, risk |-> FALSE, approval |-> 0, uses |-> 0, expires |-> 0,
     left |-> 0, rec |-> NoRecord, revision |-> 0, auth |-> 0, attempt |-> 0,
     status |-> NoStatus, issues |-> {}]

Locals ==
    [task : Tasks \cup {NoTask}, cap : Caps \cup {NoCap},
     requested : SUBSET Caps, scope : SUBSET Paths, retry : Nat,
     risk : BOOLEAN, approval : Nat, uses : Nat, expires : Nat, left : Nat,
     rec : Record, revision : Nat, auth : Nat, attempt : Nat,
     status : Statuses \cup {NoStatus},
     issues : SUBSET (Waivable \cup NonWaivable)]

Child == [task : Tasks, cap : Caps \cup {NoCap}, owner : Procs \cup {NoProc}]

Init ==
    /\ store = [t \in Tasks |-> NoRecord]
    /\ artifacts = [t \in Tasks |-> {}]
    /\ lock = NoProc
    /\ lease = NoProc
    /\ pc = [p \in Procs |-> "idle"]
    /\ loc = [p \in Procs |-> NoLocals]
    /\ children = {}
    /\ head \in Shas
    /\ dirty = {}
    /\ now = 0
    /\ planned = 0

----------------------------------------------------------------------------
(* Steps every operation is made of *)

Goto(p, point) == pc' = [pc EXCEPT ![p] = point]

(* An exception, or the end of the operation: the context managers run. *)
GiveUp(p) ==
    /\ Goto(p, "release")
    /\ UNCHANGED <<disk, locks, loc, children, environment, planned>>

(* Mutant: an operation that forgets _locked_storage_operation. *)
AcquireNothing(p) == lock' = lock

(* StorageLocator.operation_lock blocks until the lock is free. *)
Acquire(p) ==
    /\ lock = NoProc
    /\ lock' = p

Begin(p, op, point, locals) ==
    /\ op \in Operations
    /\ pc[p] = "idle"
    /\ Acquire(p)
    /\ Goto(p, point)
    /\ loc' = [loc EXCEPT ![p] = locals]
    /\ UNCHANGED <<disk, lease, children, environment, planned>>

Release(p) ==
    /\ pc[p] = "release"
    /\ Goto(p, "idle")
    /\ loc' = [loc EXCEPT ![p] = NoLocals]
    /\ lock' = IF lock = p THEN NoProc ELSE lock
    /\ lease' = IF lease = p THEN NoProc ELSE lease
    /\ UNCHANGED <<disk, children, environment, planned>>

(* TaskStore.load; a missing record is an error except for a new task. *)
Load(p) ==
    /\ pc[p] \in LoadPoints
    /\ store[loc[p].task].state # "absent" \/ pc[p] = "load_create"
    /\ Goto(p, AfterLoad[pc[p]])
    /\ loc' = [loc EXCEPT ![p].rec = store[loc[p].task]]
    /\ UNCHANGED <<disk, locks, children, environment, planned>>

LoadMissing(p) ==
    /\ pc[p] \in LoadPoints \ {"load_create"}
    /\ store[loc[p].task].state = "absent"
    /\ GiveUp(p)

(* TaskStore._write replaces the file in one step; every write of a task   *)
(* that exists requires the record just read not to be terminal.           *)
Persist(p, r, point) ==
    /\ store' = [store EXCEPT ![loc[p].task] = r]
    /\ Goto(p, point)
    /\ UNCHANGED <<artifacts, locks, children, environment, planned>>

PersistEvent(p, e, point) ==
    /\ Active(loc[p].rec)
    /\ Persist(p, AppendEvent(loc[p].rec, e), point)

WritePoints ==
    {"activation", "amend", "cancel", "granted", "authorized", "started",
     "finished", "finalize"}

RejectTerminal(p) ==
    /\ pc[p] \in WritePoints
    /\ ~Active(loc[p].rec)
    /\ GiveUp(p)

----------------------------------------------------------------------------
(* TaskService.start *)

BeginStart(p, t, caps, scope, retry) ==
    Begin(p, "start", "load_create",
          [NoLocals EXCEPT !.task = t, !.requested = caps, !.scope = scope,
                           !.retry = retry])

(* Mutant: the task starts in a state nothing else knows. *)
CreatedActive(p, mode) ==
    [state |-> "active", revision |-> 1, requested |-> loc[p].requested,
     scope |-> loc[p].scope, base |-> head, retry |-> loc[p].retry,
     max_commands |-> Cardinality(loc[p].requested) * (loc[p].retry + 1),
     enforced |-> mode, events |-> <<NewEvent("task.created")>>]

Created(p, mode) ==
    [state |-> "draft", revision |-> 1, requested |-> loc[p].requested,
     scope |-> loc[p].scope, base |-> head, retry |-> loc[p].retry,
     max_commands |-> Cardinality(loc[p].requested) * (loc[p].retry + 1),
     enforced |-> mode, events |-> <<NewEvent("task.created")>>]

Create(p) ==
    /\ pc[p] = "create"
    /\ loc[p].rec.state = "absent"
    /\ \E mode \in Modes : Persist(p, Created(p, mode), "load_activation")
    /\ loc' = [loc EXCEPT ![p].left = Activations]

CreateExisting(p) ==
    /\ pc[p] = "create"
    /\ loc[p].rec.state # "absent"
    /\ GiveUp(p)

(* One event per activation decision, each a read and a replacement. *)
RecordActivation(p) ==
    /\ pc[p] = "activation"
    /\ loc[p].left > 0
    /\ PersistEvent(p, NewEvent("module.activation"), "load_activation")
    /\ loc' = [loc EXCEPT ![p].left = @ - 1]

StartDone(p) ==
    /\ pc[p] = "activation"
    /\ loc[p].left = 0
    /\ GiveUp(p)

----------------------------------------------------------------------------
(* TaskService.amend and cancel *)

BeginAmend(p, t, caps, scope) ==
    Begin(p, "amend", "load_amend",
          [NoLocals EXCEPT !.task = t, !.requested = caps, !.scope = scope])

(* Mutant: the revision is not advanced. *)
AmendedInPlace(r, caps, scope) ==
    [r EXCEPT !.requested = @ \cup caps, !.scope = @ \cup scope]

Amended(r, caps, scope) ==
    [r EXCEPT !.revision = @ + 1,
              !.requested = @ \cup caps,
              !.scope = @ \cup scope]

Amend(p) ==
    /\ pc[p] = "amend"
    /\ loc[p].rec.revision < MaxRevision
    /\ Active(loc[p].rec)
    /\ LET r == Amended(loc[p].rec, loc[p].requested, loc[p].scope)
           e == [NewEvent("task.amended") EXCEPT !.revision = r.revision]
       IN  Persist(p, AppendEvent(r, e), "release")
    /\ UNCHANGED loc

(* The bound: a user who amends no further. *)
AmendBounded(p) ==
    /\ pc[p] = "amend"
    /\ loc[p].rec.revision >= MaxRevision
    /\ GiveUp(p)

BeginCancel(p, t) ==
    Begin(p, "cancel", "load_cancel", [NoLocals EXCEPT !.task = t])

Cancel(p) ==
    /\ pc[p] = "cancel"
    /\ Active(loc[p].rec)
    /\ Persist(p, AppendEvent([loc[p].rec EXCEPT !.state = "abandoned"],
                              NewEvent("task.cancelled")), "release")
    /\ UNCHANGED loc

----------------------------------------------------------------------------
(* Approvals: plan_approval takes no lock and shows the scope to the user; *)
(* grant_approval plans again under the lock before it records the grant.  *)

ApprovalStillPlannable(r, c) == c \in r.requested /\ head = r.base

PlanApproval(p, t, c, uses) ==
    /\ "grant" \in Operations
    /\ pc[p] = "idle"
    /\ planned < MaxApprovals
    /\ store[t].state # "absent"
    /\ ApprovalStillPlannable(store[t], c)
    /\ planned' = planned + 1
    /\ Goto(p, "planned")
    /\ loc' = [loc EXCEPT ![p] =
                  [NoLocals EXCEPT !.task = t, !.cap = c, !.uses = uses,
                                   !.approval = planned + 1,
                                   !.expires = now + 1]]
    /\ UNCHANGED <<disk, locks, children, environment>>

Confirm(p) ==
    /\ pc[p] = "planned"
    /\ Acquire(p)
    /\ Goto(p, "load_grant")
    /\ UNCHANGED <<disk, lease, loc, children, environment, planned>>

Decline(p) ==
    /\ pc[p] = "planned"
    /\ GiveUp(p)

Grant(p) ==
    /\ pc[p] = "grant"
    /\ ApprovalStillPlannable(loc[p].rec, loc[p].cap)
    /\ Goto(p, "load_granted")
    /\ UNCHANGED <<disk, locks, loc, children, environment, planned>>

GrantRefused(p) ==
    /\ pc[p] = "grant"
    /\ ~ApprovalStillPlannable(loc[p].rec, loc[p].cap)
    /\ GiveUp(p)

RecordGrant(p) ==
    /\ pc[p] = "granted"
    /\ PersistEvent(p, [NewEvent("approval.granted") EXCEPT
                      !.cap = loc[p].cap, !.approval = loc[p].approval,
                      !.uses = loc[p].uses, !.time = loc[p].expires],
               "release")
    /\ UNCHANGED loc

----------------------------------------------------------------------------
(* TaskService.run_capability: CapabilityGateway.authorize *)

BeginRun(p, t, c) ==
    Begin(p, "run", "load_authorize",
          [NoLocals EXCEPT !.task = t, !.cap = c])

Authorize(p) ==
    /\ pc[p] = "authorize"
    /\ Authorizable(loc[p].rec, loc[p].cap, head, now)
    /\ Goto(p, "load_authorized")
    /\ \E approval \in ApprovalFor(loc[p].rec, loc[p].cap, now) :
           loc' = [loc EXCEPT ![p].approval = approval,
                              ![p].revision = loc[p].rec.revision]
    /\ UNCHANGED <<disk, locks, children, environment, planned>>

Deny(p) ==
    /\ pc[p] = "authorize"
    /\ ~Authorizable(loc[p].rec, loc[p].cap, head, now)
    /\ GiveUp(p)

(* TaskStore._new_event dates the event when it is appended: the clock may *)
(* have moved since _find_approval compared it with expires_at.            *)
RecordAuthorization(p) ==
    /\ pc[p] = "authorized"
    /\ PersistEvent(p, [NewEvent("command.authorized") EXCEPT
                           !.cap = loc[p].cap,
                           !.revision = loc[p].revision,
                           !.approval = loc[p].approval,
                           !.time = now],
                    "load_execute")
    /\ loc' = [loc EXCEPT ![p].auth = Len(loc[p].rec.events) + 1]

----------------------------------------------------------------------------
(* Executor.execute: validate, take the lease, validate again, start *)

(* A caller of Executor may present an authorization a second time, as the *)
(* tests of the repository do and TaskService never does.  Nothing above   *)
(* it takes the operation lock: the workspace lease is all it has.         *)
BeginExecute(p, t, auth) ==
    /\ "execute" \in Operations
    /\ pc[p] = "idle"
    /\ Goto(p, "load_execute")
    /\ loc' = [loc EXCEPT ![p] =
                  [NoLocals EXCEPT !.task = t,
                                   !.cap = store[t].events[auth].cap,
                                   !.auth = auth]]
    /\ UNCHANGED <<disk, locks, children, environment, planned>>

Executable(p) ==
    /\ head = loc[p].rec.base
    /\ ValidAuthorization(loc[p].rec, loc[p].cap, loc[p].auth)

ExecuteChecked(p) ==
    /\ pc[p] = "execute"
    /\ Executable(p)
    /\ Goto(p, "execute_lease")
    /\ UNCHANGED <<disk, locks, loc, children, environment, planned>>

ExecutionRejected(p) ==
    /\ pc[p] \in {"execute", "leased"}
    /\ ~Executable(p)
    /\ GiveUp(p)

LeasePoints == {"execute_lease", "verify_lease"}

AfterLease ==
    [execute_lease |-> "load_leased", verify_lease |-> "load_verify"]

(* Mutant: the flock of the lease is shared. *)
TakeSharedLease(p) ==
    /\ pc[p] \in LeasePoints
    /\ lease' = p
    /\ Goto(p, AfterLease[pc[p]])
    /\ UNCHANGED <<disk, lock, loc, children, environment, planned>>

(* WorkspaceLease.__enter__ never waits. *)
TakeLease(p) ==
    /\ pc[p] \in LeasePoints
    /\ lease = NoProc
    /\ lease' = p
    /\ Goto(p, AfterLease[pc[p]])
    /\ UNCHANGED <<disk, lock, loc, children, environment, planned>>

LeaseConflict(p) ==
    /\ pc[p] \in LeasePoints
    /\ lease # NoProc
    /\ GiveUp(p)

NextAttempt(p) ==
    1 + Cardinality(EventsFor(loc[p].rec, "command.started", loc[p].cap))

(* Mutant: what was validated before the lease is not validated under it.  *)
PrepareUnchecked(p) ==
    /\ pc[p] = "leased"
    /\ <<loc[p].auth, NextAttempt(p)>> \notin artifacts[loc[p].task]
    /\ artifacts' = [artifacts EXCEPT ![loc[p].task] =
                        @ \cup {<<loc[p].auth, NextAttempt(p)>>}]
    /\ loc' = [loc EXCEPT ![p].attempt = NextAttempt(p)]
    /\ Goto(p, "load_started")
    /\ UNCHANGED <<store, locks, children, environment, planned>>

(* The artifact directory is created before the start is recorded. *)
PrepareExecution(p) ==
    /\ pc[p] = "leased"
    /\ Executable(p)
    /\ <<loc[p].auth, NextAttempt(p)>> \notin artifacts[loc[p].task]
    /\ artifacts' = [artifacts EXCEPT ![loc[p].task] =
                        @ \cup {<<loc[p].auth, NextAttempt(p)>>}]
    /\ loc' = [loc EXCEPT ![p].attempt = NextAttempt(p)]
    /\ Goto(p, "load_started")
    /\ UNCHANGED <<store, locks, children, environment, planned>>

(* The directory of this attempt exists: an execution that got no further. *)
ArtifactCollision(p) ==
    /\ pc[p] = "leased"
    /\ Executable(p)
    /\ <<loc[p].auth, NextAttempt(p)>> \in artifacts[loc[p].task]
    /\ GiveUp(p)

(* _sandbox_command refuses the command or finds no sandbox on this host. *)
SandboxUnavailable(p) ==
    /\ pc[p] = "leased"
    /\ Executable(p)
    /\ loc[p].rec.enforced
    /\ GiveUp(p)

RecordStart(p) ==
    /\ pc[p] = "started"
    /\ PersistEvent(p, [NewEvent("command.started") EXCEPT
                           !.cap = loc[p].cap, !.auth = loc[p].auth,
                           !.attempt = loc[p].attempt],
                    "spawn")
    /\ UNCHANGED loc

----------------------------------------------------------------------------
(* Executor._run *)

Spawn(p) ==
    /\ pc[p] = "spawn"
    /\ children' = children \cup
          {[task |-> loc[p].task, cap |-> loc[p].cap, owner |-> p]}
    /\ Goto(p, "running")
    /\ UNCHANGED <<disk, locks, loc, environment, planned>>

SpawnFails(p) ==
    /\ pc[p] = "spawn"
    /\ Goto(p, "load_finished")
    /\ loc' = [loc EXCEPT ![p].status = "environment_failure"]
    /\ UNCHANGED <<disk, locks, children, environment, planned>>

OwnChildren(p) == {c \in children : c.owner = p}

(* The command exits, or is terminated at its timeout or output limit.     *)
CommandEnds(p) ==
    /\ pc[p] = "running"
    /\ \E status \in Statuses \ {"environment_failure"} :
           loc' = [loc EXCEPT ![p].status = status]
    /\ children' = children \ OwnChildren(p)
    /\ Goto(p, "load_finished")
    /\ UNCHANGED <<disk, locks, environment, planned>>

RecordFinish(p) ==
    /\ pc[p] = "finished"
    /\ PersistEvent(p, [NewEvent("command.finished") EXCEPT
                           !.cap = loc[p].cap, !.auth = loc[p].auth,
                           !.attempt = loc[p].attempt,
                           !.status = loc[p].status],
                    "release")
    /\ UNCHANGED loc

----------------------------------------------------------------------------
(* TaskService.verify: Verifier.verify, which reads the record once to find *)
(* the worktree of the lease and once more under it *)

BeginVerify(p, t, risk) ==
    Begin(p, "verify", "load_target",
          [NoLocals EXCEPT !.task = t, !.risk = risk])

CheckWorkspace(p) ==
    /\ pc[p] = "check_workspace"
    /\ loc' = [loc EXCEPT ![p].issues =
                  IF head = loc[p].rec.base THEN {} ELSE {"workspace_mismatch"}]
    /\ Goto(p, "check_diff")
    /\ UNCHANGED <<disk, locks, children, environment, planned>>

CheckDiff(p) ==
    /\ pc[p] = "check_diff"
    /\ loc' = [loc EXCEPT ![p].issues =
                  IF dirty \subseteq loc[p].rec.scope THEN @
                  ELSE @ \cup {"diff_out_of_scope"}]
    /\ Goto(p, "decide")
    /\ UNCHANGED <<disk, locks, children, environment, planned>>

AllIssues(p) ==
    loc[p].issues \cup RecordIssues(loc[p].rec, artifacts[loc[p].task])

Decide(p) ==
    /\ pc[p] = "decide"
    /\ Outcome(AllIssues(p), loc[p].risk) # "rejected"
    /\ loc' = [loc EXCEPT ![p].issues = AllIssues(p),
                          ![p].revision = loc[p].rec.revision]
    /\ Goto(p, "load_finalize")
    /\ UNCHANGED <<disk, locks, children, environment, planned>>

(* Mutant: a rejected verification tries again instead of reporting. *)
RejectAndRetry(p) ==
    /\ pc[p] = "decide"
    /\ Outcome(AllIssues(p), loc[p].risk) = "rejected"
    /\ Goto(p, "load_verify")
    /\ UNCHANGED <<disk, locks, loc, children, environment, planned>>

Reject(p) ==
    /\ pc[p] = "decide"
    /\ Outcome(AllIssues(p), loc[p].risk) = "rejected"
    /\ GiveUp(p)

TerminalEvent == [completed |-> "task.completed",
                  accepted_with_risk |-> "task.accepted_with_risk"]

(* TaskStore.finalize refuses an outcome that is not a verified one; the   *)
(* Verifier, which is its only caller, never asks for another.             *)
Finalize(p) ==
    /\ pc[p] = "finalize"
    /\ Outcome(loc[p].issues, loc[p].risk) \in DOMAIN TerminalEvent
    /\ Active(loc[p].rec)
    /\ LET outcome == Outcome(loc[p].issues, loc[p].risk)
           e == [NewEvent(TerminalEvent[outcome]) EXCEPT
                    !.revision = loc[p].revision]
       IN  Persist(p, AppendEvent([loc[p].rec EXCEPT !.state = outcome], e),
                   "release")
    /\ UNCHANGED loc

----------------------------------------------------------------------------
(* Crashes, and what moves on its own *)

(* The invocation is killed, or an exception (a full disk, Ctrl-C) leaves  *)
(* it: flocks are dropped.  The command runs in a session of its own and   *)
(* goes on; of the sandboxes, bubblewrap takes it down (--die-with-parent) *)
(* and sandbox-exec does not.                                              *)
Crash(p) ==
    /\ "crash" \in Disturbances
    /\ pc[p] # "idle"
    /\ Goto(p, "idle")
    /\ loc' = [loc EXCEPT ![p] = NoLocals]
    /\ lock' = IF lock = p THEN NoProc ELSE lock
    /\ lease' = IF lease = p THEN NoProc ELSE lease
    /\ \E survives \in {TRUE} \cup {~loc[p].rec.enforced} :
          children' = (children \ OwnChildren(p)) \cup
             {[c EXCEPT !.owner = NoProc] :
                 c \in {d \in OwnChildren(p) : survives}}
    /\ UNCHANGED <<disk, environment, planned>>

OrphanEnds(c) ==
    /\ c.owner = NoProc
    /\ children' = children \ {c}
    /\ UNCHANGED <<disk, locks, pc, loc, environment, planned>>

Commit(s) ==
    /\ "commit" \in Disturbances
    /\ s # head
    /\ head' = s
    /\ UNCHANGED <<disk, locks, pc, loc, children, dirty, now, planned>>

(* The agent, the user or a command edits a file, or restores it. *)
Edit(path) ==
    /\ "edit" \in Disturbances
    /\ dirty' = IF path \in dirty THEN dirty \ {path} ELSE dirty \cup {path}
    /\ UNCHANGED <<disk, locks, pc, loc, children, head, now, planned>>

LoseArtifact(t, file) ==
    /\ "lose" \in Disturbances
    /\ artifacts' = [artifacts EXCEPT ![t] = @ \ {file}]
    /\ UNCHANGED <<store, locks, pc, loc, children, environment, planned>>

Tick ==
    /\ now < MaxTime
    /\ now' = now + 1
    /\ UNCHANGED <<disk, locks, pc, loc, children, head, dirty, planned>>

----------------------------------------------------------------------------

Invoke(p) ==
    \E t \in Tasks :
        \/ \E caps \in (SUBSET Caps) \ {{}}, scope \in Scopes,
              retry \in RetryBudgets : BeginStart(p, t, caps, scope, retry)
        \/ \E caps \in SUBSET Caps, scope \in Scopes :
              BeginAmend(p, t, caps, scope)
        \/ BeginCancel(p, t)
        \/ \E c \in Caps, uses \in 1..MaxUses : PlanApproval(p, t, c, uses)
        \/ \E c \in Caps : BeginRun(p, t, c)
        \/ \E auth \in EventsOf(store[t], "command.authorized") :
              BeginExecute(p, t, auth)
        \/ \E risk \in BOOLEAN : BeginVerify(p, t, risk)

Advance(p) ==
    \/ Load(p) \/ LoadMissing(p) \/ RejectTerminal(p) \/ Release(p)
    \/ Create(p) \/ CreateExisting(p) \/ RecordActivation(p) \/ StartDone(p)
    \/ Amend(p) \/ AmendBounded(p) \/ Cancel(p)
    \/ Grant(p) \/ GrantRefused(p) \/ RecordGrant(p)
    \/ Authorize(p) \/ Deny(p) \/ RecordAuthorization(p)
    \/ ExecuteChecked(p) \/ ExecutionRejected(p)
    \/ TakeLease(p) \/ LeaseConflict(p)
    \/ PrepareExecution(p) \/ ArtifactCollision(p) \/ SandboxUnavailable(p)
    \/ RecordStart(p) \/ Spawn(p) \/ SpawnFails(p) \/ CommandEnds(p)
    \/ RecordFinish(p)
    \/ CheckWorkspace(p) \/ CheckDiff(p) \/ Decide(p) \/ Reject(p)
    \/ Finalize(p)

Environment ==
    \/ \E c \in children : OrphanEnds(c)
    \/ \E s \in Shas : Commit(s)
    \/ \E path \in Paths : Edit(path)
    \/ \E t \in Tasks : \E file \in artifacts[t] : LoseArtifact(t, file)
    \/ Tick

Next ==
    \/ \E p \in Procs : Invoke(p) \/ Advance(p) \/ Confirm(p) \/ Decline(p)
                        \/ Crash(p)
    \/ Environment

Spec == Init /\ [][Next]_vars

(* A running invocation is scheduled, and _capture terminates a command at *)
(* its timeout: Advance is fair.  Users, crashes, commits, edits and the   *)
(* clock owe nobody anything.                                              *)
FairSpec == Spec /\ \A p \in Procs : WF_vars(Advance(p))
=============================================================================
