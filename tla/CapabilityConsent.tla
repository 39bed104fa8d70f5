-------------------------- MODULE CapabilityConsent --------------------------
(***************************************************************************)
(* What a human consents to, and what runs (core/gateway.py,               *)
(* core/task_service.py).  Capabilities are declared in a file of the      *)
(* repository, .harness/capabilities.json, that anybody may edit at any    *)
(* time and that every operation reads anew.  An approval is planned from  *)
(* it, shown to the user, and recorded; a command is authorized from what  *)
(* it declares by then.                                                    *)
(*                                                                         *)
(* TaskKernel has the life of a task with declarations that stay, and the  *)
(* dates of its authorizations; this module has one task, and declarations *)
(* that do not stay.                                                       *)
(***************************************************************************)
EXTENDS Integers, Sequences, FiniteSets, SequencesExt

CONSTANTS
    Procs, NoProc,
    Caps, NoCap,        \* ids of capabilities
    Undeclared,         \* the declaration of an id the file does not have
    Paths, Shas,
    Declarations,       \* bound: what users declare
    Initial,            \* bound: files the project starts with
    Scopes,             \* bound: scopes of a task
    RetryBudgets,       \* bound: retry budgets of a task
    MaxUses,            \* bound: largest max_uses of an approval
    MaxApprovals,       \* bound: approvals ever planned
    MaxRevision,        \* bound: revisions of the envelope
    MaxTime,            \* bound: clock ticks
    MaxEdits            \* bound: edits of the file

SideEffects ==
    {"filesystem_read", "filesystem_write", "network", "listener",
     "dependency_change", "migration", "credentials", "production", "irreversible"}

(* A declaration as the decisions read it; the words of the command, its   *)
(* directory and its timeout are left out.                                 *)
Declaration ==
    [reads : SUBSET Paths, writes : SUBSET Paths,
     effects : SUBSET SideEffects, outbound : BOOLEAN, listener : BOOLEAN,
     reversibility : {"reversible", "conditional", "irreversible"},
     environment : {"local", "test", "staging", "production"},
     policy : {"auto", "ask", "deny"}, limit : Nat]

ConsentAssumption ==
    /\ NoProc \notin Procs
    /\ NoCap \notin Caps
    /\ IsFiniteSet(Caps)
    /\ Scopes \subseteq SUBSET Paths
    /\ MaxUses \in Nat
    /\ Declarations \subseteq Declaration
    /\ Initial \subseteq [Caps -> Declarations \cup {Undeclared}]
    /\ RetryBudgets \subseteq Nat

VARIABLES
    declared,   \* the file: the declaration of every id, or Undeclared
    task,       \* the envelope and the history of the task
    head, now,
    lock,       \* holder of the operation lock
    pc, loc,    \* where each invocation is, and what it knows
    edits, planned  \* edits and planned approvals so far

vars == <<declared, task, head, now, lock, pc, loc, edits, planned>>

NoTask == [revision |-> 0, requested |-> {}, scope |-> {}, base |-> CHOOSE s \in Shas : TRUE,
           retry |-> 0, max_commands |-> 0, events |-> <<>>]

NoEvent == [type |-> "none", cap |-> NoCap, decl |-> Undeclared, approval |-> 0,
            uses |-> 0, time |-> 0, auth |-> 0, revision |-> 0]

NoLocals == [cap |-> NoCap, decl |-> Undeclared, approval |-> 0, uses |-> 0,
             expires |-> 0, auth |-> 0]

Init ==
    /\ declared \in Initial
    /\ task = NoTask
    /\ head \in Shas
    /\ now = 0
    /\ lock = NoProc
    /\ pc = [p \in Procs |-> "idle"]
    /\ loc = [p \in Procs |-> NoLocals]
    /\ edits = 0 /\ planned = 0

----------------------------------------------------------------------------
(* Declarations *)

(* Capability.__post_init__: what a declaration does must be among the     *)
(* effects it declares.                                                    *)
WellDeclared(d) ==
    /\ d.outbound => "network" \in d.effects
    /\ d.listener => "listener" \in d.effects
    /\ d.writes # {} => "filesystem_write" \in d.effects
    /\ d.limit >= 1

Available == {c \in Caps : declared[c] # Undeclared}

(* load_capabilities refuses the whole file for one bad declaration.       *)
Loadable == \A c \in Available : WellDeclared(declared[c])

(* The operation fails before it does anything when it has to read a file  *)
(* that does not load.                                                     *)
Declares(c) == Loadable /\ c \in Available

(* What an approval is compared in; of the rest of a declaration an        *)
(* approval has no trace.                                                  *)
Binding(d) == [reads |-> d.reads, writes |-> d.writes, effects |-> d.effects,
               outbound |-> d.outbound, listener |-> d.listener,
               environment |-> d.environment]

SameBinding(d, e) == Binding(d) = Binding(e)

----------------------------------------------------------------------------
(* ProjectPolicy and CapabilityGateway *)

AllowedEnvironments == {"local", "test"}

AutoApproved == {"filesystem_read"}

(* _evaluate_policy under the default policy, the only one in use. *)
PolicyAllows(d) ==
    /\ d.policy # "deny"
    /\ ~d.outbound
    /\ ~d.listener
    /\ d.environment \in AllowedEnvironments

KernelHighRisk(d) ==
    \/ d.reversibility = "irreversible"
    \/ d.environment = "production"
    \/ d.effects \cap {"production", "credentials", "irreversible"} # {}

(* Mutant: who declares a capability decides whether to ask. *)
RequiresOnRequest(d) == d.policy = "ask"

RequiresApproval(d) ==
    \/ KernelHighRisk(d)
    \/ ~(d.effects \subseteq AutoApproved)
    \/ d.policy = "ask"

EventsOf(type) == {i \in DOMAIN task.events : task.events[i].type = type}

EventsFor(type, c) == {i \in EventsOf(type) : task.events[i].cap = c}

UsesOf(approval) == {i \in EventsOf("command.authorized") : task.events[i].approval = approval}

(* The limit is the one declared now, whatever it was before.              *)
WithinBudget(c, d) ==
    /\ Cardinality(EventsFor("command.authorized", c)) < d.limit
    /\ Cardinality(EventsFor("command.started", c)) < task.retry + 1
    /\ Cardinality(EventsOf("command.authorized")) < task.max_commands

Permitted(c, d) ==
    /\ c \in task.requested
    /\ head = task.base
    /\ d.writes \subseteq task.scope
    /\ PolicyAllows(d)
    /\ WithinBudget(c, d)

(* _find_approval; base and worktree of a grant are the task's own.        *)
UsableGrants(c, d) ==
    {i \in EventsFor("approval.granted", c) :
        /\ SameBinding(task.events[i].decl, d)
        /\ now < task.events[i].time
        /\ Cardinality(UsesOf(task.events[i].approval)) < task.events[i].uses}

FirstUsable(c, d) ==
    {i \in UsableGrants(c, d) : \A j \in UsableGrants(c, d) : i <= j}

ApprovalFor(c, d) ==
    IF RequiresApproval(d)
    THEN {task.events[i].approval : i \in FirstUsable(c, d)} ELSE {0}

----------------------------------------------------------------------------
(* Steps every operation is made of *)

Goto(p, point) == pc' = [pc EXCEPT ![p] = point]

Recorded(e) == task' = [task EXCEPT !.events = Append(@, e)]

Started == task.revision > 0

(* An exception, or the end of the operation. *)
End(p) ==
    /\ Goto(p, "idle")
    /\ loc' = [loc EXCEPT ![p] = NoLocals]
    /\ lock' = IF lock = p THEN NoProc ELSE lock

GiveUp(p) == End(p) /\ UNCHANGED <<declared, task, head, now, edits, planned>>

(* An operation that reads once and writes once, under the lock. *)
AtOnce(p) ==
    /\ pc[p] = "idle" /\ lock = NoProc
    /\ UNCHANGED <<declared, head, now, lock, pc, loc, edits, planned>>

----------------------------------------------------------------------------
(* TaskService.start and amend *)

Start(p, caps, scope, retry) ==
    /\ AtOnce(p)
    /\ ~Started
    /\ \A c \in caps : Declares(c)
    /\ task' = [revision |-> 1, requested |-> caps, scope |-> scope, base |-> head,
                retry |-> retry, max_commands |-> Cardinality(caps) * (retry + 1),
                events |-> <<>>]

(* Envelopes only widen, and budgets stay what they were. *)
Amend(p, caps, scope) ==
    /\ AtOnce(p)
    /\ Started
    /\ task.revision < MaxRevision
    /\ ~(caps \subseteq task.requested /\ scope \subseteq task.scope)
    /\ \A c \in caps : Declares(c)
    /\ task' = [task EXCEPT !.revision = @ + 1, !.requested = @ \cup caps,
                            !.scope = @ \cup scope]

----------------------------------------------------------------------------
(* TaskService.plan_approval takes no lock; grant_approval plans again     *)
(* under it.                                                               *)

Plannable(c) == Declares(c) /\ c \in task.requested /\ head = task.base

PlanApproval(p, c, uses) ==
    /\ pc[p] = "idle"
    /\ Started
    /\ planned < MaxApprovals
    /\ Plannable(c)
    /\ planned' = planned + 1
    /\ Goto(p, "shown")
    /\ loc' = [loc EXCEPT ![p] =
                  [NoLocals EXCEPT !.cap = c, !.decl = declared[c], !.approval = planned + 1,
                                   !.uses = uses, !.expires = now + 1]]
    /\ UNCHANGED <<declared, task, head, now, lock, edits>>

Decline(p) == pc[p] = "shown" /\ GiveUp(p)

Confirm(p) ==
    /\ pc[p] = "shown" /\ lock = NoProc
    /\ lock' = p
    /\ Goto(p, "replan")
    /\ UNCHANGED <<declared, task, head, now, loc, edits, planned>>

StillAsShown(p) ==
    Plannable(loc[p].cap) /\ SameBinding(declared[loc[p].cap], loc[p].decl)

Replan(p) ==
    /\ pc[p] = "replan"
    /\ StillAsShown(p)
    /\ Goto(p, "grant")
    /\ UNCHANGED <<declared, task, head, now, lock, loc, edits, planned>>

ScopeChanged(p) ==
    /\ pc[p] = "replan"
    /\ ~StillAsShown(p)
    /\ GiveUp(p)

(* The record keeps what was shown.  decl is more than that, what was      *)
(* declared when it was shown; only its Binding is recorded and read.      *)
RecordGrant(p) ==
    /\ pc[p] = "grant"
    /\ Recorded([NoEvent EXCEPT !.type = "approval.granted", !.cap = loc[p].cap,
                                !.decl = loc[p].decl, !.approval = loc[p].approval,
                                !.uses = loc[p].uses, !.time = loc[p].expires])
    /\ End(p)
    /\ UNCHANGED <<declared, head, now, edits, planned>>

----------------------------------------------------------------------------
(* TaskService.run_capability: the declarations are read before HEAD is    *)
(* looked at and the authorization recorded; the executor runs what the    *)
(* authorization says.                                                     *)

ReadDeclarations(p, c) ==
    /\ pc[p] = "idle" /\ lock = NoProc
    /\ Started
    /\ Declares(c)
    /\ lock' = p
    /\ Goto(p, "authorize")
    /\ loc' = [loc EXCEPT ![p] = [NoLocals EXCEPT !.cap = c, !.decl = declared[c]]]
    /\ UNCHANGED <<declared, task, head, now, edits, planned>>

Authorize(p) ==
    LET c == loc[p].cap
        d == loc[p].decl
    IN  /\ pc[p] = "authorize"
        /\ Permitted(c, d)
        /\ \E approval \in ApprovalFor(c, d) :
               Recorded([NoEvent EXCEPT !.type = "command.authorized", !.cap = c,
                                        !.decl = d, !.approval = approval,
                                        !.revision = task.revision])
        /\ loc' = [loc EXCEPT ![p].auth = Len(task.events) + 1]
        /\ Goto(p, "execute")
        /\ UNCHANGED <<declared, head, now, lock, edits, planned>>

Deny(p) ==
    /\ pc[p] = "authorize"
    /\ ~Permitted(loc[p].cap, loc[p].decl) \/ ApprovalFor(loc[p].cap, loc[p].decl) = {}
    /\ GiveUp(p)

(* Executor.execute: HEAD is looked at again, and the command starts. *)
Execute(p) ==
    /\ pc[p] = "execute"
    /\ head = task.base
    /\ Recorded([NoEvent EXCEPT !.type = "command.started", !.cap = loc[p].cap,
                                !.auth = loc[p].auth])
    /\ End(p)
    /\ UNCHANGED <<declared, head, now, edits, planned>>

ExecutionRejected(p) ==
    /\ pc[p] = "execute"
    /\ head # task.base
    /\ GiveUp(p)

----------------------------------------------------------------------------
(* What else happens *)

Crash(p) ==
    /\ pc[p] # "idle"
    /\ GiveUp(p)

EditDeclaration(c, d) ==
    /\ edits < MaxEdits
    /\ d # declared[c]
    /\ declared' = [declared EXCEPT ![c] = d]
    /\ edits' = edits + 1
    /\ UNCHANGED <<task, head, now, lock, pc, loc, planned>>

Commit(s) ==
    /\ s # head
    /\ head' = s
    /\ UNCHANGED <<declared, task, now, lock, pc, loc, edits, planned>>

Tick ==
    /\ now < MaxTime
    /\ now' = now + 1
    /\ UNCHANGED <<declared, task, head, lock, pc, loc, edits, planned>>

Advance(p) ==
    \/ Decline(p) \/ Confirm(p) \/ Replan(p) \/ ScopeChanged(p) \/ RecordGrant(p)
    \/ Authorize(p) \/ Deny(p) \/ Execute(p) \/ ExecutionRejected(p) \/ Crash(p)

Next ==
    \/ \E p \in Procs :
           \/ \E caps \in (SUBSET Caps) \ {{}}, scope \in Scopes, retry \in RetryBudgets :
                  Start(p, caps, scope, retry)
           \/ \E caps \in SUBSET Caps, scope \in Scopes : Amend(p, caps, scope)
           \/ \E c \in Caps : ReadDeclarations(p, c)
           \/ \E c \in Caps, uses \in 1..MaxUses : PlanApproval(p, c, uses)
           \/ Advance(p)
    \/ \E c \in Caps, d \in Declarations \cup {Undeclared} : EditDeclaration(c, d)
    \/ \E s \in Shas : Commit(s)
    \/ Tick

Spec == Init /\ [][Next]_vars
=============================================================================
