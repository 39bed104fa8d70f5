----------------------------- MODULE TaskRecord -----------------------------
(***************************************************************************)
(* The canonical task record (core/store.py), and the two decisions that   *)
(* are pure functions of it: what the Capability Gateway lets through      *)
(* (core/gateway.py) and what the Verifier finds (core/verifier.py).       *)
(*                                                                         *)
(* A record keeps the CURRENT envelope (the revisions before it are only   *)
(* ever appended to and never read back) and the whole event history.  An  *)
(* envelope is reduced to what the decisions read: its revision, requested *)
(* capabilities, allowed scope, base SHA, retry budget, command budget and *)
(* integration mode.  TaskService declares exactly one required acceptance *)
(* per requested capability, each covering every requirement, so the       *)
(* acceptances of an envelope are its requested capabilities.              *)
(***************************************************************************)
EXTENDS Integers, Sequences, FiniteSets, SequencesExt

CONSTANTS
    Caps,           \* ids declared in .harness/capabilities.json
    NoCap,          \* the capability of an event that is not about one
    Paths,          \* repository-relative paths
    Shas,           \* commits HEAD can point at
    Statuses,       \* terminal statuses of a command, "succeeded" among them
    NoStatus,       \* the status of an event that is not command.finished
    Denied,         \* capabilities the declaration or the policy denies
    NeedsApproval,  \* capabilities for which _requires_approval holds
    HighRisk,       \* of those, the ones with a high-risk effect
    MaxExecutions,  \* capability.max_executions
    WritePaths      \* capability.write_paths

ASSUME CapsAssumption == NoCap \notin Caps /\ IsFiniteSet(Caps)
ASSUME ShasAssumption == Shas # {}
ASSUME StatusAssumption ==
    {"succeeded", "environment_failure"} \subseteq Statuses
ASSUME ApprovalAssumption == HighRisk \subseteq NeedsApproval
ASSUME LimitsAssumption ==
    /\ MaxExecutions \in [Caps -> Nat \ {0}]
    /\ WritePaths \in [Caps -> SUBSET Paths]

TerminalStates == {"completed", "accepted_with_risk", "abandoned"}

(* "absent" stands for a record file that does not exist.  The states      *)
(* "active", "blocked" and "failed" are declared but never assigned.       *)
States == {"absent", "draft"} \cup TerminalStates

EventTypes ==
    {"task.created", "module.activation", "task.amended", "task.cancelled",
     "approval.granted", "command.authorized", "command.started",
     "command.finished", "task.completed", "task.accepted_with_risk"}

(* time is expires_at of a granted approval and occurred_at of an          *)
(* authorization; no decision reads the time of any other event.           *)
Event ==
    [type : EventTypes, cap : Caps \cup {NoCap}, revision : Nat, auth : Nat,
     attempt : Nat, approval : Nat, uses : Nat, time : Nat,
     status : Statuses \cup {NoStatus}]

NewEvent(type) ==
    [type |-> type, cap |-> NoCap, revision |-> 0, auth |-> 0, attempt |-> 0,
     approval |-> 0, uses |-> 0, time |-> 0, status |-> NoStatus]

Record ==
    [state : States, revision : Nat, requested : SUBSET Caps,
     scope : SUBSET Paths, base : Shas, retry : Nat, max_commands : Nat,
     enforced : BOOLEAN, events : Seq(Event)]

AppendEvent(r, e) == [r EXCEPT !.events = Append(@, e)]

(* Mutant: a cancelled task can still be written. *)
ActiveUnlessFinal(r) == r.state \in {"draft", "abandoned"}

Active(r) == r.state \notin TerminalStates \cup {"absent"}

----------------------------------------------------------------------------
(* Reading the history *)

EventsOf(r, type) == {i \in DOMAIN r.events : r.events[i].type = type}

EventsFor(r, type, c) == {i \in EventsOf(r, type) : r.events[i].cap = c}

UsesOf(r, id) ==
    {i \in EventsOf(r, "command.authorized") : r.events[i].approval = id}

Consumed(r, auth) ==
    \E i \in EventsOf(r, "command.started") : r.events[i].auth = auth

(* Commands that started and have no terminal event. *)
Incomplete(r) ==
    {i \in EventsOf(r, "command.started") :
        \A j \in EventsOf(r, "command.finished") :
            r.events[j].auth # r.events[i].auth}

----------------------------------------------------------------------------
(* CapabilityGateway.authorize *)

(* Mutant: the limits are compared with <= instead of <. *)
WithinBudgetOffByOne(r, c) ==
    /\ Cardinality(EventsFor(r, "command.authorized", c)) <= MaxExecutions[c]
    /\ Cardinality(EventsFor(r, "command.started", c)) <= r.retry + 1
    /\ Cardinality(EventsOf(r, "command.authorized")) <= r.max_commands

WithinBudget(r, c) ==
    /\ Cardinality(EventsFor(r, "command.authorized", c)) < MaxExecutions[c]
    /\ Cardinality(EventsFor(r, "command.started", c)) < r.retry + 1
    /\ Cardinality(EventsOf(r, "command.authorized")) < r.max_commands

Permitted(r, c, head) ==
    /\ c \in r.requested
    /\ head = r.base
    /\ WritePaths[c] \subseteq r.scope
    /\ c \notin Denied
    /\ WithinBudget(r, c)

(* Mutant: uses are counted by the commands that ran. *)
GrantsNotYetRun(r, c, now) ==
    {i \in EventsFor(r, "approval.granted", c) :
        /\ now < r.events[i].time
        /\ Cardinality({j \in UsesOf(r, r.events[i].approval) :
                           Consumed(r, j)}) < r.events[i].uses}

(* Grants _find_approval accepts now; it returns the first of them.  A     *)
(* grant is only recorded for the task's own base SHA and capability       *)
(* declarations do not change here, so those comparisons hold.             *)
UsableGrants(r, c, now) ==
    {i \in EventsFor(r, "approval.granted", c) :
        /\ now < r.events[i].time
        /\ Cardinality(UsesOf(r, r.events[i].approval)) < r.events[i].uses}

FirstUsable(r, c, now) ==
    {i \in UsableGrants(r, c, now) : \A j \in UsableGrants(r, c, now) : i <= j}

(* The approval an authorization is charged to; 0 when it needs none.      *)
ApprovalFor(r, c, now) ==
    IF c \in NeedsApproval
    THEN {r.events[i].approval : i \in FirstUsable(r, c, now)}
    ELSE {0}

Authorizable(r, c, head, now) ==
    /\ Permitted(r, c, head)
    /\ c \in NeedsApproval => UsableGrants(r, c, now) # {}

(* Executor._validate_authorization *)
ValidAuthorization(r, c, auth) ==
    /\ auth \in EventsFor(r, "command.authorized", c)
    /\ ~Consumed(r, auth)

----------------------------------------------------------------------------
(* Verifier: the evidence of an acceptance is the LAST terminal event of   *)
(* its command; files are the artifacts that still exist, by authorization *)
(* and attempt.                                                            *)

LatestEvidence(r, c) ==
    CHOOSE i \in EventsFor(r, "command.finished", c) :
        \A j \in EventsFor(r, "command.finished", c) : j <= i

Trusted(r, c, i) ==
    /\ r.events[i].auth \in EventsFor(r, "command.authorized", c)
    /\ r.events[r.events[i].auth].revision = r.revision
         => \E j \in EventsOf(r, "command.started") :
                j < i /\ r.events[j].auth = r.events[i].auth

(* Mutant: evidence does not age. *)
NeverStale(r, i) == FALSE

Stale(r, i) == r.events[r.events[i].auth].revision # r.revision

FilesPresent(r, i, files) == <<r.events[i].auth, r.events[i].attempt>> \in files

AcceptanceStatus(r, c, files) ==
    LET i == LatestEvidence(r, c)
    IN  CASE EventsFor(r, "command.finished", c) = {} -> "missing"
          [] OTHER ->
               CASE ~Trusted(r, c, i) -> "untrusted"
                 [] Trusted(r, c, i) /\ Stale(r, i) -> "stale"
                 [] OTHER ->
                      IF /\ FilesPresent(r, i, files)
                         /\ r.events[i].status = "succeeded"
                      THEN "passed" ELSE "failed"

NonWaivable ==
    {"workspace_mismatch", "diff_out_of_scope", "untrusted_evidence",
     "unapproved_high_risk_operation"}

Waivable ==
    {"command_incomplete", "required_acceptance_failed",
     "requirement_unverified"}

(* The issues found in the record itself; the workspace and the diff are   *)
(* probed separately.  evidence_missing always comes with                  *)
(* required_acceptance_failed and is waivable too, so it is left out.      *)
RecordIssues(r, files) ==
    {code \in Waivable \cup NonWaivable :
       \/ /\ code = "command_incomplete"
          /\ Incomplete(r) # {}
       \/ /\ code = "unapproved_high_risk_operation"
          /\ \E i \in EventsOf(r, "command.authorized") :
                 r.events[i].cap \in HighRisk /\ r.events[i].approval = 0
       \/ /\ code = "untrusted_evidence"
          /\ \E c \in r.requested : AcceptanceStatus(r, c, files) = "untrusted"
       \/ /\ code = "required_acceptance_failed"
          /\ \E c \in r.requested :
                 AcceptanceStatus(r, c, files) \in {"missing", "stale", "failed"}
       \/ /\ code = "requirement_unverified"
          /\ \A c \in r.requested : AcceptanceStatus(r, c, files) # "passed"}

Outcome(issues, acceptRisk) ==
    CASE issues = {} -> "completed"
      [] issues # {} /\ acceptRisk /\ issues \subseteq Waivable
           -> "accepted_with_risk"
      [] OTHER -> "rejected"
=============================================================================
