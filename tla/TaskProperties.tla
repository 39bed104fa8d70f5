--------------------------- MODULE TaskProperties ---------------------------
(***************************************************************************)
(* What must hold of the task kernel.                                      *)
(***************************************************************************)
EXTENDS TaskKernel

CONSTANT Commands   \* positions a history can have, for the abstract gate

(* Every variable keeps its type: records, histories, locks, locals.       *)
TypeOK ==
    /\ store \in [Tasks -> Record]
    /\ artifacts \in [Tasks -> SUBSET (Nat \X Nat)]
    /\ lock \in Procs \cup {NoProc}
    /\ lease \in Procs \cup {NoProc}
    /\ pc \in [Procs -> Points]
    /\ loc \in [Procs -> Locals]
    /\ children \subseteq Child
    /\ head \in Shas
    /\ dirty \subseteq Paths
    /\ now \in Nat
    /\ planned \in Nat

----------------------------------------------------------------------------
(* The operation lock *)

(* Executor.execute is also called directly, beside TaskService.           *)
Presented == "execute" \in Operations

(* Points of an invocation that has not entered _locked_storage_operation. *)
Unlocked == {"idle", "planned", "release"}

(* Points between the read of a record and the write or the end.           *)
Loaded == {AfterLoad[l] : l \in LoadPoints} \cup {"check_diff", "decide"}

(* An invocation inside an operation holds the lock of the clone, where    *)
(* commands are only run through TaskService.                              *)
LockHeld ==
    \A p \in Procs : ~Presented /\ pc[p] \notin Unlocked => lock = p

(* Whatever an invocation has read is still what is on disk when it        *)
(* decides and when it writes: no other process changes the record between *)
(* the read and the replacement of TaskStore.                              *)
LoadedIsCurrent ==
    \A p \in Procs :
        ~Presented /\ pc[p] \in Loaded => loc[p].rec = store[loc[p].task]

(* A history only grows, by appending, and nothing about a task changes    *)
(* once it has a terminal state (core/store.py: append-only events,        *)
(* _require_active).                                                       *)
HistoryAppendOnly ==
    [][\A t \in Tasks :
          /\ IsPrefix(store[t].events, store'[t].events)
          /\ store[t].state \in TerminalStates => store'[t] = store[t]]_vars

----------------------------------------------------------------------------
(* Authorizations, attempts, budgets *)

StartsOf(r, auth) ==
    {i \in EventsOf(r, "command.started") : r.events[i].auth = auth}

FinishesOf(r, auth) ==
    {i \in EventsOf(r, "command.finished") : r.events[i].auth = auth}

(* Every start of a history consumes an earlier authorization of the same  *)
(* capability that no other start of it consumes: whoever presents an      *)
(* authorization again, with the operation lock or without it, after a     *)
(* crash, or while somebody else is about to use it (core/executor.py:     *)
(* validated before the lease and once more under it).                     *)
AuthorizationsSingleUse ==
    \A t \in Tasks :
        LET r == store[t] IN
        \A i \in EventsOf(r, "command.started") :
            /\ r.events[i].auth \in
                   EventsFor(r, "command.authorized", r.events[i].cap)
            /\ r.events[i].auth < i
            /\ StartsOf(r, r.events[i].auth) = {i}

(* max_executions, the retry budget and the command budget bound the       *)
(* history over restarts, amendments and interrupted commands alike.       *)
BudgetsRespected ==
    \A t \in Tasks :
        LET r == store[t] IN
        /\ Cardinality(EventsOf(r, "command.authorized")) <= r.max_commands
        /\ \A c \in Caps :
             /\ Cardinality(EventsFor(r, "command.authorized", c))
                    <= MaxExecutions[c]
             /\ Cardinality(EventsFor(r, "command.started", c)) <= r.retry + 1

(* Of the authorizations charged to a grant, the ones dated when the grant *)
(* had expired.                                                            *)
LateUsesOf(r, i) ==
    {j \in UsesOf(r, r.events[i].approval) : r.events[j].time >= r.events[i].time}

(* An authorization that needs an approval names a grant recorded before   *)
(* it, for its capability; no grant is used more often than it says, even  *)
(* when the command it paid for never ran; and an expired grant is good    *)
(* for one more authorization at most, the one that was being decided when *)
(* it expired (core/gateway.py _find_approval compares the clock with      *)
(* expires_at, core/store.py _new_event dates the event later).            *)
ApprovalsRespected ==
    \A t \in Tasks :
        LET r == store[t] IN
        /\ \A j \in EventsOf(r, "command.authorized") :
             r.events[j].cap \in NeedsApproval =>
               \E i \in EventsFor(r, "approval.granted", r.events[j].cap) :
                   i < j /\ r.events[i].approval = r.events[j].approval
        /\ \A i \in EventsOf(r, "approval.granted") :
             /\ Cardinality(UsesOf(r, r.events[i].approval)) <= r.events[i].uses
             /\ \A j, k \in LateUsesOf(r, i) : j = k

----------------------------------------------------------------------------
(* Completion *)

(* The evidence a requested capability has: its latest finished command,   *)
(* authorized at the current revision, started, and succeeded.             *)
Earned(r, c) ==
    /\ EventsFor(r, "command.finished", c) # {}
    /\ LET e == r.events[LatestEvidence(r, c)] IN
       /\ e.status = "succeeded"
       /\ e.auth \in EventsFor(r, "command.authorized", c)
       /\ r.events[e.auth].revision = r.revision

(* A completed task has every required capability earned at its final      *)
(* revision, no interrupted command anywhere in its history, and no        *)
(* high-risk command without an approval (core/verifier.py).               *)
CompletedIsEarned ==
    \A t \in Tasks :
        store[t].state = "completed" =>
            /\ \A c \in store[t].requested : Earned(store[t], c)
            /\ Incomplete(store[t]) = {}
            /\ \A i \in EventsOf(store[t], "command.authorized") :
                   store[t].events[i].cap \in HighRisk =>
                       store[t].events[i].approval # 0

(* The record as the abstract gate sees it.                                *)
PhaseOf(r) == IF r.state = "draft" THEN "open" ELSE r.state
PassedOf(r) == {c \in r.requested : Earned(r, c)}
OutstandingOf(r) == {r.events[i].auth : i \in Incomplete(r)}

Gate == INSTANCE CompletionGate WITH
    phase <- [t \in Tasks |-> PhaseOf(store[t])],
    required <- [t \in Tasks |-> store[t].requested],
    passed <- [t \in Tasks |-> PassedOf(store[t])],
    outstanding <- [t \in Tasks |-> OutstandingOf(store[t])]

(* The kernel implements the completion gate.                              *)
ImplementsGate == Gate!Spec

----------------------------------------------------------------------------
(* The worktree *)

(* At most one command that an invocation is waiting for runs in the       *)
(* worktree (core/executor.py WorkspaceLease).                             *)
OneSupervisedCommand ==
    \A c, d \in children : c.owner # NoProc /\ d.owner # NoProc => c = d

(* Nothing an invocation is waiting for runs in the worktree while another *)
(* one verifies it: the diff and the evidence do not change under the      *)
(* Verifier by the harness's own doing.                                    *)
VerifiesAlone ==
    \A p \in Procs :
        pc[p] \in {"check_workspace", "check_diff", "decide", "finalize"} =>
            \A c \in children : c.owner = NoProc

(* At most one command runs in the worktree at all.  Not so after a crash: *)
(* the lease is a flock of the invocation and goes with it, the command    *)
(* stays.                                                                  *)
OneCommandInWorktree == \A c, d \in children : c = d

----------------------------------------------------------------------------
(* Progress *)

(* An operation that has begun ends, and gives the lock back, whatever the *)
(* other invocations and the worktree do: nothing waits for a user, and a  *)
(* command ends or is terminated at its timeout.                           *)
OperationsEnd ==
    \A p \in Procs : pc[p] \notin {"idle", "planned"} ~> pc[p] = "idle"
=============================================================================
