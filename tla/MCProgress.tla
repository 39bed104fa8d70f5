------------------------------ MODULE MCProgress ------------------------------
(* Small instances, for TLC, of what has to come to an end: the operations *)
(* of the task kernel, a repository transaction, the supervision of a      *)
(* command, and the commands of the command line.  One behaviour needs one *)
(* of them: the first state says which one is at work.  The others stay as    *)
(* they begin meanwhile; the variables of the kernel are Unused then.      *)
EXTENDS TransactionProperties, CaptureProperties, ReviewProperties, Sequences, TLC

CONSTANTS
    p1, p2, NoProc,         \* invocations
    NoCap, NoStatus, NoTask,
    agents, config,         \* files
    old_text, new_text,
    child,                  \* of a command
    Unused,
    Systems                 \* what may be at work

VARIABLES
    system,
    store, artifacts, lock, lease, children, head, dirty, now, planned,
    taskPc, taskLoc

ofTask ==
    <<store, artifacts, lock, lease, children, head, dirty, now, planned,
      taskPc, taskLoc>>

all == <<system, ofTask, vars, captureVars, reviewVars>>

(* One task with one capability that needs an approval, two invocations.   *)
Task == INSTANCE TaskProperties WITH
    Caps <- {"unit"}, Paths <- {"src"}, Shas <- {"base", "other"},
    Statuses <- {"succeeded", "command_failure", "environment_failure"},
    Denied <- {}, NeedsApproval <- {"unit"}, HighRisk <- {},
    MaxExecutions <- [c \in {"unit"} |-> 2], WritePaths <- [c \in {"unit"} |-> {"src"}],
    Tasks <- {"t1"}, Procs <- {p1, p2},
    Operations <- {"start", "grant", "run", "verify", "cancel"}, Scopes <- {{}},
    RetryBudgets <- {0}, Modes <- {FALSE}, Disturbances <- {"crash", "commit"},
    Activations <- 0, MaxUses <- 1, MaxApprovals <- 1, MaxRevision <- 1, MaxTime <- 1,
    Commands <- 1..24, pc <- taskPc, loc <- taskLoc

(* Of the transaction: every manager writes what it likes, on some of the  *)
(* files; Procs is one invocation at a time.                               *)
AnyPlans ==
    UNION {[D -> {old_text, new_text}] : D \in (SUBSET {agents, config}) \ {{}}}

AnyFiles == [{agents, config} -> {old_text, new_text, Missing}]

ASSUME TransactionAssumption /\ CaptureAssumption

noTask ==
    /\ store = Unused /\ artifacts = Unused /\ lock = Unused /\ lease = Unused
    /\ children = Unused /\ head = Unused /\ dirty = Unused /\ now = Unused
    /\ planned = Unused /\ taskPc = Unused /\ taskLoc = Unused
noTransaction == Init /\ \A path \in Paths : files[path] = Missing
noCapture == CaptureInit /\ stubborn = {} /\ piped = {Leader}

MCInit ==
    /\ system \in Systems
    /\ ReviewInit
    /\ \/ system = "task" /\ Task!Init /\ noTransaction /\ noCapture
       \/ system = "transaction" /\ Init /\ noTask /\ noCapture
       \/ system = "command" /\ CaptureInit /\ noTask /\ noTransaction
       \/ system = "review" /\ noTask /\ noTransaction /\ noCapture

OfTask(Step) ==
    system = "task" /\ Step /\ UNCHANGED <<system, vars, captureVars, reviewVars>>

OfTransaction(Step) ==
    system = "transaction" /\ Step /\ UNCHANGED <<system, ofTask, captureVars, reviewVars>>

OfCommand(Step) ==
    system = "command" /\ Step /\ UNCHANGED <<system, ofTask, vars, reviewVars>>

OfReview(Step) ==
    system = "review" /\ Step /\ UNCHANGED <<system, ofTask, vars, captureVars>>

(* A command that is over rests, and so does a user. *)
Rest == system \in {"command", "review"} /\ UNCHANGED all

MCNext ==
    \/ OfTask(Task!Next)
    \/ OfTransaction(Next)
    \/ OfCommand(CaptureNext)
    \/ OfReview(ReviewNext)
    \/ Rest

(* The fairness of each: running invocations and the supervision of a      *)
(* command are scheduled, time passes, and a user who is refused again and *)
(* again because of an unfinished transaction recovers it some day; nobody *)
(* has to answer a question.                                               *)
MCFairSpec ==
    /\ MCInit /\ [][MCNext]_all
    /\ \A p \in {p1, p2} : WF_all(OfTask(Task!Advance(p)))
    /\ \A p \in Procs :
           /\ WF_all(OfTransaction(Advance(p)))
           /\ SF_all(OfTransaction(Recover(p)))
    /\ WF_all(OfCommand(Capture))
    /\ WF_all(OfCommand(TimePasses))
    /\ WF_all(OfReview(Progress))

----------------------------------------------------------------------------
(* The other properties are those of TransactionProperties,                *)
(* CaptureProperties and ReviewProperties.                                 *)

(* An operation on a task that has begun ends and gives the lock back.     *)
OperationsEnd ==
    \A p \in {p1, p2} :
        system = "task" /\ taskPc[p] \notin {"idle", "planned"} ~>
            system = "task" /\ taskPc[p] = "idle"
=============================================================================
