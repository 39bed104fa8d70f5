----------------------------- MODULE CommandReview -----------------------------
(***************************************************************************)
(* The command line (cli/__init__.py): a command plans a change, shows it, *)
(* asks, applies it and reports.  The handlers differ in what they show    *)
(* and when, in the options they have, and in when they refuse.  This is   *)
(* the conversation only: what the applies compare, change and leave       *)
(* behind differs from manager to manager and is modelled with each        *)
(* manager; here an apply returns or raises an exception.                  *)
(***************************************************************************)
EXTENDS Integers

CONSTANT MaxRuns    \* bound: invocations

(* Commands that plan only, unless they are called with --apply.           *)
Flagged ==
    {"init", "integration", "module", "template", "feedback",
     "storage migrate", "storage prune", "storage pin", "export", "capability approve"}

(* Commands that are there to apply, and ask.                              *)
Applying == {"upgrade apply", "upgrade rollback", "config apply", "self uninstall"}

(* Commands that do what they are for, and read-only ones.                 *)
Direct == {"self update", "self rollback", "task start", "task verify", "capability run"}
ReadOnly == {"doctor", "upgrade check", "storage status"}

Commands == Flagged \cup Applying \cup Direct \cup ReadOnly

(* _confirm_mutation comes before the handler shows its plan.              *)
AsksFirst == {"storage prune", "storage pin", "export", "capability approve"}

(* With --json these show the plan on stderr, and the others not at all.   *)
ShowsJson == {"storage migrate", "self uninstall"}

(* Commands whose exit code is 2 for a result that is not good.            *)
Judging == {"init", "doctor", "upgrade check", "task verify", "capability run"}

VARIABLES
    stage,      \* where the invocation is
    run,        \* the options of the invocation, and what has come of it
    runs        \* invocations so far

reviewVars == <<stage, run, runs>>

NoRun == [command |-> "doctor", apply |-> FALSE, yes |-> FALSE, json |-> FALSE,
          shown |-> FALSE, exit |-> "none"]

ReviewInit == stage = "done" /\ run = NoRun /\ runs = 0

Reach(point) == stage' = point /\ UNCHANGED runs

Conclude(exit) ==
    /\ stage' = "done"
    /\ run' = [run EXCEPT !.exit = exit]
    /\ UNCHANGED runs

(* The arguments, as the parser accepts them. *)
Invoke(command, apply, yes, json) ==
    /\ stage = "done"
    /\ runs < MaxRuns
    /\ apply => command \in Flagged
    /\ yes => command \in Flagged \cup Applying
    /\ stage' = "parsed"
    /\ run' = [NoRun EXCEPT !.command = command, !.apply = apply, !.yes = yes, !.json = json]
    /\ runs' = runs + 1

(* main turns the exceptions it expects into a message, and the interpreter *)
(* the others into a traceback.                                            *)
Abandon == Conclude("1")

YesWithoutApply == run.command \in Flagged /\ run.yes /\ ~run.apply

RejectOptions == stage = "parsed" /\ YesWithoutApply /\ Abandon

Requested == run.command \in Applying \/ run.apply

MakePlan ==
    /\ stage = "parsed"
    /\ ~YesWithoutApply
    /\ Reach(IF run.command \in Direct THEN "apply"
             ELSE IF Requested THEN "review" ELSE "report")
    /\ UNCHANGED run

PlanFails == stage = "parsed" /\ ~YesWithoutApply /\ Abandon

Review ==
    /\ stage = "review"
    /\ run' = [run EXCEPT !.shown = /\ run.command \notin AsksFirst
                                    /\ ~run.json \/ run.command \in ShowsJson]
    /\ Reach("confirm")

(* Mutant: the handler does not pass --yes on. *)
YesForgotten == FALSE

Agreed == run.yes

Ask == stage = "confirm" /\ ~Agreed /\ ~run.json /\ Reach("asking") /\ UNCHANGED run

SkipQuestion == stage = "confirm" /\ Agreed /\ Reach("apply") /\ UNCHANGED run

(* JSON apply requires --yes. *)
RefuseToAsk == stage = "confirm" /\ ~Agreed /\ run.json /\ Abandon

AnswerYes == stage = "asking" /\ Reach("apply") /\ UNCHANGED run

(* Everything else is a no, and so is the end of the input.                *)
AnswerNo == stage = "asking" /\ Abandon

Apply == stage = "apply" /\ Reach("report") /\ UNCHANGED run

(* Whatever an apply that fails has left behind. *)
ApplyFails == stage = "apply" /\ Abandon

(* init asks Doctor after it has applied. *)
JudgesNow == run.command \in Judging /\ (run.command = "init" => run.apply)

ReportResult(exit) ==
    /\ stage = "report"
    /\ exit = "2" => JudgesNow
    /\ Conclude(exit)

(* Doctor fails after init has applied. *)
DoctorFails == stage = "report" /\ run.command = "init" /\ run.apply /\ Abandon

Progress ==
    \/ RejectOptions \/ MakePlan \/ PlanFails \/ Review
    \/ Ask \/ SkipQuestion \/ RefuseToAsk
    \/ Apply \/ ApplyFails
    \/ \E exit \in {"0", "2"} : ReportResult(exit)
    \/ DoctorFails

ReviewNext ==
    \/ \E command \in Commands, apply, yes, json \in BOOLEAN :
           Invoke(command, apply, yes, json)
    \/ Progress
    \/ AnswerYes \/ AnswerNo

ReviewSpec == ReviewInit /\ [][ReviewNext]_reviewVars
=============================================================================
