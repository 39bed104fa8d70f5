---------------------------- MODULE TrialsProperties ----------------------------
(* What must hold of the module lock and its trials.                       *)
EXTENDS ModuleTrials

Trial == [module : Modules, state : TrialStates, remaining : Nat, matching : Nat,
          results : Seq(Result), previous : Item \cup {Absent}]

Document == [modules : [Modules -> Item \cup {Absent}], trials : Seq(Trial)]

(* The lock file is always a document of its schema, and so is every plan. *)
TrialsTypeOK ==
    /\ document \in Document
    /\ replaced \in Seq(Item \cup {Absent})
    /\ planPc \in [Invocations -> {"idle", "loaded", "planned"}]
    /\ planLoc \in [Invocations -> [before : Document, after : Document, starts : BOOLEAN]]

(* A promoted trial has a result of each task it asked for, of different   *)
(* tasks, most of them beneficial, for no more than its budget, whoever    *)
(* recorded them and in whatever order.                                    *)
PromotedIsEarned ==
    \A i \in DOMAIN document.trials :
        LET trial == document.trials[i]
        IN  trial.state = "promoted" =>
                /\ Len(trial.results) = trial.matching
                /\ Cardinality({trial.results[j].task : j \in DOMAIN trial.results})
                       = trial.matching
                /\ Cardinality({j \in DOMAIN trial.results : trial.results[j].beneficial})
                       * 2 > trial.matching
                /\ Spent(trial.results) <= Budget(trial)

(* Of the trials of a module one at most is open or promoted, it is the    *)
(* latest, and the module is in the lock, so that it can be decided.       *)
OneActiveTrial ==
    \A m \in Modules : \A i \in TrialsOf(document, m) :
        document.trials[i].state \in {"trial", "promoted"} =>
            /\ i = LatestTrial(document, m)
            /\ document.modules[m] # Absent

(* What a rollback puts back is what the trial replaced in the lock, not   *)
(* what an earlier reading of the lock contained.                          *)
UndoIsExact ==
    \A i \in DOMAIN document.trials : document.trials[i].previous = replaced[i]

(* A trial can be decided, and undone exactly, as long as it is active.    *)
TrialsAreSound == OneActiveTrial /\ UndoIsExact

(* Whoever applies plans, and however they are interleaved: no trial and   *)
(* no result disappears, and a trial that was decided is not opened again. *)
(* It takes plans that do not overlap an apply: between the two reads of a *)
(* plan a file may be replaced that the review then does not show.         *)
Later(state) ==
    CASE state = "trial" -> TrialStates
      [] state = "promoted" -> {"promoted", "rolled_back"}
      [] OTHER -> {state}

TrialsProgress ==
    [][/\ Len(document'.trials) >= Len(document.trials)
       /\ \A i \in DOMAIN document.trials :
             LET old == document.trials[i]
                 new == document'.trials[i]
             IN  /\ new.module = old.module
                 /\ new.state \in Later(old.state)
                 /\ IsPrefix(old.results, new.results)]_trialsVars
===============================================================================
