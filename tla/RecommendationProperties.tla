------------------------ MODULE RecommendationProperties ------------------------
(* What must hold of recommendations.                                      *)
EXTENDS Recommendations

(* What is offered as a recommendation rests on three different tasks,     *)
(* whatever number of episodes they have, and most of the episodes of its  *)
(* module and kind speak for it at the time.                               *)
RecommendationIsEarnedStep ==
    Suggest =>
        \A key \in DOMAIN offered' :
            offered'[key] = "recommendation" =>
                LET all == {id \in DOMAIN episodes :
                               /\ key[1] \in episodes[id].modules
                               /\ key[2] = episodes[id].kind}
                    against == {id \in all : ~episodes[id].beneficial}
                IN  /\ \E t1, t2, t3 \in {episodes[id].task : id \in all} :
                           t1 # t2 /\ t2 # t3 /\ t1 # t3
                    /\ Cardinality(against) < Cardinality(all \ against)

(* What this engine has rejected is not offered again before the cooldown  *)
(* has passed, whatever is recorded meanwhile, and nothing else is kept    *)
(* back: a group is not lost for good.  The next command makes an engine   *)
(* of its own, which knows of no rejection: Restart empties the history.   *)
CooldownHonoredStep ==
    Suggest =>
        \A key \in Keys :
            Observations(key) # {} =>
                (key \in DOMAIN offered' <=>
                     (key \in DOMAIN rejections => day >= rejections[key] + CooldownDays))

(* Both: a recommendation is earned, and a rejection is kept to, by the    *)
(* engine it was given to, until its cooldown has passed, and no longer.   *)
RecommendationsAreSound ==
    [][RecommendationIsEarnedStep /\ CooldownHonoredStep]_feedbackVars
===============================================================================
