---------------------------- MODULE Recommendations ----------------------------
(***************************************************************************)
(* Feedback (feedback/): episodes are recorded in the project's local data *)
(* (FeedbackStore), `suggest` groups them by module and kind of failure    *)
(* and grades each group (RecommendationEngine.evaluate); a recommendation *)
(* is accepted, which plans a trial of the module (ModuleTrials), or       *)
(* rejected, which keeps it back for a while.  The engine lives as long as *)
(* its process.                                                            *)
(***************************************************************************)
EXTENDS Integers, FiniteSets, Functions

CONSTANTS
    EpisodeIds,
    EpisodeTasks,
    EpisodeModules,
    Kinds,          \* primary kinds of failure
    HighImpact,     \* PRODUCT_REGRESSION
    CooldownDays,
    Horizon         \* bound: days

FeedbackAssumption ==
    /\ HighImpact \subseteq Kinds
    /\ CooldownDays \in Nat \ {0} /\ Horizon \in Nat

Modes == {"off", "minimal", "research"}

Episode ==
    [task : EpisodeTasks, modules : SUBSET EpisodeModules, kind : Kinds,
     beneficial : BOOLEAN]

Keys == EpisodeModules \X Kinds

VARIABLES
    mode,       \* feedback.mode of the configuration
    episodes,   \* the store, by id
    day,
    cooldowns,  \* of the engine, by key
    offered,    \* what the last suggest has printed: maturities by key
    trials,     \* modules whose trial was planned from a recommendation
    rejections  \* history: by key, the day of the last rejection by this engine

feedbackVars == <<mode, episodes, day, cooldowns, offered, trials, rejections>>

Nothing == [x \in {} |-> 0]

FeedbackInit ==
    /\ mode \in Modes
    /\ episodes = Nothing /\ cooldowns = Nothing
    /\ offered = Nothing /\ rejections = Nothing
    /\ trials = {}
    /\ day = 0

Put(f, key, value) == [k \in DOMAIN f \cup {key} |-> IF k = key THEN value ELSE f[k]]

----------------------------------------------------------------------------

(* A caller of the store, whose mode is that of the configuration.  The    *)
(* episode replaces one of the same id.                                    *)
Record(id, episode) ==
    /\ mode # "off"
    /\ episodes' = Put(episodes, id, episode)
    /\ UNCHANGED <<mode, day, cooldowns, offered, trials, rejections>>

SetMode(m) ==
    /\ mode' = m
    /\ UNCHANGED <<episodes, day, cooldowns, offered, trials, rejections>>

(* One observation for each module of each episode. *)
Observations(key) ==
    {id \in DOMAIN episodes : /\ key[1] \in episodes[id].modules
                              /\ key[2] = episodes[id].kind}

(* Mutant: episodes are counted, not their tasks. *)
EpisodesOf(items) == items

TasksOf(items) == {episodes[id].task : id \in items}

BeneficialOf(items) == {id \in items : episodes[id].beneficial}

Maturity(items) ==
    IF /\ Cardinality(TasksOf(items)) >= 3
       /\ 2 * Cardinality(BeneficialOf(items)) > Cardinality(items)
    THEN "recommendation"
    ELSE IF Cardinality(TasksOf(items)) >= 2
            \/ \E id \in items : episodes[id].kind \in HighImpact
    THEN "candidate"
    ELSE "observation"

Cooling(key) == key \in DOMAIN cooldowns /\ day < cooldowns[key]

Suggest ==
    /\ LET keys == {key \in Keys : Observations(key) # {} /\ ~Cooling(key)}
       IN  offered' = [key \in keys |-> Maturity(Observations(key))]
    /\ UNCHANGED <<mode, episodes, day, cooldowns, trials, rejections>>

Reject(key) ==
    /\ key \in DOMAIN offered
    /\ cooldowns' = Put(cooldowns, key, day + CooldownDays)
    /\ rejections' = Put(rejections, key, day)
    /\ offered' = Restrict(offered, DOMAIN offered \ {key})
    /\ UNCHANGED <<mode, episodes, day, trials>>

Accept(key) ==
    /\ key \in DOMAIN offered
    /\ offered[key] = "recommendation"
    /\ key[1] \notin trials
    /\ trials' = trials \cup {key[1]}
    /\ offered' = Restrict(offered, DOMAIN offered \ {key})
    /\ UNCHANGED <<mode, episodes, day, cooldowns, rejections>>

(* The next command: `suggest` makes an engine for itself. *)
Restart ==
    /\ cooldowns' = Nothing /\ offered' = Nothing /\ rejections' = Nothing
    /\ UNCHANGED <<mode, episodes, day, trials>>

Day ==
    /\ day < Horizon
    /\ day' = day + 1
    /\ UNCHANGED <<mode, episodes, cooldowns, offered, trials, rejections>>

FeedbackNext ==
    \/ \E id \in EpisodeIds, episode \in Episode : Record(id, episode)
    \/ \E m \in Modes : SetMode(m)
    \/ Suggest \/ Restart \/ Day
    \/ \E key \in Keys : Reject(key) \/ Accept(key)

FeedbackSpec == FeedbackInit /\ [][FeedbackNext]_feedbackVars
=============================================================================
