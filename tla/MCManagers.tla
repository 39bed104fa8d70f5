------------------------------ MODULE MCManagers ------------------------------
(* Small instances, for TLC, of the managers that plan a change, show it   *)
(* and apply it after a review: retention, upgrades, module trials, client *)
(* integration, the feedback that recommends modules, the modules that a   *)
(* task begins with, and consent to its commands.  No two of them need     *)
(* each other here, so that one behaviour has one of them: the first state *)
(* says which one is at work, and the variables of the others stay as they *)
(* are there.                                                              *)
EXTENDS ConsentProperties, RetentionProperties, UpgradeProperties, TrialsProperties,
        IntegrationProperties, ActivationProperties, RecommendationProperties, TLC

CONSTANTS
    p1, p2,                     \* invocations
    i1, i2, q1, q2,             \* items of the index, and their places
    old1, old2, old3, new1, new2,   \* contents, and what upgrades make of them
    newer,                      \* a content of a newer runtime
    config_json, agents, claude_md,     \* files
    t1, t2, t3, module1,        \* tasks, and a module
    suggest,                    \* the policy of the module
    codex,                      \* a client that is not intercepted
    mine,                       \* a command of the user
    regression, unknown,        \* kinds of failure
    e1, e2, e3,                 \* episodes
    builtin, mymodule,          \* modules that tasks begin with
    trait, testing,             \* a trait and a capability of a task
    src, docs, base, other,     \* scopes and commits
    Unused,                     \* by the manager at work
    Managers                    \* the instances that may be at work

VARIABLE manager

ofRetention == <<index, aged, stored, links>>
ofUpgrade == <<points, original>>
ofTrials == <<document, replaced>>
ofIntegration == <<project, tampered>>
ofFeedback == <<mode, episodes, day, cooldowns, offered, trials, rejections>>
ofActivation == <<shipped, local, locked, recorded, reviewed, changes>>
ofAny == <<planPc, planLoc, planLock, files>>

all ==
    <<manager, ofAny, ofRetention, ofUpgrade, ofTrials, ofIntegration, ofFeedback,
      ofActivation, vars>>

ManifestOf(id, content, applies, excludes, needs, cost) ==
    [id |-> id, content |-> content, applies |-> applies, excludes |-> excludes,
     needs |-> needs, cost |-> cost, policy |-> "suggest"]

(* A builtin that the next runtime changes; a local module before and after*)
(* an edit; and a local module with the id of the builtin.  The builtin and*)
(* the local module do not fit into the context together.                  *)
Builtin1 == ManifestOf(builtin, "one", {}, {trait}, {}, 2)
Builtin2 == ManifestOf(builtin, "two", {}, {}, {}, 2)
Mine1 == ManifestOf(mymodule, "one", {trait}, {}, {testing}, 2)
Mine2 == ManifestOf(mymodule, "two", {}, {}, {}, 1)
Namesake == ManifestOf(builtin, "mine", {}, {}, {}, 1)

----------------------------------------------------------------------------

noRetention == index = NoIndex /\ aged = {} /\ stored = {} /\ links = {}
noUpgrade == points = NoContents /\ original = NoContents
noTrials == document = EmptyDocument /\ replaced = <<>>
noIntegration == project = [file \in Files |-> Absent] /\ tampered = FALSE
noFeedback == FeedbackInit /\ mode = "off"
noActivation ==
    /\ shipped = (builtin :> Builtin1)
    /\ local = [id \in ToSet(ModuleIds) |-> Absent] /\ locked = local
    /\ recorded = <<>> /\ reviewed = {} /\ changes = 0
noPlans ==
    planPc = [q \in Invocations |-> "idle"] /\ planLoc = [q \in Invocations |-> Unused]

(* Invocations are alike; so are two items, two tasks and two episodes,    *)
(* which only "grading" has together.                                      *)
Symmetry ==
    Permutations({p1, p2})
        \cup {(i1 :> i2) @@ (i2 :> i1) @@ (t1 :> t2) @@ (t2 :> t1)
                   @@ (e1 :> e2) @@ (e2 :> e1)}

----------------------------------------------------------------------------
(* Retention *)

(* Of finished or unfinished tasks, and cited by no recommendation as yet. *)
Entries ==
    [place : {q1, q2}, guarded : BOOLEAN, pinned : {FALSE}, cited : {FALSE}, expired : {FALSE}]

ASSUME RetentionAssumption

(* Two invocations register items anew, at other places, and prune them,   *)
(* where links may be; or they pin and prune items of finished tasks that  *)
(* share a place.                                                          *)
RetentionBound ==
    /\ manager = "moving" => \A q \in Invocations : planPc[q] # "pin_planned"
    /\ manager = "pinning" =>
           links = {} /\ \A id \in Registered : index[id].place = q1 /\ ~index[id].guarded

OneAtATime == \A q, r \in Invocations : planPc[q] # "idle" /\ planPc[r] # "idle" => q = r

(* Upgrades *)

(* Two contents with one result, and one with another; what there is of a  *)
(* newer runtime stays as it is.                                           *)
Results ==
    LET after == (old1 :> new1) @@ (old2 :> new1) @@ (old3 :> new2) @@ (new1 :> new1)
                     @@ (new2 :> new2) @@ (newer :> newer)
    IN  [content \in Contents |-> after[content]]

AnyFiles == [ManagedPaths -> Contents]

ASSUME UpgradeAssumption

(* One file, with all contents; or two files, so that upgrades of different*)
(* extent meet.                                                            *)
UpgradeBound ==
    IF manager = "configuring" THEN files[agents] = newer
    ELSE \A path \in ManagedPaths : files[path] \in {old1, new1, newer}

(* Module trials *)

Suggested == (module1 :> suggest)

NothingLocked == {[module \in {module1} |-> Absent]}

ASSUME TrialsAssumption

(* Two invocations, with trials of one task; or one at a time, with a trial*)
(* of one task or two and results that differ in what they cost.  Only the *)
(* first of two trials has results.                                        *)
TrialsBound ==
    /\ \A q \in Invocations :
           LET tried == planLoc[q].after.trials
           IN  /\ Len(tried) = MaxTrials => tried[MaxTrials].results = <<>>
               /\ manager = "trying" =>
                      \A trial \in ToSet(tried) :
                          /\ trial.matching = 1
                          /\ \A result \in ToSet(trial.results) : result.overhead = 1
    /\ manager = "deciding" => OneAtATime

----------------------------------------------------------------------------
(* Client integration *)

(* A project with little wrong around the integration, or with what does   *)
(* not matter.                                                             *)
AnySurroundings ==
    {Usual, [Usual EXCEPT !.on_path = FALSE, !.runtime = "older"],
     [Usual EXCEPT !.pending = TRUE], [Usual EXCEPT !.modules = FALSE, !.workspace = FALSE],
     [Usual EXCEPT !.runtime = "newer"], [Usual EXCEPT !.launcher = "failing"],
     [Usual EXCEPT !.valid = {"config"}], [Usual EXCEPT !.valid = @ \ {"config"}]}

ClientFiles == (Generic :> NoPath) @@ (codex :> agents) @@ (Claude :> claude_md)

ASSUME IntegrationAssumption /\ HealthAssumption

(* A user who edits lines and entries; two invocations that change the     *)
(* client, one of whose files has no line of the user, who declares        *)
(* capabilities; or a user who damages the markers and the hook of one     *)
(* client, and initializes again.                                          *)
IntegrationBound ==
    LET entries == Text(project[Settings])
    IN  /\ manager # "repairing" => ~tampered
        /\ manager # "switching" => OneAtATime
        /\ IF manager = "switching" THEN "u" \notin ToSet(Text(project[agents]))
           ELSE project[CapabilitiesFile] # Declared
        /\ manager = "writing" =>
               /\ Len(entries) <= 2
               /\ \A i \in DOMAIN entries : Cardinality(entries[i]) = 1
        /\ manager = "repairing" =>
               /\ project[agents] = Absent
               /\ \A q \in Invocations :
                      planLoc[q].op # "none" => planLoc[q].adapter = Claude
               /\ Len(entries) <= 2 /\ Len(WithoutHook(entries)) <= 1
               /\ \A entry \in ToSet(entries) :
                      Altered \in entry => entry = {Hook, Altered}

----------------------------------------------------------------------------
(* Feedback *)

ASSUME FeedbackAssumption

(* Three episodes of three tasks, in one mode and on one day; or two of one*)
(* task, of any kind, over the days.                                       *)
FeedbackBound ==
    LET recordedEpisodes == {episodes[id] : id \in DOMAIN episodes}
    IN  /\ manager = "grading" =>
               /\ mode = "minimal" /\ day = 0
               /\ \A episode \in recordedEpisodes :
                      episode.kind = regression /\ episode.modules # {}
        /\ manager = "cooling" =>
               /\ e3 \notin DOMAIN episodes
               /\ \A episode \in recordedEpisodes : episode.task = t3

----------------------------------------------------------------------------
(* Modules that a task begins with *)

OrderedIds == <<builtin, mymodule>>
OrderedBuiltins == <<builtin>>
LocalManifests == {Mine1, Mine2, Namesake}
AnyRuntimes == {builtin :> Builtin1, builtin :> Builtin2}

ASSUME ActivationAssumption

----------------------------------------------------------------------------
(* Consent *)

Reads ==
    [reads |-> {}, writes |-> {}, effects |-> {"filesystem_read"}, outbound |-> FALSE,
     listener |-> FALSE, reversibility |-> "reversible", environment |-> "local",
     policy |-> "auto", limit |-> 2]

Writes == [Reads EXCEPT !.writes = {src}, !.effects = {"filesystem_write"}]

(* The last one is not well declared. *)
AnyDeclarations ==
    {Reads, Writes, [Reads EXCEPT !.policy = "ask"], [Writes EXCEPT !.writes = {docs}],
     [Writes EXCEPT !.outbound = TRUE, !.effects = @ \cup {"network"}],
     [Reads EXCEPT !.effects = {"credentials"}],
     [Reads EXCEPT !.reversibility = "irreversible"],
     [Reads EXCEPT !.environment = "production"], [Writes EXCEPT !.effects = {}]}

AnyScopes == {{src}, {src, docs}}

(* One capability, which writes until the file is edited. *)
AnyFile == [{testing} -> {Writes}]

ASSUME ConsentAssumption

(* The project of another manager. *)
NoConsent == Init /\ head = base

----------------------------------------------------------------------------

MCInit ==
    /\ manager \in Managers
    /\ IF manager \in {"moving", "pinning"} THEN RetentionInit ELSE noRetention
    /\ IF manager \in {"configuring", "upgrading"} THEN UpgradeInit /\ UpgradeBound
       ELSE noUpgrade
    /\ IF manager \in {"trying", "deciding"} THEN TrialsInit ELSE noTrials
    /\ IF manager \in {"writing", "switching", "repairing"}
       THEN IntegrationInit /\ IntegrationBound ELSE noIntegration
    /\ IF manager \in {"grading", "cooling"} THEN FeedbackInit /\ FeedbackBound
       ELSE noFeedback
    /\ IF manager = "activating" THEN ActivationInit ELSE noActivation
    /\ IF manager = "consenting" THEN Init ELSE NoConsent
    /\ manager \in {"grading", "cooling", "consenting"} => noPlans
    /\ manager \notin {"configuring", "upgrading"} => files = Unused
    /\ manager \notin {"moving", "pinning", "configuring", "upgrading"} =>
           planLock = Unused

RetentionStep ==
    /\ manager \in {"moving", "pinning"} /\ RetentionNext
    /\ UNCHANGED <<manager, files, ofUpgrade, ofTrials, ofIntegration, ofFeedback,
                   ofActivation, vars>>
    /\ RetentionBound'

UpgradeStep ==
    /\ manager \in {"configuring", "upgrading"} /\ UpgradeNext
    /\ UNCHANGED <<manager, ofRetention, ofTrials, ofIntegration, ofFeedback, ofActivation, vars>>
    /\ UpgradeBound'

TrialsStep ==
    /\ manager \in {"trying", "deciding"} /\ TrialsNext
    /\ UNCHANGED <<manager, files, planLock, ofRetention, ofUpgrade, ofIntegration, ofFeedback,
                   ofActivation, vars>>
    /\ TrialsBound'

IntegrationStep ==
    /\ manager \in {"writing", "switching", "repairing"} /\ IntegrationNext
    /\ UNCHANGED <<manager, files, planLock, ofRetention, ofUpgrade, ofTrials, ofFeedback,
                   ofActivation, vars>>
    /\ IntegrationBound'
    /\ manager = "switching" => planPc' # planPc \/ DeclareCapability

FeedbackStep ==
    /\ manager \in {"grading", "cooling"} /\ FeedbackNext
    /\ UNCHANGED <<manager, ofAny, ofRetention, ofUpgrade, ofTrials, ofIntegration,
                   ofActivation, vars>>
    /\ FeedbackBound'

ActivationStep ==
    /\ manager = "activating" /\ ActivationNext
    /\ UNCHANGED <<manager, files, planLock, ofRetention, ofUpgrade, ofTrials, ofIntegration,
                   ofFeedback, vars>>

ConsentStep ==
    /\ manager = "consenting" /\ Next
    /\ UNCHANGED <<manager, ofAny, ofRetention, ofUpgrade, ofTrials, ofIntegration, ofFeedback,
                   ofActivation>>

MCNext ==
    \/ RetentionStep \/ UpgradeStep \/ TrialsStep \/ IntegrationStep
    \/ FeedbackStep \/ ActivationStep \/ ConsentStep

MCSpec == MCInit /\ [][MCNext]_all
=============================================================================
