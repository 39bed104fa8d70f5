--------------------------- MODULE ClientIntegration ---------------------------
(***************************************************************************)
(* Initializer (init/initializer.py), IntegrationManager (adapters/        *)
(* integration.py) and ConfigurationManager (configuration/manager.py):    *)
(* the instructions that a client reads (a managed block in a file of the  *)
(* user, adapters/managed.py), the hook of Claude Code (an entry of        *)
(* .claude/settings.json, adapters/claude_hook.py), the configuration that *)
(* says which client is integrated, and the capabilities that a scan of    *)
(* the project or the user has declared.                                   *)
(*                                                                         *)
(* A file of instructions is a sequence of lines, the two markers among    *)
(* them; the body is left out, so that a line of the user between the      *)
(* markers is a block that has drifted.  The settings are the sequence of  *)
(* PreToolUse entries, each the set of its commands, with Altered among    *)
(* them when the rest of it (matcher, type, timeout, message) is not as an *)
(* installation writes it.  modules.lock.json is left out: init treats it  *)
(* as it does capabilities.json.  Applying a reviewed change is one step   *)
(* (RepositoryTransaction is its detail).                                  *)
(***************************************************************************)
EXTENDS Integers, FiniteSets, Sequences, SequencesExt, ManagerPlans

CONSTANTS
    Adapters, Generic, Claude,
    NoPath,
    Projection,     \* by adapter, the file its client reads, or NoPath
    UserLines,
    UserCommands,
    MaxLength,      \* bound: lines of a file
    MaxEntries,     \* bound: entries of the settings
    Edits           \* bound: what the user does: "lines", "entries", "commands",
                    \* "rules", "markers" and hooks; "meddle" while a plan reads

StartMarker == "start"
EndMarker == "end"
Hook == "hook"
Altered == "altered"

Projected == {Projection[a] : a \in Adapters} \ {NoPath}

Settings == "settings"
ConfigFile == "config"
CapabilitiesFile == "capabilities"

Files == Projected \cup {Settings, ConfigFile, CapabilitiesFile}

(* What a scan of the project has found, and what the user has made of it. *)
Observed == "observed"
Declared == "declared"

Lines == UserLines \cup {StartMarker, EndMarker}

SettingsEntry == SUBSET (UserCommands \cup {Hook, Altered})

Configuration == [adapter : Adapters, managed : SUBSET Projected]

IntegrationAssumption ==
    /\ {Generic, Claude} \subseteq Adapters /\ Claude # Generic
    /\ Projection[Generic] = NoPath
    /\ \A a \in Adapters \ {Generic} : Projection[a] # NoPath
    /\ \A a, b \in Adapters \ {Generic} : Projection[a] = Projection[b] => a = b
    /\ Projected \cap {Settings, ConfigFile, CapabilitiesFile} = {}
    /\ Hook \notin UserCommands
    /\ UserLines \cap {StartMarker, EndMarker} = {}
    /\ Absent \notin Seq(Lines) /\ Absent \notin Seq(SettingsEntry)
    /\ Absent \notin Configuration /\ Absent \notin {Observed, Declared}
    /\ MaxLength \in Nat /\ MaxEntries \in Nat

VARIABLES
    project,    \* the content of every file
    tampered    \* history: has a user touched a marker or the hook, or has
                \* init run in an initialized project

integrationVars == <<project, tampered, planPc, planLoc>>

Empty == [file \in {} |-> Absent]

NoProposal ==
    [op |-> "none", adapter |-> Generic, after |-> Empty, before |-> Empty]

Observing == [adapter |-> Generic, managed |-> {}]

IntegrationInit ==
    /\ \E texts \in [Projected -> {Absent} \cup {<<l>> : l \in UserLines}],
          entries \in {Absent} \cup {<<{c}>> : c \in UserCommands} :
           project = [file \in Files |->
               CASE file \in {ConfigFile, CapabilitiesFile} -> Absent
                 [] file = Settings -> entries
                 [] OTHER -> texts[file]]
    /\ tampered = FALSE
    /\ planPc = [p \in Invocations |-> "idle"]
    /\ planLoc = [p \in Invocations |-> NoProposal]

----------------------------------------------------------------------------
(* The managed block of a file *)

Block == <<StartMarker, EndMarker>>

Text(content) == IF content = Absent THEN <<>> ELSE content

Markers(text, marker) == {i \in DOMAIN text : text[i] = marker}

Unmarked(text) ==
    Markers(text, StartMarker) \cup Markers(text, EndMarker) = {}

(* Both markers once, in their order; _managed_span raises otherwise. *)
WellMarked(text) ==
    \E s, e \in DOMAIN text :
        /\ Markers(text, StartMarker) = {s} /\ Markers(text, EndMarker) = {e}
        /\ s < e

Manageable(text) == Unmarked(text) \/ WellMarked(text)

BeforeBlock(text) == SubSeq(text, 1, Max(Markers(text, StartMarker)) - 1)

AfterBlock(text) == SubSeq(text, Max(Markers(text, EndMarker)) + 1, Len(text))

(* Mutant: a block that is there is taken to be current. *)
RenderOnce(text) == IF Unmarked(text) THEN text \o Block ELSE text

(* Mutant: what follows the block is taken to belong to it. *)
RenderLast(text) ==
    IF Unmarked(text) THEN text \o Block ELSE BeforeBlock(text) \o Block

Render(text) ==
    IF Unmarked(text) THEN text \o Block ELSE BeforeBlock(text) \o Block \o AfterBlock(text)

RemoveBlock(text) ==
    IF Unmarked(text) THEN text ELSE BeforeBlock(text) \o AfterBlock(text)

(* inspect: what is between the markers is the body and nothing else. *)
Current(text) ==
    /\ WellMarked(text)
    /\ Max(Markers(text, EndMarker)) = Max(Markers(text, StartMarker)) + 1

----------------------------------------------------------------------------
(* The hook in the settings *)

IsManagedHook(entry) == Hook \in entry

WithoutHook(entries) ==
    LET kept[n \in 0 .. Len(entries)] ==
            IF n = 0 THEN <<>>
            ELSE IF IsManagedHook(entries[n]) THEN kept[n - 1]
            ELSE Append(kept[n - 1], entries[n])
    IN  kept[Len(entries)]

InstallSettings(content) == Append(WithoutHook(Text(content)), {Hook})

UninstallSettings(content) == WithoutHook(content)

HookEntries(content) == {i \in DOMAIN Text(content) : IsManagedHook(Text(content)[i])}

(* Mutant: one hook or more. *)
SomeInstalled(content) == HookEntries(content) # {}

SettingsInstalled(content) == Cardinality(HookEntries(content)) = 1

----------------------------------------------------------------------------
(* Plans: the candidates, file by file *)

Existing(S) == {file \in S : project[file] # Absent}

ProjectionOf(a) == {Projection[a]} \ {NoPath}

(* Mutant: the client before keeps its instructions. *)
RetiredNone(a) == {}

(* Files of other clients that an installation takes its block out of. *)
Retired(a) == Existing(project[ConfigFile].managed \ ProjectionOf(a))

SettingsOf(a) ==
    IF a = Claude THEN {Settings}
    ELSE IF project[ConfigFile].adapter = Claude THEN Existing({Settings})
    ELSE {}

(* What init proposes, whatever the project has.                           *)
Initialized(a) ==
    [file \in ProjectionOf(a) \cup (IF a = Claude THEN {Settings} ELSE {})
              \cup {ConfigFile, CapabilitiesFile} |->
        CASE file = ConfigFile -> [adapter |-> a, managed |-> ProjectionOf(a)]
          [] file = CapabilitiesFile -> Observed
          [] file = Settings -> InstallSettings(project[file])
          [] OTHER -> Render(Text(project[file]))]

(* What config apply proposes: the blocks that the configuration names.    *)
Rebuilt == [file \in project[ConfigFile].managed |-> Render(Text(project[file]))]

Installed(a) ==
    [file \in Retired(a) \cup ProjectionOf(a) \cup SettingsOf(a) \cup {ConfigFile} |->
        CASE file = ConfigFile -> [adapter |-> a, managed |-> ProjectionOf(a)]
          [] file = Settings -> IF a = Claude THEN InstallSettings(project[file])
                                ELSE UninstallSettings(project[file])
          [] file \in Retired(a) -> RemoveBlock(project[file])
          [] OTHER -> Render(Text(project[file]))]

Uninstalled(a) ==
    [file \in Existing(ProjectionOf(a) \cup (IF a = Claude THEN {Settings} ELSE {}))
              \cup {ConfigFile} |->
        CASE file = ConfigFile -> IF project[ConfigFile].adapter = a THEN Observing
                              ELSE project[ConfigFile]
          [] file = Settings -> UninstallSettings(project[file])
          [] OTHER -> RemoveBlock(project[file])]

EndPlan(p) == PlanAt(p, "idle") /\ planLoc' = [planLoc EXCEPT ![p] = NoProposal]

PlanFor(p, op, a, after) ==
    /\ planPc[p] = "idle"
    /\ PlanAt(p, "candidates")
    /\ planLoc' = [planLoc EXCEPT ![p] = [op |-> op, adapter |-> a, after |-> after,
                                          before |-> Empty]]
    /\ UNCHANGED project

HasConfig == project[ConfigFile] # Absent

PlanInit(p, a) ==
    /\ \A path \in ProjectionOf(a) : Manageable(Text(project[path]))
    /\ PlanFor(p, "init", a, Initialized(a))
    /\ tampered' = (tampered \/ HasConfig)

PlanRebuild(p) ==
    /\ HasConfig
    /\ \A path \in project[ConfigFile].managed : Manageable(Text(project[path]))
    /\ PlanFor(p, "rebuild", project[ConfigFile].adapter, Rebuilt)
    /\ UNCHANGED tampered

(* repair is the same plan as install. *)
PlanInstall(p, a) ==
    /\ HasConfig
    /\ \A path \in Retired(a) \cup ProjectionOf(a) : Manageable(Text(project[path]))
    /\ PlanFor(p, "install", a, Installed(a))
    /\ UNCHANGED tampered

PlanUninstall(p, a) ==
    /\ HasConfig
    /\ \A path \in ProjectionOf(a) : Manageable(Text(project[path]))
    /\ PlanFor(p, "uninstall", a, Uninstalled(a))
    /\ UNCHANGED tampered

(* Every candidate is read again, for the content to be reviewed. *)
CompareFiles(p) ==
    LET after == planLoc[p].after
        changed == {file \in DOMAIN after : project[file] # after[file]}
    IN  /\ planPc[p] = "candidates"
        /\ PlanAt(p, "compared")
        /\ planLoc' = [planLoc EXCEPT ![p].before = Restrict(project, changed),
                                      ![p].after = Restrict(after, changed)]
        /\ UNCHANGED <<project, tampered>>

----------------------------------------------------------------------------
(* Applies *)

AsReviewed(p) ==
    \A file \in DOMAIN planLoc[p].before : project[file] = planLoc[p].before[file]

(* Without "meddle" nobody writes while a plan reads. *)
NobodyReads ==
    "meddle" \in Edits \/ \A p \in Invocations : planPc[p] # "candidates"

Over(after, fs) ==
    [file \in Files |-> IF file \in DOMAIN after THEN after[file] ELSE fs[file]]

ApplyFiles(p) ==
    /\ planPc[p] = "compared"
    /\ NobodyReads
    /\ AsReviewed(p)
    /\ project' = Over(planLoc[p].after, project)
    /\ EndPlan(p)
    /\ UNCHANGED tampered

(* Refused because the repository changed, declined, or interrupted. *)
AbandonFiles(p) ==
    /\ planPc[p] # "idle"
    /\ EndPlan(p)
    /\ UNCHANGED <<project, tampered>>

----------------------------------------------------------------------------
(* The user *)

(* The user edits a file: its markers and the hook when kind is "markers". *)
EditFile(kind, file, content) ==
    /\ kind \in Edits /\ NobodyReads
    /\ project' = [project EXCEPT ![file] = content]
    /\ tampered' = (tampered \/ kind = "markers")
    /\ UNCHANGED <<planPc, planLoc>>

WriteLine(path, i, line) ==
    /\ Len(Text(project[path])) < MaxLength
    /\ EditFile("lines", path, InsertAt(Text(project[path]), i, line))

DropLine(path, i) ==
    EditFile(IF project[path][i] \in UserLines THEN "lines" ELSE "markers",
             path, RemoveAt(project[path], i))

AddEntry(command) ==
    /\ Len(Text(project[Settings])) < MaxEntries
    /\ EditFile("entries", Settings, Append(Text(project[Settings]), {command}))

(* A command of the user's more, or another matcher. *)
ChangeEntry(i, part) ==
    EditFile("commands", Settings, [project[Settings] EXCEPT ![i] = @ \cup {part}])

CopyHook(i) ==
    /\ IsManagedHook(project[Settings][i])
    /\ Len(project[Settings]) < MaxEntries
    /\ EditFile("markers", Settings, Append(project[Settings], project[Settings][i]))

DropEntry(i) ==
    EditFile(IF IsManagedHook(project[Settings][i]) THEN "markers" ELSE "entries",
             Settings, RemoveAt(project[Settings], i))

(* Capabilities of the user's own, in the file that init has made. *)
DeclareCapability ==
    /\ project[CapabilitiesFile] = Observed
    /\ EditFile("rules", CapabilitiesFile, Declared)

IntegrationNext ==
    \/ DeclareCapability
    \/ \E p \in Invocations :
           \/ \E a \in Adapters : PlanInit(p, a) \/ PlanInstall(p, a) \/ PlanUninstall(p, a)
           \/ PlanRebuild(p)
           \/ CompareFiles(p) \/ ApplyFiles(p) \/ AbandonFiles(p)
    \/ \E path \in Projected :
           \/ \E i \in 1 .. Len(Text(project[path])) + 1, line \in UserLines :
                  WriteLine(path, i, line)
           \/ \E i \in DOMAIN Text(project[path]) : DropLine(path, i)
    \/ \E command \in UserCommands : AddEntry(command)
    \/ \E i \in DOMAIN Text(project[Settings]) :
           \/ \E part \in UserCommands \cup {Altered} : ChangeEntry(i, part)
           \/ CopyHook(i) \/ DropEntry(i)

IntegrationSpec == IntegrationInit /\ [][IntegrationNext]_integrationVars
=============================================================================
