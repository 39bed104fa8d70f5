------------------------- MODULE IntegrationProperties -------------------------
(* What must hold of the integration of a client, and of what Doctor says  *)
(* of it.                                                                  *)
EXTENDS HarnessHealth

(* What the harness has not put into a file. *)
Outside(content) ==
    IF WellMarked(Text(content)) THEN RemoveBlock(content) ELSE Text(content)

OwnEntries(content) == WithoutHook(Text(content))

(* An operation keeps every line that the user has written outside of the  *)
(* block, in its order, and every entry of the settings without the hook,  *)
(* also when files are edited between the plan and its application (but    *)
(* not while the plan itself reads them twice).                            *)
UserContentKeptStep ==
    \A p \in Invocations :
        ApplyFiles(p) => /\ \A path \in Projected : Outside(project'[path]) = Outside(project[path])
                         /\ OwnEntries(project'[Settings]) = OwnEntries(project[Settings])

UserContentKept == [][UserContentKeptStep]_integrationVars

(* The configuration names exactly the files that hold the block, the file *)
(* of its client, and the hook is there for Claude Code alone; across any  *)
(* sequence of first initialization, installations, removals, rebuilds and *)
(* changes of the client by several invocations, while the user edits      *)
(* lines, entries and commands, but not the markers or the hook.           *)
ConfigurationIsTrue ==
    ~tampered =>
        LET config == project[ConfigFile]
            blocks == {path \in Projected : ~Unmarked(Text(project[path]))}
        IN  /\ HasConfig => /\ config.managed = blocks
                            /\ config.managed = ProjectionOf(config.adapter)
                            /\ config.adapter = Claude <=>
                                   SettingsInstalled(project[Settings])
            /\ ~HasConfig => blocks = {} /\ ~SettingsInstalled(project[Settings])

(* What an operation that sets a client up proposes, be it init, an        *)
(* installation or a repair, is healthy to Doctor in a project with        *)
(* nothing else wrong, whatever the user has done to blocks and hooks      *)
(* before.                                                                 *)
RepairHealsStep ==
    \A p \in Invocations :
        CompareFiles(p) /\ planLoc[p].op \in {"init", "install"} =>
            LET proposed == Over(planLoc'[p].after, project)
            IN  /\ ReportOk(Report(proposed, Usual))
                /\ proposed[ConfigFile].adapter = planLoc[p].adapter

RepairHeals == [][RepairHealsStep]_integrationVars

(* Everything around the integration is as the other operations need it:   *)
(* transactions start, files load, the runtime knows the configuration.    *)
Workable(env) ==
    /\ ~env.pending /\ env.valid = CanonicalFiles /\ env.modules /\ env.workspace
    /\ env.runtime \notin {"newer", "other_major"}

(* What a repair of the configured client would change.                    *)
Repaired ==
    LET after == Installed(project[ConfigFile].adapter)
    IN  {file \in DOMAIN after : after[file] # project[file]}

Repairable ==
    LET a == project[ConfigFile].adapter
    IN  \A path \in Retired(a) \cup ProjectionOf(a) : Manageable(Text(project[path]))

(* Doctor raises no alarm where a repair would change nothing.  Where it is*)
(* content, a repair would be accepted and change at most the entry of the *)
(* hook, of which there is one: its place, its matcher, or commands of the *)
(* user in it, none of which Doctor looks at.  A launcher that does not    *)
(* work matters to Claude Code alone (README.md:108, init/doctor.py run).  *)
DoctorIsSound ==
    \A env \in Environments :
        LET content == ReportOk(Report(project, env))
            around == /\ Workable(env)
                      /\ project[ConfigFile].adapter = Claude => env.launcher = "working"
            there == HasConfig /\ project[CapabilitiesFile] # Absent
        IN  /\ there /\ around /\ Repairable /\ Repaired = {} => content
            /\ content => /\ there /\ around /\ Repairable
                          /\ Repaired \subseteq {Settings}
                          /\ Settings \in Repaired =>
                                 \E i \in DOMAIN Text(project[Settings]) :
                                     HookEntries(project[Settings]) = {i}

Commands(content) ==
    UNION {Text(content)[i] : i \in DOMAIN Text(content)} \ {Hook, Altered}

(* Initialization keeps files and rules of the user, and a removal deletes *)
(* nothing but what is managed (docs/adaptive-harness-prd.md:329).  Not so:*)
(* init writes the capabilities and the lock anew, and an entry of the     *)
(* settings that has the hook is dropped with the user's commands in it.   *)
UserRulesKeptStep ==
    \A p \in Invocations :
        ApplyFiles(p) =>
            /\ project[CapabilitiesFile] = Declared => project'[CapabilitiesFile] = Declared
            /\ Commands(project[Settings]) \subseteq Commands(project'[Settings])

UserRulesKept == [][UserRulesKeptStep]_integrationVars
=============================================================================
