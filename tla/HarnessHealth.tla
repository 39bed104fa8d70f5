----------------------------- MODULE HarnessHealth -----------------------------
(***************************************************************************)
(* Doctor (init/doctor.py) and the health of the adapters (adapters/       *)
(* clients.py): what a user is told of the project.  Nothing is changed    *)
(* and nothing locked; the checks are a function of the files that         *)
(* ClientIntegration has, fs, and of what is around them, env.             *)
(***************************************************************************)
EXTENDS ClientIntegration

CONSTANT Environments   \* bound: the surroundings that are looked at

CanonicalFiles == {"config", "capabilities", "modules-lock"}

(* What Doctor looks at beside the files of an integration.                *)
Surroundings ==
    [pending : BOOLEAN,             \* an unfinished transaction
     valid : SUBSET CanonicalFiles, \* files that are there and fit their schema
     runtime : {"same", "older", "newer", "other_major"},   \* of the configuration
     on_path : BOOLEAN,             \* the terminal finds the command
     launcher : {"missing", "failing", "other_version", "working"},
     modules : BOOLEAN,             \* ModuleActivation's HashesValid
     workspace : BOOLEAN]           \* a Git worktree with a commit

HealthAssumption == Environments \subseteq Surroundings

Usual == [pending |-> FALSE, valid |-> CanonicalFiles, runtime |-> "same", on_path |-> TRUE,
          launcher |-> "working", modules |-> TRUE, workspace |-> TRUE]

Verdict(holds) == IF holds THEN "pass" ELSE "error"

----------------------------------------------------------------------------
(* The adapters *)

(* capability_probe: what has been verified to intercept tool calls. *)
Mode(a) == IF a = Claude THEN "enforced" ELSE "observe"

BlockHealth(fs, a) ==
    IF fs[Projection[a]] = Absent THEN "degraded"
    ELSE IF ~Manageable(fs[Projection[a]]) THEN "failed"
    ELSE IF ~Current(fs[Projection[a]]) THEN "degraded"
    ELSE "healthy"

Health(fs, a) ==
    CASE a = Generic -> "healthy"
      [] a = Claude -> IF BlockHealth(fs, a) = "healthy" /\ SettingsInstalled(fs[Settings])
                       THEN "healthy" ELSE "degraded"
      [] OTHER -> BlockHealth(fs, a)

----------------------------------------------------------------------------
(* The checks *)

(* Only a client that is enforced needs its launcher, and needs it in the  *)
(* version that the project was set up with.                               *)
LauncherCheck(fs, env) ==
    LET a == fs[ConfigFile].adapter
    IN  IF a = Generic \/ env.launcher = "working" THEN "pass"
        ELSE IF Mode(a) = "enforced" THEN "error" ELSE "warning"

AdapterCheck(fs) ==
    LET a == fs[ConfigFile].adapter
    IN  Verdict(Mode(a) = "enforced" => Health(fs, a) = "healthy")

ProjectionsCheck(fs) ==
    Verdict(\A path \in fs[ConfigFile].managed : fs[path] # Absent /\ Current(fs[path]))

(* check_runtime_version. *)
Compatible(env) == env.runtime \in {"same", "older"}

Checks ==
    {"transaction", "config", "capabilities", "modules-lock", "runtime-version",
     "terminal-command", "client-launcher", "adapter", "managed-projections",
     "module-hashes", "workspace"}

(* Doctor.run; a file that cannot be read fails the checks that need it.   *)
Report(fs, env) ==
    LET config == "config" \in env.valid /\ fs[ConfigFile] # Absent
        modules == "modules-lock" \in env.valid /\ fs[CapabilitiesFile] # Absent
    IN  [check \in Checks |->
            CASE check = "transaction" -> Verdict(~env.pending)
              [] check = "config" -> Verdict(config)
              [] check = "capabilities" ->
                     Verdict("capabilities" \in env.valid /\ fs[CapabilitiesFile] # Absent)
              [] check = "modules-lock" -> Verdict(modules)
              [] check = "module-hashes" -> Verdict(modules /\ env.modules)
              [] check = "terminal-command" -> IF env.on_path THEN "pass" ELSE "warning"
              [] check = "workspace" -> Verdict(env.workspace)
              [] check = "runtime-version" /\ config -> Verdict(Compatible(env))
              [] check = "client-launcher" /\ config -> LauncherCheck(fs, env)
              [] check = "adapter" /\ config -> AdapterCheck(fs)
              [] check = "managed-projections" /\ config -> ProjectionsCheck(fs)
              [] OTHER -> "error"]

(* DoctorReport.ok: warnings do not count. *)
ReportOk(report) == \A check \in DOMAIN report : report[check] # "error"
=============================================================================
