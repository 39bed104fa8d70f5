\* A runtime with another builtin is installed after a module was enabled.
SPECIFICATION MCSpec
CONSTANTS
    p1 = p1
    p2 = p2
    NoProc = NoProc
    i1 = i1
    i2 = i2
    q1 = q1
    q2 = q2
    old1 = old1
    old2 = old2
    old3 = old3
    new1 = new1
    new2 = new2
    newer = newer
    config_json = config_json
    agents = agents
    claude_md = claude_md
    t1 = t1
    t2 = t2
    t3 = t3
    module1 = module1
    suggest = suggest
    codex = codex
    mine = mine
    regression = regression
    unknown = unknown
    e1 = e1
    e2 = e2
    e3 = e3
    builtin = builtin
    mymodule = mymodule
    trait = trait
    testing = testing
    src = src
    docs = docs
    base = base
    other = other
    NoCap = NoCap
    Undeclared = Undeclared
    Absent = Absent
    NoPath = NoPath
    Unused = Unused
    Procs = {p1, p2}
    Caps = {testing}
    Paths = {src, docs}
    Shas = {base, other}
    Declarations <- AnyDeclarations
    Initial <- AnyFile
    Scopes <- AnyScopes
    RetryBudgets = {1}
    MaxUses = 2
    MaxApprovals = 1
    MaxRevision = 2
    MaxTime = 1
    MaxEdits = 1
    Invocations = {p1, p2}
    Nobody = Nobody
    Items = {i1, i2}
    Places = {q1, q2}
    NewEntries <- Entries
    Operations = {"register", "pin", "prune"}
    Mishaps = {"crash", "symlink"}
    ManagedPaths = {config_json, agents}
    Config = config_json
    Contents = {old1, old2, old3, new1, new2, newer}
    Upgraded <- Results
    Incompatible = {newer}
    InitialFiles <- AnyFiles
    Disturbances = {"crash", "edit"}
    Modules = {module1}
    Tasks = {t1, t2}
    Policies = {suggest}
    ManifestPolicy <- Suggested
    InitialLocks <- NothingLocked
    TaskBudget = 1
    MatchingTasks = {1, 2}
    Overheads = {1, 2}
    MaxTrials = 2
    Overlap = FALSE
    Adapters = {Generic, codex, Claude}
    Generic = Generic
    Claude = Claude
    Projection <- ClientFiles
    UserLines = {"u"}
    UserCommands = {mine}
    MaxLength = 3
    MaxEntries = 3
    Edits = {"lines", "entries", "commands", "markers", "rules"}
    Environments <- AnySurroundings
    ModuleIds <- OrderedIds
    Builtins <- OrderedBuiltins
    Manifests <- LocalManifests
    Shipped <- AnyRuntimes
    Traits = {trait}
    Capabilities = {testing}
    Chosen = {"auto", "manual"}
    ContextBudget = 3
    MaxChanges = 3
    EpisodeIds = {e1, e2, e3}
    EpisodeTasks = {t1, t2, t3}
    EpisodeModules = {module1}
    Kinds = {regression, unknown}
    HighImpact = {regression}
    CooldownDays = 2
    Horizon = 3
    Managers = {"activating"}
INVARIANTS ActivatedAsPinned
