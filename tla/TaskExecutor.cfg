\* Executor.execute called directly, beside TaskService: the workspace lease, and no operation lock, keeps commands apart.
SPECIFICATION Spec
CONSTANTS
    Caps = {unit}
    NoCap = NoCap
    Paths = {}
    Shas = {base}
    Statuses = {"succeeded", "command_failure", "environment_failure"}
    NoStatus = NoStatus
    Denied = {}
    NeedsApproval = {}
    HighRisk = {}
    MaxExecutions <- Twice
    WritePaths <- WriteNothing
    Tasks = {t1}
    Procs = {p1, p2}
    NoProc = NoProc
    NoTask = NoTask
    Operations = {"start", "run", "verify", "execute"}
    Scopes = {{}}
    RetryBudgets = {1}
    Modes = {FALSE}
    Disturbances = {"crash"}
    Activations = 0
    MaxUses = 1
    MaxApprovals = 0
    MaxRevision = 1
    MaxTime = 0
    Commands <- Positions
SYMMETRY Symmetry
INVARIANTS OneSupervisedCommand VerifiesAlone AuthorizationsSingleUse
