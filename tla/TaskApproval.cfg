\* A high-risk capability: approvals that expire while they are used, HEAD that moves, artifacts that disappear.
SPECIFICATION Spec
CONSTANTS
    Caps = {deploy}
    NoCap = NoCap
    Paths = {src}
    Shas = {base, other}
    Statuses = {"succeeded", "command_failure", "environment_failure"}
    NoStatus = NoStatus
    Denied = {}
    NeedsApproval = {deploy}
    HighRisk = {deploy}
    MaxExecutions <- Twice
    WritePaths <- WriteAll
    Tasks = {t1}
    Procs = {p1, p2}
    NoProc = NoProc
    NoTask = NoTask
    Operations = {"start", "run", "grant"}
    Scopes = {{src}}
    RetryBudgets = {1}
    Modes = {TRUE}
    Disturbances = {"crash", "commit", "lose"}
    Activations = 0
    MaxUses = 2
    MaxApprovals = 2
    MaxRevision = 1
    MaxTime = 1
    Commands <- Positions
SYMMETRY Symmetry
INVARIANTS ApprovalsRespected
