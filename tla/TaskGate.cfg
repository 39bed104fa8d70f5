\* Two required capabilities, an amendment, activations, edits, interrupted commands: what a completed task has been through.
SPECIFICATION Spec
CONSTANTS
    Caps = {unit, lint}
    NoCap = NoCap
    Paths = {src}
    Shas = {base}
    Statuses = {"succeeded", "command_failure", "environment_failure"}
    NoStatus = NoStatus
    Denied = {}
    NeedsApproval = {}
    HighRisk = {}
    MaxExecutions <- Twice
    WritePaths <- WriteNothing
    Tasks = {t1}
    Procs = {p1, p2}
    NoProc = NoProc
    NoTask = NoTask
    Operations = {"start", "amend", "cancel", "verify", "run"}
    Scopes = {{}}
    RetryBudgets = {0}
    Modes = {FALSE}
    Disturbances = {"crash", "edit"}
    Activations = 1
    MaxUses = 1
    MaxApprovals = 0
    MaxRevision = 2
    MaxTime = 0
    Commands <- Positions
SYMMETRY Symmetry
INVARIANTS TypeOK LoadedIsCurrent BudgetsRespected CompletedIsEarned
PROPERTIES ImplementsGate HistoryAppendOnly
