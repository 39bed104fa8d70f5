\* Operations of the kernel, transactions and supervised commands side by side; the first state picks one.
SPECIFICATION MCFairSpec
CONSTANTS
    p1 = p1
    p2 = p2
    NoProc = NoProc
    NoCap = NoCap
    NoStatus = NoStatus
    NoTask = NoTask
    agents = agents
    config = config
    old_text = old_text
    new_text = new_text
    Missing = Missing
    NoJournal = NoJournal
    Leader = Leader
    child = child
    Unused = Unused
    Systems = {"task", "transaction", "command", "review"}
    Recovers = TRUE
    Procs = {p1}
    Paths = {agents, config}
    Contents = {old_text, new_text}
    Initial <- AnyFiles
    Plans <- AnyPlans
    Disturbances = {"crash", "recrash", "fail", "edit"}
    MaxApplies = 2
    Children = {child}
    Limit = 2
    PipeCapacity = 2
    MaxOutput = 2
    MaxRuns = 2
INVARIANTS SuccessIsComplete
PROPERTIES OperationsEnd ImplementsReviewedUpdate UnfinishedIsResolved TimeoutEnds UnattendedEnds
