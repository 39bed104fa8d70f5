\* A child keeps the pipes open after its leader has exited.
SPECIFICATION MCFairSpec
CONSTANTS
    p1 = p1
    p2 = p2
    NoProc = NoProc
    NoCap = NoCap
    NoStatus = NoStatus
    NoTask = NoTask
    agents = agents
    config = config
    old_text = old_text
    new_text = new_text
    Missing = Missing
    NoJournal = NoJournal
    Leader = Leader
    child = child
    Unused = Unused
    Systems = {"command"}
    Recovers = TRUE
    Procs = {p1}
    Paths = {agents, config}
    Contents = {old_text, new_text}
    Initial <- AnyFiles
    Plans <- AnyPlans
    Disturbances = {"crash", "recrash", "fail", "edit"}
    MaxApplies = 2
    Children = {child}
    Limit = 2
    PipeCapacity = 2
    MaxOutput = 3
    MaxVersion = 3
    MaxRuns = 2
PROPERTIES TimeoutAlwaysEnds
