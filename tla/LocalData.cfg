\* Migrating clones and a changing runtime side by side; the first state picks one.
SPECIFICATION MCSpec
CONSTANTS
    p1 = p1
    p2 = p2
    NoProc = NoProc
    c1 = c1
    c2 = c2
    UserData = user_data
    t1 = t1
    t2 = t2
    NoTask = NoTask
    NoRoot = NoRoot
    Stale = Stale
    v1 = v1
    v2 = v2
    None = None
    NoSlot = NoSlot
    Procs = {p1, p2}
    Invocations = {p1, p2}
    Nobody = Nobody
    Mishaps = {"crash", "fail", "archive"}
    Clones = {c1, c2}
    Tasks = {t1, t2}
    OwnerOf <- Owners
    Versions = {v1, v2}
    MaxSlots = 3
    Operations = {"update", "rollback", "uninstall"}
    Disturbances = {"fail", "stuck", "crash"}
    Managers = {"placement", "distribution"}
SYMMETRY Symmetry
INVARIANTS NoCircularWait PointersWhole
PROPERTIES RecordsSurvive OnlyFinishedTasksMove WritesAreSeen ImplementsInstalledRuntime
