SPECIFICATION MCSpec
CONSTANTS
    None = None
    s1 = s1
    r1 = "r1"
    r2 = "r2"
    t1 = t1
    t2 = t2
    a1 = a1
    a2 = a2
    a3 = a3
    worker = worker
    watchdog = watchdog
    Earlier = "earlier"
    none = none
    Agents = {"g1", "g2"}
    Items = {"i1", "i2"}
    Keys = {1, 2, 3}
    Leases = {1, 2}
    End = 2
    MaxClaim = 2
    MaxVersion = 3
    DayTodos = {s1, t1, t2}
    Session = {s1}
    Forbidden = {t2}
    Batches = 2
    Selections <- Scopes
    Transients = {FALSE, TRUE}
    MaxReset = 1
    MaxMark = 2
    Runs <- OneRun
    Todos = {t1, t2}
    Artifacts = {a1, a2, a3}
    Ledgers <- OneLedgers
    Threads = {watchdog}
    DayEnd = 2
    MaxCrash = 0
INVARIANTS
    TypesOK
    ReviewProven
    ClaimsExclusive
    DoneIsProven
PROPERTIES
    SealIsFinal
    TodosKept
CHECK_DEADLOCK FALSE
