SPECIFICATION MCSpec
CONSTANTS
    Attempts = {a1, a2, a3}
    MaxEpochs = 3
    None = None
    Commands = {"c1", "c2"}
    Todos = {"t1"}
    Memberships = {TRUE, FALSE}
    Startable = {"launched", "refused", "human", "failed"}
    MaxAttempts = 3
    MaxIntents = 2
    MaxControls = 2
    MaxCrashes = 1
    Pids = {"p1", "p2"}
    MaxBorn = 3
    Modes = {"queue", "started"}
    Kinds = {"ww", "endfield", "nikke", "plain"}
    Existing = {"endfield", "nikke", "plain"}
    MaxAppeared = 3
    StartPolls = 2
    ReadyPolls = 3
    CapPolls = 4
    UiPolls = 2
    MaxActions = 2
    MaxRecycles = 1
    MaxRestores = 1
INVARIANTS
    TypesOK
    LedgerSafe
    CloseSafe
    LaunchSafe
PROPERTIES
    RowsAreFinal
    ImplementsDesktopLease
    ResumeSafe
CHECK_DEADLOCK FALSE
