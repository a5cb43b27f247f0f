SPECIFICATION MCSpec
CONSTANTS
    RunnerTodos = {"t1"}
    MaxLines = 3
    MaxCancels = 2
    Controls = {"good", "bad"}
    MayFault = TRUE
    Builds = {"b1", "b2", "bad"}
    Unsafe = {"bad"}
    Legacy = "leg"
    LegacyPromoted = TRUE
    MaxPromotions = 3
    MaxInstalls = 2
    MaxRuns = 2
    MaxFaults = 1
    MaxDamage = 1
    MaxCrashes = 1
INVARIANTS
    RelayHonest
PROPERTIES
    PromotionSafe
CHECK_DEADLOCK FALSE
