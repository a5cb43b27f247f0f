SPECIFICATION OneSpec
CONSTANTS
    b1 = b1
    b2 = b2
    Runs = {1}
    Batches = {b1}
    BatchOf <- OneBatch
    HostResults = {"completed", "human_required"}
    MaxDeliveries = 1
    MaxRestarts = 1
    Cancels = {b1}
    Recancels = {}
    RunCancels = {1}
    Replays = {b1}
INVARIANTS
    TypeOK
    AttemptOwned
    EndsAreFinal
    FencedIsOwed
PROPERTIES
    NoLateSuccess
CHECK_DEADLOCK FALSE
