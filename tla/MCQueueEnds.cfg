SPECIFICATION EndsSpec
CONSTANTS
    b1 = b1
    b2 = b2
    Runs = {1}
    Batches = {b1}
    BatchOf <- OneBatch
    HostResults = {"completed"}
    MaxDeliveries = 2
    MaxRestarts = 1
    Cancels = {b1}
    Recancels = {}
    RunCancels = {}
    Replays = {}
PROPERTIES
    QueueEnds
CHECK_DEADLOCK FALSE
