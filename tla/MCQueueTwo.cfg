SPECIFICATION TwoSpec
CONSTANTS
    b1 = b1
    b2 = b2
    Runs = {1, 2, 3}
    Batches = {b1, b2}
    BatchOf <- TwoBatches
    HostResults = {"completed"}
    MaxDeliveries = 1
    MaxRestarts = 1
    Cancels = {b1}
    Recancels = {}
    RunCancels = {}
    Replays = {}
INVARIANTS
    DesktopKept
    RunsSafe
PROPERTIES
    SealedStays
    ImplementsDesktopLease
CHECK_DEADLOCK FALSE
