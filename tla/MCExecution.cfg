SPECIFICATION MCSpec
CONSTANTS
    Todos = 2
    ArtifactIds = {a1, a2}
    MaxBytes = 1
    PerTodo = 1
    RunBytes = 1
    Width = 1
    Open = Open
    Off = Off
    None = None
    Torn = Torn
INVARIANTS
    TypesOK
    CompletedIsProven
    StreamSafe
    EvidenceSound
    ArtifactsSafe
PROPERTIES
    RefinesTodoRun
    HostSafe
    InputSafe
    InputFenced
CHECK_DEADLOCK FALSE
