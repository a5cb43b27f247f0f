SPECIFICATION Spec
CONSTANTS
    None = None
    Torn = Torn
    Todos = {"t1"}
    Names = {"n"}
    Images = {"a"}
    Logs = {"b", "e"}
    Empty = {"e"}
    Profiles = {"p"}
    Frozen = "p"
    Captures = FALSE
    MaxPerTodo = 2
    MaxRunBytes = 4
    MaxEvents = 4
    MaxWrites = 1
    MaxForeign = 0
    MaxEdits = 0
INVARIANTS
    EmptyIsLegitimate
CHECK_DEADLOCK FALSE
