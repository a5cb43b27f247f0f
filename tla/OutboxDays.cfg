\* Two seals of one settled day.
SPECIFICATION Spec
CONSTANTS
    NumNotes = 2
    MaxDay = 1
    MaxCrashes = 0
    Owing = {}
    Scopes = {"game_day"}
    Operators = {}
INVARIANTS
    OneMailPerDay
CHECK_DEADLOCK FALSE
