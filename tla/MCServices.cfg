SPECIFICATION MCSpec
CONSTANTS
    Starters = {tray, cli}
    Tray = tray
    Hosts = {1, 2}
    MaxRestarts = 1
    MaxHostCrashes = 1
    MaxStarterCrashes = 1
    NoOne = NoOne
    Junk = Junk
    Absent = Absent
    None = None
    Clean = Clean
    Deep = Deep
    Blob = Blob
INVARIANTS
    TypesOK
    StartSafe
PROPERTIES
    GuardsSafe
    MailSafe
    PeriodsKept
CHECK_DEADLOCK FALSE
