SPECIFICATION FairMCSpec
CONSTANTS
    Starters = {tray, cli}
    Tray = tray
    Hosts = {1, 2}
    MaxRestarts = 0
    MaxHostCrashes = 1
    MaxStarterCrashes = 1
    NoOne = NoOne
    Junk = Junk
    Absent = Absent
PROPERTIES
    BegunEnds
CHECK_DEADLOCK FALSE
