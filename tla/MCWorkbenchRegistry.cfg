CONSTANTS
    a = a  b = b
    NULL = NULL
    Project = {a, b}
    Connections = 2
    Launches <- MCLaunches
    MaxVersion = 1  MaxChanges = 2  MaxFaults = 1  MaxVisits = 2  MaxClicks = 1
SPECIFICATION WorkbenchSpec
INVARIANT ExpiredOnlyWhenOver
CHECK_DEADLOCK FALSE
