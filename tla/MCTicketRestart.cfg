SPECIFICATION Spec
CONSTANTS
    p1 = p1
    p2 = p2
    p3 = p3
    a = a
    b = b
    NULL = NULL
    Process = {p1, p2}
    Project = {a, b}
    MaxTickets = 2
    MaxActivity = 2
    MaxAttempts = 3
    MaxCrashes = 1
    MaxFailures = 0
    MaxOverruns = 0
SYMMETRY TicketSymmetry
INVARIANT UniqueIdentifiers
CHECK_DEADLOCK FALSE
