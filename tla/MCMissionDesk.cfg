CONSTANTS
    p1 = p1  p2 = p2  m1 = m1  m2 = m2
    Process = {p1, p2}
    Clients <- MCClients
    Mission = {m1, m2}
    NoValue = NoValue
    MAX_ACTIVITY = 8
    MaxTickets = 2  MaxCalls = 3  MaxCorrections = 1
SPECIFICATION DeskSpec
INVARIANTS ReceiptsBelongToTicket SingleCallUnlessRaced
PROPERTIES DoneOnlyOnMerge KeepsLedger
SYMMETRY DeskSymmetry
CHECK_DEADLOCK FALSE
