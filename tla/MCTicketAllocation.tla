------------------------- MODULE MCTicketAllocation -------------------------
\* Instances of TicketAllocation for TLC.
EXTENDS TicketAllocation, TLC

CONSTANTS p1, p2, p3, a, b

TicketSymmetry == Permutations(Process) \cup Permutations(Project)
=============================================================================
