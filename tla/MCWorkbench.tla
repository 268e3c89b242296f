----------------------------- MODULE MCWorkbench -----------------------------
\* Instances of WorkbenchLaunch for TLC.
EXTENDS WorkbenchLaunch, TLC

CONSTANTS a, b

Asks(from, transport, memory, check) ==
    [from |-> from, transport |-> transport, memory |-> memory, check |-> check]

\* Every way of asking; only the sessions of one project and of several are read
\* again, and only those of a registry or a personal memory have ticket forms.
MCLaunches ==
    {Asks("direct", "loopback", FALSE, FALSE), Asks("direct", "file", FALSE, FALSE),
     Asks("direct", "file", FALSE, TRUE), Asks("catalog", "loopback", FALSE, FALSE),
     Asks("catalog", "file", FALSE, TRUE), Asks("catalog", "loopback", TRUE, FALSE), Asks("ui", "loopback", FALSE, FALSE),
     Asks("once", "loopback", FALSE, FALSE), Asks("several", "loopback", FALSE, FALSE)}
=============================================================================
