\* One poller with a configured initial checkpoint, which dies once and starts
\* again when the cursor has moved on.
SPECIFICATION FairSpec
CONSTANTS
    p1 = p1  p2 = p2  c1 = c1  c2 = c2
    Pollers = {p1}
    Limit = 1
    Early = {1}
    Huge = {}
    Initial <- MCInitial
    LastUid = 2
    LastEpoch = 2
    MaxFaults = 1
    Commands = {c1, c2}
    Operation <- MCOperation
    Expected <- MCExpected
    None = None
PROPERTIES EveryMailArrives
CHECK_DEADLOCK FALSE
