\* Two pollers that fetch one mail at a time from a folder of two, the first
\* of which is older than the connector; a pause and a resume; one fault.
SPECIFICATION FairSpec
CONSTANTS
    p1 = p1  p2 = p2  c1 = c1  c2 = c2
    Pollers = {p1, p2}
    Limit = 1
    Early = {1}
    Huge = {}
    Initial = None
    LastUid = 2
    LastEpoch = 2
    MaxFaults = 1
    Commands = {c1, c2}
    Operation <- MCOperation
    Expected <- MCExpected
    None = None
INVARIANTS TypeOK CommandsInOrder
PROPERTIES CursorSound EveryMailArrives
CHECK_DEADLOCK FALSE
