\* Two requests, a limit that holds two worst cases and no third, a month with
\* spending before the reservations followed by one whose cost is unknown.
SPECIFICATION Spec
CONSTANTS
    r1 = r1
    r2 = r2
    Unknown = Unknown
    Requests = {r1, r2}
    Limit = 6
    Worst = 1
    MaxNetwork = 2
    LastMonth = 2
    Prior <- SomePrior
SYMMETRY
    Alike
CHECK_DEADLOCK FALSE
INVARIANTS
    TypeOK
    BillWithinLimit
    SpendCovered
    NeverBlocksItself
