\* Imports, publication with failures and restarts, concurrent confirmations.
CONSTANTS
    k1 = k1  k2 = k2  c1 = c1  c2 = c2
    e1 = e1  e2 = e2  p1 = p1  p2 = p2  p3 = p3  n1 = n1  s1 = s1  s2 = s2
    None = None
    Requests <- MCRequests
    OccurredAt <- MCOccurredAt
    DedupKey <- MCDedupKey
    Window = 1
    EvidenceOf <- MCEvidenceOf
    FactsOf <- MCFactsOf
    EntitiesOf <- MCEntitiesOf
    Uses <- MCUses
    Subject <- MCSubject
    Handlers = {h1}
    Operators = {o1, o2}
    DecisionIds = {d1, d2}
    FactIds = {f1}
    ConflictIds = {x1}
    MaxFaults = 1
SPECIFICATION Spec
SYMMETRY MCSymmetry
INVARIANTS TypeOK RetryAgrees FactChain
PROPERTY ContextStable
CHECK_DEADLOCK FALSE
