\* A worker and a client of the claim/start/succeed protocol share two tasks.
SPECIFICATION Spec
CONSTANTS
    w1 = w1
    w2 = w2
    c1 = c1
    None = None
    Workers = {w1}
    Clients = {c1}
    Submissions <- MixedTasks
    WorkerId <- SharedId
    Outputs = {"o1"}
    Failures = {"invalid_output"}
    Lease = 2
    RetryDelay = 1
    MaxLag = 0
    MaxBeats = 1
INVARIANTS
    RecordsAgree
