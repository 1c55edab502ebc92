\* Two workers that share a worker_id compete for one task.
SPECIFICATION FairSpec
CONSTANTS
    w1 = w1
    w2 = w2
    c1 = c1
    None = None
    Workers = {w1, w2}
    Clients = {}
    Submissions <- OneTask
    WorkerId <- SharedId
    Outputs = {"o1", "o2"}
    Failures = {"invalid_output"}
    Lease = 2
    RetryDelay = 1
    MaxLag = 1
    MaxBeats = 1
INVARIANTS
    TypeOK
    ProposalFenced
    NothingTwice
PROPERTIES
    LeaseRules
    EveryTaskSettles
