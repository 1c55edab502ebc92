\* One observation, two workers that share a worker_id, two possible answers, two
\* attempts with up to two heartbeats each.
SPECIFICATION FairSpec
CONSTANTS
    w1 = w1
    w2 = w2
    x1 = x1
    x2 = x2
    None = None
    Observations = {1}
    Texts = {x1, x2}
    Workers = {w1, w2}
    WorkerId <- SharedId
    MaxAttempts = 2
    Lease = 2
    RetryDelay = 1
    MaxLag = 1
    MaxBeats = 2
INVARIANTS
    TypeOK
    OutcomesAgree
PROPERTIES
    LeaseMovedByHolder
    EveryRowTried
