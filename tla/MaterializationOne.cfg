\* One observation to record in two attempts, two workers that share a worker_id
\* and read old clocks, a subject that is moved from one team to another and back.
SPECIFICATION FairSpec
CONSTANTS
    w1 = w1
    w2 = w2
    c1 = c1
    c2 = c2
    d1 = d1
    t1 = t1
    t2 = t2
    None = None
    Mats = {1}
    Kind <- AllObservations
    Target <- SameTarget
    Docs = {}
    Readable = {1}
    Contexts = {c1, c2}
    Team <- MCTeam
    Workers = {w1, w2}
    WorkerId <- SharedId
    MaxAttempts = 2
    Lease = 2
    RetryDelay = 1
    MaxLag = 1
    MaxRevision = 1
INVARIANTS
    TypeOK
    EffectExact
PROPERTIES
    TriggerAccepts
    KeepsPromise
    EveryRowSettles
