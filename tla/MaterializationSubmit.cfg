\* Two proposals submit one draft, which people change, submit and make an AI draft
\* again meanwhile; the bundle of a third proposal cannot be loaded.
SPECIFICATION Spec
CONSTANTS
    w1 = w1
    w2 = w2
    c1 = c1
    c2 = c2
    d1 = d1
    t1 = t1
    t2 = t2
    None = None
    Mats = {1, 2, 3}
    Kind <- AllSubmissions
    Target <- SameTarget
    Docs = {d1}
    Readable = {1, 2}
    Contexts = {c1}
    Team <- OneTeam
    Workers = {w1, w2}
    WorkerId <- SharedId
    MaxAttempts = 1
    Lease = 1
    RetryDelay = 1
    MaxLag = 0
    MaxRevision = 3
SYMMETRY
    WorkersAlike
PROPERTIES
    OneSubmissionPerDraft
