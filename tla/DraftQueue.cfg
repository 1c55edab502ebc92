\* Two workers and two drafts, one of which no worker can read; three attempts,
\* so that a takeover, a late answer and a last attempt occur.
SPECIFICATION FairSpec
CONSTANTS
    d1 = d1  d2 = d2  w1 = w1  w2 = w2
    Drafts = {d1, d2}
    Workers = {w1, w2}
    MaxAttempts = 3
    Unreadable = {d2}
    None = None
INVARIANTS TypeOK
PROPERTIES KeepsPromise EveryDraftSettles
CHECK_DEADLOCK FALSE
