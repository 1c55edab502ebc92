\* Two workers, a mail and a webhook delivery; the mail has one attempt, the
\* delivery two, and two more after a replay.
SPECIFICATION DeliveryFairSpec
CONSTANTS
    w1 = w1  w2 = w2  mail = mail  hook = hook
    m1 = m1  m2 = m2  m3 = m3  h1 = h1  x = x  y = y
    Workers = {w1, w2}
    Deliveries = {hook, mail}
    Channel <- MCChannel
    Contents <- MCContents
    Carries <- MCCarries
    Defect <- MCDefect
    MaxAttempts <- MCMaxAttempts
    LastGen <- MCLastGen
    Null = Null
INVARIANTS DeliveryTypeOK NothingLost
PROPERTIES EveryDeliverySettles
CHECK_DEADLOCK FALSE
