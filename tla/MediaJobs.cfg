\* A client uploads a file, an audio or more than it declared, once or twice,
\* under one request_id;
\* two workers under one worker_id give the job two attempts.
SPECIFICATION MediaFairSpec
CONSTANTS
    u1 = u1  r1 = r1  b1 = b1  b2 = b2  b3 = b3  w1 = w1  w2 = w2
    Uploads = {u1}
    Request <- MCRequest
    RequestIds = {r1}
    Bodies = {b1, b2, b3}
    Chunks <- MCChunks
    Declared <- MCDeclared
    Audio = {b2}
    QueueSize = 1
    Workers = {w1, w2}
    WorkerId <- MCWorkerId
    MaxAttempts = 2
    MaxTries = 2
    MaxFaults = 1
    Null = Null
INVARIANTS MediaTypeOK AnswersTrue
PROPERTIES EverythingSettles
CHECK_DEADLOCK FALSE
