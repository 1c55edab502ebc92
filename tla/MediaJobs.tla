------------------------------ MODULE MediaJobs ------------------------------
(***************************************************************************)
(* The media runtime: the upload API, the job queue it fills and the       *)
(* workers that inspect, transcode and transcribe a stored upload and hand *)
(* references to the Observer.                                             *)
(*                                                                         *)
(* An upload is received by two threads: the request handler puts the      *)
(* chunks of the stream into a bounded queue and a consumer thread takes   *)
(* them out, counts them and stores them.  A worker runs the pipeline      *)
(* while another thread renews its lease.  Every repository call is one    *)
(* transaction.  The Observer is external: under one idempotency key it    *)
(* keeps the first submission and refuses a different one.                 *)
(***************************************************************************)
EXTENDS Naturals, Sequences, FiniteSets

CONSTANTS
    Uploads,      \* clients, each uploading under one request_id
    Request,      \* Uploads -> RequestIds
    RequestIds,   \* request_ids; the job id is made of it
    Bodies,       \* what a client may send
    Chunks,       \* Bodies -> number of chunks
    Declared,     \* Bodies -> the size the client declares, in chunks
    Audio,        \* the bodies whose media type is audio/...
    QueueSize,    \* maxsize of the chunk queue
    Workers,
    WorkerId,     \* Workers -> configured worker_id
    MaxAttempts,
    MaxTries,     \* bound: uploads of one client
    MaxFaults,    \* bound: broken streams, failed calls, crashes
    Null

ASSUME MediaAssumption ==
    /\ IsFiniteSet(Workers) /\ IsFiniteSet(Uploads)
    /\ Request \in [Uploads -> RequestIds]
    /\ Chunks \in [Bodies -> Nat] /\ Declared \in [Bodies -> Nat] /\ Audio \subseteq Bodies
    /\ QueueSize \in Nat \ {0} /\ MaxAttempts \in Nat \ {0}
    /\ MaxTries \in Nat /\ MaxFaults \in Nat

VARIABLES
    upload,     \* the request handler and the consumer thread of each client
    jobs,       \* local_media_jobs
    local,      \* what each worker is doing; lost by a crash
    observer,   \* external: job -> what the Observer keeps under its key
    faults

mediaVars == <<upload, jobs, local, observer, faults>>

Terminal == {"ready", "quarantined", "dead_letter"}

NoUpload == [pc |-> "idle", body |-> Null, sent |-> 0, queue |-> <<>>, done |-> FALSE,
             consumer |-> "none", got |-> 0, answer |-> Null, tries |-> 0]

NoJob == [status |-> Null, body |-> Null, attempt |-> 0, owner |-> Null,
          lapsed |-> FALSE, due |-> TRUE, ref |-> Null]

NoWork == [pc |-> "idle", job |-> Null, attempt |-> 0, outcome |-> Null, beat |-> "ok"]
Down == [NoWork EXCEPT !.pc = "down"]

\* NULL, and a job without an owner, differ from everything that is stored.
ASSUME MediaNullAssumption ==
    /\ Null \notin Bodies \cup RequestIds \cup 0..MaxAttempts
    /\ Null \notin {"accepted", "conflict", "failed", "queued", "leased", "retry"} \cup Terminal
    /\ \A w \in Workers : WorkerId[w] # Null

Fault == faults < MaxFaults /\ faults' = faults + 1

-----------------------------------------------------------------------------
(* Receiving an upload *)

\* A client starts to send; one that was not accepted may try again.
BeginUpload(u) ==
    /\ upload[u].pc = "idle" /\ upload[u].answer # "accepted" /\ upload[u].tries < MaxTries
    /\ \E b \in Bodies :
          upload' = [upload EXCEPT ![u] = [NoUpload EXCEPT !.pc = "stream", !.body = b,
                         !.consumer = "open", !.tries = upload[u].tries + 1]]
    /\ UNCHANGED <<jobs, local, observer, faults>>

\* UploadService.receive before the first chunk.
Admit(u) ==
    /\ upload[u].consumer = "open"
    /\ upload' = [upload EXCEPT ![u].consumer = "read"]
    /\ UNCHANGED <<jobs, local, observer, faults>>

\* What the consumer does when it refuses: abort, raise, consumer_finished.
Refused(u) == upload' = [upload EXCEPT ![u].consumer = "refused", ![u].done = TRUE]

\* The credential is not good, the temporary sink or the store fails.
Refuse(u) ==
    /\ upload[u].consumer \in {"open", "read", "check"} /\ Fault
    /\ Refused(u)
    /\ UNCHANGED <<jobs, local, observer>>

\* Mutant: put waits for a place in the queue even if nobody reads.
PuttingWaits(u, item, pc) ==
    /\ Len(upload[u].queue) < QueueSize
    /\ upload' = [upload EXCEPT ![u].pc = pc, ![u].queue = Append(@, item),
           ![u].sent = IF item = "chunk" THEN @ + 1 ELSE @]

\* _ChunkBridge.put returns at once when the consumer is done and waits while
\* the queue is full.
Putting(u, item, pc) ==
    /\ upload[u].done \/ Len(upload[u].queue) < QueueSize
    /\ upload' = [upload EXCEPT ![u].pc = pc,
           ![u].queue = IF upload[u].done THEN @ ELSE Append(@, item),
           ![u].sent = IF item = "chunk" THEN @ + 1 ELSE @]

\* The handler waits, without a timeout, until the client sends a chunk.
WaitsForClient(u) == upload[u].pc = "stream" /\ upload[u].sent < Chunks[upload[u].body]

Arrive(u) ==
    /\ WaitsForClient(u)
    /\ upload' = [upload EXCEPT ![u].pc = "put"]
    /\ UNCHANGED <<jobs, local, observer, faults>>

PutChunk(u) ==
    /\ upload[u].pc = "put"
    /\ Putting(u, "chunk", "look")
    /\ UNCHANGED <<jobs, local, observer, faults>>

\* consumer.done(), asked after every chunk and only then.  The task may be
\* reported as done a little later than its thread has finished.
Look(u) ==
    /\ upload[u].pc = "look"
    /\ \E pc \in {"stream", "over"} :
          /\ pc = "over" => upload[u].consumer \in {"refused", "stored"}
          /\ upload' = [upload EXCEPT ![u].pc = pc]
    /\ UNCHANGED <<jobs, local, observer, faults>>

\* The stream is over, or the consumer is and nobody needs the rest.
StreamEnds(u) ==
    /\ \/ upload[u].pc = "stream" /\ upload[u].sent = Chunks[upload[u].body]
       \/ upload[u].pc = "over"
    /\ Putting(u, "end", "wait")
    /\ UNCHANGED <<jobs, local, observer, faults>>

\* The client disconnects: the failure is passed on to the consumer ...
StreamBreaks(u) ==
    /\ upload[u].pc = "stream" /\ Fault
    /\ upload' = [upload EXCEPT ![u].pc = "broken"]
    /\ UNCHANGED <<jobs, local, observer>>

PutFailure(u) ==
    /\ upload[u].pc = "broken"
    /\ Putting(u, "failure", "wait")
    /\ UNCHANGED <<jobs, local, observer, faults>>

\* ... or the handler is cancelled, which only tells the consumer to stop.
Cancel(u) ==
    /\ upload[u].pc \notin {"idle", "cancelled"} /\ Fault
    /\ upload' = [upload EXCEPT ![u].pc = "cancelled", ![u].done = TRUE]
    /\ UNCHANGED <<jobs, local, observer>>

\* The consumer takes an item; it may do so after it was told to stop.
Take(u) ==
    /\ upload[u].consumer = "read" /\ upload[u].queue # <<>>
    /\ LET item == Head(upload[u].queue)
           rest == [upload[u] EXCEPT !.queue = Tail(@)]
       IN  upload' = [upload EXCEPT ![u] =
               CASE item = "chunk" /\ rest.got < Declared[rest.body] -> [rest EXCEPT !.got = @ + 1]
                 [] item = "end" -> [rest EXCEPT !.consumer = "check", !.done = TRUE]
                 [] OTHER -> [rest EXCEPT !.consumer = "refused", !.done = TRUE]]
    /\ UNCHANGED <<jobs, local, observer, faults>>

\* chunks() ends without an end mark once consumer_finished was called.
StopReading(u) ==
    /\ upload[u].consumer = "read" /\ upload[u].done
    /\ upload' = [upload EXCEPT ![u].consumer = "check"]
    /\ UNCHANGED <<jobs, local, observer, faults>>

\* The size is compared, the object stored and the receipt made.
Finalize(u) ==
    /\ upload[u].consumer = "check"
    /\ IF upload[u].got = Declared[upload[u].body]
       THEN upload' = [upload EXCEPT ![u].consumer = "stored"]
       ELSE Refused(u)
    /\ UNCHANGED <<jobs, local, observer, faults>>

\* submission_digest covers what was uploaded and not when.
SameSubmission(u) == jobs[Request[u]].body = upload[u].body

Answered(u, answer) == upload' = [upload EXCEPT ![u] =
    [NoUpload EXCEPT !.answer = answer, !.tries = upload[u].tries,
                     !.body = upload[u].body, !.got = upload[u].got]]

\* enqueue: a request that is known keeps its row.
Stored(u) ==
    IF jobs[Request[u]] # NoJob THEN jobs
    ELSE [jobs EXCEPT ![Request[u]] = [NoJob EXCEPT !.status = "queued", !.body = upload[u].body]]

Enqueue(u) ==
    /\ upload[u].pc = "wait" /\ upload[u].consumer = "stored"
    /\ jobs' = Stored(u)
    /\ Answered(u, IF jobs[Request[u]] = NoJob \/ SameSubmission(u)
                   THEN "accepted" ELSE "conflict")
    /\ UNCHANGED <<local, observer, faults>>

\* The job may be stored although the repository or the answer failed.
EnqueueFails(u) ==
    /\ upload[u].pc = "wait" /\ upload[u].consumer = "stored" /\ Fault
    /\ jobs' \in {jobs, Stored(u)}
    /\ Answered(u, "failed")
    /\ UNCHANGED <<local, observer>>

\* A refused upload, and one whose handler was cancelled.
EndUpload(u) ==
    /\ \/ upload[u].pc = "wait" /\ upload[u].consumer = "refused"
       \/ upload[u].pc = "cancelled" /\ upload[u].consumer \in {"refused", "stored"}
    /\ Answered(u, "failed")
    /\ UNCHANGED <<jobs, local, observer, faults>>

-----------------------------------------------------------------------------
(* The job queue *)

Due(j)     == jobs[j].status \in {"queued", "retry"} /\ jobs[j].due
Expired(j) == jobs[j].status = "leased" /\ jobs[j].lapsed

Reapable(j)  == Expired(j) /\ jobs[j].attempt >= MaxAttempts
\* Mutant: one attempt too many.
ClaimableOnceMore(j) == jobs[j].attempt <= MaxAttempts /\ (Due(j) \/ Expired(j))

Claimable(j) == jobs[j].attempt < MaxAttempts /\ (Due(j) \/ Expired(j))

Released(row, status) == [row EXCEPT !.status = status, !.owner = Null, !.lapsed = FALSE]

Reaped == [j \in RequestIds |->
    IF Reapable(j) THEN Released(jobs[j], "dead_letter") ELSE jobs[j]]

Taken(w, j) == [jobs[j] EXCEPT !.status = "leased", !.attempt = @ + 1,
                               !.owner = WorkerId[w], !.lapsed = FALSE]

\* claim: jobs whose last attempt ran out are given up first.
Claim(w) ==
    /\ local[w].pc = "idle"
    /\ \E j \in RequestIds :
          /\ Claimable(j)
          /\ jobs' = [Reaped EXCEPT ![j] = Taken(w, j)]
          /\ local' = [local EXCEPT ![w] = [NoWork EXCEPT !.pc = "inspect", !.job = j,
                                                        !.attempt = jobs[j].attempt + 1]]
    /\ UNCHANGED <<upload, observer, faults>>

ClaimNone(w) ==
    /\ local[w].pc = "idle" /\ \A j \in RequestIds : ~Claimable(j)
    /\ \E j \in RequestIds : Reapable(j)
    /\ jobs' = Reaped
    /\ UNCHANGED <<upload, local, observer, faults>>

\* The condition of heartbeat, complete and retry.  The fencing token moves
\* with the attempt.
Holds(w) ==
    LET row == jobs[local[w].job] IN
    /\ row.status = "leased" /\ ~row.lapsed
    /\ row.owner = WorkerId[w] /\ row.attempt = local[w].attempt

-----------------------------------------------------------------------------
(* The pipeline *)

Stages == {"inspect", "normalize", "transcribe"}

\* MediaPreprocessor.inspect, from what detector, archive inspector and
\* scanner say; an archive is looked into before it is scanned.
Inspections == [policy : BOOLEAN, detector : {"error", "other", "declared"},
                archive : {"none", "error", "unsafe", "safe"},
                scan : {"error", "positive", "clean"}]

Inspection(f) ==
    CASE ~f.policy \/ f.detector = "other"           -> "quarantined"
      [] f.policy /\ f.detector = "error"            -> "retry"
      [] f.detector = "declared" /\ f.policy /\ f.archive = "error"  -> "retry"
      [] f.detector = "declared" /\ f.policy /\ f.archive = "unsafe" -> "quarantined"
      [] OTHER -> [error |-> "retry", positive |-> "quarantined", clean |-> "ready"][f.scan]

\* FFmpegAdapter.normalize.
Normalizations == [valid : BOOLEAN, run : {"raises", "fails", "ok"},
                   output : {"unknown", "invalid", "valid"}]

Normalization(f) ==
    CASE ~f.valid           -> "quarantined"
      [] f.valid /\ f.run # "ok" -> "retry"
      [] OTHER -> [unknown |-> "retry", invalid |-> "quarantined", valid |-> "ready"][f.output]

\* FasterWhisperAdapter.transcribe.
Transcriptions == [valid : BOOLEAN, engine : {"raises", "invalid", "ok"},
                   store : {"raises", "invalid", "ok"}]

Transcription(f) ==
    CASE ~f.valid                                   -> "quarantined"
      [] f.valid /\ f.engine = "raises"             -> "retry"
      [] f.valid /\ f.engine = "invalid"            -> "quarantined"
      [] OTHER -> [raises |-> "retry", invalid |-> "quarantined", ok |-> "ready"][f.store]

Results(stage) ==
    CASE stage = "inspect"    -> {Inspection(f) : f \in Inspections}
      [] stage = "normalize"  -> {Normalization(f) : f \in Normalizations}
      [] stage = "transcribe" -> {Transcription(f) : f \in Transcriptions}

\* _terminal_status, _exception_status and _retry_or_dead_letter.
Outcome(w, result) ==
    IF result = "retry" /\ local[w].attempt >= MaxAttempts THEN "dead_letter" ELSE result

\* MediaPipeline.run: the stage that follows a good one, or Null.
Following(w) ==
    CASE local[w].pc = "inspect" /\ jobs[local[w].job].body \in Audio -> "normalize"
      [] local[w].pc = "normalize" -> "transcribe"
      [] OTHER -> Null

\* A stage that is not ready ends the pipeline.
Stage(w) ==
    /\ local[w].pc \in Stages
    /\ \E result \in Results(local[w].pc) :
          local' = [local EXCEPT ![w] =
              IF result = "ready" /\ Following(w) # Null
              THEN [@ EXCEPT !.pc = Following(w)]
              ELSE [@ EXCEPT !.pc = "joined", !.outcome = Outcome(w, result)]]
    /\ UNCHANGED <<upload, jobs, observer, faults>>

\* path_resolver.resolve or the pipeline itself raises.
StageRaises(w) ==
    /\ local[w].pc \in Stages /\ Fault
    /\ local' = [local EXCEPT ![w].pc = "retry"]
    /\ UNCHANGED <<upload, jobs, observer>>

\* The heartbeat thread.  It stops at its first failure, which is kept until
\* the pipeline returns.
Heartbeat(w) ==
    /\ local[w].pc \in Stages /\ local[w].beat = "ok" /\ ~Holds(w)
    /\ local' = [local EXCEPT ![w].beat = "lost"]
    /\ UNCHANGED <<upload, jobs, observer, faults>>

HeartbeatFails(w) ==
    /\ local[w].pc \in Stages /\ local[w].beat = "ok" /\ Fault
    /\ local' = [local EXCEPT ![w].beat = "error"]
    /\ UNCHANGED <<upload, jobs, observer>>

\* _record_outcome: what to do next with which outcome.
Recorded(w) ==
    CASE local[w].beat = "error" \/ local[w].outcome = "retry" -> "retry"
      [] local[w].outcome = "ready" /\ local[w].beat = "ok"    -> "publish"
      [] OTHER -> "complete"

Join(w) ==
    /\ local[w].pc = "joined"
    /\ local' = [local EXCEPT ![w] = IF local[w].beat = "lost" THEN NoWork
                                     ELSE [@ EXCEPT !.pc = Recorded(w), !.beat = "ok"]]
    /\ UNCHANGED <<upload, jobs, observer, faults>>

\* proof_for: without the proof of the artifacts a transcript is quarantined.
Unproven(w) ==
    /\ local[w].pc = "publish" /\ jobs[local[w].job].body \in Audio
    /\ local' = [local EXCEPT ![w].pc = "complete", ![w].outcome = "quarantined"]
    /\ UNCHANGED <<upload, jobs, observer, faults>>

\* A transcript gets a new id in every attempt, a manifest follows from the
\* stored receipt.
Reference(w) == IF jobs[local[w].job].body \in Audio THEN local[w].attempt ELSE 0

\* The Observer takes the submission, or has taken the same one before.
Taking(w) == observer[local[w].job] \in {Null, Reference(w)}

\* Mutant: a submission the Observer refuses counts as made.
PublishBlind(w) ==
    /\ local[w].pc = "publish"
    /\ observer' = [observer EXCEPT ![local[w].job] = IF @ = Null THEN Reference(w) ELSE @]
    /\ local' = [local EXCEPT ![w].pc = "complete"]
    /\ UNCHANGED <<upload, jobs, faults>>

\* ObserverBridge.publish and publish_media_evidence.
Publish(w) ==
    /\ local[w].pc = "publish"
    /\ IF Taking(w)
       THEN /\ observer' = [observer EXCEPT ![local[w].job] = Reference(w)]
            /\ local' = [local EXCEPT ![w].pc = "complete"]
       ELSE local' = [local EXCEPT ![w].pc = "retry"] /\ UNCHANGED observer
    /\ UNCHANGED <<upload, jobs, faults>>

\* The Observer is not there, or its answer is lost.
PublishFails(w) ==
    /\ local[w].pc = "publish" /\ Fault
    /\ observer' \in {observer, IF Taking(w) THEN [observer EXCEPT ![local[w].job] = Reference(w)]
                                ELSE observer}
    /\ local' = [local EXCEPT ![w].pc = "retry"]
    /\ UNCHANGED <<upload, jobs>>

Leave(w) == local' = [local EXCEPT ![w] = NoWork]

Complete(w) ==
    /\ local[w].pc = "complete"
    /\ jobs' = IF ~Holds(w) THEN jobs
               ELSE [jobs EXCEPT ![local[w].job] =
                        [Released(@, local[w].outcome) EXCEPT
                            !.ref = IF local[w].outcome = "ready" THEN Reference(w) ELSE Null]]
    /\ Leave(w)
    /\ UNCHANGED <<upload, observer, faults>>

\* The database raises: run_once goes on with _retry.
CompleteFails(w) ==
    /\ local[w].pc = "complete" /\ Fault
    /\ local' = [local EXCEPT ![w].pc = "retry"]
    /\ UNCHANGED <<upload, jobs, observer>>

\* The row after a failed attempt.
Retried(row) == IF row.attempt < MaxAttempts
                THEN [Released(row, "retry") EXCEPT !.due = FALSE]
                ELSE Released(row, "dead_letter")

Retry(w) ==
    /\ local[w].pc = "retry"
    /\ jobs' = IF Holds(w) THEN [jobs EXCEPT ![local[w].job] = Retried(@)] ELSE jobs
    /\ Leave(w)
    /\ UNCHANGED <<upload, observer, faults>>

Crash(w) ==
    /\ local[w].pc # "down" /\ Fault
    /\ local' = [local EXCEPT ![w] = Down]
    /\ UNCHANGED <<upload, jobs, observer>>

Restart(w) ==
    /\ local[w].pc = "down"
    /\ Leave(w)
    /\ UNCHANGED <<upload, jobs, observer, faults>>

\* The heartbeat thread of a worker goes on as long as the pipeline runs.
Renewed(j) == \E w \in Workers :
    local[w].job = j /\ local[w].pc \in Stages /\ local[w].beat = "ok" /\ Holds(w)

\* A lease runs out, if no heartbeat comes or if one comes too late.
Lapse(j) ==
    /\ jobs[j].status = "leased" /\ ~jobs[j].lapsed
    /\ jobs' = [jobs EXCEPT ![j].lapsed = TRUE]
    /\ UNCHANGED <<upload, local, observer, faults>>

BecomesDue(j) ==
    /\ ~jobs[j].due
    /\ jobs' = [jobs EXCEPT ![j].due = TRUE]
    /\ UNCHANGED <<upload, local, observer, faults>>

-----------------------------------------------------------------------------
MediaInit ==
    /\ upload = [u \in Uploads |-> NoUpload]
    /\ jobs = [j \in RequestIds |-> NoJob]
    /\ local = [w \in Workers |-> NoWork]
    /\ observer = [j \in RequestIds |-> Null]
    /\ faults = 0

\* What the server does by itself, and what it waits for others to do.
Handle(u)  == \/ PutChunk(u) \/ Look(u) \/ StreamEnds(u) \/ PutFailure(u)
              \/ Enqueue(u) \/ EndUpload(u)
Consume(u) == Admit(u) \/ Take(u) \/ StopReading(u) \/ Finalize(u)
Client(u)  == BeginUpload(u) \/ Arrive(u) \/ StreamBreaks(u)

Run(w) == \/ Claim(w) \/ ClaimNone(w) \/ Join(w) \/ Unproven(w)
          \/ Publish(w) \/ Complete(w) \/ Retry(w) \/ Restart(w)

MediaNext ==
    \/ \E u \in Uploads : \/ Client(u) \/ Refuse(u) \/ Cancel(u) \/ EnqueueFails(u)
                          \/ Handle(u) \/ Consume(u)
    \/ \E w \in Workers : \/ Run(w) \/ Stage(w) \/ Heartbeat(w) \/ StageRaises(w)
                          \/ HeartbeatFails(w) \/ PublishFails(w) \/ CompleteFails(w) \/ Crash(w)
    \/ \E j \in RequestIds : Lapse(j) \/ BecomesDue(j)

MediaSpec == MediaInit /\ [][MediaNext]_mediaVars

\* Both threads of an upload and the workers go on, delays run out, and so does
\* a lease that nobody renews.  Nothing makes a client send, and nothing makes
\* detector, scanner or speech engine return.
MediaFairSpec ==
    /\ MediaSpec
    /\ \A u \in Uploads : WF_mediaVars(Handle(u)) /\ WF_mediaVars(Consume(u))
    /\ \A w \in Workers : WF_mediaVars(Run(w))
    /\ \A j \in RequestIds : /\ WF_mediaVars(Lapse(j) /\ ~Renewed(j))
                             /\ WF_mediaVars(BecomesDue(j))
-----------------------------------------------------------------------------
(* Properties *)

\* The variables have their types; the queue and the attempts keep their
\* limits and a job has an owner exactly while it is leased.
MediaTypeOK ==
    /\ \A u \in Uploads :
          /\ upload[u].pc \in {"idle", "stream", "put", "look", "over", "broken", "wait", "cancelled"}
          /\ upload[u].consumer \in {"none", "open", "read", "check", "stored", "refused"}
          /\ upload[u].body \in Bodies \cup {Null}
          /\ upload[u].queue \in Seq({"chunk", "end", "failure"})
          /\ Len(upload[u].queue) <= QueueSize
          /\ upload[u].answer \in {Null, "accepted", "conflict", "failed"}
          /\ upload[u].tries \in 0..MaxTries
    /\ \A j \in RequestIds :
          /\ jobs[j].status \in {Null, "queued", "leased", "retry"} \cup Terminal
          /\ jobs[j].attempt \in 0..MaxAttempts
          /\ jobs[j].ref \in {Null} \cup 0..MaxAttempts
          /\ (jobs[j].owner # Null) <=> (jobs[j].status = "leased")
          /\ jobs[j].lapsed => jobs[j].status = "leased"
    /\ \A w \in Workers :
          /\ local[w].pc \in Stages \cup {"idle", "down", "joined", "publish", "complete", "retry"}
          /\ local[w].attempt \in 0..MaxAttempts
    /\ observer \in [RequestIds -> {Null} \cup 0..MaxAttempts]
    /\ faults \in 0..MaxFaults

\* An upload that was answered with 202 is the upload its job will process,
\* every byte of it, however often the client tried and whatever broke.
AcceptedIsWhole ==
    \A u \in Uploads : upload[u].answer = "accepted" =>
        /\ jobs[Request[u]].body = upload[u].body
        /\ upload[u].got = Chunks[upload[u].body]

\* A job says ready only with the reference that the Observer has for it,
\* although the hand-over is not fenced and may be done by two attempts.
ReadyIsPublished ==
    \A j \in RequestIds : jobs[j].status = "ready" =>
        jobs[j].ref # Null /\ jobs[j].ref = observer[j]

\* What the media runtime tells anybody is true: "accepted" to the client of an
\* upload, "ready" to the reader of a job.
AnswersTrue == AcceptedIsWhole /\ ReadyIsPublished

\* Handler and consumer never wait for each other for ever: an upload that was
\* begun is answered, or ends with its handler, unless its client stops sending
\* in the middle (nothing limits the wait of _receive_stream, api.py:268).
EveryUploadEnds == \A u \in Uploads :
    []<>~WaitsForClient(u) => ((upload[u].pc # "idle") ~> (upload[u].pc = "idle"))

\* Every job ends ready, quarantined or dead-lettered, whatever crashes, unless
\* a stage never returns: transcribe has no timeout (speech.py:205), and as long
\* as it runs renew keeps its lease alive (worker.py:60-67).
EveryJobSettles ==
    (\A w \in Workers : []<>(local[w].pc \notin Stages)) =>
        \A j \in RequestIds : (jobs[j] # NoJob) ~> (jobs[j].status \in Terminal)

\* Nobody waits for ever on the server's account: neither the client of an
\* upload nor that of a job.
EverythingSettles == EveryUploadEnds /\ EveryJobSettles
=============================================================================
