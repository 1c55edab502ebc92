---------------------------- MODULE DeliveryJobs -----------------------------
(***************************************************************************)
(* The way of a connector delivery from the provider into the Observer.    *)
(* A webhook request or a poller accepts the exact bytes (DurableInbox), a *)
(* processing job is queued with it in one transaction, and                *)
(* ObserverConnectorWorkers claim the job, decode and normalize the bytes, *)
(* store the observation events and complete the job.  A person may replay *)
(* a failed delivery: that queues a further job, of the next generation.   *)
(*                                                                         *)
(* Every method of PostgresLocalPilotStorage is one transaction and one    *)
(* action here; a worker can die between two of them.  The replicas of the *)
(* worker run under one worker_id, so that only the attempt tells two      *)
(* holders of a job apart.  lease_generation is increased by the claim     *)
(* only, together with attempt_count: one number stands for both.  Time    *)
(* is what it makes possible: leases, waits and nonces run out at some     *)
(* time, and clocks agree.                                                 *)
(***************************************************************************)
EXTENDS Naturals, FiniteSets

CONSTANTS
    Workers,      \* processes running run_worker_daemon
    Deliveries,   \* delivery ids of one connector instance per channel
    Channel,      \* Deliveries -> connector
    Contents,     \* Deliveries -> the bodies a sender may present under the id
    Carries,      \* body -> the provider event ids of its messages
    Defect,       \* body -> what is wrong with it, or "none"
    MaxAttempts,  \* Deliveries -> max_attempts of its jobs
    LastGen,      \* Deliveries -> bound: how often it is replayed
    Null

Bodies == UNION {Contents[d] : d \in Deliveries}

\* EmailRawDeliveryDecoder: a mail is one item, named after its delivery.
EmailItem(d) == {d}

\* decode_delivery: a message that a payload repeats is taken once; a payload
\* with nothing but statuses has no items.
WhatsAppItems(b) == Carries[b]

Items(d, b) == IF Channel[d] = "email" THEN EmailItem(d) ELSE WhatsAppItems(b)

Events == UNION {UNION {Items(d, b) : b \in Contents[d]} : d \in Deliveries}

\* A job is named by its delivery and its generation.
Gens(d) == 0..LastGen[d]
Jobs == UNION {{d} \X Gens(d) : d \in Deliveries}

ASSUME DeliveryAssumption ==
    /\ IsFiniteSet(Deliveries) /\ IsFiniteSet(Workers)
    /\ MaxAttempts \in [Deliveries -> Nat \ {0}]
    /\ LastGen \in [Deliveries -> Nat]
    /\ Null \notin Bodies \cup Jobs \cup Deliveries

VARIABLES
    deliveries,  \* inbound_deliveries: status and body
    nonces,      \* persistent_nonces of the authenticated channel
    jobs,        \* processing_jobs, by delivery and generation
    events,      \* observation_events with outbox row: the job that stored it
    links,       \* inbound_delivery_events: event -> delivery
    letters,     \* local_pilot_dead_letter: <<job, attempt>>
    held,        \* local_pilot_quarantine: <<job, attempt>>
    paused,      \* connector_instances.status = 'paused'
    working,     \* what each worker is doing; lost by a crash
    acked        \* the bodies whose sender was told that they are accepted

deliveryVars == <<deliveries, nonces, jobs, events, links, letters, held, paused,
                  working, acked>>

tables == <<events, links, letters, held>>

NoDelivery == [status |-> "absent", body |-> Null]
NoJob      == [status |-> "absent", attempt |-> 0, timeup |-> FALSE]
NoWork     == [pc |-> "idle", job |-> Null, attempt |-> 0]

Stored(d) == deliveries[d].status # "absent"

\* The generation replay_delivery gives to the next job.
NextGen(d) == Cardinality({g \in Gens(d) : jobs[<<d, g>>].status # "absent"})

-----------------------------------------------------------------------------
(* Acceptance *)

\* _accept_inbound_delivery: a known id must come with the body it has.
SameBody(d, b) == ~Stored(d) \/ deliveries[d].body = b

AcceptDelivery(d, b) ==
    deliveries' = [deliveries EXCEPT ![d] =
        IF Stored(d) THEN @ ELSE [status |-> "queued", body |-> b]]

\* _enqueue_processing_job: the key of the delivery names one job.
EnqueueJob(j) ==
    jobs' = [jobs EXCEPT ![j] =
        IF @.status = "absent" THEN [NoJob EXCEPT !.status = "queued"] ELSE @]

Acknowledge(d, b) == acked' = acked \cup {<<d, b>>}

\* DurableDeliveryInbox.accept: the bytes go to the evidence store, which names
\* them by their digest, before delivery and job become rows.
Inbox(d, b) ==
    /\ SameBody(d, b)
    /\ AcceptDelivery(d, b) /\ EnqueueJob(<<d, 0>>)
    /\ Acknowledge(d, b)

\* A poller offers a delivery.  The answer, or the DeliveryConflict, may be
\* lost: the poller comes back with the same body.
AcceptPolled(d, b) ==
    /\ Channel[d] # "whatsapp"
    /\ Inbox(d, b)
    /\ UNCHANGED <<nonces, tables, paused, working>>

\* The authenticator derives delivery id and nonce from the signed bytes.
Authenticated(d, b) == Channel[d] = "whatsapp" /\ b \in Contents[d]

\* accept_authenticated_delivery with a new nonce: answered 200.
AcceptFirst(d, b) ==
    /\ Authenticated(d, b)
    /\ nonces[d] = "unused"
    /\ nonces' = [nonces EXCEPT ![d] = "live"]
    /\ Inbox(d, b)
    /\ UNCHANGED <<tables, paused, working>>

\* The provider repeats a request while the nonce lives: answered 200,
\* duplicate, if the job is there.
AcceptDuplicate(d, b) ==
    /\ Authenticated(d, b)
    /\ nonces[d] = "live" /\ jobs[<<d, 0>>].status # "absent" /\ SameBody(d, b)
    /\ AcceptDelivery(d, b)
    /\ Acknowledge(d, b)
    /\ UNCHANGED <<nonces, jobs, tables, paused, working>>

\* 300 s after the first request a repetition is answered 408.
NonceExpires(d) ==
    /\ nonces[d] = "live"
    /\ nonces' = [nonces EXCEPT ![d] = "expired"]
    /\ UNCHANGED <<deliveries, jobs, tables, paused, working, acked>>

-----------------------------------------------------------------------------
(* The worker *)

\* Mutant: claimed once more than max_attempts.
ClaimableOnceMore(j) ==
    /\ ~paused
    /\ jobs[j].attempt <= MaxAttempts[j[1]]
    /\ \/ jobs[j].status = "queued"
       \/ jobs[j].status \in {"retry_wait", "processing"} /\ jobs[j].timeup

\* Mutant: a lease that ran out is not taken over.
ClaimableWaiting(j) ==
    /\ ~paused
    /\ jobs[j].attempt < MaxAttempts[j[1]]
    /\ \/ jobs[j].status = "queued"
       \/ jobs[j].status = "retry_wait" /\ jobs[j].timeup

\* claim_processing_job, the WHERE clause.
Claimable(j) ==
    /\ ~paused
    /\ jobs[j].attempt < MaxAttempts[j[1]]
    /\ \/ jobs[j].status = "queued"
       \/ jobs[j].status \in {"retry_wait", "processing"} /\ jobs[j].timeup

\* What the claim writes to the delivery.
StartDelivery(d) ==
    deliveries' = [deliveries EXCEPT ![d].status =
        IF @ \in {"queued", "processing"} THEN "processing" ELSE @]

\* SKIP LOCKED and the order by due time let any due job be the one.
Claim(w, j) ==
    /\ working[w].pc = "idle" /\ Claimable(j)
    /\ jobs' = [jobs EXCEPT ![j] =
           [status |-> "processing", attempt |-> @.attempt + 1, timeup |-> FALSE]]
    /\ StartDelivery(j[1])
    /\ working' = [working EXCEPT ![w] =
           [pc |-> IF Channel[j[1]] = "unsupported" THEN "reject" ELSE "claimed",
            job |-> j, attempt |-> jobs[j].attempt + 1]]
    /\ UNCHANGED <<nonces, tables, paused, acked>>

\* The fence of every lease transition: the row is this worker's attempt ...
Owns(w) == LET j == working[w].job IN
    /\ jobs[j].status = "processing"
    /\ jobs[j].attempt = working[w].attempt

\* ... and its lease has not run out.
Holds(w) == Owns(w) /\ ~jobs[working[w].job].timeup

GoOn(w, pc) == working' = [working EXCEPT ![w].pc = pc]

Body(w) == deliveries[working[w].job[1]].body

WorkerItems(w) == Items(working[w].job[1], Body(w))

\* LocalEvidenceStore.read and _verify_content.
Intact(b) == Defect[b] # "evidence"

\* JSON without duplicate keys, and an envelope of the known shape.
WhatsAppEnvelope(b) == Defect[b] \notin {"json", "envelope"}

\* Every message has an id, a time and the fields of its type.
WhatsAppMessages(b) == Defect[b] # "message"

\* Headers and MIME parts within the limits, a body that decodes to text.
EmailReadable(b) == Defect[b] \notin {"headers", "parts", "text"}

\* The decoder takes the bytes, _validate_items the items.
Decodes(d, b) == IF Channel[d] = "email" THEN EmailReadable(b)
                 ELSE WhatsAppEnvelope(b) /\ WhatsAppMessages(b)

\* The normalizer finds participants and evidence in every item.
WhatsAppNormalizes(b) == Defect[b] # "participants"

EmailNormalizes(b) == Defect[b] # "artifact"

Normalizes(d, b) ==
    IF Channel[d] = "email" THEN EmailNormalizes(b) ELSE WhatsAppNormalizes(b)

\* The bytes the worker holds become a batch for the sink.
Usable(w) == LET d == working[w].job[1] IN
    Decodes(d, Body(w)) /\ Normalizes(d, Body(w))

\* _verify_content passes and the heartbeat renews the lease.
Heartbeat(w) ==
    /\ working[w].pc = "claimed" /\ Intact(Body(w)) /\ Holds(w)
    /\ GoOn(w, "decode")
    /\ UNCHANGED <<deliveries, nonces, jobs, tables, paused, acked>>

\* DeliveryIntegrityError, DeliveryQuarantine, NormalizationRejected.
Reject(w) ==
    /\ \/ working[w].pc = "claimed" /\ ~Intact(Body(w))
       \/ working[w].pc = "decode" /\ ~Usable(w)
    /\ GoOn(w, "reject")
    /\ UNCHANGED <<deliveries, nonces, jobs, tables, paused, acked>>

\* Any other exception: a file system or database error, unusable routing, a
\* batch that the sink or the storage refuses.
Stumble(w) ==
    /\ working[w].pc \in {"claimed", "decode"}
    /\ GoOn(w, "retry")
    /\ UNCHANGED <<deliveries, nonces, jobs, tables, paused, acked>>

\* The digest of a stored event covers ingested_at, which is the time the job
\* was created, and the evidence of the delivery: only the job that stored an
\* event can present it again.
Conflicts(w) ==
    \E x \in WorkerItems(w) : events[x] \notin {Null, working[w].job}

\* _materialize_content: text and attachments of the items are put into the
\* evidence store, which leaves references.
Materializes(b) == Defect[b] # "transient"

\* _validate_normalized_batch: policy fields, counts, locators and roles.
ValidBatch(b) == Defect[b] # "batch"

\* The lease may have run out, but nobody else may have taken the job.
Ready(w) ==
    /\ working[w].pc = "decode" /\ Usable(w)
    /\ Materializes(Body(w)) /\ ValidBatch(Body(w))
    /\ WorkerItems(w) = {} \/
          (Owns(w) /\ deliveries[working[w].job[1]].status = "processing")

\* The new events with participants, evidence and outbox row; an event that
\* this job stored before is left as it is.
Inserted(w) == [x \in Events |->
    IF x \in WorkerItems(w) THEN working[w].job ELSE events[x]]

\* Mutant: each event is stored on its own.
PersistOneByOne(w) ==
    /\ Ready(w) /\ ~Conflicts(w)
    /\ \E x \in WorkerItems(w) : events' = [events EXCEPT ![x] = working[w].job]
    /\ GoOn(w, "persisted")
    /\ UNCHANGED <<deliveries, nonces, jobs, links, letters, held, paused, acked>>

\* persist_normalized_batch: all events of the delivery or none.
Persist(w) ==
    /\ Ready(w) /\ ~Conflicts(w)
    /\ events' = Inserted(w)
    /\ GoOn(w, "persisted")
    /\ UNCHANGED <<deliveries, nonces, jobs, links, letters, held, paused, acked>>

\* NormalizedBatchConflict: a stored event has another digest.
PersistConflict(w) ==
    /\ Ready(w) /\ Conflicts(w)
    /\ GoOn(w, "reject")
    /\ UNCHANGED <<deliveries, nonces, jobs, tables, paused, acked>>

\* _mark_delivery_terminal and the delivery update of the completion.
EndDelivery(d, status) ==
    deliveries' = [deliveries EXCEPT ![d].status =
        IF @ = "processing" THEN status ELSE @]

EndJob(w, status) ==
    jobs' = [jobs EXCEPT ![working[w].job].status = status,
                         ![working[w].job].timeup = FALSE]

\* complete_processing_job: links of events that have none, then the rows.
Complete(w) ==
    /\ working[w].pc = "persisted" /\ Holds(w)
    /\ links' = [x \in Events |->
                    IF x \in WorkerItems(w) /\ links[x] = Null
                    THEN working[w].job[1] ELSE links[x]]
    /\ EndDelivery(working[w].job[1], "succeeded")
    /\ EndJob(w, "succeeded")
    /\ working' = [working EXCEPT ![w] = NoWork]
    /\ UNCHANGED <<nonces, events, letters, held, paused, acked>>

Exhausted(w) == working[w].attempt >= MaxAttempts[working[w].job[1]]

\* _record_dead_letter.
RecordDeadLetter(w) == letters' = letters \cup {<<working[w].job, working[w].attempt>>}

\* retry_processing_job: wait, or dead letter and a failed delivery.
Retry(w) ==
    /\ working[w].pc = "retry" /\ Holds(w)
    /\ IF Exhausted(w)
       THEN /\ EndJob(w, "dead_letter")
            /\ EndDelivery(working[w].job[1], "failed")
            /\ RecordDeadLetter(w)
       ELSE EndJob(w, "retry_wait") /\ UNCHANGED <<deliveries, letters>>
    /\ working' = [working EXCEPT ![w] = NoWork]
    /\ UNCHANGED <<nonces, events, links, held, paused, acked>>

\* quarantine_processing_job.
Quarantine(w) ==
    /\ working[w].pc = "reject" /\ Holds(w)
    /\ EndJob(w, "quarantined")
    /\ EndDelivery(working[w].job[1], "quarantined")
    /\ held' = held \cup {<<working[w].job, working[w].attempt>>}
    /\ working' = [working EXCEPT ![w] = NoWork]
    /\ UNCHANGED <<nonces, events, links, letters, paused, acked>>

\* The process ends anywhere, of itself after a JobConflict (a refused
\* heartbeat, batch or transition); compose starts it again.
WorkerDies(w) ==
    /\ working[w].pc # "idle"
    /\ working' = [working EXCEPT ![w] = NoWork]
    /\ UNCHANGED <<deliveries, nonces, jobs, tables, paused, acked>>

-----------------------------------------------------------------------------
(* The operator and time *)

\* replay_delivery: only a failed delivery gets a further job.
Replayable(d) ==
    /\ deliveries[d].status = "failed"
    /\ NextGen(d) \in Gens(d)

\* The SELECT of replay_failed: failed deliveries of the instance.  The replay
\* window, the limit and SKIP LOCKED leave out any of them.
Selected(c) ==
    SUBSET {d \in Deliveries : Channel[d] = c /\ Replayable(d)} \ {{}}

\* replay_failed, under an idempotency key and a revision that are new.
ReplayFailed(c) ==
    /\ \E S \in Selected(c) :
          /\ deliveries' = [d \in Deliveries |->
                 IF d \in S THEN [deliveries[d] EXCEPT !.status = "queued"]
                 ELSE deliveries[d]]
          /\ jobs' = [j \in Jobs |->
                 IF j[1] \in S /\ j[2] = NextGen(j[1])
                 THEN [NoJob EXCEPT !.status = "queued"] ELSE jobs[j]]
    /\ UNCHANGED <<nonces, tables, paused, working, acked>>

\* mutate_status of the control service.
SetPaused ==
    /\ paused' = ~paused
    /\ UNCHANGED <<deliveries, nonces, jobs, tables, working, acked>>

\* lease_expires_at or next_retry_at of a job passes.
TimeUp(j) ==
    /\ jobs[j].status \in {"processing", "retry_wait"} /\ ~jobs[j].timeup
    /\ jobs' = [jobs EXCEPT ![j].timeup = TRUE]
    /\ UNCHANGED <<deliveries, nonces, tables, paused, working, acked>>

DeliveryInit ==
    /\ deliveries = [d \in Deliveries |-> NoDelivery]
    /\ nonces = [d \in Deliveries |-> "unused"]
    /\ jobs = [j \in Jobs |-> NoJob]
    /\ events = [x \in Events |-> Null]
    /\ links = [x \in Events |-> Null]
    /\ letters = {} /\ held = {}
    /\ paused = FALSE
    /\ working = [w \in Workers |-> NoWork]
    /\ acked = {}

\* DurableDeliveryInbox.accept_authenticated.
AcceptAuthenticated(d, b) == AcceptFirst(d, b) \/ AcceptDuplicate(d, b)

Receive(d) ==
    \/ \E b \in Contents[d] : AcceptPolled(d, b) \/ AcceptAuthenticated(d, b)
    \/ NonceExpires(d)

\* One run_once of a worker, step by step.
Work(w) ==
    \/ \E j \in Jobs : Claim(w, j)
    \/ Heartbeat(w) \/ Reject(w) \/ Stumble(w)
    \/ Persist(w) \/ PersistConflict(w)
    \/ Complete(w) \/ Retry(w) \/ Quarantine(w)

DeliveryNext ==
    \/ \E d \in Deliveries : Receive(d)
    \/ \E c \in {Channel[d] : d \in Deliveries} : ReplayFailed(c)
    \/ \E w \in Workers : Work(w) \/ WorkerDies(w)
    \/ \E j \in Jobs : TimeUp(j)
    \/ SetPaused

DeliverySpec == DeliveryInit /\ [][DeliveryNext]_deliveryVars

\* A restarted worker goes on, a worker that lost its lease ends, time passes.
DeliveryFairSpec ==
    /\ DeliverySpec
    /\ \A w \in Workers : WF_deliveryVars(Work(w)) /\ WF_deliveryVars(WorkerDies(w) /\ ~Holds(w))
    /\ \A j \in Jobs : WF_deliveryVars(TimeUp(j))

-----------------------------------------------------------------------------
(* Properties *)

Attempts == {0} \cup UNION {0..MaxAttempts[d] : d \in Deliveries}

JobStatus == {"absent", "queued", "retry_wait", "processing", "succeeded",
              "dead_letter", "quarantined"}

\* The variables have their types and no job is claimed more often than its
\* max_attempts allows.
DeliveryTypeOK ==
    /\ deliveries \in [Deliveries -> [status : {"absent", "queued", "processing",
           "succeeded", "failed", "quarantined"}, body : Bodies \cup {Null}]]
    /\ nonces \in [Deliveries -> {"unused", "live", "expired"}]
    /\ jobs \in [Jobs -> [status : JobStatus, attempt : Attempts, timeup : BOOLEAN]]
    /\ \A j \in Jobs : jobs[j].attempt <= MaxAttempts[j[1]]
    /\ events \in [Events -> Jobs \cup {Null}]
    /\ links \in [Events -> Deliveries \cup {Null}]
    /\ letters \subseteq Jobs \X Attempts
    /\ held \subseteq Jobs \X Attempts
    /\ paused \in BOOLEAN
    /\ working \in [Workers -> [pc : {"idle", "claimed", "decode", "persisted",
           "retry", "reject"}, job : Jobs \cup {Null}, attempt : Attempts]]
    /\ acked \subseteq Deliveries \X Bodies

\* What a sender was told is accepted is stored, with that body, and has a job.
AckedIsStored ==
    \A p \in acked : /\ deliveries[p[1]].body = p[2]
                     /\ jobs[<<p[1], 0>>].status # "absent"

\* A delivery reported as succeeded has stored every event it carries, by one
\* of its own jobs, and every link names the delivery that stored the event.
SucceededIsComplete ==
    /\ \A d \in Deliveries : deliveries[d].status = "succeeded" =>
          \A x \in Items(d, deliveries[d].body) :
              events[x] # Null /\ events[x][1] = d /\ links[x] = d
    /\ \A x \in Events : links[x] # Null => events[x] # Null /\ events[x][1] = links[x]

\* The last job of a delivery and the delivery agree, and the jobs before it
\* are dead letters, one row each.
StatusAgrees ==
    /\ \A d \in Deliveries : Stored(d) => LET last == jobs[<<d, NextGen(d) - 1>>] IN
          /\ NextGen(d) > 0
          /\ \A g \in 0..(NextGen(d) - 2) : jobs[<<d, g>>].status = "dead_letter"
          /\ deliveries[d].status =
                CASE last.status = "queued"      -> "queued"
                  [] last.status = "dead_letter" -> "failed"
                  [] last.status = "retry_wait"  -> "processing"
                  [] OTHER                       -> last.status
    /\ letters = {<<j, MaxAttempts[j[1]]>> : j \in {i \in Jobs : jobs[i].status = "dead_letter"}}
    /\ held = {<<j, jobs[j].attempt>> : j \in {i \in Jobs : jobs[i].status = "quarantined"}}

\* Nothing that a sender was told is accepted is lost on its way, whichever
\* worker dies, outlives its lease or comes back late: it is stored, its status
\* is that of its last job, what failed is in the dead letters or in quarantine,
\* and a delivery that is reported as succeeded has all of its events.
NothingLost == AckedIsStored /\ StatusAgrees /\ SucceededIsComplete

Settled(d) == deliveries[d].status \in {"succeeded", "failed", "quarantined"}

\* claim_processing_job never takes a job again whose last attempt broke off.
Stranded(d) ==
    \E g \in Gens(d) : /\ jobs[<<d, g>>].status = "processing"
                    /\ jobs[<<d, g>>].attempt = MaxAttempts[d]
                    /\ jobs[<<d, g>>].timeup

\* Unless the instance is paused for ever, an accepted delivery ends, or its
\* last attempt broke off.
EveryDeliverySettles ==
    <>[](~paused) => \A d \in Deliveries : Stored(d) ~> (Settled(d) \/ Stranded(d))
=============================================================================
