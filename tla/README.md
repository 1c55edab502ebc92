# TLA+ verification of ESAN GBOS

GBOS observes business communication, lets agents turn it into proposals, and
materializes those proposals as AI drafts in a Frappe application where people
review them.  Everything asynchronous in it goes through PostgreSQL tables that
several processes lease work from, and through HTTP calls that may be answered
late or not at all.  This directory holds the TLA+ modules that model that core,
the TLC runs that check it on small instances, and the TLAPS proofs of its main
safety properties for every value of the parameters.

    tlc -workers 2 -config AgentTasksShared.cfg MCAgentTasks     one run
    tlapm AgentTasksProofs.tla                                   one proof module

`PROJECT.json` lists components, runs, mutants, hazards and theorems, and maps
every definition that models code to the lines it models.

## 1. Inventory

### Components, their state and their operations

| Component | Code | State | Operations | What makes it correct |
|---|---|---|---|---|
| Agent task queue | `services/agent_runtime/postgres.py`, migrations 001-003 | `agent_tasks`, `timeline`, `dead_letter`, `action_proposals` | enqueue, claim, claim_for_execution, start, heartbeat, succeed, fail, complete_with_proposal, reaping | one row per idempotency key; leases fence; attempts bounded; row, timeline and dead letter agree; every task settles |
| Agent worker | `agent_runtime/worker.py`, `local_pilot_runtime/agent_worker.py` | the claim it works on; a heartbeat thread | run_once, run | a lapsed lease is noticed before anything is stored; crashes cost an attempt, not a task |
| Materialization outbox | `postgres.py`, `proposals.py`, migrations 003, 004, 006 | `proposal_materialization_outbox` with lease, receipt | insert, claim, heartbeat, acknowledge, fail, reaping | success only with a receipt of something done; updates pass the trigger |
| Materialization worker | `agent_runtime/materialization.py`, `frappe_client.py` | claim, intent digest, receipt | run_once | at most one effect per proposal in spite of retries |
| Frappe endpoint | `apps/esan_gbos/.../api/internal/materialization.py` | Integration Requests, drafts | resolve_context, apply_draft | idempotent per request_id; refuses stale contexts and finished drafts |
| Model gateway | `services/model_gateway` | `model_budget_reservations`, `model_invocations` | reserve, settle, consume, release, append; invoke with retries and review | what the provider bills is charged, and within the monthly limit |
| Observer ingestion | `observer/local_pilot_storage.py`, `local_pilot_ingestion.py`, `observer_worker.py`, webhook, connectors | deliveries, nonces, processing jobs, events, links, dead letters, quarantine | accept, claim, persist batch, complete, fail, replay | acknowledged means stored, succeeded means complete |
| Polling and control | `local_pilot_runtime/pollers.py`, `observer/scheduler.py`, `control_service.py`, `email_imap.py` | connector checkpoint and lease, instance status and revision, commands | poll, advance, report, pause, resume | the cursor passes nothing that was not accepted; a command is applied once, to the state its sender saw |
| Projection outbox | `observer/projection_outbox.py`, `model_projection.py`, `model_projection_worker.py` | `context_publication_outbox` with lease generation, dead letters | claim, heartbeat, mark_published, mark_failed | fenced leases; one publication per observation |
| Communication drafts | `context_service/communication_intelligence.py`, `communication_draft_worker.py` | `communication_draft_outbox` | publish, claim, acknowledge, fail, reaping | one document per draft, every draft settles |
| Context and decision services | `services/context/context_service`, `observer/application.py`, `storage.py` | imports, evidence, proposals, versioned facts, decisions, conflicts | import, publish, confirm, conflict, trace, resolve | retries get through; one line of facts per subject; what was resolved stays |
| Media runtime | `services/media_runtime` | uploads, media jobs, transcripts | upload, claim, stages, hand over | accepted means whole, ready means published, nobody waits for ever |
| Frappe documents | `apps/esan_gbos` doctypes, `domain/state_machine.py`, API v1, v2 | review cases, decisions, demands, sourcing events, sample projects, feedback | transition, source, feedback, submit, decide, save | legal steps of the stored revision, one effect per command |
| Metrics, action guard, Kingdee adapter, tokenization | pure code and clients | none or append-only | project, decide, query | tables of cases |
| Frontend, contracts, scripts, infra | `apps/esan_gbos/frontend`, `contracts`, `scripts`, `infra` | none durable | - | - |

### How they interact

Pollers and webhooks hand deliveries to the Observer's inbox (`Polling`,
`DeliveryJobs`); recordings come in through the media runtime (`MediaJobs`) and
documents through manual imports (`ContextFacts`).  Normalized observations go
through the projection outbox to the model and to the context service
(`ProjectionOutbox`), under the monthly budget (`ModelBudget`); a publication for
a team leaves a draft row that a worker turns into a Frappe document
(`DraftQueue`).  Agent tasks refer to facts of the context service; an
`AgentWorker` leases a task, executes an agent and completes the task **and**
inserts the proposal **and** its outbox row in one transaction (`AgentTasks`); a
`MaterializationWorker` leases the outbox row and calls the Frappe endpoint
(`Materialization`), which creates or submits a draft; people act on the same
documents (`Documents`).  Processes share nothing but the databases and HTTP.

### What is hard

* Workers may share a `worker_id` (it comes from configuration), so the owner
  column of a lease does not tell them apart; the attempt number has to.
* The clock is read before a transaction gets its locks.
* A call that timed out may still be executed, after a retry of it or before.
* A process may die between any two steps and is restarted by its container.
* Claims run under `FOR UPDATE SKIP LOCKED`, so what a claim sees depends on the
  locks of the others; exceptions inside a claim roll the claim back.
* Money is spent outside the transaction that accounts for it.
* Cursors, revisions and current facts are read in one transaction and used in
  another; Frappe commands read snapshots that grow old.
* Some writes are not fenced by any lease (publications, projections, the
  Observer's acceptance, the transcript hand-over) and must be harmless when done
  twice or by a process that was overtaken.

The hazards are listed one by one, each at its line and with the properties that
would catch it, in `PROJECT.json`.

## 2. Modules

| Module | Contents |
|---|---|
| `AgentTasks`, `MCAgentTasks`, `AgentTasksProofs` | task queue, `AgentWorker` processes, clients of the claim/start/succeed protocol |
| `DraftOnce` | abstract specification: what materialization and the draft queue promise |
| `Materialization`, `MCMaterialization`, `MaterializationProofs` | outbox, `MaterializationWorker`, Frappe apply endpoint; implements `DraftOnce` |
| `ProjectionOutbox`, `MCProjectionOutbox`, `ProjectionOutboxProofs` | projection outbox, `ModelProjectionWorker`, context publication, the Observer's projections |
| `DraftQueue`, `MCDraftQueue`, `DraftQueueProofs` | communication draft outbox, its worker and the Frappe endpoint; implements `DraftOnce` |
| `ModelBudget`, `MCModelBudget`, `ModelBudgetProofs` | the monthly ledger and the adapter's logical calls |
| `DeliveryJobs`, `MCDeliveryJobs`, `IngestionProofs` | acceptance, processing jobs, connector workers, replay |
| `Polling`, `MCPolling`, `IngestionProofs` | IMAP poller, scheduler, checkpoint, control commands |
| `MediaJobs`, `MCMediaJobs`, `DocumentsMediaProofs` | upload handler and consumer thread, media jobs, pipeline, hand-over |
| `ContextFacts`, `MCContextFacts`, `ContextFactsProofs` | manual import, publication of evidence and proposals, decisions, facts, agent view |
| `Documents`, `MCDocuments`, `DocumentsMediaProofs` | governed Frappe documents and their commands over snapshots |

Everywhere, one repository method is one transaction and so one action; a process
may stop between any two actions, and what it remembers (`local`) is then lost.
`IngestionProofs` extends two components, `DocumentsMediaProofs` too; so that both
can be extended at once, `DeliveryJobs` and `MediaJobs` put their own name in front
of `Init`, `Next`, `Spec`, `TypeOK` and `vars`, what a connector worker remembers is
`working`, and their NULL is `Null`.

### AgentTasks

`tasks` is `agent_tasks` (an absent row has status `"absent"`), `timeline` the
event types per task in sequence order, `deadLetter` and `proposals` the tables of
that name.  `local[p]` is what a process remembers of its claim; `Crash` loses it.
`claimant` is a history variable: which process an attempt was given to; no action
reads it.

`Readings` are the clock readings a method may use: up to `MaxLag` ticks older
than the clock, because the caller reads the clock first.  `LockSets` are the
rows a claim skips because other transactions hold them: any set, unless the
process is alone.  `ClaimForExecution` and `ClaimAborts` are the two outcomes of
claim_for_execution: the payload is parsed inside the transaction and an invalid
one rolls everything back, the reaping included, and ends the process.
`CompleteCommits`, `CompleteRejected` and `CompleteAnswered` are the outcomes of
complete_with_proposal: commit; rollback by a validation error; a lapsed lease or
a replay of a completed task.  A committed call whose reply is lost leaves the
process where it was, so that it repeats the call.  The heartbeat of a worker
runs concurrently with its execution; a failed one sets `lost`, which is only
looked at when the execution returns, as in `ThreadedHeartbeatRunner`.

Abstracted: the content of payloads, proposals and invocations (a submission has
a key, a task_id and a flag that says whether the payload parses; a proposal is a
member of `Outputs`); the payload digest (a repeated key never changes state,
whether the digest agrees or not); the site (row-level security separates sites).

### Materialization and DraftOnce

`outbox` is the table, `requests` the apply calls that Frappe is serving,
`audit` the Integration Requests, `effects` the drafts created and submissions
made.  `Load` and `Execute` are separate: Frappe looks the Integration Request up
first and inserts it later, and only the primary key of the insertion excludes
two executions.  A request outlives the worker that sent it: `GiveUp`, `Crash` and
lost answers (`Answer` may leave `local` unchanged) are all independent of
`requests`.  `context` is what the controlled context of a proposal resolves to;
people change it at any time.  The digest of an intent is the context it was made
from (a transition has no context).

Every plain read of a request sees the version at its first read, so `Load` also
notes in `seen` what the request will judge by (`Snapshot`): the draft that it
submits, or the context of the document that it creates.  `Valid` is the check of
that version: a submission wants an open AI draft, a work item the same team, a
review case the same team, reviewer and snapshot, an observation nothing.
`SavesLatest` is `_advance_revision` (`base.py:100`), which reads the revision of the
stored draft `FOR UPDATE` and refuses another than the one that was read; so only the
save itself, from that read to the commit, is one step.  `draft` is the stored version
of each AI draft; people edit, submit, close or reopen it (`DraftChanges`), and each
save counts its revision up.  The unique name of an Integration Request and the lock
of `FOR UPDATE` are the database's.

`DraftOnce` says what a reader of the outbox may rely on: one effect at most, and
success only after it.  It lets a row be given up although its effect was made or
is still to come: the code cannot exclude that (see the hazard on
`materialization.py:310`).

### ProjectionOutbox

`outbox` is `context_publication_outbox`, `letters` its dead letters,
`intelligence` what `publish` of the context service committed for an observation
and `projections` what `store_projection` committed for the Observer.  The steps
of one `run_once` are `Claim`, `Begin` (`_validate_claim`), `Project` (source,
tokenization, model, validation), `Publish`, `Store` and `MarkPublished`; each of
the last three is a transaction of its own in a database of its own.  `Raise` is
every exception of the publisher, and `MarkFailed` what follows.  `Heartbeat` is
the thread beside them; its failure is kept in `beat` and takes effect when the
publisher has returned (`AfterRun`).  A commit whose answer is lost makes the
publisher raise.

A publication is the text the model gave and the call it came from.  The call
stands for `invocation_refs`: they derive from the tokenization receipt, whose id
hashes the time, so no two attempts have the same.  A text stands for summary,
language, proposals and model version together, since both the publication digest
and the comparison of `store_projection` cover all of them.

### DraftQueue

`outbox` is `communication_draft_outbox`; `requests`, `audit` and `effects` are the
Frappe side, as in `Materialization`.  The request digest is frozen in the row by
`publish`, so a retry after a lost answer gets the stored receipt instead of a
conflict.  Time is reduced to what it makes possible: a lease may lapse and a
retry may be due at any moment, and any claimable row may be taken first.  All
workers share one `worker_id`; only the attempt fences them.  `ClaimAborts` is a
claim of a row that `CommunicationDraftClaim` refuses to construct.

### ModelBudget

`rows` are the reservations, `audit` the invocations the adapter appends, `billed`
what the provider really charges, which no action of the code reads.  `Worst` is
the price of one network call at its token limits; a reservation covers
`MaxNetwork` of them.  A post may succeed, fail before the connection, fail
ambiguously (billed or not) or never return; the process may die at every point.
`Prior` is what a month had before: a cost, or an invocation whose cost is unknown,
which blocks the month.

### DeliveryJobs

`deliveries`, `nonces`, `jobs`, `events`, `links`, `letters` and `held` are the
tables; `acked` is what senders were told.  A job is a delivery and a generation:
replay queues a further job.  `lease_generation` grows only together with
`attempt_count`, so one number stands for both.  The decoder is a predicate over
the body (`Defect`), an event is named by its provider event id.
`ReplayFailed` replays any nonempty set of failed deliveries of a channel (the code
takes a limit and an order).  Clocks are taken to agree here; stale readings are
examined in the queues above.

### Polling

`checkpoint` is the connector's row: cursor, version, health status and lease.
`Acquire`, `Load`, `Fetch`, `Accept`, `Advance`, `Report`, `Release` are the calls
of one scheduler tick; the lease is looked at by `Acquire` and `Release` only.
`Odd` is `SEARCH n+1:*` naming an older mail, `Renumber` a new UIDVALIDITY,
`Mutate` a control command with its expected revision.  The server and its folder
are external.

### MediaJobs

`upload[u]` holds both threads of an upload and the bounded queue between them;
`jobs` is the job table, `observer` what the Observer has for a job.  The handler
waits for the client at `stream` (`Arrive`), puts what arrived (`PutChunk`) and then
looks at the consumer (`Look`), so it learns that the consumer has finished after the
next chunk and not before; the stream's end needs no such look (`StreamEnds`).  The
stages of the pipeline return, raise or find the lease lost.  `Lapse` may end any
lease, but is fair only for one that no heartbeat renews (`Renewed`): a pipeline that
never returns keeps its lease for ever.  That the Observer keeps the first submission
under an idempotency key and refuses a different one is external.

### ContextFacts

`memory` is the import pipeline's replay table (lost at a restart), `jobs`,
`events` and `checkpoint` what the Observer's transaction stores, `records` what
the context service holds with the time it was recorded, `facts`, `decisions` and
`conflicts` the decision tables.  `work[o]` is a confirmation between its read of
the current fact and its save.  Rows beside the documents, which every read
compares, are part of the saving step and of `Traces` and `Resolve`.

### Documents

`docs` are the stored documents with workflow status, review status and revision,
`audits` the idempotency records, `rows` the documents that commands create,
`session` the transaction each session is in with the snapshot of its first read.
MariaDB's REPEATABLE READ and unique keys are external; Frappe's timestamp check is
not relied on.  A document created by a command takes part in no later command.
`DeskSave` is a saved form: the user chooses the workflow status and the review status,
both of which are editable, and the document classes and the hook of `hooks.py` decide.
The hook (`ProtectsDraft`) is registered for work items, review cases and informal
observations.  The last are not modelled: no command of this module changes them;
demands and samples are saved without it.  No save of the model changes the origin of a document.
`ReviewerNames` are the review cases and work items assigned to a user and the subjects
of those cases.

## 3. Runs

| Run | Instance | Checks |
|---|---|---|
| AgentTasksShared | two workers with one worker_id, one task with three attempts enqueued under two task_ids, readings one tick old, fairness | `TypeOK`, `ProposalFenced`, `NothingTwice`, `LeaseRules`, `EveryTaskSettles` |
| AgentTasksMixed | a worker and a client, a parent and a more urgent, later child that only clients can read | `RecordsAgree` |
| MaterializationOne | two workers with one worker_id, one observation to record in two attempts, two contexts, a lease of two ticks, readings one tick old, fairness | `TypeOK`, `EffectExact`, `TriggerAccepts`, `KeepsPromise`, `EveryRowSettles` |
| MaterializationSubmit | two workers, two proposals that submit one draft, which people save up to its third revision, a third proposal whose bundle cannot be loaded, one attempt | `OneSubmissionPerDraft` |
| ProjectionRace | two workers with one worker_id, one observation, two attempts with two heartbeats, two answers of the model, readings one tick old, fairness | `TypeOK`, `OutcomesAgree`, `LeaseMovedByHolder`, `EveryRowTried` |
| DraftQueue | two workers, a readable and an unreadable draft, three attempts, fairness | `TypeOK`, `KeepsPromise`, `EveryDraftSettles` |
| ModelBudget | two requests of two network calls, a limit of two reservations and a rest, a second month of unknown cost | `TypeOK`, `BillWithinLimit`, `SpendCovered`, `NeverBlocksItself` |
| DeliveryJobs | two workers, a mail with three possible bodies, a webhook delivery with two messages, repeated and replayed, fairness | `DeliveryTypeOK`, `NothingLost`, `EveryDeliverySettles` |
| Polling | two pollers, two mails per folder of which one is too old, page limit one, a renumbering, a pause and a resume, one fault, fairness | `TypeOK`, `CommandsInOrder`, `CursorSound`, `EveryMailArrives` |
| MediaJobs | one client with two tries of three bodies, queue size one, two workers, two attempts, one fault, fairness | `MediaTypeOK`, `AnswersTrue`, `EverythingSettles` |
| ContextFacts | imports under two keys, one misused, one restart or failed call, two operators and three proposals | `TypeOK`, `RetryAgrees`, `FactChain`, `ContextStable` |
| Documents | two sessions, eighteen requests of four users in any order and number, five of them saved forms, three documents that are AI drafts | `TypeOK`, `RecordsExact`, `GovernedSteps` |

What they show:

* Agent tasks.  A proposal is stored by the process whose attempt it is
  (`ProposalFenced`), no attempt or key is given out twice (`NothingTwice`), a
  live lease is taken away by nobody and ended by its holder or the reaper, and
  terminal rows stay (`LeaseRules`); the three tables tell one story
  (`RecordsAgree`); every task ends (`EveryTaskSettles`).
* Materialization.  One effect per proposal and no success without it
  (`EffectExact`), no UPDATE meets the transition trigger (`TriggerAccepts`), the
  whole implements `DraftOnce` (`KeepsPromise`); every row ends, through a failed
  first attempt, a takeover and the reaping of the last one (`EveryRowSettles`).  Of the
  proposals and people that submit a draft at the same time one takes effect: each
  judges by the version it read, which may be outdated, and only the revision check of
  the save keeps the others out (`OneSubmissionPerDraft`).
* Projection.  Context service and Observer never show different texts, a published
  row has reached both, a row is buried exactly after its last attempt
  (`OutcomesAgree`); a leased row is moved by its holder (`LeaseMovedByHolder`);
  every row is published, buried, or was abandoned in its last attempt
  (`EveryRowTried`).
* Drafts.  The queue implements `DraftOnce` too, and a draft ends as long as no
  unreadable one is stored.
* Budget.  The bill of a month stays within the hard limit although no caller sees
  the others' spending (`BillWithinLimit`), because each call is covered at every
  moment (`SpendCovered`); the adapter never writes the kind of row that blocks the
  month (`NeverBlocksItself`).
* Deliveries.  `NothingLost` and `EveryDeliverySettles` as described in
  the module: acknowledged is stored, tables agree, succeeded is complete.
* Polling.  Cursor never back and never past an unaccepted mail (`CursorSound`);
  commands apply once and to the revision they name (`CommandsInOrder`); every mail
  arrives unless the connector is paused or the folder renumbered
  (`EveryMailArrives`).
* Media.  `AnswersTrue`: 202 means all bytes are stored for this job, ready means
  the Observer has that very reference.  `EverythingSettles`: an upload ends, neither
  of its threads waiting for the other for ever, unless its handler waits for a client
  that sends nothing more; a job ends unless a pipeline never returns.  Both premises
  are needed: TLC refutes the property without either.
* Facts.  A retry never meets a record with another payload (`RetryAgrees`), facts
  of a subject form one line (`FactChain`), what a decision resolved to it resolves
  to for ever (`ContextStable`).
* Documents.  Every change is one legal step of the stored revision
  (`GovernedSteps`), and what commands created agrees with what they changed
  (`RecordsExact`).  A work item or review case that is an AI draft leaves that state
  through the submit command alone, whatever review status a form is saved with.

Bounds.  Two processes are enough for every race the code is exposed to, since
rows are locked one at a time and processes are alike.  Attempts are at least two,
so that a worker of the first meets the second, in every run but
MaterializationSubmit; AgentTasksShared and DraftQueue have three, so that it meets
both a running and a finished later one.  MaterializationSubmit is about requests of
different proposals and people in Frappe, where one attempt each is enough: a repeated
request of the same proposal meets its Integration Request, which MaterializationOne
examines with two attempts.  The kinds `work_item` and `review_case` differ from
`observation` by the refusals of `Valid`, which `Refuse` allows for every kind; no run
has them, the proofs cover all kinds.  A lease of two
ticks with a lag of one makes stale readings matter; `MaxBeats` bounds the
heartbeats that succeed in one execution, otherwise a lease could be renewed for
ever.  `Tick` is enabled only while some stored timestamp is ahead of the clock:
later readings are equivalent, and the state space is finite.  `MaxFaults` bounds
crashes and failed calls where each of them returns to a state it may come from;
one fault at every possible point is what the recovery code is written for.
`LastUid`, `LastEpoch`, `LastGen`, `LastMonth` and `MaxTries` end what would go on
for ever.  Deadlock is checked in the agent task, materialization, projection and
document runs; in the others the bounds let the system come to rest.

Symmetry is used for workers, requests, sessions and ids in runs without liveness
properties.

Fairness.  Polling loops run for ever, the model and HTTP calls of the workers have
timeouts, leases run out, and the containers restart a process that exits (`restart:
unless-stopped`), so each worker's own steps, its restart and the passing of time
are weakly fair.  Two waits of the media runtime have no timeout, and no fairness is
assumed of them: the handler of an upload waits for its client (`api.py:268`), and the
pipeline for its engine (`speech.py:205`) while the heartbeat thread renews the lease
(`worker.py:60`).  `EverythingSettles` names both as exceptions.  In `MediaJobs` the
handler's other steps and the consumer thread go on, and an unrenewed lease lapses.
Nothing is assumed about clients, senders, operators, Frappe, the mail server, or
about whether an execution succeeds.  `EveryDeliverySettles` is stated for an instance
that is not paused for ever.

Every property of a run has a mutant in `PROJECT.json`: a plausible mistake in the
code (a dropped attempt comparison, `<=` for `<`, a missing timeline row, a lookup
instead of a unique key) under which TLC finds the property violated.

### Observations on the code

Behaviour the models have because the code has it.  The properties above are stated
around it, never against it.

1. *Unreadable rows block their queue.*  `claim_for_execution` parses the payload
   inside the claim transaction (`postgres.py:289`), the outbox claim loads the
   proposal bundle there (`postgres.py:826`), the draft claim constructs a
   `CommunicationDraftClaim` there (`communication_intelligence.py:495`; a summary
   with a line break is enough).  When that raises, the claim is rolled back with its
   attempt count, the process ends, and the row is the first candidate again after
   the restart.  Hence the exception in `EveryTaskSettles`, `EveryRowSettles` and
   `EveryDraftSettles`.
2. *No reaper in two queues.*  A projection row or a processing job whose worker
   crashes, or whose lease lapses, in the last attempt stays `leased` or `processing`
   for ever; replay wants a failed delivery (`Abandoned`, `Stranded`).
3. *Publications are not repeatable.*  The digest that guards a publication's key
   covers `invocation_refs`, which differ from attempt to attempt
   (`communication_intelligence.py:233`).  Once an attempt has committed its
   publication and failed before marking the row, every later attempt is refused and
   the row is dead-lettered although the context service holds the publication.  That
   refusal is also what keeps the two views from differing: a repair has to return
   the stored publication, not merely accept the new one.
4. *Context drift after a lost answer.*  The intent digest covers the context of the
   attempt (`materialization.py:310`): if Frappe made the draft, the answer was lost
   and the context changed, every retry is an idempotency conflict and the row ends
   `dead_letter` beside an existing draft.
5. *A poller with an initial checkpoint cannot be restarted.*
   `_ensure_initial_checkpoint` refuses a persisted cursor that differs from the
   configured one (`pollers.py:580`), and the cursor differs as soon as a mail was
   fetched.  `PollingRestart.cfg` is that instance: `tlc -config PollingRestart.cfg
   MCPolling` finds `EveryMailArrives` violated.  The `Polling` run has no initial
   checkpoint.
6. *A caught-up poller reports itself degraded*, because the server answers
   `SEARCH n+1:*` with the last mail; it goes on polling.
7. *Import under a new key.*  An import repeated under another key is a `duplicate`
   and publishes nothing; only a retry under the first key completes an interrupted
   publication.
8. *Decisions on a stale subject.*  `decide` reads the review subject from its
   snapshot without a lock (`review_case.py:309`); a change committed in between is
   not noticed.
9. *A demand may be sourced again.*  `validate_transition` accepts a step from a
   status to itself (`state_machine.py:78`), so `create_from_demand` at the revision
   a first sourcing left behind creates a second sourcing event for the demand, and
   feedback may likewise be recorded twice.  What the code guarantees, and
   `RecordsExact` states, is that no revision of a document grounds two rows.
10. *Two waits without a timeout.*  A client that keeps its connection open and sends
   nothing holds its request handler and consumer thread (`media_runtime/api.py:268`);
   an engine that hangs holds its job for ever, since the lease is renewed as long as
   the pipeline runs (`worker.py:60`, `speech.py:205`).  Hence the exceptions in
   `EverythingSettles`.
11. *AI drafts without the hook.*  A demand or a sample project that is an AI draft may
   be saved with another review status, `Approved` included: `hooks.py:128` registers
   `protect_ai_draft_command` for work items, review cases and informal observations
   only.  `GovernedSteps` states its last clause for the first two.
12. *Two webhook requests that share a message.*  The stored digest of an event covers
   evidence and creation time of its first job, so the second delivery is
   quarantined.  The instance of `DeliveryJobs` has one webhook delivery.

## 4. Proofs

Eight modules about ten components, checked by TLAPS for all values of the constants that satisfy the
assumptions named in the component modules: any number of tasks, processes,
requests, documents and attempts, any lease, lag, price and limit.  The assumptions
say which constants are numbers, which sets are finite, and that NULL is none of the
values a column can hold.  Four say more than that about the system:

* `PollingAssumption`: the initial cursor is a cursor.
* `PriorAssumption`: what a month has cost before is within its limit or unknown.
* `DocumentsAssumption`: documents start in a status of their workflow, review cases
  as `Pending`; a request names a document unless it creates a project.
* `ImportsAssumption`: an import names at least one piece of evidence, and a record
  belongs to one content, since identifiers are digests of the whole import.

Each component has an inductive invariant, `IndInv` (`DeliveryInv`, `MediaInv`), with
`Init => IndInv` and `IndInv /\ [Next]_vars => IndInv'`, one lemma per action or group
of actions, and the properties follow from it.  No property is inductive as it stands.

| Module | Proved | What the invariant adds, and why |
|---|---|---|
| `AgentTasksProofs` | `TypeOK`, `NothingTwice`, `ProposalFenced`, `RecordsAgree`, `LeaseRules` | every claim on record is for an attempt the task has reached, so the next number is fresh; what a process remembers of its claim is on record, so a row at that attempt was leased by nobody else |
| `MaterializationProofs` | `TypeOK`, `EffectExact`, `OneSubmissionPerDraft`, `TriggerAccepts`, `KeepsPromise` | effects and Integration Requests correspond one to one; a receipt, in a worker or in the outbox, is the stored one; requests exist only for stored rows; what a submission read is a version of its draft (`VersionsOK`) |
| `DraftQueueProofs` | `TypeOK`, `KeepsPromise` | the same for drafts |
| `ProjectionOutboxProofs` | `TypeOK`, `OutcomesAgree`, `LeaseMovedByHolder` | from `storing` on the context service holds exactly the worker's payload, at `marking` the Observer shows its text; what is published or stored is never replaced (`ViewsKept`), so no lease is needed |
| `ModelBudgetProofs` | `TypeOK`, `SpendCovered`, `NeverBlocksItself`, `BillWithinLimit` | at each phase of a logical call, how much of its reservation the attempts made so far can have used up (`Shape`); the second call of a request is untouched during the first |
| `IngestionProofs`, of `Polling` | `TypeOK`, `CommandsInOrder`, `CursorSound` | a poller's cursor was right when read and is the stored one as long as the version is; its page, with what is accepted, leaves no mail out (`PollerOK`) |
| `IngestionProofs`, of `DeliveryJobs` | `DeliveryTypeOK`, `NothingLost`, `DeliveryTakesNothingBack` | the jobs of a delivery are the generations below one number, the delivery shows the last (`Generations`); a worker that stored its batch finds all events under its own job, whoever holds the job by now (`WorkerOK`) |
| `DocumentsMediaProofs`, of `Documents` | `TypeOK`, `RecordsExact`, `GovernedSteps` | a snapshot holds the stored version or one of smaller revision (`Read`); a row agrees with its parent and its key is used up (`RowOK`); no two rows share a key or a revision (`Apart`) |
| `DocumentsMediaProofs`, of `MediaJobs` | `MediaTypeOK`, `AnswersTrue`, `MediaTakesNothingBack` | what the consumer has read and what the queue holds is what the handler sent, and only the last item is an end (`QueueOK`, `UploadOK`); a worker that completes a job as ready has its reference in the Observer (`MediaWorkOK`) |
| `ContextFactsProofs` | `TypeOK`, `RetryAgrees`, `FactChain`, `ContextStable` | jobs and handlers work with the stamps of the stored event, records were made from it (`ImportsInv`); the facts of a subject are a chain in which each supersedes the one before (`GovernedInv`) |

Arguments that need more than the invariant:

* *Timelines* (`TimelineReplays`, part of `RecordsAgree`).  Every step is one of six
  things a row and its timeline can do together (`TimelineStep`).  Counting the ends
  of leases is inductive only with a strict bound while a lease is open (`Replays`);
  the counts are cardinalities of sets of positions, which an appended event
  enlarges by at most one (`Appended`).
* *The trigger* (`TriggerAccepts`).  Both dates of a lease come from one reading
  (`LeasesDated`).  Hence a renewal that lengthens the lease also moves `updated_at`
  forward, though readings may go back.
* *Submissions* (`OneSubmissionPerDraft`).  Revisions only grow, so a request that finds
  the revision it read finds the very version it read (`VersionsOK`): its check of that
  version is a check of the stored one, which the save then closes.
* *Refinements* (`KeepsPromise`, twice).  `Execute` is `Make` of `DraftOnce`,
  `Acknowledge` is `Finish`, claims and `Fail` are `GiveUp` of the rows they end, every
  other step stutters.
* *The monthly limit* (`BillWithinLimit`).  `SpendCovered` bounds each bill by the
  charge of its row, so the sum of the bills is bounded by the sum of the charges, which
  `reserve` keeps within the limit.  A sum is `SumFunctionOnSet`; that it is
  independent of the order, monotone, and changed by one summand at a time is proved by
  induction on the cardinality of the set.  The library's induction theorem with an
  operator parameter cannot be used, so the induction is over a set `N` of naturals
  that contains 0 and is closed under successor (`NaturalSetInduction`).
* *Deliveries* (`NothingLost`).  `replay_delivery` numbers the next job by counting the
  jobs there are.  As these are the generations below some n, the count is n
  (`NextGenIs`), the new job is the last, and its predecessor is a dead letter because
  only a failed delivery is replayed (`NextGeneration`).  A worker that lost its lease
  may still store its batch.  That is harmless because a stored event is only ever
  presented again by the job that stored it, so the late batch changes nothing that the
  job's other attempts stored, and completion, which is fenced, finds every event under
  its own job.  Every step satisfies one condition (`StepKeeps`): it takes no row
  back, and what it adds is right.
* *Uploads* (`AcceptedIsWhole`).  The handler counts what it sends, the consumer what it
  takes, and their difference is the length of the queue.  When the consumer comes to
  the end mark it has everything; a cancelled handler leaves no end mark, but then its
  upload is never answered 202.
* *Transcripts* (`ReadyIsPublished`).  The hand-over is not fenced: two attempts may
  offer two references.  The Observer keeps the first (`ObserverKeeps`), the other
  attempt is refused and cannot complete as ready; a row is completed under the fence,
  with the reference the worker saw taken (`RowsMove`).
* *Nothing is taken back* (`DeliveryTakesNothingBack`, `MediaTakesNothingBack`).  Two
  action properties of every step: bodies, events, links, ended jobs, and the
  Observer's references stay as they are.
* *Bounded versions* (`TypeOK` of `ContextFacts`, of `Polling`).  Facts of a subject
  map one to one to proposals and applied commands to revisions, so a version is at
  most a cardinality.

Two attempts failed for a good reason.  `RecordsExact` used to say that a demand gets
one sourcing event and a sample one feedback; the induction did not close, because a
command at the later revision is accepted (observation 9).  The instance of the run
had no such request.  It has one now, and the property states what holds.  The type
invariant of `DeliveryJobs` was false for an instance without deliveries, where no
attempt had a type, not even 0.

Every safety property that a run checks is a theorem.  Model-checked only is liveness:
`EveryTaskSettles`, `EveryRowSettles`, `EveryRowTried`, `EveryDraftSettles`,
`EveryDeliverySettles`, `EveryMailArrives` and `EverythingSettles`.  Fairness and
ENABLED are out of the prover's reach.

## 5. Plan

1. `AgentTasks`, `Materialization` with `DraftOnce`, `ProjectionOutbox`, each with
   proofs - done.
2. `ModelBudget`, `DeliveryJobs`, `Polling`, `MediaJobs`, `ContextFacts`,
   `Documents`, `DraftQueue`, each with a run - done.
3. Proofs of `DraftQueue`, `ModelBudget`, `Polling`, `Documents`, `ContextFacts`, and
   of `RecordsAgree`, `TriggerAccepts` and `OneSubmissionPerDraft` - done.
4. Proofs of `DeliveryJobs` and `MediaJobs`, with what a stored delivery or a finished
   job may never lose - done.
5. The two hazards without a property: the context that changes after a lost answer,
   and the review subject that is read without a lock.

## 6. Not modelled

* Read APIs, HTTP plumbing, wire formats, prompts, redaction and tokenization: data
  without state transitions of interest.
* The action guard, and list filters and field masking of the permissions: pure
  predicates.  The predicates that guard commands are in `Documents`.
* The metrics projector: a function of validated responses with an append-only store.
* The Kingdee adapter: a read-only client.
* The WeCom archive poller: the scheduler of `Polling` with a sequence number for a
  cursor; its decryption is data.
* Deletion requests of `lifecycle.py`.
* `ContextOutboxPublisherWorker` and the older ingestion of `storage.py`, apart from
  what manual imports use: the composition does not start them.
* The frontend, contracts, operations scripts and deployment.
