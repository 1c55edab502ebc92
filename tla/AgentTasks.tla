----------------------------- MODULE AgentTasks -----------------------------
(***************************************************************************)
(* The durable agent task queue of services/agent_runtime: the PostgreSQL  *)
(* repository (postgres.py, class PostgresAgentTaskRepository) and the     *)
(* processes that drive it.  A worker is an AgentWorker (worker.py): claim *)
(* for execution, resolve the context, execute under a heartbeat thread,   *)
(* complete with a proposal or fail.  A client drives the lower-level      *)
(* claim / start / succeed / fail protocol of the same repository.         *)
(*                                                                         *)
(* One site is modelled: row-level security keeps sites apart, and every   *)
(* statement carries the site_id.  Every repository method is a single     *)
(* transaction whose row locks serialise it with the others, so a method   *)
(* is one action.  The clock reading a method compares with the stored     *)
(* timestamps is taken by the process before the transaction gets its      *)
(* locks, so it may be up to MaxLag ticks old.                             *)
(***************************************************************************)
EXTENDS Integers, Sequences, FiniteSets

CONSTANTS
    Submissions,  \* the AgentTaskSubmission values that callers may send
    Workers,      \* AgentWorker processes
    Clients,      \* processes that call claim, start, succeed and fail
    WorkerId,     \* the configured worker_id of a process; it may be shared
    Outputs,      \* what an execution can propose
    Failures,     \* the classifications a caller of fail() reports
    Lease,        \* lease_duration, in ticks
    RetryDelay,   \* retry_delay, in ticks
    MaxLag,       \* how old a clock reading may be when it is used
    MaxBeats,     \* heartbeats that succeed within one execution
    None          \* NULL

Procs == Workers \cup Clients

Tasks == {s.task : s \in Submissions}

\* The columns of agent_tasks a submission fills in.  valid says that the
\* payload satisfies LocalPilotTaskPayload.from_mapping; body stands for all
\* the other fields of the digest document.
SubmissionType ==
    [task : Nat, key : STRING, body : STRING, parent : Nat \cup {None},
     due : Nat, priority : 0..100, maxAttempts : 1..100, valid : BOOLEAN]

ASSUME SubmissionAssumption ==
    /\ Submissions \subseteq SubmissionType
    /\ \A s \in Submissions : s.parent # s.task

ASSUME ProcAssumption ==
    /\ Workers \cap Clients = {}
    /\ \A p \in Procs : WorkerId[p] # None

ASSUME TimeAssumption ==
    /\ Lease \in Nat \ {0}
    /\ RetryDelay \in Nat \ {0}
    /\ MaxLag \in Nat
    /\ MaxBeats \in Nat

VARIABLES
    clock,       \* wall clock
    tasks,       \* table agent_tasks; status "absent" where there is no row
    timeline,    \* table timeline: the event types of a task, in sequence order
    deadLetter,  \* table dead_letter; None where there is no row
    proposals,   \* table action_proposals, each with its outbox row
    claimant,    \* history: which process each attempt of a task was given to
    local        \* what each process remembers of its claim; lost by a crash

vars == <<clock, tasks, timeline, deadLetter, proposals, claimant, local>>
db   == <<tasks, timeline, deadLetter, proposals, claimant>>

LeaseStates == {"leased", "running"}
DueStates   == {"queued", "recheck"}
FinalStates == {"succeeded", "dead_letter"}

Events == {"created", "leased", "running", "recheck_scheduled", "succeeded",
           "dead_lettered"}

NoRow == [sub |-> None, status |-> "absent", attempt |-> 0, owner |-> None,
          expires |-> 0, due |-> 0, created |-> 0, failure |-> None]

Idle == [pc |-> "idle", task |-> None, attempt |-> 0, output |-> None,
         lost |-> FALSE, beats |-> 0]
Down == [Idle EXCEPT !.pc = "down"]

\* UPDATE ... SET lease_owner = NULL, lease_expires_at = NULL, status = ...
Ended(row, status) ==
    [row EXCEPT !.status = status, !.owner = None, !.expires = 0]

Stored(k) == tasks[k].status # "absent"

MaxAttempts(k) == tasks[k].sub.maxAttempts

\* A reading of the clock that is at most MaxLag old.
Readings == {t \in 0..clock : clock - t <= MaxLag}

Active(p) == local[p].pc \notin {"idle", "down"}

-----------------------------------------------------------------------------
(* enqueue *)

\* Mutant: the idempotency key is not looked up.
AcceptsFreshTaskId(s) ==
    /\ s.parent # None => s.parent \in Tasks /\ Stored(s.parent)
    /\ ~Stored(s.task)

\* The row is inserted when its parent exists, the idempotency key is free and
\* so is the task_id (a taken one is a primary key violation).  A key in use
\* returns the existing row or raises IdempotencyConflict: no state changes.
Accepts(s) ==
    /\ s.parent # None => s.parent \in Tasks /\ Stored(s.parent)
    /\ \A k \in Tasks : Stored(k) => tasks[k].sub.key # s.key
    /\ ~Stored(s.task)

Enqueue(s) ==
    /\ Accepts(s)
    /\ tasks' = [tasks EXCEPT ![s.task] =
                    [NoRow EXCEPT !.sub = s, !.status = "queued",
                                  !.due = s.due, !.created = clock]]
    /\ timeline' = [timeline EXCEPT ![s.task] = Append(@, "created")]
    /\ UNCHANGED <<clock, deadLetter, proposals, claimant, local>>

-----------------------------------------------------------------------------
(* claim and claim_for_execution *)

\* Rows that another transaction holds locked; SKIP LOCKED passes over them.
LockSets(p) == IF Procs = {p} THEN {{}} ELSE SUBSET {k \in Tasks : Stored(k)}

\* Mutant: a lease is given up one tick before it runs out.
ExpiredEarly(k, t) == tasks[k].status \in LeaseStates /\ tasks[k].expires <= t + 1

Expired(k, t) == tasks[k].status \in LeaseStates /\ tasks[k].expires <= t

\* Mutant: nothing is reaped.
ReapNothing(t, locked) == {}

\* _reap_expired: the last attempt ran out of its lease.
Reapable(t, locked) ==
    {k \in Tasks \ locked : Expired(k, t) /\ tasks[k].attempt >= MaxAttempts(k)}

\* Mutant: attempt <= max_attempts where the code has attempt < max_attempts.
ClaimableOnceMore(t, locked) ==
    {k \in Tasks \ locked :
        /\ Stored(k)
        /\ tasks[k].attempt <= MaxAttempts(k)
        /\ \/ tasks[k].status \in DueStates /\ tasks[k].due <= t
           \/ Expired(k, t)}

Claimable(t, locked) ==
    {k \in Tasks \ locked :
        /\ Stored(k)
        /\ tasks[k].attempt < MaxAttempts(k)
        /\ \/ tasks[k].status \in DueStates /\ tasks[k].due <= t
           \/ Expired(k, t)}

\* ORDER BY priority DESC, due_at ASC, created_at ASC, task_id ASC
Before(j, k) ==
    LET a == tasks[j]
        b == tasks[k]
    IN  \/ a.sub.priority > b.sub.priority
        \/ a.sub.priority = b.sub.priority /\ a.due < b.due
        \/ a.sub.priority = b.sub.priority /\ a.due = b.due
           /\ a.created < b.created
        \/ a.sub.priority = b.sub.priority /\ a.due = b.due
           /\ a.created = b.created /\ j < k

\* LIMIT 1: the candidate the claim takes, if there is any.
Candidate(t, locked) ==
    {k \in Claimable(t, locked) :
        \A j \in Claimable(t, locked) \ {k} : Before(k, j)}

Reaped(S) ==
    [k \in Tasks |->
        IF k \in S THEN Ended([tasks[k] EXCEPT !.failure = "internal"],
                              "dead_letter")
                   ELSE tasks[k]]

\* Mutant: the reaper leaves no timeline event.
ReapedTimelineSilent(S) == timeline

ReapedTimeline(S) ==
    [k \in Tasks |-> IF k \in S THEN Append(timeline[k], "dead_lettered")
                                ELSE timeline[k]]

\* INSERT INTO dead_letter ... ON CONFLICT DO NOTHING
Buried(k, why, reason) ==
    IF deadLetter[k] # None THEN deadLetter[k]
    ELSE [attempts |-> tasks[k].attempt, failure |-> why, reason |-> reason]

ReapedLetters(S) ==
    [k \in Tasks |-> IF k \in S
                     THEN Buried(k, "internal", "lease_expired_max_attempts")
                     ELSE deadLetter[k]]

\* A claim that finds no candidate still commits what it reaped.
ClaimNone(p) ==
    /\ local[p].pc = "idle"
    /\ \E t \in Readings, locked \in LockSets(p) :
          /\ Claimable(t, locked) = {}
          /\ tasks' = Reaped(Reapable(t, locked))
          /\ timeline' = ReapedTimeline(Reapable(t, locked))
          /\ deadLetter' = ReapedLetters(Reapable(t, locked))
    /\ UNCHANGED <<clock, proposals, claimant, local>>

\* Process p takes candidate k at reading t: the row gets its status, the next
\* attempt number and a lease.
Taken(p, k, t, status) ==
    [tasks[k] EXCEPT !.status = status, !.attempt = @ + 1,
                     !.owner = WorkerId[p], !.expires = t + Lease]

Take(p, k, t, locked, status) ==
    /\ tasks' = [Reaped(Reapable(t, locked)) EXCEPT ![k] = Taken(p, k, t, status)]
    /\ deadLetter' = ReapedLetters(Reapable(t, locked))
    /\ claimant' = claimant \cup {<<k, tasks[k].attempt + 1, p>>}
    /\ UNCHANGED <<clock, proposals>>

Remember(p, k, pc) ==
    local' = [local EXCEPT ![p] = [Idle EXCEPT !.pc = pc, !.task = k,
                                       !.attempt = tasks[k].attempt + 1]]

Claim(p) ==
    /\ p \in Clients /\ local[p].pc = "idle"
    /\ \E t \in Readings, locked \in LockSets(p) :
          \E k \in Candidate(t, locked) :
              /\ Take(p, k, t, locked, "leased")
              /\ timeline' = [ReapedTimeline(Reapable(t, locked)) EXCEPT
                                 ![k] = Append(@, "leased")]
              /\ Remember(p, k, "leased")

ClaimForExecution(p) ==
    /\ p \in Workers /\ local[p].pc = "idle"
    /\ \E t \in Readings, locked \in LockSets(p) :
          \E k \in Candidate(t, locked) :
              /\ tasks[k].sub.valid
              /\ Take(p, k, t, locked, "running")
              /\ timeline' = [ReapedTimeline(Reapable(t, locked)) EXCEPT
                                 ![k] = @ \o <<"leased", "running">>]
              /\ Remember(p, k, "claimed")

\* The payload of the candidate is parsed inside the transaction: a ValueError
\* rolls the claim and the reaping back, leaves run_once and ends the process.
ClaimAborts(p) ==
    /\ p \in Workers /\ local[p].pc = "idle"
    /\ \E t \in Readings, locked \in LockSets(p) :
          \E k \in Candidate(t, locked) : ~tasks[k].sub.valid
    /\ local' = [local EXCEPT ![p] = Down]
    /\ UNCHANGED <<clock, db>>

-----------------------------------------------------------------------------
(* Operations under a lease: the WHERE clause they share. *)

\* Mutant: the lease is checked by its owner alone, without the attempt.
HoldsIgnoringAttempt(p, t) ==
    /\ tasks[local[p].task].status \in LeaseStates
    /\ tasks[local[p].task].owner = WorkerId[p]
    /\ tasks[local[p].task].expires > t

Holds(p, t) ==
    /\ tasks[local[p].task].status \in LeaseStates
    /\ tasks[local[p].task].owner = WorkerId[p]
    /\ tasks[local[p].task].attempt = local[p].attempt
    /\ tasks[local[p].task].expires > t

Return(p) == local' = [local EXCEPT ![p] = Idle]

Start(p) ==
    /\ local[p].pc = "leased"
    /\ \E t \in Readings :
          IF Holds(p, t) /\ tasks[local[p].task].status = "leased"
          THEN /\ tasks' = [tasks EXCEPT ![local[p].task].status = "running"]
               /\ timeline' = [timeline EXCEPT ![local[p].task] =
                                  Append(@, "running")]
               /\ local' = [local EXCEPT ![p].pc = "started"]
          ELSE Return(p) /\ UNCHANGED <<tasks, timeline>>
    /\ UNCHANGED <<clock, deadLetter, proposals, claimant>>

\* In a worker the heartbeat thread notes a LeaseConflict and stops; it is
\* raised when the execution returns.  A client sees it at once.
Heartbeat(p) ==
    /\ local[p].pc \in {"executing", "leased", "started"}
    /\ ~local[p].lost
    /\ local[p].beats < MaxBeats
    /\ \E t \in Readings :
          IF Holds(p, t)
          THEN /\ tasks' = [tasks EXCEPT ![local[p].task].expires = t + Lease]
               /\ local' = [local EXCEPT ![p].beats = @ + 1]
          ELSE /\ UNCHANGED tasks
               /\ IF p \in Workers
                  THEN local' = [local EXCEPT ![p].lost = TRUE]
                  ELSE Return(p)
    /\ UNCHANGED <<clock, timeline, deadLetter, proposals, claimant>>

\* The reply of a committed succeed or completion may be lost, and the caller
\* then repeats the call.
Succeed(p) ==
    /\ local[p].pc \in {"leased", "started"}
    /\ \E t \in Readings :
          IF Holds(p, t)
          THEN /\ tasks' = [tasks EXCEPT ![local[p].task] =
                               Ended(@, "succeeded")]
               /\ timeline' = [timeline EXCEPT ![local[p].task] =
                                  Append(@, "succeeded")]
               /\ Return(p) \/ UNCHANGED local
          ELSE Return(p) /\ UNCHANGED <<tasks, timeline>>
    /\ UNCHANGED <<clock, deadLetter, proposals, claimant>>

\* fail: recheck after RetryDelay while attempts remain, dead letter otherwise.
Retries(k) == tasks[k].attempt < MaxAttempts(k)

FailedRow(k, t, why) ==
    IF Retries(k)
    THEN Ended([tasks[k] EXCEPT !.failure = why, !.due = t + RetryDelay], "recheck")
    ELSE Ended([tasks[k] EXCEPT !.failure = why], "dead_letter")

Fail(p) ==
    /\ local[p].pc \in {"failing", "leased", "started"}
    /\ Return(p)
    /\ \E t \in Readings, why \in Failures :
          LET k == local[p].task IN
          IF Holds(p, t)
          THEN /\ tasks' = [tasks EXCEPT ![k] = FailedRow(k, t, why)]
               /\ timeline' = [timeline EXCEPT ![k] = Append(@,
                     IF Retries(k) THEN "recheck_scheduled" ELSE "dead_lettered")]
               /\ deadLetter' = IF Retries(k) THEN deadLetter ELSE
                     [deadLetter EXCEPT ![k] =
                        Buried(k, why, "max_attempts_exhausted")]
          ELSE UNCHANGED <<tasks, timeline, deadLetter>>
    /\ UNCHANGED <<clock, proposals, claimant>>

-----------------------------------------------------------------------------
(* AgentWorker.run_once after the claim *)

Resolve(p) ==
    /\ local[p].pc = "claimed"
    /\ \E pc \in {"executing", "failing"} :
          local' = [local EXCEPT ![p].pc = pc]
    /\ UNCHANGED <<clock, db>>

\* The runner joins the heartbeat thread, then raises the failure it noted.
ExecuteReturns(p) ==
    /\ local[p].pc = "executing"
    /\ IF local[p].lost THEN Return(p)
       ELSE \E o \in Outputs :
               local' = [local EXCEPT ![p].pc = "completing", ![p].output = o]
    /\ UNCHANGED <<clock, db>>

ExecuteRaises(p) ==
    /\ local[p].pc = "executing"
    /\ local' = [local EXCEPT ![p].pc = "failing"]
    /\ UNCHANGED <<clock, db>>

\* _validate_completed_replay: the stored bundle must be the one replayed.
ReplayMatches(p) ==
    \E r \in proposals : /\ r.task = local[p].task
                         /\ r.attempt = local[p].attempt
                         /\ r.output = local[p].output

CompleteCommits(p) ==
    LET k == local[p].task IN
    /\ local[p].pc = "completing"
    /\ \E t \in Readings : Holds(p, t) /\ tasks[k].status = "running"
    /\ proposals' = proposals \cup
          {[task |-> k, attempt |-> local[p].attempt,
            output |-> local[p].output, by |-> p]}
    /\ tasks' = [tasks EXCEPT ![k] = Ended(@, "succeeded")]
    /\ timeline' = [timeline EXCEPT ![k] = Append(@, "succeeded")]
    /\ Return(p) \/ UNCHANGED local
    /\ UNCHANGED <<clock, deadLetter, claimant>>

\* The proposal does not validate, or an invocation key was reused: rollback.
CompleteRejected(p) ==
    /\ local[p].pc = "completing"
    /\ tasks[local[p].task].attempt = local[p].attempt
    /\ local' = [local EXCEPT ![p].pc = "failing"]
    /\ UNCHANGED <<clock, db>>

\* A stale attempt, a lapsed lease, or a task that is already completed.
CompleteAnswered(p) ==
    LET k == local[p].task IN
    /\ local[p].pc = "completing"
    /\ \E t \in Readings : ~(Holds(p, t) /\ tasks[k].status = "running")
    /\ IF /\ tasks[k].status = "succeeded"
          /\ tasks[k].attempt = local[p].attempt
          /\ ~ReplayMatches(p)
       THEN local' = [local EXCEPT ![p].pc = "failing"]
       ELSE Return(p)
    /\ UNCHANGED <<clock, db>>

-----------------------------------------------------------------------------
(* Failures of processes, and time *)

\* A crash, or an exception run_once does not catch: the lease is left behind.
Crash(p) ==
    /\ Active(p)
    /\ local' = [local EXCEPT ![p] = Down]
    /\ UNCHANGED <<clock, db>>

Restart(p) ==
    /\ local[p].pc = "down"
    /\ Return(p)
    /\ UNCHANGED <<clock, db>>

\* Time passes unnoticed once no stored timestamp lies ahead of the clock, so
\* the clock moves only while one does: that keeps the model finite.
Tick ==
    /\ \E k \in Tasks : \/ tasks[k].status \in LeaseStates /\ tasks[k].expires > clock
                        \/ tasks[k].status \in DueStates /\ tasks[k].due > clock
    /\ clock' = clock + 1
    /\ UNCHANGED <<db, local>>

-----------------------------------------------------------------------------
Init ==
    /\ clock = 0
    /\ tasks = [k \in Tasks |-> NoRow]
    /\ timeline = [k \in Tasks |-> <<>>]
    /\ deadLetter = [k \in Tasks |-> None]
    /\ proposals = {}
    /\ claimant = {}
    /\ local = [p \in Procs |-> Idle]

WorkerStep(p) ==
    \/ ClaimForExecution(p) \/ ClaimAborts(p) \/ Resolve(p)
    \/ ExecuteReturns(p) \/ ExecuteRaises(p)
    \/ CompleteCommits(p) \/ CompleteRejected(p) \/ CompleteAnswered(p)

ClientStep(p) == Claim(p) \/ Start(p) \/ Succeed(p)

Next ==
    \/ \E s \in Submissions : Enqueue(s)
    \/ \E p \in Procs :
          \/ ClaimNone(p) \/ WorkerStep(p) \/ ClientStep(p)
          \/ Heartbeat(p) \/ Fail(p) \/ Crash(p) \/ Restart(p)
    \/ Tick

Spec == Init /\ [][Next]_vars

\* The run loop polls for ever, model calls and HTTP calls have timeouts, and
\* the container restarts a process that exits.  Nothing obliges a client.
Fairness ==
    /\ WF_vars(Tick)
    /\ \A p \in Workers :
          /\ WF_vars(ClaimNone(p)) /\ WF_vars(ClaimForExecution(p))
          /\ WF_vars(Resolve(p))
          /\ WF_vars(ExecuteReturns(p) \/ ExecuteRaises(p))
          /\ WF_vars(CompleteCommits(p) \/ CompleteRejected(p)
                        \/ CompleteAnswered(p))
          /\ WF_vars(Fail(p))
          /\ WF_vars(Restart(p))

FairSpec == Spec /\ Fairness
-----------------------------------------------------------------------------
(* Properties *)

RowType ==
    [sub : Submissions \cup {None},
     status : {"absent"} \cup DueStates \cup LeaseStates \cup FinalStates,
     attempt : Nat, owner : {WorkerId[p] : p \in Procs} \cup {None},
     expires : Nat, due : Nat, created : Nat,
     failure : Failures \cup {"internal", None}]

LocalType ==
    [pc : {"idle", "down", "claimed", "executing", "completing", "failing",
           "leased", "started"},
     task : Tasks \cup {None}, attempt : Nat, output : Outputs \cup {None},
     lost : BOOLEAN, beats : Nat]

ProposalType == [task : Tasks, attempt : Nat, output : Outputs, by : Procs]

LetterType ==
    [attempts : Nat, failure : Failures \cup {"internal"},
     reason : {"lease_expired_max_attempts", "max_attempts_exhausted"}]

\* NULL is none of the values a column can hold.
ASSUME NullAssumption ==
    None \notin LetterType /\ None \notin Submissions

TypesOK ==
    /\ clock \in Nat
    /\ tasks \in [Tasks -> RowType]
    /\ timeline \in [Tasks -> Seq(Events)]
    /\ deadLetter \in [Tasks -> LetterType \cup {None}]
    /\ proposals \subseteq ProposalType
    /\ claimant \subseteq (Tasks \X Nat \X Procs)
    /\ local \in [Procs -> LocalType]

RowChecks ==
    \A k \in Tasks :
        /\ tasks[k].status # "absent" => /\ tasks[k].sub \in Submissions
                                         /\ tasks[k].sub.task = k
                                         /\ tasks[k].attempt <= MaxAttempts(k)
        /\ tasks[k].status \in LeaseStates <=> tasks[k].owner # None

\* Every variable has its type, and the CHECK constraints of agent_tasks hold:
\* attempt never passes max_attempts, and a row has a lease owner exactly while
\* it is leased or running (migration 001).
TypeOK == TypesOK /\ RowChecks

\* An attempt of a task is handed to one process only, ever: claim() and
\* claim_for_execution() never give out an attempt number twice, so that two
\* processes configured with the same worker_id are still told apart.
UniqueClaims ==
    \A c, d \in claimant : c[1] = d[1] /\ c[2] = d[2] => c = d

\* A proposal is stored only by the process its attempt was given to, for the
\* attempt the task stands at, and a task never gets a second one: what a
\* worker with a lapsed lease computed cannot reach complete_with_proposal.
ProposalFenced ==
    \A r \in proposals :
        /\ tasks[r.task].status = "succeeded"
        /\ tasks[r.task].attempt = r.attempt
        /\ <<r.task, r.attempt, r.by>> \in claimant
        /\ \A q \in proposals : q.task = r.task => q = r

\* A task is dead_letter exactly when it has a dead_letter row, and then it used
\* up every attempt: neither fail() nor _reap_expired() gives up early, and the
\* row, written once, agrees with the task.
DeadLetterExact ==
    \A k \in Tasks :
        /\ tasks[k].status = "dead_letter" <=> deadLetter[k] # None
        /\ deadLetter[k] # None =>
              /\ deadLetter[k].attempts = MaxAttempts(k)
              /\ tasks[k].attempt = MaxAttempts(k)
              /\ deadLetter[k].failure = tasks[k].failure

\* The idempotency key names one task: however often enqueue() is repeated, and
\* whatever task_id the repetition carries, no second row appears.
OneTaskPerKey ==
    \A j, k \in Tasks :
        Stored(j) /\ Stored(k) /\ tasks[j].sub.key = tasks[k].sub.key => j = k

\* The timeline can be replayed: it has one "leased" event per attempt, no lease
\* ends twice, and the last event says what the status is.
Count(k, events) ==
    Cardinality({i \in DOMAIN timeline[k] : timeline[k][i] \in events})

LastEvent(status) ==
    CASE status = "queued" -> "created"
      [] status = "leased" -> "leased"
      [] status = "running" -> "running"
      [] status = "recheck" -> "recheck_scheduled"
      [] status = "succeeded" -> "succeeded"
      [] status = "dead_letter" -> "dead_lettered"

TimelineReplays ==
    \A k \in Tasks :
        LET ends == {"recheck_scheduled", "succeeded", "dead_lettered"} IN
        IF ~Stored(k) THEN timeline[k] = <<>>
        ELSE /\ Count(k, {"created"}) = 1
             /\ Count(k, {"leased"}) = tasks[k].attempt
             /\ Count(k, ends) <= tasks[k].attempt
             /\ timeline[k][Len(timeline[k])] = LastEvent(tasks[k].status)

\* Nothing is given out or taken in twice: an attempt goes to one process and
\* an idempotency key to one row, whatever is repeated and whoever is late.
NothingTwice == UniqueClaims /\ OneTaskPerKey

\* Task row, dead letter and timeline, which different statements write, tell
\* one story of every task.
RecordsAgree == DeadLetterExact /\ TimelineReplays

\* A succeeded or dead-lettered row is never touched again, by a late call of a
\* process that lost its lease or by anything else.
TerminalIsFinal ==
    [][\A k \in Tasks :
          tasks[k].status \in FinalStates => tasks'[k] = tasks[k]]_vars

\* While a lease has not run out, no claim takes the task away from the process
\* that holds it: the attempt of a live lease does not change.
LiveLeaseKept ==
    [][\A k \in Tasks :
          tasks[k].status \in LeaseStates /\ tasks[k].expires > clock
             => tasks'[k].attempt = tasks[k].attempt]_vars

\* A process that took attempt n writes to the row only while the row stands at
\* attempt n: a step in which a lease ends without a new attempt is taken by the
\* process the attempt was given to, or by the reaper after the last attempt.
LeaseEndedByHolder ==
    [][\A k \in Tasks :
          tasks[k].status \in LeaseStates /\ tasks'[k].status \notin LeaseStates
             => \/ \E p \in Procs :
                      /\ <<k, tasks[k].attempt, p>> \in claimant
                      /\ local[p].task = k
                      /\ local[p].attempt = tasks[k].attempt
                \/ /\ tasks'[k].status = "dead_letter"
                   /\ tasks[k].attempt = MaxAttempts(k)
                   /\ tasks[k].expires <= clock]_vars

\* Who may do what to a row: while its lease is live nobody takes it over, a
\* lease ends by the process whose attempt it is, or by the reaper after the
\* last attempt, and what has ended stays as it is.
LeaseRules == LiveLeaseKept /\ LeaseEndedByHolder /\ TerminalIsFinal

\* Every accepted task is eventually completed or dead-lettered, whatever
\* crashes, lost leases and failures its attempts meet (run loop of AgentWorker,
\* lease expiry, retry and reaping), unless the queue holds a payload that no
\* worker can read.
EveryTaskSettles ==
    \A k \in Tasks :
        Stored(k) ~> \/ tasks[k].status \in FinalStates
                     \/ \E u \in Tasks : Stored(u) /\ ~tasks[u].sub.valid
=============================================================================
