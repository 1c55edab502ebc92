-------------------------- MODULE ProjectionOutbox ---------------------------
(***************************************************************************)
(* From a normalized observation to what people read about it.  Ingestion  *)
(* leaves a row in observer.context_publication_outbox; the                *)
(* ModelProjectionWorker (local_pilot_runtime/model_projection_worker.py)  *)
(* leases it under an attempt and a lease generation, asks the model for a *)
(* summary, publishes that to the context service and stores it as the     *)
(* Observer's own projection, and only then marks the row.                 *)
(*                                                                         *)
(* Three databases are written in three transactions: a worker can crash,  *)
(* lose its lease or fail between any two of them, and neither the context *)
(* service nor the projection table knows of leases.                       *)
(***************************************************************************)
EXTENDS Integers, FiniteSets

CONSTANTS
    Observations, \* observation events; each has one outbox row
    Texts,        \* what the model can answer: summary, language, proposals
    Workers,      \* ModelProjectionWorker processes
    WorkerId,     \* the configured worker_id of a process; it may be shared
    MaxAttempts,  \* column max_attempts
    Lease,        \* lease_duration, in ticks
    RetryDelay,   \* _RETRY_DELAY, in ticks
    MaxLag,       \* how old a clock reading may be when it is used
    MaxBeats,     \* bound: heartbeats of one attempt
    None          \* NULL

ASSUME ObservationAssumption == Observations \subseteq Nat

ASSUME WorkerIdAssumption == \A p \in Workers : WorkerId[p] # None

ASSUME LimitAssumption ==
    /\ MaxAttempts \in Nat \ {0} /\ Lease \in Nat \ {0}
    /\ RetryDelay \in Nat \ {0} /\ MaxLag \in Nat /\ MaxBeats \in Nat

VARIABLES
    clock,         \* wall clock
    outbox,        \* table observer.context_publication_outbox
    letters,       \* observations with a row in local_pilot_dead_letter
    local,         \* what each worker remembers of its claim; lost by a crash
    intelligence,  \* context.communication_intelligence, with the draft row and
                   \* the evidence that the same transaction inserts
    projections    \* observer.communication_projections

vars == <<clock, outbox, letters, local, intelligence, projections>>
views == <<intelligence, projections>>

DueStates   == {"queued", "retry_wait"}
FinalStates == {"published", "dead_letter"}

NoRow == [status |-> "absent", attempt |-> 0, gen |-> 0, owner |-> None,
          expires |-> 0, due |-> 0, created |-> 0]

Idle == [pc |-> "idle", obs |-> None, attempt |-> 0, gen |-> 0, expires |-> 0,
         payload |-> None, beat |-> "ok", beats |-> 0]
Down == [Idle EXCEPT !.pc = "down"]

Stored(o) == outbox[o].status # "absent"

Active(p) == local[p].pc \notin {"idle", "down"}

\* A reading of the clock that is at most MaxLag old.
Readings == {t \in 0..clock : clock - t <= MaxLag}

Return(p) == local' = [local EXCEPT ![p] = Idle]

Goto(p, pc) == local' = [local EXCEPT ![p].pc = pc]

-----------------------------------------------------------------------------
(* The outbox *)

\* INSERT INTO context_publication_outbox, with the observation itself; the
\* timestamps are those of the ingestion job.
Insert(o) ==
    /\ ~Stored(o)
    /\ \E t \in Readings :
          outbox' = [outbox EXCEPT ![o] = [NoRow EXCEPT !.status = "queued",
                                                        !.due = t, !.created = t]]
    /\ UNCHANGED <<clock, letters, local, views>>

Expired(o, t) == outbox[o].status = "leased" /\ outbox[o].expires <= t

\* Mutant: attempt_count <= max_attempts where the code has <.
ClaimableOnceMore(t, locked) ==
    {o \in Observations \ locked :
        /\ outbox[o].attempt <= MaxAttempts
        /\ \/ outbox[o].status \in DueStates /\ outbox[o].due <= t
           \/ Expired(o, t)}

\* Mutant: a lease that expired is not taken over.
ClaimableIfDue(t, locked) ==
    {o \in Observations \ locked :
        /\ outbox[o].attempt < MaxAttempts
        /\ outbox[o].status \in DueStates /\ outbox[o].due <= t}

Claimable(t, locked) ==
    {o \in Observations \ locked :
        /\ outbox[o].attempt < MaxAttempts
        /\ \/ outbox[o].status \in DueStates /\ outbox[o].due <= t
           \/ Expired(o, t)}

\* ORDER BY next_retry_at, created_at, outbox_id
Before(m, n) ==
    LET a == outbox[m]
        b == outbox[n]
    IN  \/ a.due < b.due
        \/ a.due = b.due /\ a.created < b.created
        \/ a.due = b.due /\ a.created = b.created /\ m < n

Candidate(t, locked) ==
    {o \in Claimable(t, locked) :
        \A n \in Claimable(t, locked) \ {o} : Before(o, n)}

\* Rows that another transaction holds locked; SKIP LOCKED passes over them.
LockSets(p) ==
    IF Workers = {p} THEN {{}} ELSE SUBSET {o \in Observations : Stored(o)}

Taken(p, o, t) ==
    [outbox[o] EXCEPT !.status = "leased", !.attempt = @ + 1, !.gen = @ + 1,
                      !.owner = WorkerId[p], !.expires = t + Lease]

\* Nothing is reaped here: a poll that finds no row changes nothing.
ClaimNone(p) ==
    /\ local[p].pc = "idle"
    /\ \E t \in Readings, locked \in LockSets(p) : Claimable(t, locked) = {}
    /\ UNCHANGED vars

Claim(p) ==
    /\ local[p].pc = "idle"
    /\ \E t \in Readings, locked \in LockSets(p) :
          \E o \in Candidate(t, locked) :
             /\ outbox' = [outbox EXCEPT ![o] = Taken(p, o, t)]
             /\ local' = [local EXCEPT ![p] =
                   [Idle EXCEPT !.pc = "claimed", !.obs = o,
                                !.attempt = outbox[o].attempt + 1,
                                !.gen = outbox[o].gen + 1, !.expires = t + Lease]]
    /\ UNCHANGED <<clock, letters, views>>

\* Mutant: the fence of mark_context_outbox, which knows only the worker.
HoldsByOwner(p, t) ==
    /\ outbox[local[p].obs].status = "leased"
    /\ outbox[local[p].obs].owner = WorkerId[p]
    /\ outbox[local[p].obs].expires > t

\* The WHERE clause of heartbeat, mark_published and mark_failed.
Holds(p, t) ==
    /\ outbox[local[p].obs].status = "leased"
    /\ outbox[local[p].obs].owner = WorkerId[p]
    /\ outbox[local[p].obs].attempt = local[p].attempt
    /\ outbox[local[p].obs].gen = local[p].gen
    /\ outbox[local[p].obs].expires > t

Ended(row, status) == [row EXCEPT !.status = status, !.owner = None, !.expires = 0]

-----------------------------------------------------------------------------
(* ModelProjectionWorker.run_once after the claim *)

Running == {"projecting", "publishing", "storing"}

\* _validate_claim: a claim that is already over is not worked on.
Begin(p) ==
    /\ local[p].pc = "claimed"
    /\ \E t \in Readings :
          IF local[p].expires > t THEN Goto(p, "projecting") ELSE Return(p)
    /\ UNCHANGED <<clock, outbox, letters, views>>

\* The renewing thread; its first failure stops it and is kept for later.  A
\* failure that is not a lost lease is one of the connection, which the thread
\* shares with the publisher.
Heartbeat(p) ==
    /\ local[p].pc \in Running
    /\ local[p].beat = "ok"
    /\ local[p].beats < MaxBeats
    /\ \/ \E t \in Readings :
             IF Holds(p, t)
             THEN /\ outbox' = [outbox EXCEPT ![local[p].obs].expires = t + Lease]
                  /\ local' = [local EXCEPT ![p].beats = @ + 1]
             ELSE local' = [local EXCEPT ![p].beat = "lost"] /\ UNCHANGED outbox
       \/ local' = [local EXCEPT ![p].beat = "error"] /\ UNCHANGED outbox
    /\ UNCHANGED <<clock, letters, views>>

\* ContextIntelligencePublication: the answer and the references of its call.
Publication(p, x) == [text |-> x, call |-> local[p].attempt]

\* _communication_detail: what the Observer keeps of it.
Detail(payload) == payload.text

\* The model answers.  The invocation_refs in the publication derive from the
\* tokenization receipt, whose id hashes the time: no two attempts share them.
Project(p) ==
    /\ local[p].pc = "projecting"
    /\ \E x \in Texts :
          local' = [local EXCEPT ![p].pc = "publishing",
                       ![p].payload = Publication(p, x)]
    /\ UNCHANGED <<clock, outbox, letters, views>>

\* Any exception of the publisher: source or raw text unavailable, provider
\* failure, output rejected, context service or database out of reach.
Raise(p) ==
    /\ local[p].pc \in Running
    /\ Goto(p, "failing")
    /\ UNCHANGED <<clock, outbox, letters, views>>

\* Mutant: a known idempotency_key is enough, the digest is not compared.
AcceptsKey(o, payload) == TRUE

\* PostgresCommunicationIntelligenceRepository.publish: the digest covers the
\* whole publication, invocation_refs included.
Accepts(o, payload) == intelligence[o] \in {None, payload}

\* A commit whose answer is lost is a failure to the worker.
Publish(p) ==
    LET o == local[p].obs IN
    /\ local[p].pc = "publishing"
    /\ IF Accepts(o, local[p].payload)
       THEN /\ intelligence' = [intelligence EXCEPT ![o] = local[p].payload]
            /\ Goto(p, "storing") \/ Goto(p, "failing")
       ELSE Goto(p, "failing") /\ UNCHANGED intelligence
    /\ UNCHANGED <<clock, outbox, letters, projections>>

\* What the runner does when the publisher has returned: the kept failure of
\* the renewing thread is raised now.
AfterRun(p) ==
    \/ local[p].beat = "ok" /\ Goto(p, "marking")
    \/ local[p].beat = "lost" /\ Return(p)
    \/ local[p].beat = "error" /\ Goto(p, "failing")

\* store_projection: ON CONFLICT DO NOTHING, then the row must say the same.
Store(p) ==
    LET o == local[p].obs
        x == Detail(local[p].payload)
    IN
    /\ local[p].pc = "storing"
    /\ IF projections[o] \in {None, x}
       THEN /\ projections' = [projections EXCEPT ![o] = x]
            /\ AfterRun(p) \/ Goto(p, "failing")
       ELSE Goto(p, "failing") /\ UNCHANGED projections
    /\ UNCHANGED <<clock, outbox, letters, intelligence>>

MarkPublished(p) ==
    /\ local[p].pc = "marking"
    /\ Return(p)
    /\ \E t \in Readings :
          outbox' = IF ~Holds(p, t) THEN outbox ELSE
             [outbox EXCEPT ![local[p].obs] = Ended(@, "published")]
    /\ UNCHANGED <<clock, letters, views>>

FailedRow(o, t) ==
    [Ended(outbox[o], IF outbox[o].attempt >= MaxAttempts THEN "dead_letter"
                                                          ELSE "retry_wait")
        EXCEPT !.due = t + RetryDelay]

MarkFailed(p) ==
    LET o == local[p].obs IN
    /\ local[p].pc = "failing"
    /\ Return(p)
    /\ \E t \in Readings :
          IF Holds(p, t)
          THEN /\ outbox' = [outbox EXCEPT ![o] = FailedRow(o, t)]
               /\ letters' = IF outbox[o].attempt >= MaxAttempts
                             THEN letters \cup {o} ELSE letters
          ELSE UNCHANGED <<outbox, letters>>
    /\ UNCHANGED <<clock, views>>

\* Also what an exception of a repository method comes to: main() returns.
Crash(p) ==
    /\ Active(p)
    /\ local' = [local EXCEPT ![p] = Down]
    /\ UNCHANGED <<clock, outbox, letters, views>>

Restart(p) ==
    /\ local[p].pc = "down"
    /\ Return(p)
    /\ UNCHANGED <<clock, outbox, letters, views>>

\* The clock moves only while a stored timestamp lies ahead of it.
Tick ==
    /\ \E o \in Observations :
          \/ outbox[o].status = "leased" /\ outbox[o].expires > clock
          \/ outbox[o].status \in DueStates /\ outbox[o].due > clock
    /\ clock' = clock + 1
    /\ UNCHANGED <<outbox, letters, local, views>>

-----------------------------------------------------------------------------
Init ==
    /\ clock = 0
    /\ outbox = [o \in Observations |-> NoRow]
    /\ letters = {}
    /\ local = [p \in Workers |-> Idle]
    /\ intelligence = [o \in Observations |-> None]
    /\ projections = [o \in Observations |-> None]

Run(p) ==
    \/ Begin(p) \/ Project(p) \/ Raise(p) \/ Publish(p) \/ Store(p)
    \/ MarkPublished(p) \/ MarkFailed(p)

Next ==
    \/ \E o \in Observations : Insert(o)
    \/ \E p \in Workers :
          \/ ClaimNone(p) \/ Claim(p) \/ Run(p) \/ Heartbeat(p)
          \/ Crash(p) \/ Restart(p)
    \/ Tick

Spec == Init /\ [][Next]_vars

\* run_worker polls for ever, model and database calls have timeouts, and the
\* container restarts a process that exits.  Heartbeats are not obliged.
Fairness ==
    /\ WF_vars(Tick)
    /\ \A p \in Workers :
          WF_vars(Claim(p)) /\ WF_vars(Run(p)) /\ WF_vars(Restart(p))

FairSpec == Spec /\ Fairness
-----------------------------------------------------------------------------
(* Properties *)

PayloadType == [text : Texts, call : Nat]

RowType ==
    [status : {"absent", "leased"} \cup DueStates \cup FinalStates,
     attempt : Nat, gen : Nat, owner : {WorkerId[p] : p \in Workers} \cup {None},
     expires : Nat, due : Nat, created : Nat]

LocalType ==
    [pc : {"idle", "down", "claimed", "marking", "failing"} \cup Running,
     obs : Observations \cup {None}, attempt : Nat, gen : Nat, expires : Nat,
     payload : PayloadType \cup {None}, beat : {"ok", "lost", "error"}, beats : Nat]

\* NULL is none of the values a column can hold.
ASSUME NullAssumption == None \notin PayloadType /\ None \notin Texts

TypesOK ==
    /\ clock \in Nat
    /\ outbox \in [Observations -> RowType]
    /\ letters \subseteq Observations
    /\ local \in [Workers -> LocalType]
    /\ intelligence \in [Observations -> PayloadType \cup {None}]
    /\ projections \in [Observations -> Texts \cup {None}]

RowChecks ==
    \A o \in Observations :
        /\ outbox[o].attempt <= MaxAttempts
        /\ outbox[o].gen = outbox[o].attempt
        /\ outbox[o].status = "leased" <=> outbox[o].owner # None

\* Every variable has its type; attempts are bounded and counted by the lease
\* generation, and a row has an owner exactly while it is leased.
TypeOK == TypesOK /\ RowChecks

\* What the Observer shows of an observation is what the context service holds,
\* whichever attempts wrote the two and in whatever order.
ViewsAgree ==
    \A o \in Observations :
        projections[o] # None =>
            intelligence[o] # None /\ intelligence[o].text = projections[o]

\* A row that mark_published ended is complete: the context service holds the
\* publication and the Observer shows the same text, although earlier attempts
\* may have died between the three transactions.
PublishedComplete ==
    \A o \in Observations :
        outbox[o].status = "published" =>
            intelligence[o] # None /\ projections[o] = intelligence[o].text

\* There is a dead letter exactly for the rows that are given up, and only after
\* their last attempt.
DeadLetterExact ==
    \A o \in Observations :
        /\ o \in letters <=> outbox[o].status = "dead_letter"
        /\ o \in letters => outbox[o].attempt = MaxAttempts

\* What four transactions of two databases leave behind is consistent: a reader
\* of the Observer never sees another text than a reader of the context service,
\* a published row has reached both, and a buried one has used its attempts.
OutcomesAgree == ViewsAgree /\ PublishedComplete /\ DeadLetterExact

Mine(p, o) ==
    Active(p) /\ local[p].obs = o /\ local[p].attempt = outbox[o].attempt

\* A leased row is touched only by the attempt that leased it, or taken over
\* after its lease has expired: a process that comes back late under the same
\* worker_id neither marks nor renews the lease of its successor.
LeaseMovedByHolder ==
    [][\A o \in Observations :
          outbox[o].status = "leased" /\ outbox'[o] # outbox[o] =>
             \/ Expired(o, clock) /\ outbox'[o].attempt = outbox[o].attempt + 1
             \/ /\ outbox'[o].attempt = outbox[o].attempt
                /\ \E p \in Workers : Mine(p, o) /\ local'[p] # local[p]]_vars

Abandoned(o) ==
    /\ outbox[o].status = "leased"
    /\ outbox[o].attempt = MaxAttempts /\ outbox[o].expires <= clock

\* A row whose worker crashes or loses its lease is attempted again: in the end
\* it is published or dead_letter, unless it was the last attempt that broke.
EveryRowTried ==
    \A o \in Observations :
        Stored(o) ~> (outbox[o].status \in FinalStates \/ Abandoned(o))
=============================================================================
