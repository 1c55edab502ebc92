--------------------------- MODULE Materialization ---------------------------
(***************************************************************************)
(* The second half of the agent pipeline: complete_with_proposal() leaves  *)
(* a row in proposal_materialization_outbox, a MaterializationWorker       *)
(* (services/agent_runtime/materialization.py) leases it, resolves the     *)
(* controlled context, turns the proposal into an intent and applies it to *)
(* Frappe, whose endpoint (api/internal/materialization.py of the app      *)
(* esan_gbos) keeps an Integration Request per request_id so that it can   *)
(* answer a repetition without repeating the effect.                       *)
(*                                                                         *)
(* A repository method is one transaction and one action.  In Frappe a     *)
(* request first looks its Integration Request up and later writes it: the *)
(* two steps of concurrent requests interleave, and a request goes on      *)
(* after the worker that sent it gave up waiting.                          *)
(***************************************************************************)
EXTENDS Integers, FiniteSets

CONSTANTS
    Mats,         \* materialization_ids
    Kind,         \* action_type of the proposal behind a materialization
    Target,       \* the document that a transition proposal submits
    Docs,         \* the AI drafts that transitions refer to
    Readable,     \* materializations whose proposal bundle can be loaded
    Contexts,     \* the team, reviewer and snapshot a context can consist of
    Team,         \* Contexts -> the team of a context
    Workers,      \* MaterializationWorker processes
    WorkerId,     \* the configured worker_id of a process; it may be shared
    MaxAttempts,  \* column max_attempts
    Lease,        \* lease_duration, in ticks
    RetryDelay,   \* retry_delay, in ticks
    MaxLag,       \* how old a clock reading may be when it is used
    MaxRevision,  \* bound: the revision up to which people change a draft
    None          \* NULL

Kinds == {"observation", "work_item", "review_case", "submit"}

ASSUME MatAssumption ==
    /\ Mats \subseteq Nat
    /\ \A m \in Mats : Kind[m] \in Kinds
    /\ \A m \in Mats : Kind[m] = "submit" => Target[m] \in Docs
    /\ "submit" \notin Contexts

ASSUME WorkerAssumption == \A p \in Workers : WorkerId[p] # None

ASSUME NumberAssumption ==
    /\ MaxAttempts \in Nat \ {0} /\ Lease \in Nat \ {0}
    /\ RetryDelay \in Nat \ {0} /\ MaxLag \in Nat /\ MaxRevision \in Nat

VARIABLES
    clock,      \* wall clock
    outbox,     \* table proposal_materialization_outbox
    local,      \* what each worker remembers of its claim; lost by a crash
    requests,   \* apply requests that Frappe is serving
    audit,      \* Integration Requests: the receipt stored for a request_id
    effects,    \* the drafts created and the submissions made in Frappe
    draft,      \* the stored version of each AI draft: its revision, and whether
                \* origin, review and business status let it be submitted
    context     \* what the context of each materialization resolves to now

vars == <<clock, outbox, local, requests, audit, effects, draft, context>>
frappe == <<audit, effects, draft>>

DueStates   == {"pending", "retry"}
FinalStates == {"succeeded", "dead_letter"}

NoRow == [status |-> "absent", attempt |-> 0, owner |-> None, expires |-> 0,
          due |-> 0, created |-> 0, updated |-> 0, receipt |-> None]

Idle == [pc |-> "idle", mat |-> None, attempt |-> 0, digest |-> None,
         receipt |-> None]
Down == [Idle EXCEPT !.pc = "down"]

Stored(m) == outbox[m].status # "absent"

Active(p) == local[p].pc \notin {"idle", "down"}

\* A reading of the clock that is at most MaxLag old; the readings of a process
\* may go back, as a wall clock can.
Readings == {t \in 0..clock : clock - t <= MaxLag}

Return(p) == local' = [local EXCEPT ![p] = Idle]

-----------------------------------------------------------------------------
(* The outbox *)

\* INSERT INTO proposal_materialization_outbox by complete_with_proposal
Insert(m) ==
    /\ ~Stored(m)
    /\ outbox' = [outbox EXCEPT ![m] =
                     [NoRow EXCEPT !.status = "pending", !.due = clock,
                                   !.created = clock, !.updated = clock]]
    /\ UNCHANGED <<clock, local, requests, frappe, context>>

Expired(m, t) == outbox[m].status = "running" /\ outbox[m].expires <= t

\* Mutant: nothing is reaped.
ReapNothing(t) == {}

Reapable(t) == {m \in Mats : Expired(m, t) /\ outbox[m].attempt >= MaxAttempts}

\* Mutant: attempt <= max_attempts where the code has attempt < max_attempts.
ClaimableOnceMore(t, locked) ==
    {m \in Mats \ locked :
        /\ outbox[m].attempt <= MaxAttempts
        /\ \/ outbox[m].status \in DueStates /\ outbox[m].due <= t
           \/ Expired(m, t)}

Claimable(t, locked) ==
    {m \in Mats \ locked :
        /\ outbox[m].attempt < MaxAttempts
        /\ \/ outbox[m].status \in DueStates /\ outbox[m].due <= t
           \/ Expired(m, t)}

\* ORDER BY next_attempt_at ASC, created_at ASC, materialization_id ASC
Before(m, n) ==
    LET a == outbox[m]
        b == outbox[n]
    IN  \/ a.due < b.due
        \/ a.due = b.due /\ a.created < b.created
        \/ a.due = b.due /\ a.created = b.created /\ m < n

Candidate(t, locked) ==
    {m \in Claimable(t, locked) :
        \A n \in Claimable(t, locked) \ {m} : Before(m, n)}

\* Rows that another transaction holds locked; SKIP LOCKED passes over them.
LockSets(p) == IF Workers = {p} THEN {{}} ELSE SUBSET {m \in Mats : Stored(m)}

Ended(row, status, t) ==
    [row EXCEPT !.status = status, !.owner = None, !.expires = 0, !.updated = t]

Reaped(t) ==
    [m \in Mats |-> IF m \in Reapable(t) THEN Ended(outbox[m], "dead_letter", t)
                                         ELSE outbox[m]]

Taken(p, m, t) ==
    [outbox[m] EXCEPT !.status = "running", !.attempt = @ + 1,
                      !.owner = WorkerId[p], !.expires = t + Lease, !.updated = t]

\* claim_materialization that finds nothing to do still commits what it reaped.
ClaimNone(p) ==
    /\ local[p].pc = "idle"
    /\ \E t \in Readings, locked \in LockSets(p) :
          Claimable(t, locked) = {} /\ outbox' = Reaped(t)
    /\ UNCHANGED <<clock, local, requests, frappe, context>>

Claim(p) ==
    /\ local[p].pc = "idle"
    /\ \E t \in Readings, locked \in LockSets(p) :
          \E m \in Candidate(t, locked) \cap Readable :
             /\ outbox' = [Reaped(t) EXCEPT ![m] = Taken(p, m, t)]
             /\ local' = [local EXCEPT ![p] =
                   [Idle EXCEPT !.pc = "claimed", !.mat = m,
                                !.attempt = outbox[m].attempt + 1]]
    /\ UNCHANGED <<clock, requests, frappe, context>>

\* The bundle is loaded inside the transaction: a ValidationError rolls the
\* claim back and ends the process.
ClaimAborts(p) ==
    /\ local[p].pc = "idle"
    /\ \E t \in Readings, locked \in LockSets(p) :
          Candidate(t, locked) \ Readable # {}
    /\ local' = [local EXCEPT ![p] = Down]
    /\ UNCHANGED <<clock, outbox, requests, frappe, context>>

\* The WHERE clause of heartbeat, acknowledge and fail.
Holds(p, t) ==
    /\ outbox[local[p].mat].status = "running"
    /\ outbox[local[p].mat].owner = WorkerId[p]
    /\ outbox[local[p].mat].attempt = local[p].attempt
    /\ outbox[local[p].mat].expires > t

-----------------------------------------------------------------------------
(* MaterializationWorker.run_once after the claim *)

\* Mutant: the lease is written even when it does not become longer.
RenewedAlways(row, t) == [row EXCEPT !.expires = t + Lease, !.updated = t]

\* Renews the lease if that makes it longer, and only verifies it otherwise.
Renewed(row, t) ==
    IF row.expires < t + Lease THEN [row EXCEPT !.expires = t + Lease, !.updated = t]
                               ELSE row

\* Before the context is resolved and again before the intent is applied.
Heartbeat(p) ==
    /\ local[p].pc \in {"claimed", "resolved"}
    /\ \E t \in Readings :
          IF Holds(p, t)
          THEN /\ outbox' = [outbox EXCEPT ![local[p].mat] = Renewed(@, t)]
               /\ local' = [local EXCEPT
                     ![p].pc = IF @ = "claimed" THEN "resolving" ELSE "sending"]
          ELSE Return(p) /\ UNCHANGED outbox
    /\ UNCHANGED <<clock, requests, frappe, context>>

\* The intent, and so its digest, depends on the context found now.
Resolve(p) ==
    LET m == local[p].mat IN
    /\ local[p].pc = "resolving"
    /\ Kind[m] # "submit" => context[m].open
    /\ local' = [local EXCEPT ![p].pc = "resolved",
           ![p].digest = IF Kind[m] = "submit" THEN "submit" ELSE context[m].value]
    /\ UNCHANGED <<clock, outbox, requests, frappe, context>>

\* No context, no answer, or an answer the client rejects.  Frappe may be
\* serving the request that the worker no longer waits for.
GiveUp(p) ==
    /\ local[p].pc \in {"resolving", "sending", "waiting"}
    /\ local' = [local EXCEPT ![p].pc = "failing"]
    /\ UNCHANGED <<clock, outbox, requests, frappe, context>>

Send(p) ==
    /\ local[p].pc = "sending"
    /\ requests' = requests \cup {[mat |-> local[p].mat, attempt |-> local[p].attempt,
                                   digest |-> local[p].digest, found |-> "unread",
                                   seen |-> None]}
    /\ local' = [local EXCEPT ![p].pc = "waiting"]
    /\ UNCHANGED <<clock, outbox, frappe, context>>

\* A succeeded row answers a repetition; a different receipt is a conflict,
\* and the attempt to report it then fails on the lease.
Acknowledge(p) ==
    LET m == local[p].mat IN
    /\ local[p].pc = "acking"
    /\ IF outbox[m].status = "succeeded"
       THEN Return(p) /\ UNCHANGED outbox
       ELSE \E t \in Readings :
               /\ Return(p)
               /\ outbox' = IF ~Holds(p, t) THEN outbox ELSE
                     [outbox EXCEPT ![m] = [Ended(@, "succeeded", t) EXCEPT
                                               !.receipt = local[p].receipt]]
    /\ UNCHANGED <<clock, requests, frappe, context>>

FailedRow(m, t) ==
    [Ended(outbox[m], IF outbox[m].attempt >= MaxAttempts THEN "dead_letter"
                                                          ELSE "retry", t)
        EXCEPT !.due = t + RetryDelay]

Fail(p) ==
    /\ local[p].pc = "failing"
    /\ Return(p)
    /\ \E t \in Readings :
          outbox' = IF ~Holds(p, t) THEN outbox ELSE
             [outbox EXCEPT ![local[p].mat] = FailedRow(local[p].mat, t)]
    /\ UNCHANGED <<clock, requests, frappe, context>>

Crash(p) ==
    /\ Active(p)
    /\ local' = [local EXCEPT ![p] = Down]
    /\ UNCHANGED <<clock, outbox, requests, frappe, context>>

Restart(p) ==
    /\ local[p].pc = "down"
    /\ Return(p)
    /\ UNCHANGED <<clock, outbox, requests, frappe, context>>

-----------------------------------------------------------------------------
(* apply_draft in Frappe *)

\* The response reaches the worker that waits for it, or is lost.  The worker
\* accepts a receipt only for the digest it sent.
Answer(r, receipt) ==
    \/ UNCHANGED local
    \/ \E p \in Workers :
          /\ local[p].pc = "waiting"
          /\ local[p].mat = r.mat /\ local[p].attempt = r.attempt
          /\ local' = IF receipt # None /\ receipt.digest = r.digest
                      THEN [local EXCEPT ![p].pc = "acking", ![p].receipt = receipt]
                      ELSE [local EXCEPT ![p].pc = "failing"]

\* What a request reads of the document it submits, or of the context of the one
\* it creates.  Under REPEATABLE READ later reads show the same version.
Snapshot(m) ==
    CASE Kind[m] = "submit"      -> draft[Target[m]]
      [] Kind[m] = "observation" -> None
      [] OTHER                   -> context[m]

\* _load_audit, in the snapshot that all plain reads of the request use.
Load(r) ==
    /\ r.found = "unread"
    /\ requests' = (requests \ {r}) \cup
          {[r EXCEPT !.found = IF audit[r.mat] = None THEN "none" ELSE "stored",
                     !.seen = Snapshot(r.mat)]}
    /\ UNCHANGED <<clock, outbox, local, frappe, context>>

\* _validate_intent, and the check of _execute_intent on a submission: a work
\* item needs the same team, a review case the same context.
Valid(r) ==
    CASE Kind[r.mat] = "submit"      -> r.seen.open
      [] Kind[r.mat] = "work_item"   -> Team[r.seen.value] = Team[r.digest]
      [] Kind[r.mat] = "review_case" -> r.seen = [value |-> r.digest, open |-> TRUE]
      [] OTHER                       -> TRUE

\* Mutant: Integration Requests are not unique, only looked up beforehand.
InsertsBlindly(r) == r.found = "none"

\* The insertion of an Integration Request that exists is a DuplicateEntryError.
Inserts(r) == r.found = "none" /\ audit[r.mat] = None

\* Mutant: a save does not compare revisions.
SavesAnyway(r) == TRUE

\* _advance_revision: the save of a submission reads the stored revision FOR
\* UPDATE and refuses a document that was changed since the request read it.
SavesLatest(r) ==
    Kind[r.mat] = "submit" => draft[Target[r.mat]].revision = r.seen.revision

Execute(r) ==
    LET receipt == [name |-> r.attempt, digest |-> r.digest] IN
    /\ Inserts(r) /\ Valid(r) /\ SavesLatest(r)
    /\ audit' = [audit EXCEPT ![r.mat] = receipt]
    /\ effects' = effects \cup
          {[mat |-> r.mat, name |-> r.attempt, digest |-> r.digest]}
    /\ draft' = IF Kind[r.mat] # "submit" THEN draft
                ELSE [draft EXCEPT ![Target[r.mat]] =
                         [open |-> FALSE, revision |-> @.revision + 1]]
    /\ requests' = requests \ {r}
    /\ Answer(r, receipt)
    /\ UNCHANGED <<clock, outbox, context>>

\* The stored receipt for the same digest; 409 for another.
Replay(r) ==
    /\ r.found = "stored"
    /\ requests' = requests \ {r}
    /\ Answer(r, IF audit[r.mat].digest = r.digest THEN audit[r.mat] ELSE None)
    /\ UNCHANGED <<clock, outbox, frappe, context>>

\* Mutant: an error response counts as success.
RefuseAsSuccess(r) ==
    /\ requests' = requests \ {r}
    /\ Answer(r, [name |-> r.attempt, digest |-> r.digest])
    /\ UNCHANGED <<clock, outbox, frappe, context>>

\* An error rolls everything back; so does a restart of Frappe.
Refuse(r) ==
    /\ requests' = requests \ {r}
    /\ Answer(r, None)
    /\ UNCHANGED <<clock, outbox, frappe, context>>

\* People edit teams, subjects and drafts meanwhile.
ContextChanges(m) ==
    /\ Kind[m] # "submit"
    /\ \E v \in Contexts, o \in BOOLEAN :
          context' = [context EXCEPT ![m] = [value |-> v, open |-> o]]
    /\ UNCHANGED <<clock, outbox, local, requests, frappe>>

\* Every save of a draft gives it a new revision, whether it is edited,
\* submitted, closed or made an AI draft again.
DraftChanges(d) ==
    /\ draft[d].revision < MaxRevision
    /\ \E open \in BOOLEAN :
          draft' = [draft EXCEPT ![d] = [open |-> open, revision |-> @.revision + 1]]
    /\ UNCHANGED <<clock, outbox, local, requests, audit, effects, context>>

\* The clock moves only while a stored timestamp lies ahead of it.
Tick ==
    /\ \E m \in Mats : \/ outbox[m].status = "running" /\ outbox[m].expires > clock
                       \/ outbox[m].status \in DueStates /\ outbox[m].due > clock
    /\ clock' = clock + 1
    /\ UNCHANGED <<outbox, local, requests, frappe, context>>

-----------------------------------------------------------------------------
Init ==
    /\ clock = 0
    /\ outbox = [m \in Mats |-> NoRow]
    /\ local = [p \in Workers |-> Idle]
    /\ requests = {}
    /\ audit = [m \in Mats |-> None]
    /\ effects = {}
    /\ draft = [d \in Docs |-> [open |-> TRUE, revision |-> 1]]
    /\ \E v \in Contexts : context = [m \in Mats |-> [value |-> v, open |-> TRUE]]

Run(p) ==
    \/ Heartbeat(p) \/ Resolve(p) \/ GiveUp(p) \/ Send(p) \/ Acknowledge(p) \/ Fail(p)

Serve(r) == Load(r) \/ Execute(r) \/ Replay(r) \/ Refuse(r)

Next ==
    \/ \E m \in Mats : Insert(m) \/ ContextChanges(m)
    \/ \E d \in Docs : DraftChanges(d)
    \/ \E p \in Workers :
          \/ ClaimNone(p) \/ Claim(p) \/ ClaimAborts(p)
          \/ Run(p) \/ Crash(p) \/ Restart(p)
    \/ \E r \in requests : Serve(r)
    \/ Tick

Spec == Init /\ [][Next]_vars

\* Workers poll for ever, the HTTP client gives up waiting after its timeout, and
\* the container restarts a process that exits.  Nothing is assumed of Frappe.
Fairness ==
    /\ WF_vars(Tick)
    /\ \A p \in Workers :
          /\ WF_vars(ClaimNone(p)) /\ WF_vars(Claim(p))
          /\ WF_vars(Run(p)) /\ WF_vars(Restart(p))

FairSpec == Spec /\ Fairness
-----------------------------------------------------------------------------
(* Properties *)

Digests == Contexts \cup {"submit"}

ReceiptType == [name : Nat, digest : Digests]

RowType ==
    [status : {"absent", "running"} \cup DueStates \cup FinalStates,
     attempt : Nat, owner : {WorkerId[p] : p \in Workers} \cup {None},
     expires : Nat, due : Nat, created : Nat, updated : Nat,
     receipt : ReceiptType \cup {None}]

LocalType ==
    [pc : {"idle", "down", "claimed", "resolving", "resolved", "sending",
           "waiting", "acking", "failing"},
     mat : Mats \cup {None}, attempt : Nat, digest : Digests \cup {None},
     receipt : ReceiptType \cup {None}]

DraftType == [open : BOOLEAN, revision : Nat]

ContextType == [value : Contexts, open : BOOLEAN]

RequestType ==
    [mat : Mats, attempt : Nat, digest : Digests, found : {"unread", "none", "stored"},
     seen : DraftType \cup ContextType \cup {None}]

EffectType == [mat : Mats, name : Nat, digest : Digests]

\* NULL is none of the values a column can hold.
ASSUME NullAssumption == None \notin ReceiptType

TypesOK ==
    /\ clock \in Nat
    /\ outbox \in [Mats -> RowType]
    /\ local \in [Workers -> LocalType]
    /\ requests \subseteq RequestType
    /\ audit \in [Mats -> ReceiptType \cup {None}]
    /\ effects \subseteq EffectType
    /\ draft \in [Docs -> DraftType]
    /\ context \in [Mats -> ContextType]

RowChecks ==
    \A m \in Mats :
        /\ outbox[m].attempt <= MaxAttempts
        /\ outbox[m].status = "running" <=> outbox[m].owner # None
        /\ outbox[m].status = "running" => outbox[m].attempt >= 1
        /\ outbox[m].status = "succeeded" <=> outbox[m].receipt # None

\* Every variable has its type and proposal_materialization_outbox_state_check
\* (migration 004) holds: attempts are bounded, a lease owner exactly while
\* running, a receipt exactly when succeeded.
TypeOK == TypesOK /\ RowChecks

\* However often a materialization is retried, and however late a request whose
\* worker gave up is executed, Frappe creates or submits one document for it.
OneEffect == \A d, e \in effects : d.mat = e.mat => d = e

\* The outbox reports success only with the receipt of something that Frappe did
\* for this materialization: its name and the digest that was applied.
SuccessIsReal ==
    \A m \in Mats :
        outbox[m].status = "succeeded" =>
            [mat |-> m, name |-> outbox[m].receipt.name,
             digest |-> outbox[m].receipt.digest] \in effects

\* What the outbox says and what Frappe did agree, through retries, late
\* requests and lost answers: at most one effect, and success only with it.
EffectExact == OneEffect /\ SuccessIsReal

\* A proposal submits a draft only while the stored version, and not only the
\* version that its request read, is an open AI draft, and closes it: of the
\* proposals and people that submit a draft at the same time one takes effect,
\* and another only if somebody made the document a draft again.
OneSubmissionPerDraft ==
    [][\A e \in effects' \ effects : Kind[e.mat] = "submit" =>
          draft[Target[e.mat]].open /\ ~draft'[Target[e.mat]].open]_vars

\* enforce_materialization_state_transition (migration 006): what the trigger
\* lets an UPDATE do to a row.
Transition(a, b) ==
    \/ /\ a.status \in DueStates \cup {"running"}
       /\ b.status = "running" /\ b.attempt = a.attempt + 1
    \/ /\ a.status = "running"
       /\ b.status \in FinalStates \cup {"retry"} /\ b.attempt = a.attempt
    \/ /\ a.status = "running" /\ b.status = "running" /\ b.attempt = a.attempt
       /\ b.owner = a.owner /\ b.expires > a.expires
       /\ b.due = a.due /\ b.receipt = a.receipt /\ b.updated >= a.updated

\* No UPDATE of the repository is ever rejected by the trigger on the outbox,
\* even if the clock of a worker steps back: a rejected heartbeat would fail an
\* attempt that has its lease.
TriggerAccepts ==
    [][\A m \in Mats : Stored(m) /\ outbox'[m] # outbox[m]
                           => Transition(outbox[m], outbox'[m])]_vars

\* Every row is eventually succeeded or dead_letter, whatever Frappe answers and
\* wherever a worker dies, unless the outbox holds a row whose bundle cannot be
\* loaded.
EveryRowSettles ==
    \A m \in Mats :
        Stored(m) ~> \/ outbox[m].status \in FinalStates
                     \/ \E u \in Mats \ Readable : Stored(u)

Outcome(m) ==
    IF outbox[m].status \in DueStates \cup {"running"} THEN "open"
    ELSE IF outbox[m].status = "absent" THEN "none" ELSE outbox[m].status

Abstract == INSTANCE DraftOnce WITH outcome <- [m \in Mats |-> Outcome(m)]

\* The outbox, the workers and Frappe together keep the promise of DraftOnce:
\* at most one effect, and success only after it.
KeepsPromise == Abstract!Spec
=============================================================================
