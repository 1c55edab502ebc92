----------------------------- MODULE DraftQueue ------------------------------
(***************************************************************************)
(* The communication draft queue: publish() of the context service leaves a *)
(* row in communication_draft_outbox, and CommunicationDraftWorker turns it *)
(* into a document of Frappe through the endpoint that Materialization also *)
(* uses.  Unlike there, the digest of the request is stored with the row,   *)
(* so that every attempt sends the same one.                                *)
(*                                                                         *)
(* All workers run under one worker_id, so that only the attempt tells them *)
(* apart.  Time is what has passed: a lease lapses at any moment, a retry   *)
(* is due at any moment.  A worker reads its clock before the statement     *)
(* that uses it, so one whose lease has just lapsed may still pass.         *)
(***************************************************************************)
EXTENDS Naturals, FiniteSets

CONSTANTS
    Drafts,        \* draft_ids: one per observation with a team
    Workers,       \* processes running run_worker
    MaxAttempts,   \* max_attempts
    Unreadable,    \* drafts whose row CommunicationDraftClaim refuses
    None

ASSUME DraftQueueAssumption ==
    /\ IsFiniteSet(Drafts) /\ IsFiniteSet(Workers)
    /\ MaxAttempts \in Nat \ {0}
    /\ Unreadable \subseteq Drafts
    /\ None \notin Drafts \cup Nat

VARIABLES
    outbox,     \* context.communication_draft_outbox
    local,      \* what each worker is doing; lost by a crash
    requests,   \* apply_draft requests on their way or being executed
    audit,      \* Integration Request of a draft: the document it names
    effects     \* the documents Frappe made

vars == <<outbox, local, requests, audit, effects>>

frappe == <<audit, effects>>

OpenStates  == {"pending", "retry", "running"}
FinalStates == {"succeeded", "dead_letter"}

NoRow == [status |-> "absent", attempt |-> 0, lapsed |-> FALSE, receipt |-> None]

Idle == [pc |-> "idle", draft |-> None, attempt |-> 0, receipt |-> None]
Down == [Idle EXCEPT !.pc = "down"]

Stored(d) == outbox[d].status # "absent"

Goto(w, pc) == local' = [local EXCEPT ![w].pc = pc]

Return(w) == local' = [local EXCEPT ![w] = Idle]

-----------------------------------------------------------------------------
(* The queue *)

\* publish(): the row comes with the intelligence it was drafted from, and a
\* repeated publication finds both.
Publish(d) ==
    /\ ~Stored(d)
    /\ outbox' = [outbox EXCEPT ![d].status = "pending"]
    /\ UNCHANGED <<local, requests, frappe>>

Expired(d) == outbox[d].status = "running" /\ outbox[d].lapsed

\* Mutant: the statement that gives up expired last attempts is missing.
ReapNothing == {}

Reapable == {d \in Drafts : Expired(d) /\ outbox[d].attempt >= MaxAttempts}

\* Mutant: attempt <= max_attempts where the code has attempt < max_attempts.
ClaimableOnceMore ==
    {d \in Drafts : /\ outbox[d].attempt <= MaxAttempts
                    /\ outbox[d].status \in {"pending", "retry"} \/ Expired(d)}

Claimable ==
    {d \in Drafts : /\ outbox[d].attempt < MaxAttempts
                    /\ outbox[d].status \in {"pending", "retry"} \/ Expired(d)}

Ended(row, status) == [row EXCEPT !.status = status, !.lapsed = FALSE]

Reaped == [d \in Drafts |-> IF d \in Reapable THEN Ended(outbox[d], "dead_letter")
                                              ELSE outbox[d]]

Taken(row) ==
    [row EXCEPT !.status = "running", !.attempt = @ + 1, !.lapsed = FALSE]

\* claim_draft: next_attempt_at and SKIP LOCKED may let any of them go first.
Claim(w, d) ==
    /\ local[w].pc = "idle" /\ d \in Claimable \ Unreadable
    /\ outbox' = [Reaped EXCEPT ![d] = Taken(@)]
    /\ local' = [local EXCEPT ![w] = [Idle EXCEPT !.pc = "claimed", !.draft = d,
                                                  !.attempt = outbox'[d].attempt]]
    /\ UNCHANGED <<requests, frappe>>

\* claim_draft finds nothing to take, and has given up what it could.
ClaimNone(w) ==
    /\ local[w].pc = "idle" /\ Claimable = {} /\ Reapable # {}
    /\ outbox' = Reaped
    /\ UNCHANGED <<local, requests, frappe>>

\* CommunicationDraftClaim refuses what publish() let through (a line break in
\* the summary, say): the claim is rolled back and main() returns.
ClaimAborts(w) ==
    /\ local[w].pc = "idle" /\ Claimable \cap Unreadable # {}
    /\ local' = [local EXCEPT ![w] = Down]
    /\ UNCHANGED <<outbox, requests, frappe>>

\* Mutant: only the attempt is compared.
HoldsLate(w) == outbox[local[w].draft].attempt = local[w].attempt

\* The WHERE clause of the statements that need the lease, but for its expiry.
Holds(w) == /\ outbox[local[w].draft].status = "running"
            /\ outbox[local[w].draft].attempt = local[w].attempt

\* CommunicationDraftLeaseConflict: the row is gone, or the clock says so.
Lost(w) ==
    /\ local[w].pc \in {"claimed", "acking", "failing"}
    /\ ~Holds(w) \/ outbox[local[w].draft].lapsed
    /\ Return(w)
    /\ UNCHANGED <<outbox, requests, frappe>>

\* heartbeat_draft, once, before the draft is sent.
Heartbeat(w) ==
    /\ local[w].pc = "claimed" /\ Holds(w)
    /\ outbox' = [outbox EXCEPT ![local[w].draft].lapsed = FALSE]
    /\ Goto(w, "sending")
    /\ UNCHANGED <<requests, frappe>>

\* _intent: the same request in every attempt, whose digest is the stored one.
Intent(w) == [draft |-> local[w].draft, attempt |-> local[w].attempt, found |-> "unread"]

\* client.apply
Send(w) ==
    /\ local[w].pc = "sending"
    /\ requests' = requests \cup {Intent(w)}
    /\ Goto(w, "waiting")
    /\ UNCHANGED <<outbox, frappe>>

\* No connection, no answer within the timeout, or an error of the database.
GiveUp(w) ==
    /\ local[w].pc \in {"claimed", "sending", "waiting", "acking"}
    /\ Goto(w, "failing")
    /\ UNCHANGED <<outbox, requests, frappe>>

\* acknowledge_draft; one that finds the row succeeded changes nothing.
Acknowledge(w) ==
    /\ local[w].pc = "acking" /\ Holds(w)
    /\ outbox' = [outbox EXCEPT ![local[w].draft] =
                     [Ended(@, "succeeded") EXCEPT !.receipt = local[w].receipt]]
    /\ Return(w)
    /\ UNCHANGED <<requests, frappe>>

\* fail_draft
Fail(w) ==
    /\ local[w].pc = "failing" /\ Holds(w)
    /\ outbox' = [outbox EXCEPT ![local[w].draft] =
                     Ended(@, IF @.attempt >= MaxAttempts THEN "dead_letter" ELSE "retry")]
    /\ Return(w)
    /\ UNCHANGED <<requests, frappe>>

\* A worker that dies while it waits for work is as good as one that waits.
Crash(w) ==
    /\ local[w].pc \notin {"idle", "down"}
    /\ local' = [local EXCEPT ![w] = Down]
    /\ UNCHANGED <<outbox, requests, frappe>>

Restart(w) ==
    /\ local[w].pc = "down"
    /\ Return(w)
    /\ UNCHANGED <<outbox, requests, frappe>>

Lapse(d) ==
    /\ outbox[d].status = "running" /\ ~outbox[d].lapsed
    /\ outbox' = [outbox EXCEPT ![d].lapsed = TRUE]
    /\ UNCHANGED <<local, requests, frappe>>

-----------------------------------------------------------------------------
(* apply_draft in Frappe *)

\* The answer reaches the worker that waits for it, or is lost.
Answer(r, receipt) ==
    \/ UNCHANGED local
    \/ \E w \in Workers :
          /\ local[w].pc = "waiting"
          /\ local[w].draft = r.draft /\ local[w].attempt = r.attempt
          /\ local' = [local EXCEPT ![w].receipt = receipt,
                         ![w].pc = IF receipt = None THEN "failing" ELSE "acking"]

\* _load_audit
Load(r) ==
    /\ r.found = "unread"
    /\ requests' = (requests \ {r}) \cup
          {[r EXCEPT !.found = IF audit[r.draft] = None THEN "none" ELSE "stored"]}
    /\ UNCHANGED <<outbox, local, frappe>>

\* The Integration Request is unique and comes with the document.
Execute(r) ==
    /\ r.found = "none" /\ audit[r.draft] = None
    /\ audit' = [audit EXCEPT ![r.draft] = r.attempt]
    /\ effects' = effects \cup {[mat |-> r.draft, name |-> r.attempt]}
    /\ requests' = requests \ {r}
    /\ Answer(r, r.attempt)
    /\ UNCHANGED outbox

\* The digest is the one that was stored: the receipt is given again.
Replay(r) ==
    /\ r.found = "stored"
    /\ requests' = requests \ {r}
    /\ Answer(r, audit[r.draft])
    /\ UNCHANGED <<outbox, frappe>>

\* An error rolls everything back; so does a restart of Frappe.
Refuse(r) ==
    /\ requests' = requests \ {r}
    /\ Answer(r, None)
    /\ UNCHANGED <<outbox, frappe>>

-----------------------------------------------------------------------------
Init ==
    /\ outbox = [d \in Drafts |-> NoRow]
    /\ local = [w \in Workers |-> Idle]
    /\ requests = {}
    /\ audit = [d \in Drafts |-> None]
    /\ effects = {}

\* One run_once, from the claim on.
Run(w) ==
    \/ Heartbeat(w) \/ Send(w) \/ GiveUp(w)
    \/ Acknowledge(w) \/ Fail(w) \/ Lost(w)

Next ==
    \/ \E d \in Drafts : Publish(d) \/ Lapse(d)
    \/ \E w \in Workers :
          \/ \E d \in Drafts : Claim(w, d)
          \/ ClaimNone(w) \/ ClaimAborts(w) \/ Run(w) \/ Crash(w) \/ Restart(w)
    \/ \E r \in requests : Load(r) \/ Execute(r) \/ Replay(r) \/ Refuse(r)

Spec == Init /\ [][Next]_vars

\* Workers poll for ever, HTTP calls have timeouts, leases run out and the
\* container restarts a process that exits.  Nothing is assumed of Frappe.
FairSpec ==
    /\ Spec
    /\ \A d \in Drafts : WF_vars(Lapse(d))
    /\ \A w \in Workers :
          /\ WF_vars(\E d \in Drafts : Claim(w, d)) /\ WF_vars(ClaimNone(w))
          /\ WF_vars(Run(w)) /\ WF_vars(Restart(w))

-----------------------------------------------------------------------------
(* Properties *)

\* The variables have their types and the CHECK constraints of the outbox hold.
TypeOK ==
    /\ outbox \in [Drafts -> [status : {"absent"} \cup OpenStates \cup FinalStates,
           attempt : 0..MaxAttempts, lapsed : BOOLEAN,
           receipt : 1..MaxAttempts \cup {None}]]
    /\ \A d \in Drafts :
          /\ outbox[d].status = "running" => outbox[d].attempt >= 1
          /\ outbox[d].lapsed => outbox[d].status = "running"
          /\ outbox[d].status = "succeeded" <=> outbox[d].receipt # None
    /\ local \in [Workers -> [pc : {"idle", "down", "claimed", "sending", "waiting",
           "acking", "failing"}, draft : Drafts \cup {None},
           attempt : 0..MaxAttempts, receipt : 1..MaxAttempts \cup {None}]]
    /\ requests \subseteq [draft : Drafts, attempt : 1..MaxAttempts,
                           found : {"unread", "none", "stored"}]
    /\ audit \in [Drafts -> 1..MaxAttempts \cup {None}]
    /\ effects \subseteq [mat : Drafts, name : 1..MaxAttempts]

Outcome(d) ==
    IF outbox[d].status \in OpenStates THEN "open"
    ELSE IF Stored(d) THEN outbox[d].status ELSE "none"

Abstract == INSTANCE DraftOnce WITH Mats <- Drafts,
                                    outcome <- [d \in Drafts |-> Outcome(d)]

\* The queue and Frappe keep the promise of DraftOnce, as the materialization
\* outbox does: one document per draft whatever is retried or comes late, and
\* no draft that succeeds without it or after it was given up.
KeepsPromise == Abstract!Spec

\* Every draft succeeds or is given up, whatever Frappe answers and wherever a
\* worker dies, unless the queue holds a row that no worker can read.
EveryDraftSettles ==
    \A d \in Drafts \ Unreadable :
        Stored(d) ~> \/ outbox[d].status \in FinalStates
                     \/ \E u \in Unreadable : Stored(u)
=============================================================================
