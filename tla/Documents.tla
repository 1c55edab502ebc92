------------------------------ MODULE Documents ------------------------------
(***************************************************************************)
(* The governed business documents of the Frappe application and the       *)
(* commands that change them.                                              *)
(*                                                                         *)
(* Every POST command of the BFF runs in one MariaDB transaction under     *)
(* REPEATABLE READ.  Begin is its first read, which fixes what the plain   *)
(* reads of the command see; the action of the command is the rest, where  *)
(* inserts and FOR UPDATE reads meet what is committed by then, up to the  *)
(* commit; Abort is every other end: a refusal, a replayed answer, an      *)
(* error or a lost connection, each of which rolls back.  Writers use the  *)
(* Desk form too, which saves through the same document classes; it may    *)
(* set the review status, and no save of this model changes the origin.    *)
(***************************************************************************)
EXTENDS Integers, Sequences, FiniteSets

CONSTANTS
    Docs,           \* the documents
    Type,           \* Type[d]: its workflow
    Start,          \* Start[d]: the stored document at the start
    Subject,        \* Subject[c]: the document a review case is about
    PinnedRevision, \* PinnedRevision[c]: the revision of it that was pinned
    AIOrigin,       \* the documents whose origin is AI
    Assigned,       \* Assigned[d]: the reviewer of a review case, the assignee of a
                    \* work item
    Users, Roles,   \* Roles[u]: the roles of a user, all members of one team
    Requests,       \* the commands users send, each any number of times
    Sessions,       \* requests served at the same time
    None

VARIABLES
    docs,       \* the stored documents: [status, review, revision]
    audits,     \* Integration Request rows: idempotency key -> the command
    rows,       \* documents that commands created, in order
    session     \* the transaction each session is in

vars == <<docs, audits, rows, session>>

Keys == {r.key : r \in Requests} \ {None}
Cases == {d \in Docs : Type[d] = "review"}
Idle == [req |-> None]

\* The options of the field review_status, of every document type.
ReviewStatuses == {"AI Draft", "Pending", "Approved", "Rejected", "Superseded"}

-----------------------------------------------------------------------------
(* domain/state_machine.py and domain/revision.py.                         *)

\* Mutant: a workflow status may follow any other.
AnyTransition(workflow, before, after) == TRUE

\* _TRANSITIONS.
Transitions ==
    [sample |-> {<<"Draft", "Designing">>, <<"Designing", "Sampling">>,
                 <<"Sampling", "Sent">>, <<"Sent", "Feedback">>,
                 <<"Feedback", "Approved">>, <<"Feedback", "Rejected">>}
                \cup {"Draft", "Designing", "Sampling", "Sent", "Feedback"} \X {"Cancelled"},
     demand |-> {<<"Draft", "Confirmed">>, <<"Confirmed", "Sourcing">>,
                 <<"Sourcing", "Fulfilled">>}
                \cup {"Draft", "Confirmed", "Sourcing"} \X {"Cancelled"},
     work |-> {<<"Open", "In Progress">>, <<"Open", "Blocked">>,
               <<"In Progress", "Blocked">>, <<"In Progress", "Done">>,
               <<"Blocked", "In Progress">>}
              \cup {"Open", "In Progress", "Blocked"} \X {"Cancelled"},
     review |-> {"Pending"} \X {"Approved", "Rejected", "Superseded"}]

\* The statuses a workflow knows.
Statuses(workflow) == {e[1] : e \in Transitions[workflow]} \cup
                      {e[2] : e \in Transitions[workflow]}

\* validate_transition.
ValidTransition(workflow, before, after) ==
    before = after \/ <<before, after>> \in Transitions[workflow]

\* next_revision: the expected revision is the current one.
NextRevision(expected, current) == expected = current

-----------------------------------------------------------------------------
(* Who may do what: permissions.py and domain/permissions.py.              *)

\* _TEAM_WRITE, for the roles and document types of this model.
TeamWrite == [SalesUser |-> {"sample", "demand", "work"}, Buyer |-> {"work"},
              Reviewer |-> {}, Admin |-> {}]

\* _is_assigned_review_subject, as of the command's snapshot.
AssignedSubject(u, d, seen) ==
    \E c \in Cases : Subject[c] = d /\ Assigned[c] = u /\ seen[c].status = "Pending"

\* can_access_record for write: the reviewer's own subject is closed to them
\* whatever else they may do.
CanAccessRecord(u, d, assigned) ==
    /\ ~("Reviewer" \in Roles[u] /\ assigned)
    /\ \/ "Admin" \in Roles[u]
       \/ \E role \in Roles[u] : Type[d] \in TeamWrite[role]

\* has_gbos_permission for write: a review case is the administrator's.
CanWrite(u, d, seen) ==
    IF d \in Cases THEN "Admin" \in Roles[u]
    ELSE CanAccessRecord(u, d, AssignedSubject(u, d, seen))

\* can_access_review_case.
CanAccessReviewCase(u, c) ==
    "Admin" \in Roles[u] \/ ("Reviewer" \in Roles[u] /\ Assigned[c] = u)

\* _reviewer_names: the drafts a user is concerned with, which are the review
\* cases and work items assigned to them and the subjects of those cases.
ReviewerNames(u) ==
    LET mine == {d \in Docs : Type[d] \in {"work", "review"} /\ Assigned[d] = u} IN
    IF "Admin" \in Roles[u] THEN Docs
    ELSE mine \cup {Subject[c] : c \in mine \cap Cases}

\* require_roles of each endpoint.
RequiredRoles ==
    [transition |-> {"Admin", "SalesUser", "Buyer"}, source |-> {"Admin", "Buyer"},
     feedback |-> {"Admin", "SalesUser"}, project |-> {"Admin", "SalesUser"},
     decide |-> {"Admin", "Reviewer"}, submit |-> {"Admin", "Reviewer"},
     save |-> {"Admin", "SalesUser", "Buyer", "Reviewer"}]

-----------------------------------------------------------------------------
(* Saving a document: GBOSDocument, GBOSReviewCase and the draft hook.     *)

\* _protect_assigned_review_subject, a plain read.
ProtectsSubject(u, d, seen) ==
    "Reviewer" \in Roles[u] =>
        ~ \E c \in Cases : /\ Subject[c] = d /\ Assigned[c] = u
                           /\ seen[c].status = "Pending" /\ seen[c].review = "Pending"

\* _protect_command_boundary: a decided case is closed, and only a command of
\* the review workflow changes a case's status or review status.
CommandBoundary(d, before, status, review, flagged) ==
    d \in Cases => /\ before.status = "Pending"
                   /\ flagged \/ (status = before.status /\ review = before.review)

\* hooks.py: the document types whose saves pass protect_ai_draft_command.  A
\* demand or a sample project in AI Draft is saved like any other.
DraftTypes == {"work", "review"}

\* Mutant: the hook does not ask for the flag of the draft command.
ProtectsFormOnly(d, before, status, review, flagged) ==
    Type[d] \in DraftTypes /\ before.review = "AI Draft" /\ review # "AI Draft" =>
        d \in AIOrigin /\ review = "Pending" /\ status = before.status

\* protect_ai_draft_command: an AI draft leaves its draft state through the
\* draft command only, towards Pending and with its status unchanged.
ProtectsDraft(d, before, status, review, flagged) ==
    Type[d] \in DraftTypes /\ before.review = "AI Draft" /\ review # "AI Draft" =>
        flagged /\ d \in AIOrigin /\ review = "Pending" /\ status = before.status

\* _advance_revision: the stored revision, read FOR UPDATE, is the loaded one.
AdvanceRevision(d, loaded) == NextRevision(loaded.revision, docs[d].revision)

\* validate and save of a document that was loaded as before: flags are the
\* review and draft commands that vouch for the change.
Save(u, d, loaded, seen, status, review, flags) ==
    /\ CommandBoundary(d, loaded, status, review, "review" \in flags)
    /\ ProtectsSubject(u, d, seen)
    /\ ValidTransition(Type[d], loaded.status, status)
    /\ AdvanceRevision(d, loaded)
    /\ ProtectsDraft(d, loaded, status, review, "draft" \in flags)
    /\ docs' = [docs EXCEPT ![d] = [status |-> status, review |-> review,
                                   revision |-> loaded.revision + 1]]

-----------------------------------------------------------------------------
(* run_idempotent and the transaction around a command.                    *)

\* What the plain reads of a command can depend on.
Touched(r) == IF r.doc = None THEN {}
              ELSE {r.doc} \cup {c \in Cases : Subject[c] = r.doc}
                           \cup (IF r.doc \in Cases THEN {Subject[r.doc]} ELSE {})

\* validate_payload: a command has a key, and only a creation has no revision.
ValidPayload(r) == r.op = "save" \/ (r.key # None /\ (r.expected = 0 <=> r.op = "project"))

\* validate_decision_payload.
ValidDecisionPayload(r) == r.op = "decide" => r.to \in {"Approved", "Rejected"}

\* bff_endpoint, require_roles and the first read, _load of the audit row.
Begin(s, r) ==
    /\ session[s] = Idle
    /\ Roles[r.actor] \cap RequiredRoles[r.op] # {}
    /\ ValidPayload(r) /\ ValidDecisionPayload(r)
    /\ session' = [session EXCEPT ![s] =
           [req |-> r, audit |-> IF r.key = None THEN None ELSE audits[r.key],
            seen |-> [d \in Touched(r) \cup Cases |-> docs[d]]]]
    /\ UNCHANGED <<docs, audits, rows>>

\* Mutant: a duplicate audit row is taken for the command's own.
FirstSeen(s) == session[s].audit = None

\* The key has no audit row, neither in the snapshot nor when the command's
\* own is inserted: one committed in between is a duplicate entry.
FirstUse(s) == session[s].audit = None /\ audits[session[s].req.key] = None

\* The command commits: its audit row is completed with it.
Commit(s) ==
    /\ audits' = [audits EXCEPT ![session[s].req.key] = session[s].req]
    /\ session' = [session EXCEPT ![s] = Idle]

\* The transaction ends without effect.
Abort(s) ==
    /\ session[s] # Idle
    /\ session' = [session EXCEPT ![s] = Idle]
    /\ UNCHANGED <<docs, audits, rows>>

\* A command op is being executed for the first time.
Executes(s, op) == session[s] # Idle /\ session[s].req.op = op /\ FirstUse(s)

\* A document a command inserts beside the one it saves.
Row(kind, r, outcome, revision) ==
    [kind |-> kind, parent |-> r.doc, key |-> r.key, by |-> r.actor,
     outcome |-> outcome, revision |-> revision]

-----------------------------------------------------------------------------
(* The commands.                                                           *)

\* work_item.transition.
Transition(s) ==
    LET r == session[s].req
        doc == session[s].seen[r.doc]
    IN
    /\ Executes(s, "transition")
    /\ Type[r.doc] = "work"
    /\ CanWrite(r.actor, r.doc, session[s].seen)
    /\ NextRevision(r.expected, doc.revision)
    /\ Save(r.actor, r.doc, doc, session[s].seen, r.to, doc.review, {})
    /\ Commit(s)
    /\ UNCHANGED rows

\* sourcing.create_from_demand: the demand is saved whoever owns it.
CreateFromDemand(s) ==
    LET r == session[s].req
        doc == session[s].seen[r.doc]
    IN
    /\ Executes(s, "source")
    /\ Type[r.doc] = "demand"
    /\ NextRevision(r.expected, doc.revision)
    /\ rows' = Append(rows, Row("event", r, "Draft", doc.revision))
    /\ Save(r.actor, r.doc, doc, session[s].seen, "Sourcing", doc.review, {})
    /\ Commit(s)

\* sample.record_feedback.
RecordFeedback(s) ==
    LET r == session[s].req
        doc == session[s].seen[r.doc]
    IN
    /\ Executes(s, "feedback")
    /\ Type[r.doc] = "sample"
    /\ CanWrite(r.actor, r.doc, session[s].seen)
    /\ NextRevision(r.expected, doc.revision)
    /\ rows' = Append(rows, Row("feedback", r, "Received", doc.revision))
    /\ Save(r.actor, r.doc, doc, session[s].seen, "Feedback", doc.review, {})
    /\ Commit(s)

\* sample.create_project: nothing but the audit row tells a repetition.
CreateProject(s) ==
    /\ Executes(s, "project")
    /\ rows' = Append(rows, Row("project", session[s].req, "Draft", 0))
    /\ Commit(s)
    /\ UNCHANGED docs

\* build_subject_snapshot: a save that changes any of its fields advances the
\* revision, which therefore stands for the snapshot and its digest.
SubjectSnapshot(c, seen) == seen[Subject[c]].revision

\* decide: the live subject must be the pinned one; it is read without a lock.
SubjectLive(c, seen) == SubjectSnapshot(c, seen) = PinnedRevision[c]

\* review_case.decide: the case is read FOR UPDATE.
Decide(s) ==
    LET r == session[s].req
        case == docs[r.doc]
    IN
    /\ Executes(s, "decide")
    /\ r.doc \in Cases
    /\ CanAccessReviewCase(r.actor, r.doc)
    /\ case.status = "Pending" /\ case.review = "Pending"
    /\ NextRevision(r.expected, case.revision)
    /\ SubjectLive(r.doc, session[s].seen)
    /\ rows' = Append(rows, Row("decision", r, r.to, case.revision))
    /\ Save(r.actor, r.doc, case, session[s].seen, r.to, r.to, {"review"})
    /\ Commit(s)

\* _find_draft, which reads FOR UPDATE, and validate_ai_draft_transition.
FindDraft(u, d) == d \in ReviewerNames(u) \cap AIOrigin /\ docs[d].review = "AI Draft"

\* ai_draft.submit_for_review, whose call of the agent service may still fail
\* and end in Abort.
SubmitForReview(s) ==
    LET r == session[s].req
        draft == docs[r.doc]
    IN
    /\ Executes(s, "submit")
    /\ Type[r.doc] \in {"work", "review"}
    /\ FindDraft(r.actor, r.doc)
    /\ NextRevision(r.expected, draft.revision)
    /\ Save(r.actor, r.doc, draft, session[s].seen, draft.status, "Pending",
            {"draft", "review"})
    /\ Commit(s)
    /\ UNCHANGED rows

\* A form of the Desk is saved: the loaded document is the one the user had
\* on screen, with the status and the review status they chose.
DeskSave(s) ==
    LET r == session[s].req
        doc == session[s].seen[r.doc]
    IN
    /\ session[s] # Idle /\ r.op = "save"
    /\ CanWrite(r.actor, r.doc, session[s].seen)
    /\ NextRevision(r.expected, doc.revision)
    /\ Save(r.actor, r.doc, doc, session[s].seen, r.to, r.review, {})
    /\ session' = [session EXCEPT ![s] = Idle]
    /\ UNCHANGED <<audits, rows>>

-----------------------------------------------------------------------------
\* Every document has a workflow and starts as one that was stored under it; a
\* review case starts undecided, for its decision is a row this model creates.
\* A review case is about a document.
ASSUME DocumentsAssumption ==
    /\ None \notin Docs \cup Requests
    /\ Type \in [Docs -> DOMAIN Transitions] /\ AIOrigin \subseteq Docs
    /\ Start = [d \in Docs |-> Start[d]]
    /\ \A d \in Docs :
          /\ Start[d] \in [status : Statuses(Type[d]), review : ReviewStatuses,
                           revision : Nat \ {0}]
          /\ Type[d] = "review" => Start[d].status = "Pending"
    /\ \A c \in Cases : Subject[c] \in Docs

\* So is a command other than a creation; a form offers the review statuses.
ASSUME RequestsAssumption ==
    /\ \A r \in Requests : r.doc \in Docs \cup (IF r.op = "project" THEN {None} ELSE {})
    /\ \A r \in Requests : r.op = "save" => r.review \in ReviewStatuses

Init ==
    /\ docs = Start
    /\ audits = [k \in Keys |-> None]
    /\ rows = <<>>
    /\ session = [s \in Sessions |-> Idle]

Next ==
    \E s \in Sessions :
        \/ \E r \in Requests : Begin(s, r)
        \/ Transition(s) \/ CreateFromDemand(s) \/ RecordFeedback(s)
        \/ CreateProject(s) \/ Decide(s) \/ SubmitForReview(s) \/ DeskSave(s)
        \/ Abort(s)

Spec == Init /\ [][Next]_vars

-----------------------------------------------------------------------------
(* Properties.                                                             *)

\* The documents keep statuses of their own workflow, and what commands
\* created and audited is of the declared kinds.
TypeOK ==
    /\ \A d \in Docs :
          /\ docs[d].status \in Statuses(Type[d])
          /\ docs[d].review \in ReviewStatuses
          /\ docs[d].revision \in Nat \ {0}
    /\ audits \in [Keys -> Requests \cup {None}]
    /\ \A i \in DOMAIN rows : rows[i].kind \in {"event", "feedback", "project", "decision"}
    /\ \A s \in Sessions : session[s].req \in Requests \cup {None}

\* A session submits the draft d for somebody it concerns.
IsSubmitted(d) ==
    \E s \in Sessions :
        /\ session[s] # Idle /\ session'[s] = Idle
        /\ session[s].req.op = "submit" /\ session[s].req.doc = d
        /\ d \in ReviewerNames(session[s].req.actor)

\* Every change of a document is one legal step of the version that is stored,
\* never of one that was read earlier: its revision grows by one, its status
\* follows its workflow, and a review case is decided only out of Pending.  Two
\* commands that read the same revision can therefore not both take effect.  A
\* work item or review case that is an AI draft leaves that state only when
\* somebody it concerns submits it, whatever review status a form is saved with:
\* it was of AI origin, becomes Pending and keeps its status.
GovernedSteps ==
    [][\A d \in Docs : docs'[d] # docs[d] =>
          /\ docs'[d].revision = docs[d].revision + 1
          /\ ValidTransition(Type[d], docs[d].status, docs'[d].status)
          /\ Type[d] \in {"work", "review"} /\ docs[d].review = "AI Draft"
                 /\ docs'[d].review # "AI Draft" =>
                /\ d \in AIOrigin /\ docs'[d].review = "Pending"
                /\ docs'[d].status = docs[d].status
                /\ IsSubmitted(d)
          /\ d \in Cases /\ docs'[d].status # docs[d].status =>
                docs[d].review = "Pending"]_vars

\* Commands take effect once.  However often a request is repeated, under its
\* own key or another one, no key creates two documents and no revision of a
\* document is the ground of two: every event, feedback and decision belongs to
\* the one change its parent made when it left the revision the row names, and
\* an event's or feedback's parent never returns to a status before it.  (A
\* demand in Sourcing may be sourced again by a command that names its new
\* revision: validate_transition accepts an unchanged status.)
RowsExact ==
    /\ \A i, j \in DOMAIN rows : i # j => rows[i].key # rows[j].key
    /\ \A i \in DOMAIN rows : audits[rows[i].key] # None
    /\ \A i \in DOMAIN rows : rows[i].kind # "project" =>
          /\ rows[i].revision < docs[rows[i].parent].revision
          /\ \A j \in DOMAIN rows :
                rows[j].kind # "project" /\ rows[j].parent = rows[i].parent
                    /\ rows[j].revision = rows[i].revision => j = i
    /\ \A i \in DOMAIN rows : rows[i].kind \in {"event", "feedback"} =>
          docs[rows[i].parent].status \notin
              {"Draft", "Confirmed", "Designing", "Sampling", "Sent"}

\* A review case and its decision agree: a case is Approved or Rejected exactly
\* when there is one decision, of that outcome, taken on the last revision of
\* the case before it by its assigned reviewer or an administrator.
DecisionExact ==
    \A c \in Cases :
        LET taken == {i \in DOMAIN rows : rows[i].kind = "decision" /\ rows[i].parent = c} IN
        IF docs[c].status = "Pending" THEN taken = {}
        ELSE /\ Cardinality(taken) = 1
             /\ \A i \in taken :
                   /\ rows[i].outcome = docs[c].status /\ docs[c].review = docs[c].status
                   /\ rows[i].revision = docs[c].revision - 1
                   /\ rows[i].by = Assigned[c] \/ "Admin" \in Roles[rows[i].by]

\* What commands have created agrees with the documents they changed, although
\* rows and documents are written one after the other.
RecordsExact == RowsExact /\ DecisionExact
=============================================================================
