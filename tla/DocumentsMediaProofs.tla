------------------------ MODULE DocumentsMediaProofs -------------------------
(***************************************************************************)
(* What two services that answer a request behind an idempotency key or an *)
(* optimistic revision guarantee: the governed documents of the Frappe app *)
(* and the media runtime.                                                  *)
(***************************************************************************)
EXTENDS Documents, MediaJobs, FiniteSetTheorems, TLAPS

-----------------------------------------------------------------------------
(***************************************************************************)
(* Documents, for any set of documents, users, commands and sessions: the  *)
(* types, that every change of a document is a legal step of its stored    *)
(* version, and that the rows commands create agree with the documents they*)
(* changed.                                                                *)
(*                                                                         *)
(* The argument turns on the revision.  What a session has read is either  *)
(* the stored document or a version with a smaller revision, so the        *)
(* revision that _advance_revision compares under a lock stands for the    *)
(* whole document; and a row names a revision its parent has left, so no   *)
(* later command can name it again.                                        *)
(***************************************************************************)

\* What is stored of a document.
Doc(d) == [status : Statuses(Type[d]), review : ReviewStatuses, revision : Nat \ {0}]

\* What commands insert beside the documents.
RowType == [kind : {"event", "feedback", "project", "decision"},
            parent : {r.doc : r \in Requests}, key : Keys,
            by : {r.actor : r \in Requests},
            outcome : {"Draft", "Received", "Approved", "Rejected"}, revision : Nat]

\* A version that was read, and the stored one.
Read(seen, stored) == /\ seen.revision <= stored.revision
                      /\ seen.revision = stored.revision => seen = stored

\* A session is idle or executes a valid command on a snapshot of the past.
SessionOK(x, dd) ==
    \/ x = Idle
    \/ /\ x.req \in Requests
       /\ ValidPayload(x.req) /\ ValidDecisionPayload(x.req)
       /\ \A d \in Touched(x.req) \cup Cases :
             d \in Docs /\ x.seen[d] \in Doc(d) /\ Read(x.seen[d], dd[d])

\* The statuses a demand and a sample project do not leave backwards.
Sourced == {"Sourcing", "Fulfilled", "Cancelled"}
AnsweredStatus == {"Feedback", "Approved", "Rejected", "Cancelled"}

\* A decided case is as its decision says, and was decided by who may.
DecidedBy(w, case) ==
    /\ w.outcome \in {"Approved", "Rejected"}
    /\ case.status = w.outcome /\ case.review = w.outcome
    /\ w.revision = case.revision - 1
    /\ w.by = Assigned[w.parent] \/ "Admin" \in Roles[w.by]

\* A row agrees with its parent, and its key is used up.
RowOK(w, dd, aa) ==
    /\ aa[w.key] # None
    /\ w.kind # "project" =>
          w.parent \in Docs /\ w.revision < dd[w.parent].revision
    /\ w.kind = "event" => Type[w.parent] = "demand" /\ dd[w.parent].status \in Sourced
    /\ w.kind = "feedback" => Type[w.parent] = "sample" /\ dd[w.parent].status \in AnsweredStatus
    /\ w.kind = "decision" => Type[w.parent] = "review" /\ DecidedBy(w, dd[w.parent])

\* Two rows have different keys, and stand for different changes.
Apart(v, w) ==
    /\ v.key # w.key
    /\ ~(/\ v.kind # "project" /\ w.kind # "project"
         /\ v.parent = w.parent /\ v.revision = w.revision)

Types ==
    /\ DOMAIN docs = Docs /\ \A d \in Docs : docs[d] \in Doc(d)
    /\ docs = [d \in Docs |-> docs[d]]
    /\ audits \in [Keys -> Requests \cup {None}]
    /\ rows \in Seq(RowType)
    /\ session = [s \in Sessions |-> session[s]]

IndInv ==
    /\ Types
    /\ \A s \in Sessions : SessionOK(session[s], docs)
    /\ \A i \in DOMAIN rows : RowOK(rows[i], docs, audits)
    /\ \A i, j \in DOMAIN rows : i # j => Apart(rows[i], rows[j])
    /\ \A c \in Cases : docs[c].status # "Pending" =>
          \E i \in DOMAIN rows : rows[i].kind = "decision" /\ rows[i].parent = c

-----------------------------------------------------------------------------
(* The state machines.                                                     *)

\* A legal step ends in a status of its workflow.
LEMMA StatusStays ==
    ASSUME NEW w, NEW b \in Statuses(w), NEW a, ValidTransition(w, b, a)
    PROVE  a \in Statuses(w)
<1>1. CASE b = a
  BY <1>1
<1>2. CASE <<b, a>> \in Transitions[w]
  <2> DEFINE e == <<b, a>>
  <2>1. e[2] = a
    OBVIOUS
  <2> QED
    BY <1>2, <2>1 DEF Statuses
<1> QED
  BY <1>1, <1>2 DEF ValidTransition

\* A demand that was sourced does not go back, and one that may be sourced is
\* Confirmed or Sourcing.
LEMMA DemandForward ==
    ASSUME NEW b \in Sourced, NEW a, ValidTransition("demand", b, a)
    PROVE  a \in Sourced
BY DEF ValidTransition, Transitions, Sourced

LEMMA SampleForward ==
    ASSUME NEW b \in AnsweredStatus, NEW a, ValidTransition("sample", b, a)
    PROVE  a \in AnsweredStatus
BY DEF ValidTransition, Transitions, AnsweredStatus

-----------------------------------------------------------------------------
(* Saving.                                                                 *)

\* What a save does to the stored document d.
Changed(d, status, review, flags) ==
    /\ docs' = [docs EXCEPT ![d] = [status |-> status, review |-> review,
                                    revision |-> docs[d].revision + 1]]
    /\ ValidTransition(Type[d], docs[d].status, status)
    /\ CommandBoundary(d, docs[d], status, review, "review" \in flags)
    /\ ProtectsDraft(d, docs[d], status, review, "draft" \in flags)

\* A save that passes the revision check has loaded the stored version.
LEMMA SaveChanges ==
    ASSUME NEW u, NEW d, NEW loaded, NEW seen, NEW status, NEW review, NEW flags,
           Read(loaded, docs[d]), Save(u, d, loaded, seen, status, review, flags)
    PROVE  loaded = docs[d] /\ Changed(d, status, review, flags)
<1>1. loaded = docs[d]
  BY DEF Save, AdvanceRevision, NextRevision, Read
<1> QED
  BY <1>1 DEF Save, Changed

\* The documents after a save.
LEMMA ChangedDocs ==
    ASSUME Types, NEW d \in Docs, NEW status, NEW review \in ReviewStatuses, NEW flags,
           Changed(d, status, review, flags)
    PROVE  /\ DOMAIN docs' = Docs
           /\ docs' = [x \in Docs |-> docs'[x]]
           /\ \A x \in Docs : docs'[x] \in Doc(x)
           /\ \A x \in Docs : x # d => docs'[x] = docs[x]
           /\ docs'[d].status = status
           /\ docs'[d].review = review
           /\ docs'[d].revision = docs[d].revision + 1
<1> DEFINE new == [status |-> status, review |-> review,
                   revision |-> docs[d].revision + 1]
<1>1. docs[d] \in Doc(d)
  BY DEF Types
<1>2. status \in Statuses(Type[d])
  BY <1>1, StatusStays DEF Changed, Doc
<1>3. docs[d].revision + 1 \in Nat \ {0}
  BY <1>1 DEF Doc
<1>4. new \in Doc(d)
  BY <1>2, <1>3 DEF Doc
<1>5. new.status = status /\ new.review = review /\ new.revision = docs[d].revision + 1
  OBVIOUS
<1> HIDE DEF new
<1>6. docs' = [docs EXCEPT ![d] = new]
  BY DEF Changed, new
<1>7. docs'[d] = new /\ \A x \in Docs : x # d => docs'[x] = docs[x]
  BY <1>6 DEF Types
<1>8. DOMAIN docs' = Docs
  BY <1>6 DEF Types
<1>9. docs' = [x \in Docs |-> docs'[x]]
  BY <1>6, <1>8 DEF Types
<1>10. \A x \in Docs : docs'[x] \in Doc(x)
  BY <1>4, <1>7 DEF Types
<1> QED
  BY <1>5, <1>7, <1>8, <1>9, <1>10

\* What sessions have read stays a version of the past.
LEMMA SessionFollows ==
    ASSUME Types, NEW d \in Docs, NEW status, NEW review \in ReviewStatuses, NEW flags,
           Changed(d, status, review, flags), NEW x, SessionOK(x, docs)
    PROVE  SessionOK(x, docs')
<1>1. ASSUME NEW e \in Docs, NEW v \in Doc(e), Read(v, docs[e])
      PROVE  Read(v, docs'[e])
  <2>1. CASE e = d
    <3>1. /\ docs'[d].revision = docs[d].revision + 1
          /\ v.revision \in Nat /\ docs[d].revision \in Nat
          /\ v.revision <= docs[d].revision
      BY <1>1, <2>1, ChangedDocs DEF Types, Doc, Read
    <3> QED
      BY <2>1, <3>1 DEF Read
  <2>2. CASE e # d
    BY <1>1, <2>2, ChangedDocs
  <2> QED
    BY <2>1, <2>2
<1> QED
  BY <1>1 DEF SessionOK

\* A row goes on to agree with its parent: of a decided case nothing changes,
\* and an event's or feedback's parent moves on.
LEMMA RowFollows ==
    ASSUME Types, NEW d \in Docs, NEW status, NEW review \in ReviewStatuses, NEW flags,
           Changed(d, status, review, flags),
           NEW w \in RowType, RowOK(w, docs, audits), NEW aa, aa[w.key] # None
    PROVE  RowOK(w, docs', aa)
<1>1. CASE w.kind = "project"
  BY <1>1 DEF RowOK
<1>2. CASE w.kind # "project" /\ w.parent # d
  <2>1. docs'[w.parent] = docs[w.parent]
    BY <1>2, ChangedDocs DEF RowOK
  <2> QED
    BY <2>1 DEF RowOK
<1>3. CASE w.kind # "project" /\ w.parent = d
  <2>1. w.revision < docs'[d].revision
    <3>1. /\ docs'[d].revision = docs[d].revision + 1
          /\ w.revision \in Nat /\ docs[d].revision \in Nat
          /\ w.revision < docs[d].revision
      BY <1>3, ChangedDocs DEF RowOK, Types, Doc, RowType
    <3> QED
      BY <3>1
  <2>2. docs'[d].status = status
    BY ChangedDocs
  <2>3. w.kind # "decision"
    BY <1>3 DEF Changed, CommandBoundary, Cases, RowOK, DecidedBy
  <2>4. CASE w.kind = "event"
    <3>1. Type[d] = "demand" /\ docs[d].status \in Sourced
      BY <1>3, <2>4 DEF RowOK
    <3>2. status \in Sourced
      BY <3>1, DemandForward DEF Changed
    <3> QED
      BY <1>3, <2>1, <2>2, <2>4, <3>1, <3>2 DEF RowOK
  <2>5. CASE w.kind = "feedback"
    <3>1. Type[d] = "sample" /\ docs[d].status \in AnsweredStatus
      BY <1>3, <2>5 DEF RowOK
    <3>2. status \in AnsweredStatus
      BY <3>1, SampleForward DEF Changed
    <3> QED
      BY <1>3, <2>1, <2>2, <2>5, <3>1, <3>2 DEF RowOK
  <2> QED
    BY <1>3, <2>3, <2>4, <2>5 DEF RowType
<1> QED
  BY <1>1, <1>2, <1>3

-----------------------------------------------------------------------------
(* A command commits.                                                      *)

\* The rows after one more.
LEMMA OneMore ==
    ASSUME NEW T, NEW q \in Seq(T), NEW w \in T, NEW p, p = Append(q, w)
    PROVE  /\ p \in Seq(T)
           /\ DOMAIN p = DOMAIN q \cup {Len(q) + 1}
           /\ Len(q) + 1 \notin DOMAIN q
           /\ p[Len(q) + 1] = w
           /\ \A i \in DOMAIN q : p[i] = q[i]
OBVIOUS

\* The sessions after one of them ended.
LEMMA SessionEnds ==
    ASSUME NEW dd, NEW s \in Sessions, Types,
           session' = [session EXCEPT ![s] = Idle],
           \A t \in Sessions : SessionOK(session[t], dd)
    PROVE  /\ session' = [t \in Sessions |-> session'[t]]
           /\ \A t \in Sessions : SessionOK(session'[t], dd)
<1>1. session' = [t \in Sessions |-> session'[t]]
  BY DEF Types
<1>2. ASSUME NEW t \in Sessions PROVE SessionOK(session'[t], dd)
  <2>1. CASE t = s
    BY <2>1 DEF Types, SessionOK
  <2>2. CASE t # s
    BY <2>2 DEF Types
  <2> QED
    BY <2>1, <2>2
<1> QED
  BY <1>1, <1>2

\* Keys are never given back.
Kept == /\ audits' \in [Keys -> Requests \cup {None}]
        /\ \A k \in Keys : audits[k] # None => audits'[k] # None

\* A save without a row: a review case keeps its status.
LEMMA SaveAlone ==
    ASSUME IndInv, NEW s \in Sessions, NEW d \in Docs, NEW status,
           NEW review \in ReviewStatuses, NEW flags, Changed(d, status, review, flags),
           Kept, session' = [session EXCEPT ![s] = Idle], rows' = rows,
           d \in Cases => status = docs[d].status
    PROVE  IndInv'
<1>0. Types
  BY DEF IndInv
<1>1. \A t \in Sessions : SessionOK(session[t], docs')
  BY <1>0, SessionFollows DEF IndInv
<1>2. /\ session' = [t \in Sessions |-> session'[t]]
      /\ \A t \in Sessions : SessionOK(session'[t], docs')
  BY <1>0, <1>1, SessionEnds
<1>3. Types'
  BY <1>0, <1>2, ChangedDocs DEF Types, Kept
<1>4. ASSUME NEW i \in DOMAIN rows PROVE RowOK(rows[i], docs', audits')
  <2>1. rows[i] \in RowType /\ RowOK(rows[i], docs, audits)
    BY <1>0 DEF Types, IndInv
  <2>2. audits'[rows[i].key] # None
    BY <2>1 DEF Kept, RowOK, RowType
  <2> QED
    BY <1>0, <2>1, <2>2, RowFollows
<1>5. ASSUME NEW c \in Cases, docs'[c].status # "Pending"
      PROVE  \E i \in DOMAIN rows : rows[i].kind = "decision" /\ rows[i].parent = c
  <2>1. docs[c].status # "Pending"
    <3>1. c \in Docs
      BY DEF Cases
    <3>2. /\ \A x \in Docs : x # d => docs'[x] = docs[x]
          /\ docs'[d].status = status
      BY <1>0, ChangedDocs
    <3> QED
      BY <1>5, <3>1, <3>2
  <2> QED
    BY <2>1 DEF IndInv
<1> QED
  BY <1>2, <1>3, <1>4, <1>5 DEF IndInv

\* A row that is new: its key is unused and it names the stored revision.
Fresh(w, d) ==
    /\ w \in RowType
    /\ audits[w.key] = None
    /\ w.kind # "project" => w.parent = d /\ w.revision = docs[d].revision

\* A new row is apart from every other one.
LEMMA FreshApart ==
    ASSUME IndInv, NEW d \in Docs, NEW w, Fresh(w, d), NEW i \in DOMAIN rows
    PROVE  Apart(rows[i], w) /\ Apart(w, rows[i])
<1>1. rows[i] \in RowType /\ RowOK(rows[i], docs, audits)
  BY DEF IndInv, Types
<1>2. rows[i].key # w.key
  BY <1>1 DEF Fresh, RowOK
<1>3. rows[i].kind # "project" /\ rows[i].parent = d => rows[i].revision # docs[d].revision
  <2>1. docs[d].revision \in Nat /\ rows[i].revision \in Nat
    BY <1>1 DEF IndInv, Types, Doc, RowType
  <2> QED
    BY <1>1, <2>1 DEF RowOK
<1> QED
  BY <1>2, <1>3 DEF Apart, Fresh

\* A save with the row that goes with it.
LEMMA SaveWithRow ==
    ASSUME IndInv, NEW s \in Sessions, NEW d \in Docs, NEW status,
           NEW review \in ReviewStatuses, NEW flags, Changed(d, status, review, flags),
           Kept, session' = [session EXCEPT ![s] = Idle],
           NEW w, Fresh(w, d), rows' = Append(rows, w), RowOK(w, docs', audits'),
           d \in Cases => w.kind = "decision" /\ w.parent = d
    PROVE  IndInv'
<1>0. Types
  BY DEF IndInv
<1> DEFINE n == Len(rows) + 1
<1>1. /\ rows' \in Seq(RowType)
      /\ DOMAIN rows' = DOMAIN rows \cup {n}
      /\ n \notin DOMAIN rows
      /\ rows'[n] = w
      /\ \A i \in DOMAIN rows : rows'[i] = rows[i]
  BY <1>0, OneMore DEF Types, Fresh
<1> HIDE DEF n
<1>2. \A t \in Sessions : SessionOK(session[t], docs')
  BY <1>0, SessionFollows DEF IndInv
<1>3. /\ session' = [t \in Sessions |-> session'[t]]
      /\ \A t \in Sessions : SessionOK(session'[t], docs')
  BY <1>0, <1>2, SessionEnds
<1>4. Types'
  BY <1>0, <1>1, <1>3, ChangedDocs DEF Types, Kept
<1>5. ASSUME NEW i \in DOMAIN rows PROVE RowOK(rows[i], docs', audits')
  <2>1. rows[i] \in RowType /\ RowOK(rows[i], docs, audits)
    BY <1>0 DEF Types, IndInv
  <2>2. audits'[rows[i].key] # None
    BY <2>1 DEF Kept, RowOK, RowType
  <2> QED
    BY <1>0, <2>1, <2>2, RowFollows
<1>6. \A i \in DOMAIN rows' : RowOK(rows'[i], docs', audits')
  BY <1>1, <1>5
<1>7. \A i, j \in DOMAIN rows' : i # j => Apart(rows'[i], rows'[j])
  BY <1>1, FreshApart DEF IndInv
<1>8. ASSUME NEW c \in Cases, docs'[c].status # "Pending"
      PROVE  \E i \in DOMAIN rows' : rows'[i].kind = "decision" /\ rows'[i].parent = c
  <2>1. CASE c = d
    BY <1>1, <1>8, <2>1
  <2>2. CASE c # d
    <3>1. docs[c].status # "Pending"
      BY <1>0, <1>8, <2>2, ChangedDocs DEF Cases
    <3>2. PICK i \in DOMAIN rows : rows[i].kind = "decision" /\ rows[i].parent = c
      BY <3>1 DEF IndInv
    <3> QED
      BY <1>1, <3>2
  <2> QED
    BY <2>1, <2>2
<1> QED
  BY <1>3, <1>4, <1>6, <1>7, <1>8 DEF IndInv

\* The command a session executes, and what it has read of its document.
LEMMA Command ==
    ASSUME IndInv, NEW s \in Sessions, session[s] # Idle
    PROVE  /\ session[s].req \in Requests
           /\ ValidPayload(session[s].req) /\ ValidDecisionPayload(session[s].req)
           /\ session[s].req.op # "project" =>
                 /\ session[s].req.doc \in Docs
                 /\ session[s].seen[session[s].req.doc] \in Doc(session[s].req.doc)
                 /\ Read(session[s].seen[session[s].req.doc], docs[session[s].req.doc])
<1>1. SessionOK(session[s], docs)
  BY DEF IndInv
<1>2. /\ session[s].req \in Requests
      /\ ValidPayload(session[s].req) /\ ValidDecisionPayload(session[s].req)
      /\ \A d \in Touched(session[s].req) \cup Cases :
            d \in Docs /\ session[s].seen[d] \in Doc(d) /\ Read(session[s].seen[d], docs[d])
  BY <1>1 DEF SessionOK
<1>3. session[s].req.op # "project" => session[s].req.doc \in Docs \cap Touched(session[s].req)
  <2>1. \A r \in Requests : r.doc \in Docs \cup (IF r.op = "project" THEN {None} ELSE {})
    BY RequestsAssumption
  <2>2. None \notin Docs
    BY DocumentsAssumption
  <2> QED
    BY <1>2, <2>1, <2>2 DEF Touched
<1> QED
  BY <1>2, <1>3

\* A stored version is a version of itself.
LEMMA ReadStored ==
    ASSUME Types, NEW d \in Docs
    PROVE  Read(docs[d], docs[d])
<1>1. docs[d].revision \in Nat
  BY DEF Types, Doc
<1> QED
  BY <1>1 DEF Read

\* The key of a command, and its audit row.
LEMMA Committed ==
    ASSUME IndInv, NEW s \in Sessions, NEW op, op # "save", Executes(s, op), Commit(s)
    PROVE  /\ session[s] # Idle
           /\ session[s].req \in Requests
           /\ session[s].req.op = op
           /\ session[s].req.key \in Keys
           /\ audits[session[s].req.key] = None
           /\ audits'[session[s].req.key] # None
           /\ Kept
           /\ session' = [session EXCEPT ![s] = Idle]
<1>1. session[s] # Idle /\ session[s].req.op = op /\ audits[session[s].req.key] = None
  BY DEF Executes, FirstUse
<1>2. session[s].req \in Requests /\ ValidPayload(session[s].req)
  BY <1>1, Command
<1>3. session[s].req.key \in Keys
  BY <1>1, <1>2 DEF ValidPayload, Keys
<1>4. session[s].req # None
  BY <1>2, DocumentsAssumption
<1> DEFINE k == session[s].req.key
<1> DEFINE r == session[s].req
<1>5. audits' = [audits EXCEPT ![k] = r] /\ session' = [session EXCEPT ![s] = Idle]
  BY DEF Commit
<1>6. k \in Keys /\ r \in Requests /\ r # None
  BY <1>2, <1>3, <1>4
<1>7. audits \in [Keys -> Requests \cup {None}]
  BY DEF IndInv, Types
<1> HIDE DEF k, r
<1>8. audits'[k] # None /\ Kept
  BY <1>5, <1>6, <1>7 DEF Kept
<1> QED
  BY <1>1, <1>2, <1>3, <1>5, <1>8 DEF k

-----------------------------------------------------------------------------
(* The commands.                                                           *)

\* A step changes documents only as their workflow allows.
LegalStep ==
    \A d \in Docs : docs'[d] # docs[d] =>
        /\ docs'[d].revision = docs[d].revision + 1
        /\ ValidTransition(Type[d], docs[d].status, docs'[d].status)
        /\ Type[d] \in {"work", "review"} /\ docs[d].review = "AI Draft"
               /\ docs'[d].review # "AI Draft" =>
              /\ d \in AIOrigin /\ docs'[d].review = "Pending"
              /\ docs'[d].status = docs[d].status
              /\ IsSubmitted(d)
        /\ d \in Cases /\ docs'[d].status # docs[d].status =>
              docs[d].review = "Pending"

\* A save is a legal step when a case it decides was pending, and a draft that
\* it flags as submitted is.
LEMMA SaveIsLegal ==
    ASSUME Types, NEW d \in Docs, NEW status, NEW review \in ReviewStatuses, NEW flags,
           Changed(d, status, review, flags),
           d \in Cases /\ status # docs[d].status => docs[d].review = "Pending",
           "draft" \in flags => IsSubmitted(d)
    PROVE  LegalStep
<1>1. /\ docs'[d].status = status /\ docs'[d].review = review
      /\ docs'[d].revision = docs[d].revision + 1
      /\ \A x \in Docs : x # d => docs'[x] = docs[x]
  BY ChangedDocs
<1> QED
  BY <1>1 DEF LegalStep, Changed, ProtectsDraft, DraftTypes

\* A save without the review flag leaves a case's status and review alone.
LEMMA Unflagged ==
    ASSUME NEW d \in Cases, NEW status, NEW review, Changed(d, status, review, {})
    PROVE  status = docs[d].status /\ review = docs[d].review
BY DEF Changed, CommandBoundary

LEMMA TransitionStep ==
    ASSUME IndInv, NEW s \in Sessions, Transition(s)
    PROVE  IndInv' /\ LegalStep
<1> DEFINE r == session[s].req
<1> DEFINE doc == session[s].seen[r.doc]
<1>1. /\ Executes(s, "transition") /\ Commit(s) /\ rows' = rows
      /\ Save(r.actor, r.doc, doc, session[s].seen, r.to, doc.review, {})
  BY DEF Transition
<1>2. /\ session[s] # Idle /\ r.op = "transition" /\ Kept
      /\ session' = [session EXCEPT ![s] = Idle]
  BY <1>1, Committed
<1>3. r.doc \in Docs /\ doc \in Doc(r.doc) /\ Read(doc, docs[r.doc])
  BY <1>2, Command
<1>4. doc.review \in ReviewStatuses
  BY <1>3 DEF Doc
<1>5. Changed(r.doc, r.to, doc.review, {})
  BY <1>1, <1>3, SaveChanges
<1>6. r.doc \in Cases => r.to = docs[r.doc].status
  BY <1>5, Unflagged
<1>7. Types
  BY DEF IndInv
<1> HIDE DEF r, doc
<1>8. IndInv'
  BY <1>1, <1>2, <1>3, <1>4, <1>5, <1>6, SaveAlone
<1>9. LegalStep
  BY <1>3, <1>4, <1>5, <1>6, <1>7, SaveIsLegal
<1> QED
  BY <1>8, <1>9

LEMMA DeskSaveStep ==
    ASSUME IndInv, NEW s \in Sessions, DeskSave(s)
    PROVE  IndInv' /\ LegalStep
<1> DEFINE r == session[s].req
<1> DEFINE doc == session[s].seen[r.doc]
<1>1. /\ session[s] # Idle /\ r.op = "save" /\ rows' = rows /\ audits' = audits
      /\ session' = [session EXCEPT ![s] = Idle]
      /\ Save(r.actor, r.doc, doc, session[s].seen, r.to, r.review, {})
  BY DEF DeskSave
<1>2. Kept
  BY <1>1 DEF Kept, IndInv, Types
<1>3. r.doc \in Docs /\ doc \in Doc(r.doc) /\ Read(doc, docs[r.doc])
  BY <1>1, Command
<1>4. r.review \in ReviewStatuses
  BY <1>1, Command, RequestsAssumption
<1>5. Changed(r.doc, r.to, r.review, {})
  BY <1>1, <1>3, SaveChanges
<1>6. r.doc \in Cases => r.to = docs[r.doc].status
  BY <1>5, Unflagged
<1>7. Types
  BY DEF IndInv
<1> HIDE DEF r, doc
<1>8. IndInv'
  BY <1>1, <1>2, <1>3, <1>4, <1>5, <1>6, SaveAlone
<1>9. LegalStep
  BY <1>3, <1>4, <1>5, <1>6, <1>7, SaveIsLegal
<1> QED
  BY <1>8, <1>9

LEMMA SubmitForReviewStep ==
    ASSUME IndInv, NEW s \in Sessions, SubmitForReview(s)
    PROVE  IndInv' /\ LegalStep
<1> DEFINE r == session[s].req
<1> DEFINE draft == docs[r.doc]
<1> DEFINE flags == {"draft", "review"}
<1>1. /\ Executes(s, "submit") /\ Commit(s) /\ rows' = rows
      /\ Save(r.actor, r.doc, draft, session[s].seen, draft.status, "Pending", flags)
      /\ r.doc \in ReviewerNames(r.actor)
  BY DEF SubmitForReview, FindDraft
<1>2. /\ session[s] # Idle /\ r.op = "submit" /\ Kept
      /\ session' = [session EXCEPT ![s] = Idle]
  BY <1>1, Committed
<1>3. r.doc \in Docs
  BY <1>2, Command
<1>4. Types
  BY DEF IndInv
<1>5. Read(draft, docs[r.doc])
  BY <1>3, <1>4, ReadStored
<1>6. Changed(r.doc, docs[r.doc].status, "Pending", flags)
  BY <1>1, <1>5, SaveChanges
<1>7. "Pending" \in ReviewStatuses
  BY DEF ReviewStatuses
<1>8. IsSubmitted(r.doc)
  <2>1. session'[s] = Idle
    BY <1>2, <1>4 DEF Types
  <2> QED
    BY <1>1, <1>2, <2>1 DEF IsSubmitted
<1> HIDE DEF r, flags
<1>9. IndInv'
  BY <1>1, <1>2, <1>3, <1>6, <1>7, SaveAlone
<1>10. LegalStep
  BY <1>3, <1>4, <1>6, <1>7, <1>8, SaveIsLegal
<1> QED
  BY <1>9, <1>10

\* What a command on its document inserts beside it.
LEMMA FreshRow ==
    ASSUME Types, NEW r \in Requests, r.doc \in Docs, r.key \in Keys,
           audits[r.key] = None,
           NEW kind \in {"event", "feedback", "decision"},
           NEW outcome \in {"Draft", "Received", "Approved", "Rejected"},
           NEW w, w = Row(kind, r, outcome, docs[r.doc].revision)
    PROVE  /\ Fresh(w, r.doc)
           /\ w.kind = kind /\ w.parent = r.doc /\ w.key = r.key /\ w.by = r.actor
           /\ w.outcome = outcome /\ w.revision = docs[r.doc].revision
<1>1. docs[r.doc].revision \in Nat
  BY DEF Types, Doc
<1>2. r.doc \in {x.doc : x \in Requests} /\ r.actor \in {x.actor : x \in Requests}
  OBVIOUS
<1>3. w = [kind |-> kind, parent |-> r.doc, key |-> r.key, by |-> r.actor,
           outcome |-> outcome, revision |-> docs[r.doc].revision]
  BY DEF Row
<1>4. w \in RowType
  BY <1>1, <1>2, <1>3 DEF RowType
<1> QED
  BY <1>3, <1>4 DEF Fresh

LEMMA CreateFromDemandStep ==
    ASSUME IndInv, NEW s \in Sessions, CreateFromDemand(s)
    PROVE  IndInv' /\ LegalStep
<1> DEFINE r == session[s].req
<1> DEFINE doc == session[s].seen[r.doc]
<1> DEFINE w == Row("event", r, "Draft", doc.revision)
<1>1. /\ Executes(s, "source") /\ Commit(s) /\ rows' = Append(rows, w)
      /\ Type[r.doc] = "demand"
      /\ Save(r.actor, r.doc, doc, session[s].seen, "Sourcing", doc.review, {})
  BY DEF CreateFromDemand
<1>2. /\ session[s] # Idle /\ r.op = "source" /\ Kept
      /\ session' = [session EXCEPT ![s] = Idle]
      /\ r \in Requests /\ r.key \in Keys
      /\ audits[r.key] = None /\ audits'[r.key] # None
  BY <1>1, Committed
<1>3. r.doc \in Docs /\ doc \in Doc(r.doc) /\ Read(doc, docs[r.doc])
  BY <1>2, Command
<1>4. doc.review \in ReviewStatuses
  BY <1>3 DEF Doc
<1>5. doc = docs[r.doc] /\ Changed(r.doc, "Sourcing", doc.review, {})
  BY <1>1, <1>3, SaveChanges
<1>6. r.doc \notin Cases
  BY <1>1 DEF Cases
<1>7. Types
  BY DEF IndInv
<1>8. w = Row("event", r, "Draft", docs[r.doc].revision)
  BY <1>5
<1> HIDE DEF r, doc, w
<1>9. /\ Fresh(w, r.doc) /\ w.kind = "event" /\ w.parent = r.doc /\ w.key = r.key
      /\ w.revision = docs[r.doc].revision
  BY <1>2, <1>3, <1>7, <1>8, FreshRow
<1>10. /\ docs'[r.doc].status = "Sourcing"
       /\ docs'[r.doc].revision = docs[r.doc].revision + 1
  BY <1>3, <1>4, <1>5, <1>7, ChangedDocs
<1>11. docs[r.doc].revision \in Nat
  BY <1>3, <1>7 DEF Types, Doc
<1>12. w.revision < docs'[r.doc].revision
  BY <1>9, <1>10, <1>11
<1>13. RowOK(w, docs', audits')
  BY <1>1, <1>2, <1>3, <1>9, <1>10, <1>12 DEF RowOK, Sourced
<1>14. IndInv'
  BY <1>1, <1>2, <1>3, <1>4, <1>5, <1>6, <1>9, <1>13, SaveWithRow
<1>15. LegalStep
  BY <1>3, <1>4, <1>5, <1>6, <1>7, SaveIsLegal
<1> QED
  BY <1>14, <1>15

LEMMA RecordFeedbackStep ==
    ASSUME IndInv, NEW s \in Sessions, RecordFeedback(s)
    PROVE  IndInv' /\ LegalStep
<1> DEFINE r == session[s].req
<1> DEFINE doc == session[s].seen[r.doc]
<1> DEFINE w == Row("feedback", r, "Received", doc.revision)
<1>1. /\ Executes(s, "feedback") /\ Commit(s) /\ rows' = Append(rows, w)
      /\ Type[r.doc] = "sample"
      /\ Save(r.actor, r.doc, doc, session[s].seen, "Feedback", doc.review, {})
  BY DEF RecordFeedback
<1>2. /\ session[s] # Idle /\ r.op = "feedback" /\ Kept
      /\ session' = [session EXCEPT ![s] = Idle]
      /\ r \in Requests /\ r.key \in Keys
      /\ audits[r.key] = None /\ audits'[r.key] # None
  BY <1>1, Committed
<1>3. r.doc \in Docs /\ doc \in Doc(r.doc) /\ Read(doc, docs[r.doc])
  BY <1>2, Command
<1>4. doc.review \in ReviewStatuses
  BY <1>3 DEF Doc
<1>5. doc = docs[r.doc] /\ Changed(r.doc, "Feedback", doc.review, {})
  BY <1>1, <1>3, SaveChanges
<1>6. r.doc \notin Cases
  BY <1>1 DEF Cases
<1>7. Types
  BY DEF IndInv
<1>8. w = Row("feedback", r, "Received", docs[r.doc].revision)
  BY <1>5
<1> HIDE DEF r, doc, w
<1>9. /\ Fresh(w, r.doc) /\ w.kind = "feedback" /\ w.parent = r.doc /\ w.key = r.key
      /\ w.revision = docs[r.doc].revision
  BY <1>2, <1>3, <1>7, <1>8, FreshRow
<1>10. /\ docs'[r.doc].status = "Feedback"
       /\ docs'[r.doc].revision = docs[r.doc].revision + 1
  BY <1>3, <1>4, <1>5, <1>7, ChangedDocs
<1>11. docs[r.doc].revision \in Nat
  BY <1>3, <1>7 DEF Types, Doc
<1>12. w.revision < docs'[r.doc].revision
  BY <1>9, <1>10, <1>11
<1>13. RowOK(w, docs', audits')
  BY <1>1, <1>2, <1>3, <1>9, <1>10, <1>12 DEF RowOK, AnsweredStatus
<1>14. IndInv'
  BY <1>1, <1>2, <1>3, <1>4, <1>5, <1>6, <1>9, <1>13, SaveWithRow
<1>15. LegalStep
  BY <1>3, <1>4, <1>5, <1>6, <1>7, SaveIsLegal
<1> QED
  BY <1>14, <1>15

LEMMA DecideStep ==
    ASSUME IndInv, NEW s \in Sessions, Decide(s)
    PROVE  IndInv' /\ LegalStep
<1> DEFINE r == session[s].req
<1> DEFINE case == docs[r.doc]
<1> DEFINE to == r.to
<1> DEFINE w == Row("decision", r, to, case.revision)
<1> DEFINE flags == {"review"}
<1>1. /\ Executes(s, "decide") /\ Commit(s) /\ rows' = Append(rows, w)
      /\ r.doc \in Cases /\ CanAccessReviewCase(r.actor, r.doc)
      /\ case.review = "Pending"
      /\ Save(r.actor, r.doc, case, session[s].seen, to, to, flags)
  BY DEF Decide
<1>2. /\ session[s] # Idle /\ r.op = "decide" /\ Kept
      /\ session' = [session EXCEPT ![s] = Idle]
      /\ r \in Requests /\ r.key \in Keys
      /\ audits[r.key] = None /\ audits'[r.key] # None
  BY <1>1, Committed
<1>3. r.doc \in Docs /\ Type[r.doc] = "review"
  BY <1>1 DEF Cases
<1>4. to \in {"Approved", "Rejected"}
  <2>1. ValidDecisionPayload(session[s].req)
    BY <1>2, Command
  <2> QED
    BY <1>2, <2>1 DEF ValidDecisionPayload
<1>5. Types
  BY DEF IndInv
<1>6. Changed(r.doc, to, to, flags)
  BY <1>1, <1>3, <1>5, ReadStored, SaveChanges
<1>7. w = Row("decision", r, to, docs[r.doc].revision)
  OBVIOUS
<1>8. docs[r.doc].review = "Pending" /\ "draft" \notin flags
  BY <1>1
<1> HIDE DEF r, case, w, to, flags
<1>9. /\ Fresh(w, r.doc) /\ w.kind = "decision" /\ w.parent = r.doc /\ w.key = r.key
      /\ w.by = r.actor /\ w.outcome = to /\ w.revision = docs[r.doc].revision
  BY <1>2, <1>3, <1>4, <1>5, <1>7, FreshRow
<1>10. to \in ReviewStatuses
  BY <1>4 DEF ReviewStatuses
<1>11. /\ docs'[r.doc].status = to /\ docs'[r.doc].review = to
       /\ docs'[r.doc].revision = docs[r.doc].revision + 1
  <2> DEFINE d == r.doc
  <2>1. d \in Docs /\ Changed(d, to, to, flags)
    BY <1>3, <1>6
  <2> SUFFICES docs'[d].status = to /\ docs'[d].review = to
               /\ docs'[d].revision = docs[d].revision + 1
    OBVIOUS
  <2> HIDE DEF d
  <2> QED
    BY <1>5, <1>10, <2>1, ChangedDocs
<1>12. docs[r.doc].revision \in Nat
  BY <1>3, <1>5 DEF Types, Doc
<1>13. w.revision < docs'[r.doc].revision /\ w.revision = docs'[r.doc].revision - 1
  BY <1>9, <1>11, <1>12
<1>14. w.by = Assigned[w.parent] \/ "Admin" \in Roles[w.by]
  BY <1>1, <1>9 DEF CanAccessReviewCase
<1>15. RowOK(w, docs', audits')
  BY <1>2, <1>3, <1>4, <1>9, <1>11, <1>13, <1>14 DEF RowOK, DecidedBy
<1>16. IndInv'
  BY <1>1, <1>2, <1>3, <1>6, <1>9, <1>10, <1>15, SaveWithRow
<1>17. LegalStep
  BY <1>3, <1>5, <1>6, <1>8, <1>10, SaveIsLegal
<1> QED
  BY <1>16, <1>17

LEMMA CreateProjectStep ==
    ASSUME IndInv, NEW s \in Sessions, CreateProject(s)
    PROVE  IndInv' /\ LegalStep
<1> DEFINE r == session[s].req
<1> DEFINE w == Row("project", r, "Draft", 0)
<1>1. Executes(s, "project") /\ Commit(s) /\ rows' = Append(rows, w) /\ docs' = docs
  BY DEF CreateProject
<1>2. /\ Kept /\ session' = [session EXCEPT ![s] = Idle]
      /\ r \in Requests /\ r.key \in Keys
      /\ audits[r.key] = None /\ audits'[r.key] # None
  BY <1>1, Committed
<1>3. w \in RowType /\ w.kind = "project" /\ w.key = r.key
  <2>1. r.doc \in {x.doc : x \in Requests} /\ r.actor \in {x.actor : x \in Requests}
    BY <1>2
  <2> QED
    BY <1>2, <2>1 DEF Row, RowType
<1>4. Types
  BY DEF IndInv
<1> HIDE DEF r, w
<1> DEFINE n == Len(rows) + 1
<1>5. /\ rows' \in Seq(RowType)
      /\ DOMAIN rows' = DOMAIN rows \cup {n}
      /\ n \notin DOMAIN rows
      /\ rows'[n] = w
      /\ \A i \in DOMAIN rows : rows'[i] = rows[i]
  BY <1>1, <1>3, <1>4, OneMore DEF Types
<1> HIDE DEF n
<1>6. /\ session' = [t \in Sessions |-> session'[t]]
      /\ \A t \in Sessions : SessionOK(session'[t], docs')
  BY <1>1, <1>2, <1>4, SessionEnds DEF IndInv
<1>7. Types'
  BY <1>1, <1>2, <1>4, <1>5, <1>6 DEF Types, Kept
<1>8. ASSUME NEW i \in DOMAIN rows
      PROVE  /\ RowOK(rows[i], docs', audits')
             /\ Apart(rows[i], w) /\ Apart(w, rows[i])
  <2>1. rows[i] \in RowType /\ RowOK(rows[i], docs, audits)
    BY <1>4 DEF Types, IndInv
  <2>2. audits'[rows[i].key] # None
    BY <1>2, <2>1 DEF Kept, RowOK, RowType
  <2>3. rows[i].key # w.key
    BY <1>2, <1>3, <2>1 DEF RowOK
  <2> QED
    BY <1>1, <1>3, <2>1, <2>2, <2>3 DEF RowOK, Apart
<1>9. RowOK(w, docs', audits')
  BY <1>2, <1>3 DEF RowOK
<1>10. \A i \in DOMAIN rows' : RowOK(rows'[i], docs', audits')
  BY <1>5, <1>8, <1>9
<1>11. \A i, j \in DOMAIN rows' : i # j => Apart(rows'[i], rows'[j])
  BY <1>5, <1>8 DEF IndInv
<1>12. ASSUME NEW c \in Cases, docs'[c].status # "Pending"
       PROVE  \E i \in DOMAIN rows' : rows'[i].kind = "decision" /\ rows'[i].parent = c
  <2>1. PICK i \in DOMAIN rows : rows[i].kind = "decision" /\ rows[i].parent = c
    BY <1>1, <1>12 DEF IndInv
  <2> QED
    BY <1>5, <2>1
<1> QED
  BY <1>1, <1>6, <1>7, <1>10, <1>11, <1>12 DEF IndInv, LegalStep

\* The first read of a command: its snapshot is the stored state.
LEMMA BeginStep ==
    ASSUME IndInv, NEW s \in Sessions, NEW r \in Requests, Begin(s, r)
    PROVE  IndInv' /\ LegalStep
<1> DEFINE seen == [d \in Touched(r) \cup Cases |-> docs[d]]
<1> DEFINE x == [req |-> r, audit |-> IF r.key = None THEN None ELSE audits[r.key],
                 seen |-> seen]
<1>1. /\ session' = [session EXCEPT ![s] = x]
      /\ docs' = docs /\ audits' = audits /\ rows' = rows
      /\ ValidPayload(r) /\ ValidDecisionPayload(r)
  BY DEF Begin
<1>2. Types
  BY DEF IndInv
<1>3. x.req = r /\ x.seen = seen
  OBVIOUS
<1>4. ASSUME NEW d \in Touched(r) \cup Cases
      PROVE  d \in Docs /\ seen[d] \in Doc(d) /\ Read(seen[d], docs[d])
  <2>1. d \in Docs
    <3>1. r.doc # None => r.doc \in Docs
      BY RequestsAssumption
    <3> QED
      <4>1. CASE d \in Cases
        BY <4>1 DEF Cases
      <4>2. CASE d \in Touched(r)
        <5>1. \A c \in Cases : c \in Docs /\ Subject[c] \in Docs
          BY DocumentsAssumption DEF Cases
        <5> QED
          BY <3>1, <4>2, <5>1 DEF Touched
      <4> QED
        BY <4>1, <4>2
  <2>2. seen[d] = docs[d]
    OBVIOUS
  <2> QED
    BY <1>2, <2>1, <2>2, ReadStored DEF Types
<1> HIDE DEF seen, x
<1>5. SessionOK(x, docs)
  BY <1>1, <1>3, <1>4 DEF SessionOK
<1>6. /\ session' = [t \in Sessions |-> session'[t]]
      /\ \A t \in Sessions : SessionOK(session'[t], docs)
  <2>1. session' = [t \in Sessions |-> session'[t]]
    BY <1>1, <1>2 DEF Types
  <2>2. ASSUME NEW t \in Sessions PROVE SessionOK(session'[t], docs)
    <3>1. CASE t = s
      BY <1>1, <1>2, <1>5, <3>1 DEF Types
    <3>2. CASE t # s
      BY <1>1, <1>2, <3>2 DEF Types, IndInv
    <3> QED
      BY <3>1, <3>2
  <2> QED
    BY <2>1, <2>2
<1> QED
  BY <1>1, <1>2, <1>6 DEF IndInv, Types, LegalStep

LEMMA AbortStep ==
    ASSUME IndInv, NEW s \in Sessions, Abort(s)
    PROVE  IndInv' /\ LegalStep
<1>1. /\ session' = [session EXCEPT ![s] = Idle]
      /\ docs' = docs /\ audits' = audits /\ rows' = rows
  BY DEF Abort
<1>2. /\ session' = [t \in Sessions |-> session'[t]]
      /\ \A t \in Sessions : SessionOK(session'[t], docs)
  BY <1>1, SessionEnds DEF IndInv
<1> QED
  BY <1>1, <1>2 DEF IndInv, Types, LegalStep

-----------------------------------------------------------------------------
LEMMA Initially == Init => IndInv
<1> SUFFICES ASSUME Init PROVE IndInv
  OBVIOUS
<1>1. Types
  <2>1. docs = [d \in Docs |-> docs[d]] /\ DOMAIN docs = Docs
    BY DocumentsAssumption DEF Init
  <2>2. \A d \in Docs : docs[d] \in Doc(d)
    BY DocumentsAssumption DEF Init, Doc
  <2> QED
    BY <2>1, <2>2 DEF Init, Types
<1>2. \A s \in Sessions : SessionOK(session[s], docs)
  BY DEF Init, SessionOK
<1>3. \A c \in Cases : docs[c].status = "Pending"
  BY DocumentsAssumption DEF Init, Cases
<1> QED
  BY <1>1, <1>2, <1>3 DEF Init, IndInv

LEMMA Step ==
    ASSUME IndInv, [Next]_vars
    PROVE  IndInv' /\ LegalStep
<1>1. CASE Next
  BY <1>1, BeginStep, TransitionStep, CreateFromDemandStep, RecordFeedbackStep,
     CreateProjectStep, DecideStep, SubmitForReviewStep, DeskSaveStep, AbortStep
     DEF Next
<1>2. CASE UNCHANGED vars
  BY <1>2 DEF vars, IndInv, Types, LegalStep
<1> QED
  BY <1>1, <1>2

\* The inductive invariant holds throughout.
LEMMA Invariant == Spec => []IndInv
<1>1. IndInv /\ [Next]_vars => IndInv'
  BY Step
<1> QED
  BY Initially, <1>1, PTL DEF Spec

\* Type correctness: documents keep to the statuses of their workflow, whatever
\* is asked of them and whoever saves them.
THEOREM TypeCorrect == Spec => []TypeOK
<1>1. IndInv => TypeOK
  <2> SUFFICES ASSUME IndInv PROVE TypeOK
    OBVIOUS
  <2>1. \A d \in Docs : /\ docs[d].status \in Statuses(Type[d])
                        /\ docs[d].review \in ReviewStatuses
                        /\ docs[d].revision \in Nat \ {0}
    BY DEF IndInv, Types, Doc
  <2>2. \A i \in DOMAIN rows :
           rows[i].kind \in {"event", "feedback", "project", "decision"}
    <3>1. \A i \in DOMAIN rows : rows[i] \in RowType
      BY DEF IndInv, Types
    <3> QED
      BY <3>1 DEF RowType
  <2>3. \A s \in Sessions : session[s].req \in Requests \cup {None}
    BY DEF IndInv, SessionOK, Idle
  <2> QED
    BY <2>1, <2>2, <2>3 DEF TypeOK, IndInv, Types
<1> QED
  BY Invariant, <1>1, PTL

\* GovernedSteps: optimistic concurrency works.  A command acts on the stored
\* version of its document or not at all, however old its snapshot is.
THEOREM StepsAreGoverned == Spec => GovernedSteps
<1>1. IndInv /\ [Next]_vars => LegalStep
  BY Step
<1>2. LegalStep => [\A d \in Docs : docs'[d] # docs[d] =>
          /\ docs'[d].revision = docs[d].revision + 1
          /\ ValidTransition(Type[d], docs[d].status, docs'[d].status)
          /\ Type[d] \in {"work", "review"} /\ docs[d].review = "AI Draft"
                 /\ docs'[d].review # "AI Draft" =>
                /\ d \in AIOrigin /\ docs'[d].review = "Pending"
                /\ docs'[d].status = docs[d].status
                /\ IsSubmitted(d)
          /\ d \in Cases /\ docs'[d].status # docs[d].status =>
                docs[d].review = "Pending"]_vars
  BY DEF LegalStep
<1> QED
  BY Invariant, <1>1, <1>2, PTL DEF Spec, GovernedSteps

\* RecordsExact: the rows commands create and the documents they change tell
\* the same story, under any repetition and interleaving of commands.
THEOREM RecordsAreExact == Spec => []RecordsExact
<1>1. IndInv => RowsExact
  <2> SUFFICES ASSUME IndInv PROVE RowsExact
    OBVIOUS
  <2>1. \A i, j \in DOMAIN rows : i # j => rows[i].key # rows[j].key
    BY DEF IndInv, Apart
  <2>2. \A i \in DOMAIN rows : audits[rows[i].key] # None
    BY DEF IndInv, RowOK
  <2>3. \A i \in DOMAIN rows : rows[i].kind # "project" =>
          /\ rows[i].revision < docs[rows[i].parent].revision
          /\ \A j \in DOMAIN rows :
                rows[j].kind # "project" /\ rows[j].parent = rows[i].parent
                    /\ rows[j].revision = rows[i].revision => j = i
    BY DEF IndInv, RowOK, Apart
  <2>4. \A i \in DOMAIN rows : rows[i].kind \in {"event", "feedback"} =>
          docs[rows[i].parent].status \notin
              {"Draft", "Confirmed", "Designing", "Sampling", "Sent"}
    BY DEF IndInv, RowOK, Sourced, AnsweredStatus
  <2> QED
    BY <2>1, <2>2, <2>3, <2>4 DEF RowsExact
<1>2. IndInv => DecisionExact
  <2> SUFFICES ASSUME IndInv, NEW c \in Cases
               PROVE  LET taken == {i \in DOMAIN rows :
                                       rows[i].kind = "decision" /\ rows[i].parent = c} IN
                      IF docs[c].status = "Pending" THEN taken = {}
                      ELSE /\ Cardinality(taken) = 1
                           /\ \A i \in taken :
                                 /\ rows[i].outcome = docs[c].status
                                 /\ docs[c].review = docs[c].status
                                 /\ rows[i].revision = docs[c].revision - 1
                                 /\ rows[i].by = Assigned[c] \/ "Admin" \in Roles[rows[i].by]
    BY DEF DecisionExact
  <2> DEFINE taken == {i \in DOMAIN rows : rows[i].kind = "decision" /\ rows[i].parent = c}
  <2>1. ASSUME NEW i \in taken
        PROVE  /\ rows[i].outcome \in {"Approved", "Rejected"}
               /\ rows[i].outcome = docs[c].status /\ docs[c].review = docs[c].status
               /\ rows[i].revision = docs[c].revision - 1
               /\ rows[i].by = Assigned[c] \/ "Admin" \in Roles[rows[i].by]
    BY DEF IndInv, RowOK, DecidedBy
  <2>2. docs[c].status = "Pending" => taken = {}
    BY <2>1
  <2>3. ASSUME docs[c].status # "Pending" PROVE Cardinality(taken) = 1
    <3>1. PICK i \in taken : TRUE
      BY <2>3 DEF IndInv
    <3>2. \A j \in taken : j = i
      BY <2>1, <3>1 DEF IndInv, Apart
    <3> HIDE DEF taken
    <3>3. taken = {i}
      BY <3>1, <3>2
    <3> QED
      BY <3>3, FS_Singleton
  <2> QED
    BY <2>1, <2>2, <2>3
<1> QED
  BY Invariant, <1>1, <1>2, PTL DEF RecordsExact

-----------------------------------------------------------------------------
(***************************************************************************)
(* The media runtime, for any number of requests, bodies, workers, chunks  *)
(* and attempts: what a client and the Observer are told is true.          *)
(*                                                                         *)
(* The argument turns on the row of a job: its attempt only grows, so a    *)
(* reference that names request and attempt is never given twice, and the  *)
(* body of a row never changes, so an answer that was true when it was     *)
(* given stays true.                                                       *)
(***************************************************************************)

MediaItems == {"chunk", "end", "failure"}

\* The handler is between the first chunk and the end of the stream.
Reading == {"stream", "put", "look", "over", "broken"}

UploadType ==
    [pc : Reading \cup {"idle", "wait", "cancelled"}, body : Bodies \cup {Null},
     sent : Nat, queue : Seq(MediaItems), done : BOOLEAN,
     consumer : {"none", "open", "read", "check", "stored", "refused"}, got : Nat,
     answer : {Null, "accepted", "conflict", "failed"}, tries : 0..MaxTries]

MediaJobType ==
    [status : {Null, "queued", "leased", "retry"} \cup Terminal, body : Bodies \cup {Null},
     attempt : 0..MaxAttempts, owner : {WorkerId[w] : w \in Workers} \cup {Null},
     lapsed : BOOLEAN, due : BOOLEAN, ref : {Null} \cup 0..MaxAttempts]

MediaWorkType ==
    [pc : Stages \cup {"idle", "down", "joined", "publish", "complete", "retry"},
     job : RequestIds \cup {Null}, attempt : 0..MaxAttempts,
     outcome : {Null, "retry"} \cup Terminal, beat : {"ok", "lost", "error"}]

\* The consumer has nothing more to read.
Finished == {"check", "stored", "refused"}

\* While the handler h of an upload reads the stream, the queue holds what was
\* sent and not yet taken; the last item it puts is the end or a failure.
QueueOK(h) ==
    /\ h.pc \in Reading =>
          /\ h.got + Len(h.queue) = h.sent
          /\ \A i \in 1..Len(h.queue) : h.queue[i] = "chunk"
    /\ h.pc = "wait" =>
          /\ h.got + Len(h.queue) = h.sent + 1
          /\ \A i \in 1..Len(h.queue) : i < Len(h.queue) => h.queue[i] = "chunk"
          /\ Len(h.queue) > 0 /\ h.queue[Len(h.queue)] # "chunk"
          /\ h.queue[Len(h.queue)] = "end" => h.sent = Chunks[h.body]

\* The two threads of an upload agree: unless the handler was cancelled, the
\* consumer has finished when it is done, and has the whole stream if it has
\* not refused.
UploadOK(h) ==
    /\ Len(h.queue) <= QueueSize
    /\ (h.pc = "idle") <=> (h.consumer = "none")
    /\ h.pc # "idle" => h.body \in Bodies /\ h.sent <= Chunks[h.body] /\ h.answer = Null
    /\ h.consumer \in Finished => h.done
    /\ h.pc # "cancelled" /\ h.done => h.consumer \in Finished
    /\ ~h.done => QueueOK(h)
    /\ h.pc # "cancelled" /\ h.consumer \in {"check", "stored"} =>
          h.pc = "wait" /\ h.got = Chunks[h.body]
    /\ h.pc = "put" => h.sent < Chunks[h.body]
    /\ h.pc = "over" => h.consumer = "refused"

\* An answer "accepted" and the row of the job.
AcceptedOK(h, row) ==
    h.answer = "accepted" =>
        h.body \in Bodies /\ row.body = h.body /\ h.got = Chunks[h.body]

\* A row that exists belongs to an upload and has an owner while it is leased.
MediaJobOK(row, published) ==
    /\ row # NoJob => row.status # Null /\ row.body \in Bodies
    /\ (row.owner # Null) <=> (row.status = "leased")
    /\ row.lapsed => row.status = "leased"
    /\ row.status = "ready" => row.ref # Null /\ row.ref = published

\* The reference that an attempt on a row hands over.
RefOf(l, row) == IF row.body \in Audio THEN l.attempt ELSE 0

\* A worker works on a row that exists, and completes it as ready only after
\* the Observer has taken its reference.
MediaWorkOK(l, table, ob) ==
    /\ l.pc \notin {"idle", "down"} => l.job \in RequestIds /\ table[l.job] # NoJob
    /\ l.pc = "joined" => l.outcome # Null
    /\ l.pc = "publish" => l.outcome = "ready"
    /\ l.pc = "complete" =>
          /\ l.outcome \in Terminal
          /\ l.outcome = "ready" => ob[l.job] = RefOf(l, table[l.job])

MediaTypes ==
    /\ upload \in [Uploads -> UploadType]
    /\ jobs \in [RequestIds -> MediaJobType]
    /\ local \in [Workers -> MediaWorkType]
    /\ observer \in [RequestIds -> {Null} \cup 0..MaxAttempts]
    /\ faults \in 0..MaxFaults

\* The inductive invariant of the media runtime.
MediaInv ==
    /\ MediaTypes
    /\ \A u \in Uploads : UploadOK(upload[u]) /\ AcceptedOK(upload[u], jobs[Request[u]])
    /\ \A j \in RequestIds : MediaJobOK(jobs[j], observer[j])
    /\ \A w \in Workers : MediaWorkOK(local[w], jobs, observer)

-----------------------------------------------------------------------------
(* The upload *)

\* A step of one upload that leaves the jobs and the workers alone.
LEMMA UploadMoves ==
    ASSUME MediaInv, NEW u \in Uploads, NEW h \in UploadType,
           UploadOK(h), AcceptedOK(h, jobs[Request[u]]),
           upload' = [upload EXCEPT ![u] = h],
           UNCHANGED <<jobs, local, observer>>, faults' \in 0..MaxFaults
    PROVE  MediaInv'
<1> USE DEF MediaInv, MediaTypes
<1>1. upload' \in [Uploads -> UploadType]
  OBVIOUS
<1>2. \A v \in Uploads : UploadOK(upload[v])' /\ AcceptedOK(upload[v], jobs[Request[v]])'
  <2> TAKE v \in Uploads
  <2>1. CASE v = u
    <3>1. upload'[v] = h
      BY <2>1
    <3> QED BY <2>1, <3>1
  <2>2. CASE v # u
    <3>1. upload'[v] = upload[v]
      BY <2>2
    <3>2. UploadOK(upload[v]) /\ AcceptedOK(upload[v], jobs[Request[v]])
      OBVIOUS
    <3> QED BY <3>1, <3>2
  <2> QED BY <2>1, <2>2
<1> QED BY <1>1, <1>2

LEMMA CountUp ==
    ASSUME NEW a \in Nat, NEW b \in Nat, NEW c \in Nat, a + b = c
    PROVE  a + (b + 1) = c + 1
OBVIOUS

\* The queue after put, and after get.
LEMMA PutItem ==
    ASSUME NEW q \in Seq(MediaItems), NEW item \in MediaItems
    PROVE  /\ Append(q, item) \in Seq(MediaItems)
           /\ Len(Append(q, item)) = Len(q) + 1 /\ Len(q) \in Nat
           /\ \A i \in 1..Len(q) : Append(q, item)[i] = q[i]
           /\ Append(q, item)[Len(q) + 1] = item
OBVIOUS

LEMMA GetItem ==
    ASSUME NEW q \in Seq(MediaItems), q # <<>>
    PROVE  /\ Tail(q) \in Seq(MediaItems) /\ Head(q) \in MediaItems /\ Head(q) = q[1]
           /\ Len(Tail(q)) = Len(q) - 1 /\ Len(q) \in Nat /\ Len(q) > 0
           /\ \A i \in 1..(Len(q) - 1) : Tail(q)[i] = q[i + 1]
OBVIOUS

LEMMA PuttingKeeps ==
    ASSUME MediaInv, NEW u \in Uploads, NEW item \in MediaItems,
           NEW pc \in {"look", "wait"},
           upload[u].pc \in Reading,
           item = "chunk" => pc = "look" /\ upload[u].sent < Chunks[upload[u].body],
           item # "chunk" => pc = "wait",
           item = "end" => \/ upload[u].sent = Chunks[upload[u].body]
                           \/ upload[u].consumer \in {"refused", "stored"},
           Putting(u, item, pc),
           UNCHANGED <<jobs, local, observer, faults>>
    PROVE  MediaInv'
<1> DEFINE g == upload[u]
           q == IF g.done THEN g.queue ELSE Append(g.queue, item)
           n == IF item = "chunk" THEN g.sent + 1 ELSE g.sent
           h == [g EXCEPT !.pc = pc, !.queue = q, !.sent = n]
<1>1. g \in UploadType /\ UploadOK(g) /\ AcceptedOK(g, jobs[Request[u]])
      /\ upload \in [Uploads -> UploadType] /\ faults \in 0..MaxFaults
  BY DEF MediaInv, MediaTypes
<1>2. upload' = [upload EXCEPT ![u] = h]
  BY <1>1 DEF Putting
<1>3. g.done \/ Len(g.queue) < QueueSize
  BY DEF Putting
<1>4. g.body \in Bodies /\ g.sent <= Chunks[g.body] /\ Chunks[g.body] \in Nat
      /\ g.answer = Null /\ g.sent \in Nat /\ g.got \in Nat /\ QueueSize \in Nat
  BY <1>1, MediaAssumption DEF UploadOK, UploadType, Reading
<1>5. g.queue \in Seq(MediaItems)
  BY <1>1 DEF UploadType
<1>6. h \in UploadType
  <2>1. q \in Seq(MediaItems)
    BY <1>5, PutItem
  <2>2. n \in Nat
    BY <1>4
  <2> HIDE DEF q, n
  <2> QED BY <1>1, <2>1, <2>2 DEF UploadType, Reading
<1>7. UploadOK(h)
  <2>1. CASE g.done
    BY <1>1, <1>4, <2>1 DEF UploadOK, UploadType, Finished, Reading
  <2>2. CASE ~g.done
    <3>1. h.queue = Append(g.queue, item) /\ h.pc = pc /\ h.got = g.got /\ h.done = FALSE
          /\ h.body = g.body /\ h.consumer = g.consumer /\ h.answer = g.answer
          /\ h.sent = IF item = "chunk" THEN g.sent + 1 ELSE g.sent
      BY <1>1, <2>2 DEF UploadType
    <3>2. g.got + Len(g.queue) = g.sent /\ \A i \in 1..Len(g.queue) : g.queue[i] = "chunk"
      BY <1>1, <2>2 DEF UploadOK, QueueOK
    <3>3. g.consumer \notin Finished
      BY <1>1, <2>2 DEF UploadOK
    <3>4. item = "end" => g.sent = Chunks[g.body]
      BY <3>3 DEF Finished
    <3> HIDE DEF h
    <3>5. QueueOK(h)
      <4> DEFINE k == Len(g.queue)
      <4>1. k \in Nat /\ Len(h.queue) = k + 1 /\ h.queue[k + 1] = item
            /\ \A i \in 1..k : h.queue[i] = "chunk"
        BY <1>5, <3>1, <3>2, PutItem
      <4>2. g.got + k = g.sent
        BY <3>2
      <4>0. g.got \in Nat /\ g.sent \in Nat /\ k \in Nat
        BY <1>4, <4>1
      <4> HIDE DEF k
      <4>3. CASE item = "chunk"
        <5>0. h.sent = g.sent + 1 /\ h.got = g.got
          BY <3>1, <4>3
        <5>1. g.got + (k + 1) = g.sent + 1
          BY <4>0, <4>2, CountUp
        <5>2. \A i \in 1..(k + 1) : h.queue[i] = "chunk"
          BY <4>1, <4>3
        <5> QED BY <3>1, <4>1, <4>3, <5>0, <5>1, <5>2 DEF QueueOK, Reading
      <4>4. CASE item # "chunk"
        <5>0. h.sent = g.sent /\ h.got = g.got
          BY <3>1, <4>4
        <5>1. g.got + (k + 1) = g.sent + 1
          BY <4>0, <4>2, CountUp
        <5>2. \A i \in 1..(k + 1) : i < k + 1 => h.queue[i] = "chunk"
          BY <4>1
        <5>3. k + 1 > 0
          BY <4>1
        <5>4. item = "end" => h.sent = Chunks[h.body]
          BY <3>1, <3>4, <4>4
        <5> QED BY <3>1, <4>1, <4>4, <5>0, <5>1, <5>2, <5>3, <5>4 DEF QueueOK, Reading
      <4> QED BY <4>3, <4>4
    <3>6. Len(h.queue) <= QueueSize
      BY <1>3, <1>4, <1>5, <2>2, <3>1, PutItem
    <3>7. h.sent <= Chunks[h.body]
      BY <1>4, <3>1
    <3> QED BY <1>1, <1>4, <3>1, <3>3, <3>5, <3>6, <3>7 DEF UploadOK, Finished, Reading
  <2> QED BY <2>1, <2>2
<1>8. AcceptedOK(h, jobs[Request[u]])
  BY <1>1, <1>4, MediaNullAssumption DEF AcceptedOK, UploadType
<1> HIDE DEF h
<1> QED BY <1>1, <1>2, <1>6, <1>7, <1>8, UploadMoves

\* What the handler puts into the queue.
LEMMA PutSteps ==
    ASSUME MediaInv, NEW u \in Uploads, PutChunk(u) \/ StreamEnds(u) \/ PutFailure(u)
    PROVE  MediaInv'
<1>0. UploadOK(upload[u])
  BY DEF MediaInv
<1>1. CASE PutChunk(u)
  <2>1. upload[u].pc = "put" /\ upload[u].sent < Chunks[upload[u].body]
    BY <1>0, <1>1 DEF PutChunk, UploadOK
  <2> QED BY <1>1, <2>1, PuttingKeeps DEF PutChunk, MediaItems, Reading
<1>2. CASE StreamEnds(u)
  <2>1. \/ upload[u].pc = "stream" /\ upload[u].sent = Chunks[upload[u].body]
        \/ upload[u].pc = "over" /\ upload[u].consumer = "refused"
    BY <1>0, <1>2 DEF StreamEnds, UploadOK
  <2> QED BY <1>2, <2>1, PuttingKeeps DEF StreamEnds, MediaItems, Reading
<1>3. CASE PutFailure(u)
  BY <1>3, PuttingKeeps DEF PutFailure, MediaItems, Reading
<1> QED BY <1>1, <1>2, <1>3

\* One item is taken out of the queue.
LEMMA TakeStep ==
    ASSUME MediaInv, NEW u \in Uploads, Take(u)
    PROVE  MediaInv'
<1> DEFINE g == upload[u]
           q == Tail(g.queue)
           item == Head(g.queue)
           more == g.got + 1
           taken == [g EXCEPT !.queue = q, !.got = more]
           ended == [g EXCEPT !.queue = q, !.consumer = "check", !.done = TRUE]
           refused == [g EXCEPT !.queue = q, !.consumer = "refused", !.done = TRUE]
           counts == item = "chunk" /\ g.got < Declared[g.body]
           h == IF counts THEN taken ELSE IF item = "end" THEN ended ELSE refused
<1>1. g \in UploadType /\ UploadOK(g) /\ AcceptedOK(g, jobs[Request[u]])
      /\ upload \in [Uploads -> UploadType] /\ faults \in 0..MaxFaults
  BY DEF MediaInv, MediaTypes
<1>2. g.consumer = "read" /\ g.queue # <<>> /\ UNCHANGED <<jobs, local, observer, faults>>
  BY DEF Take
<1>3. upload' = [upload EXCEPT ![u] = h]
  BY <1>1 DEF Take, UploadType
<1>4. g.queue \in Seq(MediaItems) /\ g.got \in Nat /\ g.sent \in Nat
  BY <1>1 DEF UploadType
<1>5. g.pc # "idle" /\ g.body \in Bodies /\ g.answer = Null /\ g.sent <= Chunks[g.body]
      /\ Len(g.queue) <= QueueSize /\ Chunks[g.body] \in Nat
  BY <1>1, <1>2, MediaAssumption DEF UploadOK
<1>6. g.done => g.pc = "cancelled"
  BY <1>1, <1>2 DEF UploadOK, Finished
<1>7. q \in Seq(MediaItems) /\ item \in MediaItems /\ item = g.queue[1]
      /\ Len(q) = Len(g.queue) - 1 /\ Len(g.queue) \in Nat /\ Len(g.queue) > 0
      /\ \A i \in 1..(Len(g.queue) - 1) : q[i] = g.queue[i + 1]
  BY <1>2, <1>4, GetItem
<1>8. Len(q) <= QueueSize
  BY <1>5, <1>7, MediaAssumption
<1> HIDE DEF q, item
<1>9. h \in UploadType
  <2>1. more \in Nat
    BY <1>4
  <2>2. taken \in UploadType
    <3> HIDE DEF more
    <3> QED BY <1>1, <1>7, <2>1 DEF UploadType
  <2>3. ended \in UploadType /\ refused \in UploadType
    BY <1>1, <1>7 DEF UploadType
  <2> QED BY <2>2, <2>3
<1>10. UploadOK(h)
  <2>1. CASE counts
    <3>1. h = taken
      BY <2>1
    <3>2. h.pc = g.pc /\ h.queue = q /\ h.got = g.got + 1 /\ h.done = g.done /\ h.sent = g.sent
          /\ h.body = g.body /\ h.consumer = "read" /\ h.answer = Null
      BY <1>1, <1>2, <1>5, <3>1 DEF UploadType
    <3> HIDE DEF h
    <3>3. ~h.done => QueueOK(h)
      <4> SUFFICES ASSUME ~g.done PROVE QueueOK(h)
        BY <3>2
      <4> DEFINE k == Len(g.queue)
      <4>0. QueueOK(g)
        BY <1>1 DEF UploadOK
      <4>1. k \in Nat /\ k > 0 /\ Len(q) = k - 1 /\ \A i \in 1..(k - 1) : q[i] = g.queue[i + 1]
        BY <1>7
      <4>2. CASE g.pc \in Reading
        <5>1. g.got + k = g.sent /\ \A i \in 1..k : g.queue[i] = "chunk"
          BY <4>0, <4>2 DEF QueueOK
        <5> HIDE DEF k
        <5>2. (g.got + 1) + (k - 1) = g.sent
          BY <1>4, <4>1, <5>1
        <5>3. \A i \in 1..(k - 1) : q[i] = "chunk"
          BY <4>1, <5>1
        <5> QED BY <3>2, <4>1, <4>2, <5>2, <5>3 DEF QueueOK, Reading
      <4>3. CASE g.pc = "wait"
        <5>1. g.got + k = g.sent + 1
              /\ (\A i \in 1..k : i < k => g.queue[i] = "chunk")
              /\ g.queue[k] # "chunk" /\ (g.queue[k] = "end" => g.sent = Chunks[g.body])
          BY <4>0, <4>3 DEF QueueOK
        <5> HIDE DEF k
        <5>2. (g.got + 1) + (k - 1) = g.sent + 1
          BY <1>4, <4>1, <5>1
        <5>3. k # 1
          BY <1>7, <2>1, <5>1
        <5>4. \A i \in 1..(k - 1) : i < k - 1 => q[i] = "chunk"
          BY <4>1, <5>1
        <5>5. k - 1 > 0 /\ q[k - 1] = g.queue[k]
          BY <4>1, <5>3
        <5> QED BY <3>2, <4>1, <4>3, <5>1, <5>2, <5>4, <5>5 DEF QueueOK, Reading
      <4>4. CASE g.pc \in {"idle", "cancelled"}
        BY <3>2, <4>4 DEF QueueOK, Reading
      <4> QED BY <1>1, <4>2, <4>3, <4>4 DEF UploadType
    <3> QED BY <1>1, <1>2, <1>5, <1>6, <1>8, <3>2, <3>3 DEF UploadOK, Finished
  <2>2. CASE ~counts /\ item = "end"
    <3>1. h.pc = g.pc /\ h.queue = q /\ h.got = g.got /\ h.done /\ h.sent = g.sent
          /\ h.body = g.body /\ h.consumer = "check" /\ h.answer = Null
      BY <1>1, <1>2, <1>5, <2>2 DEF UploadType
    <3>2. g.pc # "cancelled" => g.pc = "wait" /\ g.got = Chunks[g.body]
      <4> SUFFICES ASSUME g.pc # "cancelled"
                   PROVE  g.pc = "wait" /\ g.got = Chunks[g.body]
        OBVIOUS
      <4> DEFINE k == Len(g.queue)
      <4>1. k \in Nat /\ k > 0 /\ g.queue[1] = "end"
        BY <1>7, <2>2
      <4>2. QueueOK(g)
        BY <1>1, <1>6 DEF UploadOK
      <4>3. g.pc = "wait"
        BY <1>1, <1>5, <4>1, <4>2 DEF QueueOK, UploadType
      <4>4. g.got + k = g.sent + 1
            /\ (\A i \in 1..k : i < k => g.queue[i] = "chunk")
            /\ (g.queue[k] = "end" => g.sent = Chunks[g.body])
        BY <4>2, <4>3 DEF QueueOK
      <4> HIDE DEF k
      <4>5. k = 1
        BY <4>1, <4>4
      <4>6. g.got = g.sent
        BY <1>4, <4>4, <4>5
      <4> QED BY <4>1, <4>3, <4>4, <4>5, <4>6
    <3> HIDE DEF h
    <3>3. g.pc \notin {"put", "over"}
      BY <1>1, <1>2, <3>2 DEF UploadOK
    <3> QED BY <1>5, <1>8, <3>1, <3>2, <3>3 DEF UploadOK, Finished
  <2>3. CASE ~counts /\ item # "end"
    <3>1. h.pc = g.pc /\ h.queue = q /\ h.done /\ h.sent = g.sent
          /\ h.body = g.body /\ h.consumer = "refused" /\ h.answer = Null
      BY <1>1, <1>2, <1>5, <2>3 DEF UploadType
    <3> HIDE DEF h
    <3> QED BY <1>1, <1>5, <1>8, <3>1 DEF UploadOK, Finished
  <2> QED BY <2>1, <2>2, <2>3
<1>11. AcceptedOK(h, jobs[Request[u]])
  <2>1. h.answer = Null
    BY <1>1, <1>5 DEF UploadType
  <2> QED BY <2>1, MediaNullAssumption DEF AcceptedOK
<1> HIDE DEF h
<1> QED BY <1>1, <1>2, <1>3, <1>9, <1>10, <1>11, UploadMoves

LEMMA FaultBound == ASSUME MediaInv, Fault PROVE faults' \in 0..MaxFaults
BY MediaAssumption DEF MediaInv, MediaTypes, Fault

LEMMA BeginUploadStep ==
    ASSUME MediaInv, NEW u \in Uploads, BeginUpload(u)
    PROVE  MediaInv'
<1>1. PICK b \in Bodies :
          upload' = [upload EXCEPT ![u] = [NoUpload EXCEPT !.pc = "stream", !.body = b,
                         !.consumer = "open", !.tries = upload[u].tries + 1]]
  BY DEF BeginUpload
<1> DEFINE n == upload[u].tries + 1
           h == [NoUpload EXCEPT !.pc = "stream", !.body = b, !.consumer = "open", !.tries = n]
<1>2. n \in 0..MaxTries /\ faults \in 0..MaxFaults
  BY MediaAssumption DEF BeginUpload, MediaInv, MediaTypes, UploadType
<1>3. <<>> \in Seq(MediaItems) /\ Len(<<>>) = 0
  OBVIOUS
<1> HIDE DEF n
<1>4. h \in UploadType
  BY <1>2, <1>3 DEF NoUpload, UploadType, Reading
<1>5. h.pc = "stream" /\ h.body = b /\ h.sent = 0 /\ h.got = 0 /\ h.queue = <<>>
      /\ h.done = FALSE /\ h.consumer = "open" /\ h.answer = Null
  BY DEF NoUpload
<1>6. upload' = [upload EXCEPT ![u] = h]
  BY <1>1 DEF n
<1> HIDE DEF h
<1>7. QueueOK(h)
  BY <1>3, <1>5 DEF QueueOK
<1>8. Len(h.queue) <= QueueSize /\ h.sent <= Chunks[h.body]
  BY <1>3, <1>5, MediaAssumption
<1>9. UploadOK(h)
  BY <1>5, <1>7, <1>8 DEF UploadOK, Finished
<1>10. AcceptedOK(h, jobs[Request[u]])
  BY <1>5, MediaNullAssumption DEF AcceptedOK
<1> QED BY <1>2, <1>4, <1>6, <1>9, <1>10, UploadMoves DEF BeginUpload

\* A step of one thread that neither puts nor takes: the queue keeps its order.
LEMMA ThreadMoves ==
    ASSUME MediaInv, NEW u \in Uploads,
           NEW pc \in Reading \cup {"wait", "cancelled"}, NEW done \in BOOLEAN,
           NEW consumer \in {"open", "read", "check", "stored", "refused"},
           upload[u].pc # "idle",
           upload' = [upload EXCEPT ![u] = [upload[u] EXCEPT
                         !.pc = pc, !.done = done, !.consumer = consumer]],
           consumer \in Finished => done,
           pc # "cancelled" /\ done => consumer \in Finished,
           ~done => ~upload[u].done /\ (pc = upload[u].pc \/ {pc, upload[u].pc} \subseteq Reading),
           pc = "put" => upload[u].sent < Chunks[upload[u].body],
           pc = "over" => consumer = "refused",
           pc # "cancelled" /\ consumer \in {"check", "stored"} =>
               upload[u].pc # "cancelled" /\ pc = upload[u].pc
               /\ upload[u].consumer \in {"check", "stored"},
           UNCHANGED <<jobs, local, observer>>, faults' \in 0..MaxFaults
    PROVE  MediaInv'
<1> DEFINE g == upload[u]
           h == [g EXCEPT !.pc = pc, !.done = done, !.consumer = consumer]
<1>1. g \in UploadType /\ UploadOK(g)
  BY DEF MediaInv, MediaTypes
<1>2. h \in UploadType
  BY <1>1 DEF UploadType
<1>3. h.pc = pc /\ h.body = g.body /\ h.sent = g.sent /\ h.got = g.got /\ h.queue = g.queue
      /\ h.done = done /\ h.consumer = consumer /\ h.answer = g.answer
  BY <1>1 DEF UploadType
<1>4. upload' = [upload EXCEPT ![u] = h]
  OBVIOUS
<1>5. g.body \in Bodies /\ g.answer = Null /\ g.sent <= Chunks[g.body]
      /\ Len(g.queue) <= QueueSize
  BY <1>1 DEF UploadOK
<1> HIDE DEF h
<1>6. ~h.done => QueueOK(h)
  <2> SUFFICES ASSUME ~done PROVE QueueOK(h)
    BY <1>3
  <2>1. QueueOK(g)
    BY <1>1 DEF UploadOK
  <2>2. pc \in Reading => g.pc \in Reading
    OBVIOUS
  <2>3. pc = "wait" => g.pc = "wait"
    BY DEF Reading
  <2> QED BY <1>3, <2>1, <2>2, <2>3 DEF QueueOK
<1>7. h.pc # "cancelled" /\ h.consumer \in {"check", "stored"} =>
          h.pc = "wait" /\ h.got = Chunks[h.body]
  BY <1>1, <1>3 DEF UploadOK
<1>8. UploadOK(h)
  <2>1. pc # "idle" /\ h.consumer # "none"
    BY <1>3 DEF Reading
  <2> QED BY <1>3, <1>5, <1>6, <1>7, <2>1 DEF UploadOK
<1>9. AcceptedOK(h, jobs[Request[u]])
  BY <1>3, <1>5, MediaNullAssumption DEF AcceptedOK
<1> QED BY <1>2, <1>4, <1>8, <1>9, UploadMoves

\* The other steps of the two threads before the upload is answered.
LEMMA ThreadSteps ==
    ASSUME MediaInv, NEW u \in Uploads,
           \/ Admit(u) \/ Refuse(u) \/ StreamBreaks(u) \/ Cancel(u)
           \/ StopReading(u) \/ Finalize(u) \/ Arrive(u) \/ Look(u)
    PROVE  MediaInv'
<1> DEFINE g == upload[u]
<1>1. g \in UploadType /\ UploadOK(g) /\ upload \in [Uploads -> UploadType]
      /\ faults \in 0..MaxFaults
  BY DEF MediaInv, MediaTypes
<1>2. (g.pc # "idle" <=> g.consumer # "none") /\ g.done \in BOOLEAN
      /\ (g.consumer \in Finished => g.done)
      /\ (g.pc # "cancelled" /\ g.done => g.consumer \in Finished)
  BY <1>1 DEF UploadOK, UploadType
<1>3. g.pc \in Reading \cup {"idle", "wait", "cancelled"}
      /\ g.consumer \in {"none", "open", "read", "check", "stored", "refused"}
      /\ (g.pc = "put" => g.sent < Chunks[g.body])
      /\ (g.pc = "over" => g.consumer = "refused")
  BY <1>1 DEF UploadOK, UploadType
<1>4. ASSUME Refused(u), g.consumer \in {"open", "read", "check"},
             UNCHANGED <<jobs, local, observer>>, faults' \in 0..MaxFaults
      PROVE  MediaInv'
  <2>1. upload' = [upload EXCEPT ![u] = [g EXCEPT
                      !.pc = g.pc, !.done = TRUE, !.consumer = "refused"]]
    BY <1>1, <1>4 DEF Refused, UploadType
  <2> HIDE DEF g
  <2> QED BY <1>2, <1>3, <1>4, <2>1, ThreadMoves DEF Finished, g
<1>5. CASE Admit(u)
  <2>1. upload' = [upload EXCEPT ![u] = [g EXCEPT
                      !.pc = g.pc, !.done = g.done, !.consumer = "read"]]
    BY <1>1, <1>5 DEF Admit, UploadType
  <2> QED BY <1>1, <1>2, <1>3, <1>5, <2>1, ThreadMoves DEF Finished, Admit
<1>6. CASE Refuse(u)
  BY <1>4, <1>6, FaultBound DEF Refuse
<1>7. ASSUME NEW pc \in {"put", "stream", "over", "broken"}, g.pc \in {"stream", "look"},
             upload' = [upload EXCEPT ![u].pc = pc],
             pc = "put" => g.sent < Chunks[g.body], pc = "over" => g.consumer = "refused",
             UNCHANGED <<jobs, local, observer>>, faults' \in 0..MaxFaults
      PROVE  MediaInv'
  <2>1. upload' = [upload EXCEPT ![u] = [g EXCEPT
                      !.pc = pc, !.done = g.done, !.consumer = g.consumer]]
    BY <1>1, <1>7 DEF UploadType
  <2>2. g.consumer \notin {"check", "stored"}
    BY <1>1, <1>7 DEF UploadOK
  <2>3. g.consumer \in {"open", "read", "refused"} /\ g.pc \notin {"idle", "cancelled"}
    BY <1>2, <1>3, <1>7, <2>2
  <2>4. pc \in Reading /\ g.pc \in Reading /\ pc # "cancelled"
    BY <1>7 DEF Reading
  <2> HIDE DEF g
  <2> QED BY <1>2, <1>7, <2>1, <2>3, <2>4, ThreadMoves DEF g
<1>8. CASE StreamBreaks(u)
  BY <1>7, <1>8, FaultBound DEF StreamBreaks
<1>9. CASE Cancel(u)
  <2>1. upload' = [upload EXCEPT ![u] = [g EXCEPT
                      !.pc = "cancelled", !.done = TRUE, !.consumer = g.consumer]]
    BY <1>1, <1>9 DEF Cancel, UploadType
  <2>2. g.pc # "idle" /\ UNCHANGED <<jobs, local, observer>> /\ faults' \in 0..MaxFaults
    BY <1>9, FaultBound DEF Cancel
  <2> QED BY <1>2, <1>3, <2>1, <2>2, ThreadMoves DEF Reading
<1>10. CASE StopReading(u)
  <2>1. upload' = [upload EXCEPT ![u] = [g EXCEPT
                      !.pc = g.pc, !.done = TRUE, !.consumer = "check"]]
    BY <1>1, <1>10 DEF StopReading, UploadType
  <2>2. g.pc = "cancelled"
    BY <1>2, <1>10 DEF StopReading, Finished
  <2> QED BY <1>1, <2>1, <2>2, <1>10, ThreadMoves DEF StopReading
<1>11. CASE Finalize(u)
  <2>1. CASE g.got = Declared[g.body]
    <3>1. upload' = [upload EXCEPT ![u] = [g EXCEPT
                        !.pc = g.pc, !.done = g.done, !.consumer = "stored"]]
      BY <1>1, <1>11, <2>1 DEF Finalize, UploadType
    <3>2. g.consumer = "check" /\ g.done
      BY <1>2, <1>11 DEF Finalize, Finished
    <3> QED BY <1>1, <1>2, <1>3, <1>11, <3>1, <3>2, ThreadMoves DEF Finished, Finalize
  <2>2. CASE g.got # Declared[g.body]
    BY <1>1, <1>4, <1>11, <2>2 DEF Finalize
  <2> QED BY <2>1, <2>2
<1>12. CASE Arrive(u)
  BY <1>1, <1>7, <1>12 DEF Arrive, WaitsForClient
<1>13. CASE Look(u)
  <2>1. PICK pc \in {"stream", "over"} :
            /\ pc = "over" => g.consumer \in {"refused", "stored"}
            /\ upload' = [upload EXCEPT ![u].pc = pc]
    BY <1>13 DEF Look
  <2>2. g.pc = "look" /\ UNCHANGED <<jobs, local, observer, faults>>
    BY <1>13 DEF Look
  <2>3. g.consumer # "stored"
    BY <1>1, <2>2 DEF UploadOK
  <2> QED BY <1>1, <1>7, <2>1, <2>2, <2>3
<1> QED BY <1>5, <1>6, <1>8, <1>9, <1>10, <1>11, <1>12, <1>13

-----------------------------------------------------------------------------
(* The rows of the jobs *)

\* A row that exists is kept, with its body.
RowsKept(old, new) ==
    \A j \in RequestIds : old[j] # NoJob => new[j] # NoJob /\ new[j].body = old[j].body

\* What the Observer has taken it keeps.
ObserverKeeps(old, new) == \A j \in RequestIds : old[j] # Null => new[j] = old[j]

LEMMA RefType ==
    ASSUME NEW l \in MediaWorkType, NEW row
    PROVE  RefOf(l, row) \in 0..MaxAttempts /\ RefOf(l, row) # Null
BY MediaAssumption, MediaNullAssumption DEF RefOf, MediaWorkType

LEMMA NoJobFacts ==
    /\ NoJob \in MediaJobType
    /\ NoJob.body = Null /\ NoJob.status = Null /\ Null \notin Bodies
BY MediaAssumption, MediaNullAssumption DEF NoJob, MediaJobType

\* What was answered and what the workers know stays true.
LEMMA KnowledgeStays ==
    ASSUME MediaInv, RowsKept(jobs, jobs'), ObserverKeeps(observer, observer')
    PROVE  /\ \A u \in Uploads : AcceptedOK(upload[u], jobs'[Request[u]])
           /\ \A w \in Workers : MediaWorkOK(local[w], jobs', observer')
<1>1. ASSUME NEW u \in Uploads PROVE AcceptedOK(upload[u], jobs'[Request[u]])
  <2>1. Request[u] \in RequestIds /\ AcceptedOK(upload[u], jobs[Request[u]])
    BY MediaAssumption DEF MediaInv
  <2>2. CASE upload[u].answer = "accepted"
    <3>1. jobs[Request[u]] # NoJob
      BY <2>1, <2>2, NoJobFacts DEF AcceptedOK
    <3> QED BY <2>1, <2>2, <3>1 DEF AcceptedOK, RowsKept
  <2>3. CASE upload[u].answer # "accepted"
    BY <2>3 DEF AcceptedOK
  <2> QED BY <2>2, <2>3
<1>2. ASSUME NEW w \in Workers PROVE MediaWorkOK(local[w], jobs', observer')
  <2> DEFINE l == local[w]
  <2>1. l \in MediaWorkType /\ MediaWorkOK(l, jobs, observer)
    BY DEF MediaInv, MediaTypes
  <2> HIDE DEF l
  <2>2. CASE l.pc \in {"idle", "down"}
    BY <2>1, <2>2 DEF MediaWorkOK, l
  <2>3. CASE l.pc \notin {"idle", "down"}
    <3>1. l.job \in RequestIds /\ jobs[l.job] # NoJob
      BY <2>1, <2>3 DEF MediaWorkOK
    <3>2. jobs'[l.job] # NoJob /\ jobs'[l.job].body = jobs[l.job].body
      BY <3>1 DEF RowsKept
    <3>3. RefOf(l, jobs'[l.job]) = RefOf(l, jobs[l.job]) /\ RefOf(l, jobs[l.job]) # Null
      BY <2>1, <3>2, RefType DEF RefOf
    <3>4. l.pc = "complete" /\ l.outcome = "ready" =>
              observer'[l.job] = RefOf(l, jobs'[l.job])
      BY <2>1, <3>1, <3>3 DEF MediaWorkOK, ObserverKeeps
    <3> QED BY <2>1, <3>1, <3>2, <3>4 DEF MediaWorkOK, l
  <2> QED BY <2>2, <2>3
<1> QED BY <1>1, <1>2

\* The answer ends the upload.
LEMMA AnswerGiven ==
    ASSUME MediaInv, NEW u \in Uploads, NEW answer \in {"accepted", "conflict", "failed"},
           Answered(u, answer), upload[u].pc # "idle",
           jobs' = jobs \/ jobs' = Stored(u),
           upload[u].pc = "wait" \/ jobs' = jobs,
           answer = "accepted" => /\ upload[u].got = Chunks[upload[u].body]
                                  /\ jobs'[Request[u]].body = upload[u].body,
           UNCHANGED <<local, observer>>, faults' \in 0..MaxFaults
    PROVE  MediaInv'
<1> DEFINE g == upload[u]
           h == [NoUpload EXCEPT !.answer = answer, !.tries = g.tries,
                                 !.body = g.body, !.got = g.got]
           r == Request[u]
           fresh == [NoJob EXCEPT !.status = "queued", !.body = g.body]
<1>1. g \in UploadType /\ UploadOK(g) /\ upload \in [Uploads -> UploadType]
      /\ jobs \in [RequestIds -> MediaJobType]
  BY DEF MediaInv, MediaTypes
<1>2. g.body \in Bodies /\ r \in RequestIds
  BY <1>1, MediaAssumption DEF UploadOK
<1>3. upload' = [upload EXCEPT ![u] = h]
  BY DEF Answered
<1>4. h \in UploadType
  <2>1. <<>> \in Seq(MediaItems)
    OBVIOUS
  <2> QED BY <1>1, <2>1 DEF NoUpload, UploadType
<1>5. h.pc = "idle" /\ h.consumer = "none" /\ h.queue = <<>> /\ h.done = FALSE
      /\ h.answer = answer /\ h.body = g.body /\ h.got = g.got
  BY DEF NoUpload
<1>6. UploadOK(h)
  <2>1. QueueOK(h)
    BY <1>5 DEF QueueOK, Reading
  <2>2. Len(h.queue) <= QueueSize
    BY <1>5, MediaAssumption
  <2> QED BY <1>5, <2>1, <2>2 DEF UploadOK, Finished
<1>7. AcceptedOK(h, jobs'[r])
  BY <1>2, <1>5 DEF AcceptedOK
<1>8. fresh \in MediaJobType /\ fresh.status = "queued" /\ fresh.body = g.body
      /\ fresh.owner = Null /\ fresh.lapsed = FALSE
  BY <1>2, NoJobFacts DEF NoJob, MediaJobType
<1>9. \/ jobs' = jobs
      \/ jobs[r] = NoJob /\ jobs' = [jobs EXCEPT ![r] = fresh]
  BY DEF Stored
<1> HIDE DEF fresh, h
<1>10. jobs' \in [RequestIds -> MediaJobType]
  BY <1>1, <1>8, <1>9
<1>11. RowsKept(jobs, jobs') /\ ObserverKeeps(observer, observer')
  BY <1>1, <1>2, <1>9 DEF RowsKept, ObserverKeeps
<1>12. \A j \in RequestIds : MediaJobOK(jobs[j], observer[j])'
  <2> TAKE j \in RequestIds
  <2>1. CASE jobs'[j] = jobs[j]
    BY <2>1 DEF MediaInv
  <2>2. CASE jobs'[j] # jobs[j]
    <3>1. jobs'[j] = fresh
      BY <1>1, <1>2, <1>9, <2>2
    <3>2. MediaJobOK(fresh, observer[j])
      BY <1>2, <1>8, MediaNullAssumption DEF MediaJobOK
    <3> QED BY <3>1, <3>2
  <2> QED BY <2>1, <2>2
<1>13. \A v \in Uploads : UploadOK(upload[v])' /\ AcceptedOK(upload[v], jobs[Request[v]])'
  <2> TAKE v \in Uploads
  <2>1. CASE v = u
    <3>1. upload'[v] = h
      BY <1>1, <1>3, <2>1
    <3> QED BY <1>6, <1>7, <2>1, <3>1
  <2>2. CASE v # u
    <3>1. upload'[v] = upload[v]
      BY <1>1, <1>3, <2>2
    <3>2. UploadOK(upload[v]) /\ AcceptedOK(upload[v], jobs'[Request[v]])
      BY <1>11, KnowledgeStays DEF MediaInv
    <3> QED BY <3>1, <3>2
  <2> QED BY <2>1, <2>2
<1>14. \A w \in Workers : MediaWorkOK(local[w], jobs, observer)'
  BY <1>11, KnowledgeStays
<1>15. MediaTypes'
  BY <1>1, <1>3, <1>4, <1>10 DEF MediaInv, MediaTypes
<1> QED BY <1>12, <1>13, <1>14, <1>15 DEF MediaInv

\* enqueue and the other ends of an upload.
LEMMA AnswerSteps ==
    ASSUME MediaInv, NEW u \in Uploads, Enqueue(u) \/ EnqueueFails(u) \/ EndUpload(u)
    PROVE  MediaInv'
<1>1. upload[u] \in UploadType /\ UploadOK(upload[u]) /\ faults \in 0..MaxFaults
      /\ Request[u] \in RequestIds /\ jobs \in [RequestIds -> MediaJobType]
  BY MediaAssumption DEF MediaInv, MediaTypes
<1>2. CASE Enqueue(u)
  <2> DEFINE answer == IF jobs[Request[u]] = NoJob \/ SameSubmission(u)
                       THEN "accepted" ELSE "conflict"
  <2>1. upload[u].pc = "wait" /\ upload[u].consumer = "stored" /\ jobs' = Stored(u)
        /\ Answered(u, answer) /\ UNCHANGED <<local, observer, faults>>
    BY <1>2 DEF Enqueue
  <2>2. upload[u].got = Chunks[upload[u].body]
    BY <1>1, <2>1 DEF UploadOK
  <2>3. answer = "accepted" => jobs'[Request[u]].body = upload[u].body
    BY <1>1, <2>1 DEF Stored, SameSubmission, NoJob
  <2>4. answer \in {"accepted", "conflict", "failed"}
    OBVIOUS
  <2> HIDE DEF answer
  <2> QED BY <1>1, <2>1, <2>2, <2>3, <2>4, AnswerGiven
<1>3. CASE EnqueueFails(u)
  <2>1. upload[u].pc = "wait" /\ jobs' \in {jobs, Stored(u)} /\ Answered(u, "failed")
        /\ UNCHANGED <<local, observer>> /\ faults' \in 0..MaxFaults
    BY <1>3, FaultBound DEF EnqueueFails
  <2> QED BY <2>1, AnswerGiven
<1>4. CASE EndUpload(u)
  <2>1. upload[u].pc # "idle" /\ Answered(u, "failed") /\ UNCHANGED <<jobs, local, observer, faults>>
    BY <1>4 DEF EndUpload
  <2> QED BY <1>1, <2>1, AnswerGiven
<1> QED BY <1>2, <1>3, <1>4

-----------------------------------------------------------------------------
(* The workers *)

\* A step of one worker that keeps the rows and what the Observer has.
LEMMA WorkMoves ==
    ASSUME MediaInv, NEW w \in Workers, NEW l \in MediaWorkType,
           local' = [local EXCEPT ![w] = l], MediaWorkOK(l, jobs', observer'),
           jobs' \in [RequestIds -> MediaJobType],
           observer' \in [RequestIds -> {Null} \cup 0..MaxAttempts],
           RowsKept(jobs, jobs'), ObserverKeeps(observer, observer'),
           \A j \in RequestIds : MediaJobOK(jobs'[j], observer'[j]),
           upload' = upload, faults' \in 0..MaxFaults
    PROVE  MediaInv'
<1>1. upload \in [Uploads -> UploadType] /\ local \in [Workers -> MediaWorkType]
      /\ \A u \in Uploads : UploadOK(upload[u])
  BY DEF MediaInv, MediaTypes
<1>2. local' \in [Workers -> MediaWorkType]
  BY <1>1
<1>3. \A v \in Workers : MediaWorkOK(local[v], jobs, observer)'
  <2> TAKE v \in Workers
  <2>1. CASE v = w
    <3>1. local'[v] = l
      BY <1>1, <2>1
    <3> QED BY <3>1
  <2>2. CASE v # w
    <3>1. local'[v] = local[v]
      BY <1>1, <2>2
    <3>2. MediaWorkOK(local[v], jobs', observer')
      BY KnowledgeStays
    <3> QED BY <3>1, <3>2
  <2> QED BY <2>1, <2>2
<1>4. \A u \in Uploads : UploadOK(upload[u])' /\ AcceptedOK(upload[u], jobs[Request[u]])'
  BY <1>1, KnowledgeStays
<1>5. MediaTypes'
  BY <1>1, <1>2 DEF MediaTypes
<1> QED BY <1>3, <1>4, <1>5 DEF MediaInv

LEMMA NothingMoves ==
    ASSUME MediaInv
    PROVE  /\ RowsKept(jobs, jobs) /\ ObserverKeeps(observer, observer)
           /\ jobs \in [RequestIds -> MediaJobType]
           /\ observer \in [RequestIds -> {Null} \cup 0..MaxAttempts]
           /\ faults \in 0..MaxFaults /\ local \in [Workers -> MediaWorkType]
           /\ \A j \in RequestIds : MediaJobOK(jobs[j], observer[j])
BY DEF MediaInv, MediaTypes, RowsKept, ObserverKeeps

LEMMA NoWorkFacts ==
    ASSUME NEW table, NEW ob
    PROVE  /\ NoWork \in MediaWorkType /\ MediaWorkOK(NoWork, table, ob)
           /\ Down \in MediaWorkType /\ MediaWorkOK(Down, table, ob)
BY MediaAssumption DEF NoWork, Down, MediaWorkType, MediaWorkOK, Stages

\* What the stages can say.
LEMMA StageResults ==
    ASSUME NEW stage \in Stages, NEW result \in Results(stage)
    PROVE  result \in {"ready", "retry", "quarantined"}
<1>1. ASSUME NEW f \in Inspections PROVE Inspection(f) \in {"ready", "retry", "quarantined"}
  <2>1. f.scan \in {"error", "positive", "clean"}
    BY DEF Inspections
  <2>2. [error |-> "retry", positive |-> "quarantined", clean |-> "ready"][f.scan]
            \in {"ready", "retry", "quarantined"}
    BY <2>1
  <2> QED BY <2>2 DEF Inspection
<1>2. ASSUME NEW f \in Normalizations PROVE Normalization(f) \in {"ready", "retry", "quarantined"}
  <2>1. f.output \in {"unknown", "invalid", "valid"}
    BY DEF Normalizations
  <2>2. [unknown |-> "retry", invalid |-> "quarantined", valid |-> "ready"][f.output]
            \in {"ready", "retry", "quarantined"}
    BY <2>1
  <2> QED BY <2>2 DEF Normalization
<1>3. ASSUME NEW f \in Transcriptions PROVE Transcription(f) \in {"ready", "retry", "quarantined"}
  <2>1. f.store \in {"raises", "invalid", "ok"}
    BY DEF Transcriptions
  <2>2. [raises |-> "retry", invalid |-> "quarantined", ok |-> "ready"][f.store]
            \in {"ready", "retry", "quarantined"}
    BY <2>1
  <2> QED BY <2>2 DEF Transcription
<1> QED BY <1>1, <1>2, <1>3 DEF Results, Stages

\* The steps of a worker that change nothing but its memory.
LEMMA MemorySteps ==
    ASSUME MediaInv, NEW w \in Workers,
           \/ Stage(w) \/ StageRaises(w) \/ Heartbeat(w) \/ HeartbeatFails(w) \/ Join(w)
           \/ Unproven(w) \/ CompleteFails(w) \/ Crash(w) \/ Restart(w)
    PROVE  MediaInv'
<1> DEFINE k == local[w]
<1>1. k \in MediaWorkType /\ MediaWorkOK(k, jobs, observer) /\ local \in [Workers -> MediaWorkType]
      /\ faults \in 0..MaxFaults
  BY DEF MediaInv, MediaTypes
<1>2. k.pc \in Stages \cup {"joined", "publish", "complete"} =>
          k.job \in RequestIds /\ jobs[k.job] # NoJob
  BY <1>1 DEF MediaWorkOK, Stages
<1>3. ASSUME NEW l \in MediaWorkType, local' = [local EXCEPT ![w] = l],
             MediaWorkOK(l, jobs, observer),
             UNCHANGED <<upload, jobs, observer>>, faults' \in 0..MaxFaults
      PROVE  MediaInv'
  BY <1>3, WorkMoves, NothingMoves
<1>4. CASE Stage(w)
  <2>1. PICK result \in Results(k.pc) :
            local' = [local EXCEPT ![w] =
                IF result = "ready" /\ Following(w) # Null
                THEN [k EXCEPT !.pc = Following(w)]
                ELSE [k EXCEPT !.pc = "joined", !.outcome = Outcome(w, result)]]
    BY <1>1, <1>4 DEF Stage
  <2>2. k.pc \in Stages /\ UNCHANGED <<upload, jobs, observer, faults>>
    BY <1>4 DEF Stage
  <2>3. result \in {"ready", "retry", "quarantined"}
    BY <2>2, StageResults
  <2>4. CASE result = "ready" /\ Following(w) # Null
    <3>1. Following(w) \in {"normalize", "transcribe"}
      BY <2>4 DEF Following
    <3> DEFINE l == [k EXCEPT !.pc = Following(w)]
    <3>2. l \in MediaWorkType /\ l.job = k.job /\ l.pc \in {"normalize", "transcribe"}
      BY <1>1, <3>1 DEF MediaWorkType, Stages
    <3>3. MediaWorkOK(l, jobs, observer)
      BY <1>2, <2>2, <3>2 DEF MediaWorkOK
    <3> HIDE DEF l
    <3> QED BY <1>1, <1>3, <2>1, <2>2, <2>4, <3>2, <3>3 DEF l
  <2>5. CASE ~(result = "ready" /\ Following(w) # Null)
    <3>1. Outcome(w, result) \in {"retry"} \cup Terminal
      BY <2>3 DEF Outcome, Terminal
    <3> DEFINE l == [k EXCEPT !.pc = "joined", !.outcome = Outcome(w, result)]
    <3>2. l \in MediaWorkType /\ l.job = k.job /\ l.pc = "joined" /\ l.outcome # Null
      BY <1>1, <3>1, MediaNullAssumption DEF MediaWorkType
    <3>3. MediaWorkOK(l, jobs, observer)
      BY <1>2, <2>2, <3>2 DEF MediaWorkOK
    <3> HIDE DEF l
    <3> QED BY <1>1, <1>3, <2>1, <2>2, <2>5, <3>2, <3>3 DEF l
  <2> QED BY <2>4, <2>5
<1>5. ASSUME NEW pc \in {"retry"} \cup Stages, local' = [local EXCEPT ![w] = [k EXCEPT !.pc = pc]],
             k.pc \in Stages \cup {"joined", "publish", "complete"},
             UNCHANGED <<upload, jobs, observer>>, faults' \in 0..MaxFaults
      PROVE  MediaInv'
  <2> DEFINE l == [k EXCEPT !.pc = pc]
  <2>1. l \in MediaWorkType /\ l.job = k.job /\ l.pc = pc
    BY <1>1 DEF MediaWorkType
  <2>2. MediaWorkOK(l, jobs, observer)
    BY <1>2, <1>5, <2>1 DEF MediaWorkOK, Stages
  <2> HIDE DEF l
  <2> QED BY <1>3, <1>5, <2>1, <2>2 DEF l
<1>6. CASE StageRaises(w)
  BY <1>1, <1>5, <1>6, FaultBound DEF StageRaises
<1>7. ASSUME NEW beat \in {"ok", "lost", "error"}, k.pc \in Stages,
             local' = [local EXCEPT ![w].beat = beat],
             UNCHANGED <<upload, jobs, observer>>, faults' \in 0..MaxFaults
      PROVE  MediaInv'
  <2> DEFINE l == [k EXCEPT !.beat = beat]
  <2>1. l \in MediaWorkType /\ l.job = k.job /\ l.pc = k.pc
    BY <1>1 DEF MediaWorkType
  <2>2. MediaWorkOK(l, jobs, observer)
    BY <1>2, <1>7, <2>1 DEF MediaWorkOK, Stages
  <2>3. local' = [local EXCEPT ![w] = l]
    BY <1>1, <1>7
  <2> HIDE DEF l
  <2> QED BY <1>3, <1>7, <2>1, <2>2, <2>3
<1>8. CASE Heartbeat(w)
  BY <1>1, <1>7, <1>8 DEF Heartbeat
<1>9. CASE HeartbeatFails(w)
  BY <1>7, <1>9, FaultBound DEF HeartbeatFails
<1>10. CASE Join(w)
  <2>1. k.pc = "joined" /\ UNCHANGED <<upload, jobs, observer, faults>>
    BY <1>10 DEF Join
  <2>2. CASE k.beat = "lost"
    <3>1. local' = [local EXCEPT ![w] = NoWork]
      BY <1>10, <2>2 DEF Join
    <3> QED BY <1>1, <1>3, <2>1, <3>1, NoWorkFacts
  <2>3. CASE k.beat # "lost"
    <3> DEFINE l == [k EXCEPT !.pc = Recorded(w), !.beat = "ok"]
    <3>1. local' = [local EXCEPT ![w] = l]
      BY <1>10, <2>3 DEF Join
    <3>2. k.outcome \in {"retry"} \cup Terminal
      BY <1>1, <2>1 DEF MediaWorkOK, MediaWorkType
    <3>3. \/ Recorded(w) = "retry"
          \/ Recorded(w) = "publish" /\ k.outcome = "ready"
          \/ Recorded(w) = "complete" /\ k.outcome \in Terminal \ {"ready"}
      BY <1>1, <2>3, <3>2 DEF Recorded, MediaWorkType, Terminal
    <3>4. l \in MediaWorkType /\ l.job = k.job /\ l.pc = Recorded(w) /\ l.outcome = k.outcome
      BY <1>1, <3>3 DEF MediaWorkType
    <3>5. MediaWorkOK(l, jobs, observer)
      BY <1>2, <2>1, <3>3, <3>4 DEF MediaWorkOK
    <3> HIDE DEF l
    <3> QED BY <1>1, <1>3, <2>1, <3>1, <3>4, <3>5
  <2> QED BY <2>2, <2>3
<1>11. CASE Unproven(w)
  <2> DEFINE l == [k EXCEPT !.pc = "complete", !.outcome = "quarantined"]
  <2>1. k.pc = "publish" /\ UNCHANGED <<upload, jobs, observer, faults>>
        /\ local' = [local EXCEPT ![w] = l]
    BY <1>1, <1>11 DEF Unproven
  <2>2. l \in MediaWorkType /\ l.job = k.job /\ l.pc = "complete" /\ l.outcome = "quarantined"
    BY <1>1 DEF MediaWorkType, Terminal
  <2>3. MediaWorkOK(l, jobs, observer)
    BY <1>2, <2>1, <2>2 DEF MediaWorkOK, Terminal
  <2> HIDE DEF l
  <2> QED BY <1>1, <1>3, <2>1, <2>2, <2>3
<1>12. CASE CompleteFails(w)
  BY <1>1, <1>5, <1>12, FaultBound DEF CompleteFails
<1>13. CASE Crash(w)
  BY <1>3, <1>13, NoWorkFacts, FaultBound DEF Crash
<1>14. CASE Restart(w)
  BY <1>1, <1>3, <1>14, NoWorkFacts DEF Restart, Leave
<1> QED BY <1>4, <1>6, <1>8, <1>9, <1>10, <1>11, <1>12, <1>13, <1>14

\* What a transaction of the queue may do to a row, where ob is what the
\* Observer has under its key.
RowMoves(old, new, ob) ==
    \/ new = old
    \/ /\ old.status # Null /\ new \in MediaJobType
       /\ new.body = old.body /\ new.status # Null
       /\ (new.owner # Null) <=> (new.status = "leased")
       /\ new.lapsed => new.status = "leased"
       /\ new.status = "ready" => new.ref # Null /\ new.ref = ob

LEMMA RowsMove ==
    ASSUME MediaInv, DOMAIN jobs' = RequestIds, jobs' = [j \in RequestIds |-> jobs'[j]],
           observer' = observer,
           \A j \in RequestIds : RowMoves(jobs[j], jobs'[j], observer[j])
    PROVE  /\ jobs' \in [RequestIds -> MediaJobType]
           /\ RowsKept(jobs, jobs') /\ ObserverKeeps(observer, observer')
           /\ \A j \in RequestIds : MediaJobOK(jobs'[j], observer'[j])
<1>1. ASSUME NEW j \in RequestIds
      PROVE  /\ jobs'[j] \in MediaJobType
             /\ jobs[j] # NoJob => jobs'[j] # NoJob /\ jobs'[j].body = jobs[j].body
             /\ MediaJobOK(jobs'[j], observer'[j])
  <2>1. jobs[j] \in MediaJobType /\ MediaJobOK(jobs[j], observer[j])
    BY DEF MediaInv, MediaTypes
  <2>2. RowMoves(jobs[j], jobs'[j], observer[j])
    OBVIOUS
  <2>3. CASE jobs'[j] = jobs[j]
    BY <2>1, <2>3
  <2>4. CASE jobs'[j] # jobs[j]
    <3> DEFINE old == jobs[j]
               new == jobs'[j]
    <3>1. old.status # Null /\ new \in MediaJobType
          /\ new.body = old.body /\ new.status # Null
          /\ ((new.owner # Null) <=> (new.status = "leased"))
          /\ (new.lapsed => new.status = "leased")
          /\ (new.status = "ready" => new.ref # Null /\ new.ref = observer[j])
      BY <2>2, <2>4 DEF RowMoves
    <3>2. old # NoJob /\ new # NoJob
      BY <3>1, NoJobFacts
    <3>3. old.body \in Bodies
      BY <2>1, <3>2 DEF MediaJobOK
    <3> HIDE DEF old, new
    <3> QED BY <3>1, <3>2, <3>3 DEF MediaJobOK, old, new
  <2> QED BY <2>3, <2>4
<1> QED BY <1>1 DEF RowsKept, ObserverKeeps

\* The rows that exist: those a status names.
LEMMA RowExists ==
    ASSUME MediaInv, NEW j \in RequestIds, jobs[j].status # Null
    PROVE  jobs[j] # NoJob /\ jobs[j].body \in Bodies
BY NoJobFacts DEF MediaInv, MediaJobOK

\* A lease runs out, a delay passes, or jobs are given up: no worker moves.
LEMMA QueueSteps ==
    ASSUME MediaInv, upload' = upload, local' = local, observer' = observer, faults' = faults,
           DOMAIN jobs' = RequestIds, jobs' = [j \in RequestIds |-> jobs'[j]],
           \A j \in RequestIds : RowMoves(jobs[j], jobs'[j], observer[j])
    PROVE  MediaInv'
<1>1. /\ jobs' \in [RequestIds -> MediaJobType]
      /\ RowsKept(jobs, jobs') /\ ObserverKeeps(observer, observer')
      /\ \A j \in RequestIds : MediaJobOK(jobs'[j], observer'[j])
  BY RowsMove
<1>2. \A u \in Uploads : UploadOK(upload[u])' /\ AcceptedOK(upload[u], jobs[Request[u]])'
  BY <1>1, KnowledgeStays DEF MediaInv
<1>3. \A w \in Workers : MediaWorkOK(local[w], jobs, observer)'
  BY <1>1, KnowledgeStays
<1> QED BY <1>1, <1>2, <1>3 DEF MediaInv, MediaTypes

LEMMA ReapedMoves ==
    ASSUME MediaInv, NEW j \in RequestIds
    PROVE  RowMoves(jobs[j], Reaped[j], observer[j])
<1>1. jobs[j] \in MediaJobType
  BY DEF MediaInv, MediaTypes
<1>2. CASE Reapable(j)
  <2>1. Reaped[j] = Released(jobs[j], "dead_letter")
    BY <1>2 DEF Reaped
  <2>2. jobs[j].status # Null
    BY <1>2, MediaNullAssumption DEF Reapable, Expired
  <2> QED BY <1>1, <2>1, <2>2, MediaNullAssumption DEF RowMoves, Released, MediaJobType, Terminal
<1>3. CASE ~Reapable(j)
  BY <1>3 DEF Reaped, RowMoves
<1> QED BY <1>2, <1>3

LEMMA TimeSteps ==
    ASSUME MediaInv, NEW j \in RequestIds, Lapse(j) \/ BecomesDue(j)
    PROVE  MediaInv'
<1>1. jobs[j] \in MediaJobType /\ MediaJobOK(jobs[j], observer[j])
      /\ jobs \in [RequestIds -> MediaJobType]
  BY DEF MediaInv, MediaTypes
<1>2. UNCHANGED <<upload, local, observer, faults>>
  BY DEF Lapse, BecomesDue
<1>3. PICK row : /\ jobs' = [jobs EXCEPT ![j] = row]
                 /\ RowMoves(jobs[j], row, observer[j])
  <2>1. CASE Lapse(j)
    <3> DEFINE row == [jobs[j] EXCEPT !.lapsed = TRUE]
    <3>1. jobs' = [jobs EXCEPT ![j] = row]
      BY <1>1, <2>1 DEF Lapse
    <3>2. jobs[j].status = "leased"
      BY <2>1 DEF Lapse
    <3>3. RowMoves(jobs[j], row, observer[j])
      BY <1>1, <3>2, MediaNullAssumption DEF RowMoves, MediaJobType, MediaJobOK
    <3> QED BY <3>1, <3>3
  <2>2. CASE BecomesDue(j)
    <3> DEFINE row == [jobs[j] EXCEPT !.due = TRUE]
    <3>1. jobs' = [jobs EXCEPT ![j] = row]
      BY <1>1, <2>2 DEF BecomesDue
    <3>2. jobs[j] # NoJob
      BY <2>2 DEF BecomesDue, NoJob
    <3>3. RowMoves(jobs[j], row, observer[j])
      BY <1>1, <3>2 DEF RowMoves, MediaJobType, MediaJobOK
    <3> QED BY <3>1, <3>3
  <2> QED BY <2>1, <2>2
<1>4. \A i \in RequestIds : RowMoves(jobs[i], jobs'[i], observer[i])
  BY <1>1, <1>3 DEF RowMoves
<1>5. DOMAIN jobs' = RequestIds /\ jobs' = [i \in RequestIds |-> jobs'[i]]
  BY <1>1, <1>3
<1> QED BY <1>2, <1>4, <1>5, QueueSteps

LEMMA ClaimSteps ==
    ASSUME MediaInv, NEW w \in Workers, Claim(w) \/ ClaimNone(w)
    PROVE  MediaInv'
<1>1. jobs \in [RequestIds -> MediaJobType] /\ faults \in 0..MaxFaults
  BY DEF MediaInv, MediaTypes
<1>2. CASE Claim(w)
  <2>1. PICK j \in RequestIds :
            /\ Claimable(j) /\ jobs' = [Reaped EXCEPT ![j] = Taken(w, j)]
            /\ local' = [local EXCEPT ![w] = [NoWork EXCEPT !.pc = "inspect", !.job = j,
                                                            !.attempt = jobs[j].attempt + 1]]
    BY <1>2 DEF Claim
  <2>2. UNCHANGED <<upload, observer, faults>>
    BY <1>2 DEF Claim
  <2> DEFINE n == jobs[j].attempt + 1
             l == [NoWork EXCEPT !.pc = "inspect", !.job = j, !.attempt = n]
             row == Taken(w, j)
  <2>3. jobs[j] \in MediaJobType
    BY <1>1
  <2>4. n \in 0..MaxAttempts /\ jobs[j].status # Null
    BY <2>1, <2>3, MediaAssumption, MediaNullAssumption DEF Claimable, Due, Expired, MediaJobType
  <2>5. row = [jobs[j] EXCEPT !.status = "leased", !.attempt = n,
                              !.owner = WorkerId[w], !.lapsed = FALSE]
    BY DEF Taken
  <2>6. local' = [local EXCEPT ![w] = l]
    BY <2>1
  <2> HIDE DEF n
  <2>7. row \in MediaJobType /\ row.status = "leased" /\ row.owner = WorkerId[w]
        /\ row.lapsed = FALSE /\ row.body = jobs[j].body
    <3> DEFINE o == WorkerId[w]
    <3>1. o \in {WorkerId[v] : v \in Workers} \cup {Null}
      OBVIOUS
    <3>2. row = [jobs[j] EXCEPT !.status = "leased", !.attempt = n, !.owner = o, !.lapsed = FALSE]
      BY <2>5
    <3> HIDE DEF o, row
    <3>3. row \in MediaJobType /\ row.status = "leased" /\ row.owner = o
          /\ row.lapsed = FALSE /\ row.body = jobs[j].body
      BY <2>3, <2>4, <3>1, <3>2 DEF MediaJobType
    <3> QED BY <3>3 DEF o
  <2>8. l \in MediaWorkType /\ l.pc = "inspect" /\ l.job = j
    BY <2>4 DEF NoWork, MediaWorkType, Stages
  <2> HIDE DEF row, l
  <2>9. RowMoves(jobs[j], row, observer[j])
    BY <2>4, <2>7, MediaNullAssumption DEF RowMoves
  <2>10. \A i \in RequestIds : RowMoves(jobs[i], jobs'[i], observer[i])
    <3> TAKE i \in RequestIds
    <3>1. CASE i = j
      BY <2>1, <2>9, <3>1 DEF Reaped, row
    <3>2. CASE i # j
      <4>1. jobs'[i] = Reaped[i]
        BY <2>1, <3>2 DEF Reaped
      <4> QED BY <4>1, ReapedMoves
    <3> QED BY <3>1, <3>2
  <2>11. DOMAIN jobs' = RequestIds /\ jobs' = [i \in RequestIds |-> jobs'[i]]
    BY <2>1 DEF Reaped
  <2>12. /\ jobs' \in [RequestIds -> MediaJobType]
         /\ RowsKept(jobs, jobs') /\ ObserverKeeps(observer, observer')
         /\ \A i \in RequestIds : MediaJobOK(jobs'[i], observer'[i])
    BY <2>2, <2>10, <2>11, RowsMove
  <2>13. jobs'[j] # NoJob
    BY <2>4, <2>12, RowExists DEF RowsKept
  <2>14. MediaWorkOK(l, jobs', observer')
    BY <2>8, <2>13 DEF MediaWorkOK
  <2>15. observer' \in [RequestIds -> {Null} \cup 0..MaxAttempts]
    BY <2>2, NothingMoves
  <2> QED BY <1>1, <2>2, <2>6, <2>8, <2>12, <2>14, <2>15, WorkMoves
<1>3. CASE ClaimNone(w)
  <2>1. jobs' = Reaped /\ UNCHANGED <<upload, local, observer, faults>>
    BY <1>3 DEF ClaimNone
  <2>2. DOMAIN jobs' = RequestIds /\ jobs' = [i \in RequestIds |-> jobs'[i]]
    BY <2>1 DEF Reaped
  <2> QED BY <2>1, <2>2, ReapedMoves, QueueSteps
<1> QED BY <1>2, <1>3

\* Where the reference of an attempt is taken, the Observer has it from then on.
LEMMA TakingSets ==
    ASSUME MediaInv, NEW w \in Workers, local[w].pc = "publish", Taking(w),
           observer' = [observer EXCEPT ![local[w].job] = Reference(w)]
    PROVE  /\ observer' \in [RequestIds -> {Null} \cup 0..MaxAttempts]
           /\ ObserverKeeps(observer, observer')
           /\ observer'[local[w].job] = RefOf(local[w], jobs[local[w].job])
           /\ \A j \in RequestIds : MediaJobOK(jobs[j], observer'[j])
<1> DEFINE k == local[w]
           r == Reference(w)
<1>1. k \in MediaWorkType /\ k.job \in RequestIds
      /\ observer \in [RequestIds -> {Null} \cup 0..MaxAttempts]
  BY DEF MediaInv, MediaTypes, MediaWorkOK
<1>2. r = RefOf(k, jobs[k.job])
  BY DEF Reference, RefOf
<1>3. r \in 0..MaxAttempts
  BY <1>1, <1>2, RefType
<1>4. observer[k.job] \in {Null, r}
  BY DEF Taking
<1> HIDE DEF r
<1>5. observer' = [observer EXCEPT ![k.job] = r]
  BY DEF r
<1>6. ObserverKeeps(observer, observer')
  BY <1>1, <1>4, <1>5 DEF ObserverKeeps
<1>7. \A j \in RequestIds : MediaJobOK(jobs[j], observer'[j])
  <2> TAKE j \in RequestIds
  <2>1. MediaJobOK(jobs[j], observer[j])
    BY DEF MediaInv
  <2> QED BY <1>6, <2>1 DEF MediaJobOK, ObserverKeeps
<1> QED BY <1>1, <1>2, <1>3, <1>5, <1>6, <1>7

\* The hand-over to the Observer.
LEMMA PublishSteps ==
    ASSUME MediaInv, NEW w \in Workers, Publish(w) \/ PublishFails(w)
    PROVE  MediaInv'
<1> DEFINE k == local[w]
<1>1. k \in MediaWorkType /\ local \in [Workers -> MediaWorkType] /\ faults \in 0..MaxFaults
      /\ MediaWorkOK(k, jobs, observer)
  BY DEF MediaInv, MediaTypes
<1>2. k.pc = "publish" /\ UNCHANGED <<upload, jobs>>
  BY DEF Publish, PublishFails
<1>3. k.job \in RequestIds /\ jobs[k.job] # NoJob /\ k.outcome = "ready"
  BY <1>1, <1>2 DEF MediaWorkOK
<1>4. faults' \in 0..MaxFaults
  BY <1>1, FaultBound DEF Publish, PublishFails
<1>5. jobs' \in [RequestIds -> MediaJobType] /\ RowsKept(jobs, jobs')
  BY <1>2, NothingMoves
<1>6. ASSUME NEW pc \in {"retry", "complete"}, local' = [local EXCEPT ![w].pc = pc],
             observer' \in [RequestIds -> {Null} \cup 0..MaxAttempts],
             ObserverKeeps(observer, observer'),
             \A j \in RequestIds : MediaJobOK(jobs[j], observer'[j]),
             pc = "complete" => observer'[k.job] = RefOf(k, jobs[k.job])
      PROVE  MediaInv'
  <2> DEFINE l == [k EXCEPT !.pc = pc]
  <2>1. l \in MediaWorkType /\ l.pc = pc /\ l.job = k.job /\ l.outcome = "ready"
        /\ l.attempt = k.attempt
    BY <1>1, <1>3 DEF MediaWorkType
  <2>2. local' = [local EXCEPT ![w] = l]
    BY <1>1, <1>6
  <2> HIDE DEF l
  <2>3. RefOf(l, jobs[k.job]) = RefOf(k, jobs[k.job])
    BY <2>1 DEF RefOf
  <2>4. MediaWorkOK(l, jobs, observer')
    BY <1>3, <1>6, <2>1, <2>3 DEF MediaWorkOK, Terminal
  <2>5. \A j \in RequestIds : MediaJobOK(jobs'[j], observer'[j])
    BY <1>2, <1>6
  <2> QED BY <1>2, <1>4, <1>5, <1>6, <2>1, <2>2, <2>4, <2>5, WorkMoves
<1>7. CASE Publish(w)
  <2>1. CASE Taking(w)
    <3>1. observer' = [observer EXCEPT ![k.job] = Reference(w)]
          /\ local' = [local EXCEPT ![w].pc = "complete"]
      BY <1>7, <2>1 DEF Publish
    <3> QED BY <1>2, <1>6, <2>1, <3>1, TakingSets
  <2>2. CASE ~Taking(w)
    <3>1. observer' = observer /\ local' = [local EXCEPT ![w].pc = "retry"]
      BY <1>7, <2>2 DEF Publish
    <3> QED BY <1>6, <3>1, NothingMoves
  <2> QED BY <2>1, <2>2
<1>8. CASE PublishFails(w)
  <2>1. local' = [local EXCEPT ![w].pc = "retry"]
        /\ observer' \in {observer, IF Taking(w) THEN [observer EXCEPT ![k.job] = Reference(w)]
                                    ELSE observer}
    BY <1>8 DEF PublishFails
  <2>2. CASE observer' = observer
    BY <1>6, <2>1, <2>2, NothingMoves
  <2>3. CASE Taking(w) /\ observer' = [observer EXCEPT ![k.job] = Reference(w)]
    BY <1>2, <1>6, <2>1, <2>3, TakingSets
  <2> QED BY <2>1, <2>2, <2>3
<1> QED BY <1>7, <1>8

\* The worker reports the end of its attempt and forgets the job.
LEMMA ReportSteps ==
    ASSUME MediaInv, NEW w \in Workers, Complete(w) \/ Retry(w)
    PROVE  MediaInv'
<1> DEFINE k == local[w]
           old == jobs[k.job]
<1>1. k \in MediaWorkType /\ MediaWorkOK(k, jobs, observer) /\ faults \in 0..MaxFaults
      /\ jobs \in [RequestIds -> MediaJobType]
  BY DEF MediaInv, MediaTypes
<1>2. k.pc \in {"complete", "retry"} /\ UNCHANGED <<upload, observer, faults>>
      /\ local' = [local EXCEPT ![w] = NoWork]
  BY DEF Complete, Retry, Leave
<1>3. k.job \in RequestIds /\ old \in MediaJobType
  BY <1>1, <1>2 DEF MediaWorkOK
<1>4. Holds(w) => old.status = "leased"
  BY DEF Holds
<1>5. PICK row : /\ RowMoves(old, row, observer[k.job])
                 /\ jobs' = [jobs EXCEPT ![k.job] = row]
  <2>1. CASE ~Holds(w)
    <3>1. jobs' = jobs
      BY <2>1 DEF Complete, Retry
    <3>2. jobs' = [jobs EXCEPT ![k.job] = old]
      BY <1>1, <1>3, <3>1
    <3> QED BY <3>2 DEF RowMoves
  <2>2. CASE Holds(w) /\ Complete(w)
    <3> DEFINE ref == IF k.outcome = "ready" THEN Reference(w) ELSE Null
               row == [Released(old, k.outcome) EXCEPT !.ref = ref]
    <3>1. jobs' = [jobs EXCEPT ![k.job] = row]
      BY <1>1, <1>3, <2>2 DEF Complete
    <3>2. k.outcome \in Terminal
      BY <1>1, <2>2 DEF MediaWorkOK, Complete
    <3>3. Reference(w) = RefOf(k, old)
      BY DEF Reference, RefOf
    <3>4. ref \in {Null} \cup 0..MaxAttempts
          /\ (k.outcome = "ready" => ref # Null /\ ref = observer[k.job])
      BY <1>1, <2>2, <3>3, RefType DEF MediaWorkOK, Complete
    <3> HIDE DEF ref
    <3>5. row \in MediaJobType /\ row.status = k.outcome /\ row.owner = Null
          /\ row.lapsed = FALSE /\ row.body = old.body /\ row.ref = ref
      BY <1>3, <3>2, <3>4 DEF Released, MediaJobType
    <3>6. row.status \notin {Null, "leased"}
      BY <3>2, <3>5, MediaNullAssumption DEF Terminal
    <3> HIDE DEF row
    <3>7. RowMoves(old, row, observer[k.job])
      BY <1>4, <2>2, <3>4, <3>5, <3>6, MediaNullAssumption DEF RowMoves
    <3> QED BY <3>1, <3>7
  <2>3. CASE Holds(w) /\ Retry(w)
    <3> DEFINE row == Retried(old)
    <3>1. jobs' = [jobs EXCEPT ![k.job] = row]
      BY <1>1, <1>3, <2>3 DEF Retry
    <3>2. row \in MediaJobType /\ row.status \in {"retry", "dead_letter"} /\ row.owner = Null
          /\ row.lapsed = FALSE /\ row.body = old.body
      BY <1>3 DEF Retried, Released, MediaJobType, Terminal
    <3> HIDE DEF row
    <3>3. RowMoves(old, row, observer[k.job])
      BY <1>4, <2>3, <3>2, MediaNullAssumption DEF RowMoves, Terminal
    <3> QED BY <3>1, <3>3
  <2> QED BY <2>1, <2>2, <2>3
<1>6. \A j \in RequestIds : RowMoves(jobs[j], jobs'[j], observer[j])
  BY <1>1, <1>3, <1>5 DEF RowMoves
<1>7. DOMAIN jobs' = RequestIds /\ jobs' = [j \in RequestIds |-> jobs'[j]]
  BY <1>1, <1>5
<1>8. /\ jobs' \in [RequestIds -> MediaJobType]
      /\ RowsKept(jobs, jobs') /\ ObserverKeeps(observer, observer')
      /\ \A j \in RequestIds : MediaJobOK(jobs'[j], observer'[j])
  BY <1>2, <1>6, <1>7, RowsMove
<1>9. observer' \in [RequestIds -> {Null} \cup 0..MaxAttempts]
  BY <1>2, NothingMoves
<1> QED BY <1>1, <1>2, <1>8, <1>9, NoWorkFacts, WorkMoves

-----------------------------------------------------------------------------
(* The theorems *)

LEMMA MediaStarts == MediaInit => MediaInv
<1> SUFFICES ASSUME MediaInit PROVE MediaInv
  OBVIOUS
<1>1. NoUpload \in UploadType /\ UploadOK(NoUpload)
  <2>1. <<>> \in Seq(MediaItems) /\ Len(<<>>) = 0
    OBVIOUS
  <2>2. NoUpload \in UploadType
    BY <2>1, MediaAssumption DEF NoUpload, UploadType
  <2>3. QueueOK(NoUpload)
    BY DEF NoUpload, QueueOK
  <2> QED BY <2>1, <2>2, <2>3, MediaAssumption DEF UploadOK, NoUpload, Finished
<1>2. ASSUME NEW row PROVE AcceptedOK(NoUpload, row)
  BY MediaNullAssumption DEF AcceptedOK, NoUpload
<1>3. MediaJobOK(NoJob, Null)
  BY MediaNullAssumption DEF MediaJobOK, NoJob, Terminal
<1>4. MediaTypes
  BY <1>1, NoJobFacts, NoWorkFacts, MediaAssumption DEF MediaInit, MediaTypes
<1>5. \A u \in Uploads : UploadOK(upload[u]) /\ AcceptedOK(upload[u], jobs[Request[u]])
  BY <1>1, <1>2 DEF MediaInit
<1>6. \A j \in RequestIds : MediaJobOK(jobs[j], observer[j])
  BY <1>3 DEF MediaInit
<1>7. \A w \in Workers : MediaWorkOK(local[w], jobs, observer)
  BY NoWorkFacts DEF MediaInit
<1> QED BY <1>4, <1>5, <1>6, <1>7 DEF MediaInv

LEMMA MediaSteps == MediaInv /\ [MediaNext]_mediaVars => MediaInv'
<1> SUFFICES ASSUME MediaInv, [MediaNext]_mediaVars PROVE MediaInv'
  OBVIOUS
<1>1. ASSUME NEW u \in Uploads,
             \/ Client(u) \/ Refuse(u) \/ Cancel(u) \/ EnqueueFails(u)
             \/ Handle(u) \/ Consume(u)
      PROVE  MediaInv'
  BY <1>1, BeginUploadStep, ThreadSteps, AnswerSteps, PutSteps, TakeStep
  DEF Client, Handle, Consume
<1>2. ASSUME NEW w \in Workers,
             \/ Run(w) \/ Stage(w) \/ Heartbeat(w) \/ StageRaises(w) \/ HeartbeatFails(w)
             \/ PublishFails(w) \/ CompleteFails(w) \/ Crash(w)
      PROVE  MediaInv'
  BY <1>2, MemorySteps, ClaimSteps, PublishSteps, ReportSteps DEF Run
<1>3. ASSUME NEW j \in RequestIds, Lapse(j) \/ BecomesDue(j) PROVE MediaInv'
  BY <1>3, TimeSteps
<1>4. CASE UNCHANGED mediaVars
  BY <1>4 DEF mediaVars, MediaInv, MediaTypes
<1> QED BY <1>1, <1>2, <1>3, <1>4 DEF MediaNext

\* Inductive invariant of the media runtime: the threads of an upload agree on
\* what was read, rows agree with the uploads and with the Observer, and a worker
\* that reports a job as ready has handed its reference over.
THEOREM MediaInvariant == MediaSpec => []MediaInv
<1>1. MediaInit => MediaInv
  BY MediaStarts
<1>2. MediaInv /\ [MediaNext]_mediaVars => MediaInv'
  BY MediaSteps
<1> QED BY <1>1, <1>2, PTL DEF MediaSpec

\* The chunk queue keeps its limit, no job gets more than its attempts, and a job
\* has an owner exactly while it is leased (the CHECK constraints of the table).
THEOREM MediaTypeCorrect == MediaSpec => []MediaTypeOK
<1>1. MediaInv => MediaTypeOK
  <2> SUFFICES ASSUME MediaInv PROVE MediaTypeOK
    OBVIOUS
  <2>1. ASSUME NEW u \in Uploads
        PROVE  /\ upload[u].pc \in {"idle", "stream", "put", "look", "over", "broken", "wait", "cancelled"}
               /\ upload[u].consumer \in {"none", "open", "read", "check", "stored", "refused"}
               /\ upload[u].body \in Bodies \cup {Null}
               /\ upload[u].queue \in Seq({"chunk", "end", "failure"})
               /\ Len(upload[u].queue) <= QueueSize
               /\ upload[u].answer \in {Null, "accepted", "conflict", "failed"}
               /\ upload[u].tries \in 0..MaxTries
    <3>1. upload[u] \in UploadType /\ UploadOK(upload[u])
      BY DEF MediaInv, MediaTypes
    <3> QED BY <3>1 DEF UploadType, UploadOK, MediaItems, Reading
  <2>2. ASSUME NEW j \in RequestIds
        PROVE  /\ jobs[j].status \in {Null, "queued", "leased", "retry"} \cup Terminal
               /\ jobs[j].attempt \in 0..MaxAttempts
               /\ jobs[j].ref \in {Null} \cup 0..MaxAttempts
               /\ (jobs[j].owner # Null) <=> (jobs[j].status = "leased")
               /\ jobs[j].lapsed => jobs[j].status = "leased"
    <3>1. jobs[j] \in MediaJobType /\ MediaJobOK(jobs[j], observer[j])
      BY DEF MediaInv, MediaTypes
    <3> QED BY <3>1 DEF MediaJobType, MediaJobOK
  <2>3. ASSUME NEW w \in Workers
        PROVE  /\ local[w].pc \in Stages \cup {"idle", "down", "joined", "publish",
                                               "complete", "retry"}
               /\ local[w].attempt \in 0..MaxAttempts
    BY DEF MediaInv, MediaTypes, MediaWorkType
  <2>4. observer \in [RequestIds -> {Null} \cup 0..MaxAttempts] /\ faults \in 0..MaxFaults
    BY DEF MediaInv, MediaTypes
  <2> QED BY <2>1, <2>2, <2>3, <2>4 DEF MediaTypeOK
<1> QED BY <1>1, MediaInvariant, PTL

\* A client that was answered 202 finds its upload, every byte of it, as the body
\* of the job, and a job that says ready names the reference the Observer has,
\* whatever breaks, is cancelled, is uploaded again or is worked on twice.
THEOREM MediaTellsTheTruth == MediaSpec => []AnswersTrue
<1>1. MediaInv => AnswersTrue
  <2> SUFFICES ASSUME MediaInv PROVE AcceptedIsWhole /\ ReadyIsPublished
    BY DEF AnswersTrue
  <2>1. AcceptedIsWhole
    BY DEF MediaInv, AcceptedIsWhole, AcceptedOK
  <2>2. ReadyIsPublished
    BY DEF MediaInv, ReadyIsPublished, MediaJobOK
  <2> QED BY <2>1, <2>2
<1> QED BY <1>1, MediaInvariant, PTL

-----------------------------------------------------------------------------
(* Nothing stored is taken back *)

\* A row keeps its body and never returns to an earlier attempt; a job that has
\* ended keeps its outcome.
RowGrows(old, new) ==
    /\ old # NoJob => new.body = old.body /\ old.attempt <= new.attempt
    /\ old.status \in Terminal =>
          new.status = old.status /\ new.ref = old.ref /\ new.attempt = old.attempt

LEMMA LivesOn ==
    ASSUME NEW old \in MediaJobType, NEW new,
           old.status \in {"queued", "retry", "leased"},
           new.body = old.body, old.attempt <= new.attempt
    PROVE  RowGrows(old, new)
BY DEF RowGrows, Terminal

LEMMA SameGrows ==
    ASSUME NEW old \in MediaJobType
    PROVE  RowGrows(old, old)
BY MediaAssumption DEF RowGrows, MediaJobType

LEMMA ReapedGrows ==
    ASSUME MediaInv, NEW j \in RequestIds
    PROVE  RowGrows(jobs[j], Reaped[j])
<1>1. jobs[j] \in MediaJobType
  BY DEF MediaInv, MediaTypes
<1>2. CASE Reapable(j)
  <2>1. Reaped[j] = Released(jobs[j], "dead_letter") /\ jobs[j].status = "leased"
    BY <1>2 DEF Reaped, Reapable, Expired
  <2>2. Reaped[j].body = jobs[j].body /\ Reaped[j].attempt = jobs[j].attempt
        /\ jobs[j].attempt \in Nat
    BY <1>1, <2>1, MediaAssumption DEF Released, MediaJobType
  <2>3. jobs[j].attempt <= Reaped[j].attempt
    BY <2>2
  <2> QED BY <1>1, <2>1, <2>2, <2>3, LivesOn
<1>3. CASE ~Reapable(j)
  BY <1>1, <1>3, SameGrows DEF Reaped
<1> QED BY <1>2, <1>3

\* enqueue and the passing of time.
LEMMA StoredGrows ==
    ASSUME MediaInv, NEW j \in RequestIds,
           \/ \E u \in Uploads : jobs' \in {jobs, Stored(u)}
           \/ \E i \in RequestIds : Lapse(i) \/ BecomesDue(i)
    PROVE  RowGrows(jobs[j], jobs'[j])
<1>1. jobs \in [RequestIds -> MediaJobType] /\ jobs[j] \in MediaJobType
      /\ jobs[j].attempt \in Nat
  BY MediaAssumption DEF MediaInv, MediaTypes, MediaJobType
<1>2. CASE jobs'[j] = jobs[j]
  BY <1>1, <1>2, SameGrows
<1>3. ASSUME NEW u \in Uploads, jobs' = Stored(u), jobs'[j] # jobs[j]
      PROVE  RowGrows(jobs[j], jobs'[j])
  <2>1. jobs[j] = NoJob
    BY <1>1, <1>3 DEF Stored
  <2>2. jobs[j].status \notin Terminal
    BY <2>1, NoJobFacts, MediaNullAssumption DEF Terminal
  <2> QED BY <2>1, <2>2 DEF RowGrows
<1>4. ASSUME NEW i \in RequestIds, Lapse(i) \/ BecomesDue(i)
      PROVE  RowGrows(jobs[j], jobs'[j])
  <2>1. /\ jobs'[j].body = jobs[j].body /\ jobs'[j].attempt = jobs[j].attempt
        /\ jobs'[j].status = jobs[j].status /\ jobs'[j].ref = jobs[j].ref
    BY <1>1, <1>4 DEF Lapse, BecomesDue, MediaJobType
  <2> QED BY <1>1, <2>1 DEF RowGrows
<1> QED BY <1>2, <1>3, <1>4

\* The worker's claim and its reports: only a job that is not over is touched.
LEMMA WorkGrows ==
    ASSUME MediaInv, NEW j \in RequestIds, NEW w \in Workers,
           Claim(w) \/ ClaimNone(w) \/ Complete(w) \/ Retry(w)
    PROVE  RowGrows(jobs[j], jobs'[j])
<1> DEFINE k == local[w].job
<1>1. jobs \in [RequestIds -> MediaJobType] /\ jobs[j] \in MediaJobType
      /\ jobs[j].attempt \in Nat
  BY MediaAssumption DEF MediaInv, MediaTypes, MediaJobType
<1>2. CASE ClaimNone(w)
  BY <1>2, ReapedGrows DEF ClaimNone
<1>3. CASE Claim(w)
  <2>1. PICK i \in RequestIds : Claimable(i) /\ jobs' = [Reaped EXCEPT ![i] = Taken(w, i)]
    BY <1>3 DEF Claim
  <2>2. CASE i # j
    <3>1. jobs'[j] = Reaped[j]
      BY <2>1, <2>2 DEF Reaped
    <3> QED BY <3>1, ReapedGrows
  <2>3. CASE i = j
    <3>1. jobs'[j] = Taken(w, j)
      BY <2>1, <2>3 DEF Reaped
    <3>2. jobs'[j].body = jobs[j].body /\ jobs'[j].attempt = jobs[j].attempt + 1
      BY <1>1, <3>1 DEF Taken, MediaJobType
    <3>3. jobs[j].status \in {"queued", "retry", "leased"}
      BY <2>1, <2>3 DEF Claimable, Due, Expired
    <3>4. jobs[j].attempt <= jobs'[j].attempt
      BY <1>1, <3>2
    <3> QED BY <1>1, <3>2, <3>3, <3>4, LivesOn
  <2> QED BY <2>2, <2>3
<1>4. CASE (Complete(w) \/ Retry(w)) /\ ~(Holds(w) /\ k = j)
  <2>1. jobs'[j] = jobs[j]
    BY <1>1, <1>4 DEF Complete, Retry
  <2> QED BY <1>1, <2>1, SameGrows
<1>5. CASE (Complete(w) \/ Retry(w)) /\ Holds(w) /\ k = j
  <2>1. jobs[j].status = "leased"
    BY <1>5 DEF Holds
  <2>2. \/ jobs'[j] = [Released(jobs[j], local[w].outcome) EXCEPT
                           !.ref = IF local[w].outcome = "ready" THEN Reference(w) ELSE Null]
        \/ jobs'[j] = Retried(jobs[j])
    BY <1>1, <1>5 DEF Complete, Retry
  <2>3. jobs'[j].body = jobs[j].body /\ jobs'[j].attempt = jobs[j].attempt
    BY <1>1, <2>2 DEF Released, Retried, MediaJobType
  <2>4. jobs[j].attempt <= jobs'[j].attempt
    BY <1>1, <2>3
  <2> QED BY <1>1, <2>1, <2>3, <2>4, LivesOn
<1> QED BY <1>2, <1>3, <1>4, <1>5

LEMMA ObserverKeepsOn ==
    ASSUME MediaInv, [MediaNext]_mediaVars
    PROVE  ObserverKeeps(observer, observer')
<1>1. CASE observer' = observer
  BY <1>1 DEF ObserverKeeps
<1>2. ASSUME NEW w \in Workers, Publish(w) \/ PublishFails(w), observer' # observer
      PROVE  ObserverKeeps(observer, observer')
  <2>1. local[w].pc = "publish" /\ Taking(w)
        /\ observer' = [observer EXCEPT ![local[w].job] = Reference(w)]
    BY <1>2 DEF Publish, PublishFails
  <2> QED BY <2>1, TakingSets
<1>3. \/ observer' = observer
      \/ \E w \in Workers : Publish(w) \/ PublishFails(w)
  <2>1. ASSUME NEW u \in Uploads,
               \/ Client(u) \/ Refuse(u) \/ Cancel(u) \/ EnqueueFails(u)
               \/ Handle(u) \/ Consume(u)
        PROVE  observer' = observer
    BY <2>1 DEF Client, BeginUpload, Arrive, StreamBreaks, Refuse, Cancel, EnqueueFails,
                Handle, Consume, PutChunk, Look, StreamEnds, PutFailure, Enqueue, EndUpload, Admit, Take, StopReading, Finalize
  <2>2. ASSUME NEW w \in Workers,
               \/ Run(w) \/ Stage(w) \/ Heartbeat(w) \/ StageRaises(w) \/ HeartbeatFails(w)
               \/ PublishFails(w) \/ CompleteFails(w) \/ Crash(w)
        PROVE  observer' = observer \/ Publish(w) \/ PublishFails(w)
    BY <2>2 DEF Run, Heartbeat, StageRaises, HeartbeatFails, CompleteFails, Crash, Claim, ClaimNone,
                Stage, Join, Unproven, Complete, Retry, Restart
  <2>3. ASSUME NEW j \in RequestIds, Lapse(j) \/ BecomesDue(j)
        PROVE  observer' = observer
    BY <2>3 DEF Lapse, BecomesDue
  <2>4. CASE UNCHANGED mediaVars
    BY <2>4 DEF mediaVars
  <2> QED BY <2>1, <2>2, <2>3, <2>4 DEF MediaNext
<1> QED BY <1>1, <1>2, <1>3

LEMMA RowsGrow ==
    ASSUME MediaInv, [MediaNext]_mediaVars, NEW j \in RequestIds
    PROVE  RowGrows(jobs[j], jobs'[j])
<1>1. CASE jobs' = jobs
  <2>1. jobs[j] \in MediaJobType
    BY DEF MediaInv, MediaTypes
  <2> QED BY <1>1, <2>1, SameGrows
<1>2. ASSUME NEW u \in Uploads,
             \/ Client(u) \/ Refuse(u) \/ Cancel(u) \/ EnqueueFails(u)
             \/ Handle(u) \/ Consume(u)
      PROVE  jobs' \in {jobs, Stored(u)}
  BY <1>2 DEF Client, BeginUpload, Arrive, StreamBreaks, Refuse, Cancel, EnqueueFails,
              Handle, Consume, PutChunk, Look, StreamEnds, PutFailure, Enqueue, EndUpload, Admit, Take, StopReading, Finalize
<1>3. ASSUME NEW w \in Workers,
             \/ Run(w) \/ Stage(w) \/ Heartbeat(w) \/ StageRaises(w) \/ HeartbeatFails(w)
             \/ PublishFails(w) \/ CompleteFails(w) \/ Crash(w)
      PROVE  jobs' = jobs \/ Claim(w) \/ ClaimNone(w) \/ Complete(w) \/ Retry(w)
  BY <1>3 DEF Run, Heartbeat, StageRaises, HeartbeatFails, CompleteFails, Crash, Publish,
              PublishFails, Stage, Join, Unproven, Restart
<1>4. CASE UNCHANGED mediaVars
  BY <1>1, <1>4 DEF mediaVars
<1>5. ASSUME NEW i \in RequestIds, Lapse(i) \/ BecomesDue(i)
      PROVE  RowGrows(jobs[j], jobs'[j])
  BY <1>5, StoredGrows
<1> QED BY <1>1, <1>2, <1>3, <1>4, <1>5, StoredGrows, WorkGrows DEF MediaNext

\* No step takes back what is stored: a job keeps its body and its count of
\* attempts, one that has ended keeps status and reference, whichever late worker
\* or repeated upload comes, and the Observer keeps the first reference it took.
THEOREM MediaTakesNothingBack ==
    MediaSpec => [][/\ \A j \in RequestIds : RowGrows(jobs[j], jobs'[j])
                    /\ ObserverKeeps(observer, observer')]_mediaVars
<1>1. MediaInv /\ [MediaNext]_mediaVars =>
          /\ \A j \in RequestIds : RowGrows(jobs[j], jobs'[j])
          /\ ObserverKeeps(observer, observer')
  BY RowsGrow, ObserverKeepsOn
<1> QED BY <1>1, MediaInvariant, PTL DEF MediaSpec
=============================================================================
