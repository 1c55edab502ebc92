---------------------------- MODULE ContextFacts ----------------------------
(***************************************************************************)
(* From a manual import to the facts an agent may read.                    *)
(*                                                                         *)
(* The Observer's import endpoint ingests a signed import (an in-memory    *)
(* replay table), persists it in one PostgreSQL transaction (jobs, events, *)
(* checkpoint) and then publishes its evidence and proposals, one HTTP     *)
(* call per record, to the Context service.  Operators confirm published   *)
(* proposals into versioned facts, each naming exactly the fact it         *)
(* replaces, and may record a conflict instead.  Agents resolve exact fact *)
(* versions through the decision that confirmed them.                      *)
(*                                                                         *)
(* The import process may crash between any two of these steps, and a call *)
(* to the Context service may fail before or after it took effect.         *)
(* A refused command changes nothing and is not a step.                    *)
(***************************************************************************)
EXTENDS Integers, Sequences, FiniteSets, Functions

CONSTANTS
    Requests,       \* the imports clients send: [key, content]
    OccurredAt,     \* OccurredAt[c]: when the imported content happened
    DedupKey,       \* DedupKey[c]: provider event id, or digest and minute
    Window,         \* the checkpoint's replay window
    EvidenceOf,     \* EvidenceOf[c]: the evidence records of a content, in order
    FactsOf,        \* FactsOf[c]: its fact proposals, in order
    EntitiesOf,     \* EntitiesOf[c]: its entity resolution proposals, in order
    Uses,           \* Uses[p]: the evidence a fact proposal refers to
    Subject,        \* Subject[p]: the subject and predicate it is about
    Handlers,       \* import requests served at the same time
    Operators,      \* humans and rules that confirm proposals
    DecisionIds, FactIds, ConflictIds,
    MaxFaults,      \* bound: restarts of the import process and failed calls
                    \* of the Context service, together
    None

ASSUME WindowAssumption == Window \in Nat

Keys == {r.key : r \in Requests}
Contents == {r.content : r \in Requests}
Evidence == UNION {Range(EvidenceOf[c]) : c \in Contents}
Proposals == UNION {Range(FactsOf[c]) : c \in Contents}
Entities == UNION {Range(EntitiesOf[c]) : c \in Contents}
Records == Evidence \cup Proposals \cup Entities
Versions == 1..Cardinality(Proposals)
FactRefs == FactIds \X Versions
Stamps == Keys \X (0..MaxFaults)

VARIABLES
    memory,     \* the pipeline's replay table: key -> [content, stamp]
    epoch,      \* how often the import process has been restarted
    jobs,       \* observer.manual_import_jobs, by idempotency key
    events,     \* observer.observation_events: content -> its ingested_at
    checkpoint, \* observer.checkpoints: the connector's cursor time
    handler,    \* the import request each handler is working on
    records,    \* Context's governed records: record -> the recorded time in
                \* its payload, the part of its digest that is not its content
    failures,   \* failed Context calls so far
    work,       \* what each operator has read
    decisions,  \* context.decisions: the decision documents
    facts,      \* context.verified_facts
    lineage,    \* the relational rows beside the documents
    conflicts   \* context.conflicts

imports == <<memory, epoch, jobs, events, checkpoint, handler, records, failures>>
governed == <<decisions, facts, lineage, conflicts>>
vars == <<imports, work, governed>>

Idle == [stage |-> "idle"]

-----------------------------------------------------------------------------
(* Importing: ManualImportPipeline and PostgresObserverRepository.         *)

\* _ingest_once: everything it derives is a function of the content, except
\* the clock reading ingested_at, here the request and process that took it.
Ingested(r) == [content |-> r.content, stamp |-> <<r.key, epoch>>]

\* ingest: a key this process has seen is answered from memory; a key seen
\* with another body is refused.
Ingest(h, r) ==
    /\ handler[h] = Idle
    /\ memory[r.key] # None => memory[r.key].content = r.content
    /\ memory' = [memory EXCEPT ![r.key] =
                      IF @ = None THEN Ingested(r) ELSE @]
    /\ handler' = [handler EXCEPT ![h] =
                      [stage |-> "ingested", req |-> r,
                       stamp |-> memory'[r.key].stamp]]
    /\ UNCHANGED <<epoch, jobs, events, checkpoint, records, failures, work, governed>>

\* classify_checkpoint.
Classify(cursor, t) ==
    CASE cursor = None \/ t >= cursor -> "advance"
      [] t >= cursor - Window -> "late_within_window"
      [] OTHER -> "dead_letter"

\* _find_duplicate: a stored event with this content's deduplication key.
FindDuplicate(c) == {d \in Contents : events[d] # None /\ DedupKey[d] = DedupKey[c]}

\* Mutant: the cursor runs ahead by the window.
RunsAhead(t) == t + Window

\* _advance_checkpoint: the cursor only moves forward.
AdvanceCheckpoint(t) == IF checkpoint = None \/ t >= checkpoint THEN t ELSE checkpoint

\* What persist answers: only a stored job is published, with the ingested_at
\* that was stored for its event, by this attempt or by an earlier one.
Answered(h, status, stamp) ==
    handler' = [handler EXCEPT ![h] =
        IF status = "stored"
        THEN [stage |-> "publishing", req |-> handler[h].req, stamp |-> stamp, pos |-> 1]
        ELSE Idle]

\* _metadata_for_existing_job: the ingested_at stored for the job's event.
StoredStamp(c) == events[c]

\* persist, the key is known: the same import is answered from its job row,
\* another one is an idempotency conflict and the request ends.
PersistReplay(h) ==
    LET r == handler[h].req IN
    /\ handler[h].stage = "ingested"
    /\ jobs[r.key] # None
    /\ IF jobs[r.key].content = r.content
       THEN Answered(h, jobs[r.key].status, StoredStamp(r.content))
       ELSE handler' = [handler EXCEPT ![h] = Idle]
    /\ UNCHANGED <<memory, epoch, jobs, events, checkpoint, records, failures, work, governed>>

\* _insert_job: one job per idempotency key.
InsertJob(r, status) ==
    jobs' = [jobs EXCEPT ![r.key] = [content |-> r.content, status |-> status]]

\* _persist_raw_objects to _persist_proposal_lineage: the event and every row
\* that hangs on it carry the ingested_at of the attempt that stored them.
PersistEvent(c, stamp) == events' = [events EXCEPT ![c] = stamp]

\* persist, the key is new: in one transaction, under the advisory locks of
\* the key, the deduplication key and the connector, the import becomes a
\* duplicate, a dead letter, or a stored event that moves the checkpoint.
PersistNew(h) ==
    LET r == handler[h].req
        c == r.content
        disposition == Classify(checkpoint, OccurredAt[c])
    IN
    /\ handler[h].stage = "ingested"
    /\ jobs[r.key] = None
    /\ \/ /\ FindDuplicate(c) # {}
          /\ InsertJob(r, "duplicate")
          /\ Answered(h, "duplicate", None)
          /\ UNCHANGED <<events, checkpoint>>
       \/ /\ FindDuplicate(c) = {}
          /\ disposition = "dead_letter"
          /\ InsertJob(r, "dead_letter")
          /\ Answered(h, "dead_letter", None)
          /\ UNCHANGED <<events, checkpoint>>
       \/ /\ FindDuplicate(c) = {}
          /\ disposition # "dead_letter"
          /\ InsertJob(r, "stored")
          /\ PersistEvent(c, handler[h].stamp)
          /\ checkpoint' = AdvanceCheckpoint(OccurredAt[c])
          /\ Answered(h, "stored", handler[h].stamp)
    /\ UNCHANGED <<memory, epoch, records, failures, work, governed>>

\* The import process stops: its requests and its replay table are gone.
Restart ==
    /\ epoch + failures < MaxFaults
    /\ epoch' = epoch + 1
    /\ memory' = [k \in Keys |-> None]
    /\ handler' = [h \in Handlers |-> Idle]
    /\ UNCHANGED <<jobs, events, checkpoint, records, failures, work, governed>>

-----------------------------------------------------------------------------
(* Publishing: ContextPublisher through HttpContextRepository.             *)

\* publish: the records of an import, evidence before the proposals that
\* refer to it.
Pending(c) == EvidenceOf[c] \o FactsOf[c] \o EntitiesOf[c]

\* Mutant: the payload carries the handler's own clock reading.
ReadsItsClock(h) == <<handler[h].req.key, epoch>>

\* publish puts the recorded time it was given into every payload: the
\* ingested_at persist answered with.
RecordedAt(h) == handler[h].stamp

\* _child_insertions: a proposal's fact_evidence rows, whose foreign keys need
\* the evidence.
ChildrenFit(x) == x \in Proposals => \A e \in Uses[x] : records[e] # None

\* PostgresContextRepository.save, under the key context-publish:kind:id: the
\* stored record is returned when the digests agree, and a new one is inserted
\* with its child rows.
Saved(x, stamp) ==
    /\ records[x] = None => ChildrenFit(x)
    /\ records' = [records EXCEPT ![x] = IF @ = None THEN stamp ELSE @]

\* One call of save that is answered: the handler goes on to the next record
\* or answers its client.  A key that holds another payload is refused (409),
\* and no retry of this import can ever get past that record.
Publish(h) ==
    LET todo == Pending(handler[h].req.content)
        x == todo[handler[h].pos]
        conflict == records[x] \notin {None, RecordedAt(h)}
    IN
    /\ handler[h].stage = "publishing"
    /\ Saved(x, RecordedAt(h))
    /\ handler' = [handler EXCEPT ![h] =
                      IF conflict \/ handler[h].pos = Len(todo) THEN Idle
                      ELSE [handler[h] EXCEPT !.pos = @ + 1]]
    /\ UNCHANGED <<memory, epoch, jobs, events, checkpoint, failures, work, governed>>

\* The call fails, before or after the record was saved: the endpoint answers
\* 503 and the client may send the import again.
PublishFails(h) ==
    LET x == Pending(handler[h].req.content)[handler[h].pos] IN
    /\ handler[h].stage = "publishing"
    /\ epoch + failures < MaxFaults
    /\ failures' = failures + 1
    /\ \/ UNCHANGED records
       \/ records[x] = None /\ Saved(x, RecordedAt(h))
    /\ handler' = [handler EXCEPT ![h] = Idle]
    /\ UNCHANGED <<memory, epoch, jobs, events, checkpoint, work, governed>>

-----------------------------------------------------------------------------
(* Deciding: DecisionService over PostgresDecisionStorage.  Proposals,     *)
(* evidence, decisions and facts are only ever inserted, so a command's    *)
(* reads of them are one step; the current fact it reads may be superseded *)
(* before it saves.                                                        *)

Ref(f) == <<f.id, f.version>>
FactOf(ref) == {f \in facts : Ref(f) = ref}

\* get_current_fact and _lock_current_fact: the subject's fact of the highest
\* version that no stored fact supersedes.
CurrentFacts(s) == {f \in facts : /\ f.subject = s
                                 /\ \A g \in facts : g.supersedes # Ref(f)}
\* Mutant: the highest version of any subject counts.
AnySubjectsFact(s) ==
    IF facts = {} THEN None
    ELSE Ref(CHOOSE f \in facts : \A g \in facts : g.version <= f.version)

CurrentRef(s) ==
    LET current == CurrentFacts(s) IN
    IF current = {} THEN None
    ELSE Ref(CHOOSE f \in current : \A g \in current : g.version <= f.version)

\* get_proposal, and _check_evidence through get_evidence.
GetProposal(p) == records[p] # None
CheckEvidence(es) == \A e \in es : records[e] # None

\* _checked_proposal: of the revision the command expects; a proposal has one.
CheckedProposal(p) == GetProposal(p) /\ CheckEvidence(Uses[p])

\* _check_supersession: the command names exactly the current fact, or none
\* when there is none.
CheckSupersession(req, current) == req.supersedes = current

\* The commands an operator may give.  The evidence is the proposal's own
\* (_check_confirmation demands the same set); the fact to supersede and the
\* identifiers are the caller's.
Commands == [proposal : Proposals, decision : DecisionIds, fact : FactIds,
             supersedes : FactRefs \cup {None}]

\* confirm, up to the read of the current fact.
ReadCurrent(o, req) ==
    LET current == CurrentRef(Subject[req.proposal]) IN
    /\ work[o] = None
    /\ CheckedProposal(req.proposal)
    /\ CheckSupersession(req, current)
    /\ work' = [work EXCEPT ![o] = [req |-> req, current |-> current]]
    /\ UNCHANGED <<imports, governed>>

\* _build_fact.
BuildFact(req, current) ==
    [id |-> req.fact, version |-> IF current = None THEN 1 ELSE current[2] + 1,
     proposal |-> req.proposal, subject |-> Subject[req.proposal],
     evidence |-> Uses[req.proposal], decision |-> req.decision,
     supersedes |-> req.supersedes]

\* _build_decision.
BuildDecision(req, current, f) ==
    [proposal |-> req.proposal, input |-> {current} \ {None}, output |-> {Ref(f)},
     evidence |-> Uses[req.proposal]]

\* verified_facts_subject_predicate_version_uq, of migration 003.
VersionFree(f) == \A g \in facts : g.subject = f.subject => g.version # f.version

\* The constraints of context.decisions and context.verified_facts in migration
\* 002: keys, one fact per proposal, one successor per fact, and a version that
\* follows the fact it supersedes.
Insertable(req, f) ==
    /\ decisions[req.decision] = None
    /\ VersionFree(f)
    /\ \A g \in facts : /\ Ref(g) # Ref(f)
                        /\ g.proposal # f.proposal
                        /\ f.supersedes # None => g.supersedes # f.supersedes
    /\ IF f.version = 1 THEN f.supersedes = None
       ELSE /\ f.supersedes # None
            /\ FactOf(f.supersedes) # {}
            /\ f.supersedes[2] = f.version - 1

\* The rows save_confirmation writes beside the two documents.
LineageRows(req, d, f) ==
    {<<"decision", req.decision, "input", ref>> : ref \in d.input}
    \cup {<<"decision", req.decision, "output", ref>> : ref \in d.output}
    \cup {<<"decision", req.decision, "evidence", e>> : e \in d.evidence}
    \cup {<<"fact", Ref(f), "evidence", e>> : e \in d.evidence}

\* save_confirmation, one transaction under the subject's advisory lock: the
\* current fact must still be the one that was read.
SaveConfirmation(o) ==
    LET req == work[o].req
        f == BuildFact(req, work[o].current)
        d == BuildDecision(req, work[o].current, f)
    IN
    /\ work[o] # None
    /\ CurrentRef(Subject[req.proposal]) = work[o].current
    /\ Insertable(req, f)
    /\ decisions' = [decisions EXCEPT ![req.decision] = d]
    /\ facts' = facts \cup {f}
    /\ lineage' = lineage \cup LineageRows(req, d, f)
    /\ work' = [work EXCEPT ![o] = None]
    /\ UNCHANGED <<imports, conflicts>>

\* save_confirmation raises (the current fact changed, or a constraint fails)
\* and its transaction is rolled back.
ConfirmFails(o) ==
    LET req == work[o].req
        f == BuildFact(req, work[o].current)
    IN
    /\ work[o] # None
    /\ \/ CurrentRef(Subject[req.proposal]) # work[o].current
       \/ ~Insertable(req, f)
    /\ work' = [work EXCEPT ![o] = None]
    /\ UNCHANGED <<imports, governed>>

\* save_conflict: the document and its fact and evidence rows.
SaveConflict(k, p, f) ==
    conflicts' = conflicts \cup {[id |-> k, proposal |-> p, fact |-> Ref(f),
                                  evidence |-> f.evidence \cup Uses[p]]}

\* create_conflict: an open conflict between a proposal and a stored fact
\* version, current or not.
CreateConflict(k, p, f) ==
    /\ CheckedProposal(p)
    /\ \A x \in conflicts : x.id # k
    /\ CheckEvidence(f.evidence \cup Uses[p])
    /\ SaveConflict(k, p, f)
    /\ UNCHANGED <<imports, work, decisions, facts, lineage>>

-----------------------------------------------------------------------------
(* Reading: DecisionService.trace and AgentContextView.resolve.            *)

\* The rows get_decision_fact_refs, get_decision_evidence_refs and
\* get_fact_evidence_refs return.
Rows(owner, id, role) == {row[4] : row \in {l \in lineage :
                              l[1] = owner /\ l[2] = id /\ l[3] = role}}

\* _validate_decision: the decision document is the one asked for and agrees
\* with its rows.
ValidDecision(d, refs, evidence) ==
    /\ decisions[d] # None
    /\ decisions[d].output = refs
    /\ decisions[d].evidence = evidence
    /\ Rows("decision", d, "input") = decisions[d].input
    /\ Rows("decision", d, "output") = decisions[d].output
    /\ Rows("decision", d, "evidence") = decisions[d].evidence

\* Mutant: the fact of this identity, whatever its version.
LatestFact(ref) ==
    {f \in facts : f.id = ref[1] /\ \A g \in facts : g.id = f.id => g.version <= f.version}

\* get_fact: the stored fact of this identity and version.
GetFact(ref) == FactOf(ref)

\* _canonical_fact: the fact was confirmed by this decision, from its
\* proposal, and agrees with its rows.
CanonicalFact(d, f, evidence) ==
    /\ f.decision = d
    /\ f.proposal = decisions[d].proposal
    /\ Rows("fact", Ref(f), "evidence") = f.evidence
    /\ f.evidence \subseteq evidence

\* A refusal hands over no fact.
Rejected == {}

\* resolve: the exact facts a decision confirmed, or a refusal.
Resolve(d, refs, evidence) ==
    LET found == UNION {GetFact(ref) : ref \in refs} IN
    IF /\ ValidDecision(d, refs, evidence)
       /\ GetProposal(decisions[d].proposal)
       /\ \A ref \in refs : GetFact(ref) # {}
       /\ \A f \in found : CanonicalFact(d, f, evidence)
       /\ UNION {f.evidence : f \in found} = evidence
       /\ CheckEvidence(evidence)
    THEN {<<Ref(f), f.proposal>> : f \in found}
    ELSE Rejected

\* trace: the lineage of a decision, every document checked against its rows
\* and against the documents it points to.
Traces(d) ==
    /\ Rows("decision", d, "input") = decisions[d].input
    /\ Rows("decision", d, "output") = decisions[d].output
    /\ Rows("decision", d, "evidence") = decisions[d].evidence
    /\ GetProposal(decisions[d].proposal)
    /\ \A ref \in decisions[d].output :
          \E f \in FactOf(ref) : /\ f.decision = d
                                 /\ f.proposal = decisions[d].proposal
                                 /\ Rows("fact", ref, "evidence") = f.evidence
    /\ CheckEvidence(decisions[d].evidence)

-----------------------------------------------------------------------------
(* What the variables hold, and what is assumed of the constants.          *)

Replay == [content : Contents, stamp : Stamps]
Job == [content : Contents, status : {"stored", "duplicate", "dead_letter"}]
Reading == [req : Commands, current : FactRefs \cup {None}]
Decision == [proposal : Proposals, input : SUBSET FactRefs, output : SUBSET FactRefs,
             evidence : SUBSET Evidence]
Fact == [id : FactIds, version : Versions, proposal : Proposals,
         subject : {Subject[p] : p \in Proposals}, evidence : SUBSET Evidence,
         decision : DecisionIds, supersedes : FactRefs \cup {None}]

\* An import has evidence (the manifest validator asks for a member), and the
\* identifiers of its records are digests of its whole content, so a record
\* belongs to one content.
ASSUME ImportsAssumption ==
    /\ MaxFaults \in Nat
    /\ None \notin Stamps \cup FactRefs
    /\ None \notin Replay /\ None \notin Job /\ None \notin Reading /\ None \notin Decision
    /\ IsFiniteSet(Proposals)
    /\ \A p \in Proposals : Uses[p] \subseteq Evidence
    /\ \A c \in Contents : /\ EvidenceOf[c] \in Seq(Evidence) \ {<<>>}
                           /\ FactsOf[c] \in Seq(Proposals)
                           /\ EntitiesOf[c] \in Seq(Entities)
    /\ \A c, d \in Contents : c # d => Range(Pending(c)) \cap Range(Pending(d)) = {}

Init ==
    /\ memory = [k \in Keys |-> None]
    /\ epoch = 0
    /\ jobs = [k \in Keys |-> None]
    /\ events = [c \in Contents |-> None]
    /\ checkpoint = None
    /\ handler = [h \in Handlers |-> Idle]
    /\ records = [x \in Records |-> None]
    /\ failures = 0
    /\ work = [o \in Operators |-> None]
    /\ decisions = [d \in DecisionIds |-> None]
    /\ facts = {}
    /\ lineage = {}
    /\ conflicts = {}

Next ==
    \/ \E h \in Handlers, r \in Requests : Ingest(h, r)
    \/ \E h \in Handlers : PersistReplay(h)
    \/ \E h \in Handlers : PersistNew(h)
    \/ Restart
    \/ \E h \in Handlers : Publish(h)
    \/ \E h \in Handlers : PublishFails(h)
    \/ \E o \in Operators, req \in Commands : ReadCurrent(o, req)
    \/ \E o \in Operators : SaveConfirmation(o)
    \/ \E o \in Operators : ConfirmFails(o)
    \/ \E k \in ConflictIds, p \in Proposals, f \in facts : CreateConflict(k, p, f)

Spec == Init /\ [][Next]_vars

-----------------------------------------------------------------------------
(* Properties.                                                             *)

\* The variables have their types, and faults keep their bound.
TypeOK ==
    /\ memory \in [Keys -> Replay \cup {None}]
    /\ epoch \in 0..MaxFaults
    /\ jobs \in [Keys -> Job \cup {None}]
    /\ events \in [Contents -> Stamps \cup {None}]
    /\ checkpoint \in {OccurredAt[c] : c \in Contents} \cup {None}
    /\ \A h \in Handlers : handler[h].stage \in {"idle", "ingested", "publishing"}
    /\ records \in [Records -> Stamps \cup {None}]
    /\ failures \in 0..MaxFaults
    /\ work \in [Operators -> Reading \cup {None}]
    /\ decisions \in [DecisionIds -> Decision \cup {None}]
    /\ facts \subseteq Fact
    /\ conflicts \subseteq [id : ConflictIds, proposal : Proposals, fact : FactRefs,
                            evidence : SUBSET Evidence]

\* A retry always gets through.  Whatever failed or crashed while an import
\* was being published, and whatever other imports ran in between, a record
\* of it that Context already holds has the payload a retry sends, so the
\* import endpoint never ends in an idempotency conflict that no later
\* attempt could resolve (api.py passes the stored ingested_at on as
\* recorded_at).
RetryAgrees ==
    \A h \in Handlers : handler[h].stage = "publishing" =>
        \A i \in handler[h].pos .. Len(Pending(handler[h].req.content)) :
            records[Pending(handler[h].req.content)[i]] \in {None, RecordedAt(h)}

\* One line of facts per subject: the facts of a subject have the versions
\* 1..n, each one supersedes the one before it in the same subject, and so
\* exactly one of them is current, whoever confirmed what concurrently.
FactChain ==
    \A s \in {Subject[p] : p \in Proposals} :
        LET chain == {f \in facts : f.subject = s} IN
        /\ {f.version : f \in chain} = 1..Cardinality(chain)
        /\ \A f \in chain : f.version > 1 =>
              \E g \in chain : f.supersedes = Ref(g) /\ g.version = f.version - 1
        /\ chain # {} => Cardinality(CurrentFacts(s)) = 1

\* What an agent may read stands.  Whatever is confirmed, superseded, imported
\* or lost, a stored decision traces and resolves (trace and the agent view
\* compare the documents of five tables with the rows beside them), and what
\* it resolved to once it resolves to again: the context a materialization
\* attempt digests is the one every later attempt sees.
ContextStable ==
    [][\A d \in DecisionIds : decisions'[d] # None =>
          \A refs \in {decisions'[d].output}, es \in {decisions'[d].evidence} :
              /\ Traces(d)'
              /\ Resolve(d, refs, es)' # Rejected
              /\ decisions[d] # None => Resolve(d, refs, es)' = Resolve(d, refs, es)]_vars
=============================================================================
