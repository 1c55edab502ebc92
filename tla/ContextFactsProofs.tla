------------------------- MODULE ContextFactsProofs -------------------------
(***************************************************************************)
(* Proofs about ContextFacts, for any imports, operators and identifiers   *)
(* and any number of faults: the types, that a retried import never meets  *)
(* a record with another payload, that the facts of a subject form one     *)
(* chain, and that what a decision resolved to it resolves to for ever.    *)
(*                                                                         *)
(* The imports and the confirmations meet only in the records, which are   *)
(* never changed once they are stored, so there are two inductive          *)
(* invariants, ImportsInv and GovernedInv, each of which is preserved by   *)
(* the other side because records only grow.                               *)
(***************************************************************************)
EXTENDS ContextFacts, FiniteSetTheorems, TLAPS

\* A handler publishes with the ingested_at that is stored for its content.
HandlerOK(x, ev) ==
    \/ x = Idle
    \/ x.stage = "ingested" /\ x.req \in Requests /\ x.stamp \in Stamps
    \/ /\ x.stage = "publishing" /\ x.req \in Requests /\ x.stamp \in Stamps
       /\ x.stamp = ev[x.req.content]
       /\ x.pos \in 1..Len(Pending(x.req.content))

ImportTypes ==
    /\ memory \in [Keys -> Replay \cup {None}]
    /\ epoch \in 0..MaxFaults
    /\ jobs \in [Keys -> Job \cup {None}]
    /\ events \in [Contents -> Stamps \cup {None}]
    /\ checkpoint \in {OccurredAt[c] : c \in Contents} \cup {None}
    /\ handler = [h \in Handlers |-> handler[h]]
    /\ records \in [Records -> Stamps \cup {None}]
    /\ failures \in 0..MaxFaults

\* A stored job has its event.
JobOK(j, ev) == j # None /\ j.status = "stored" => ev[j.content] # None

\* A stored record has the ingested_at of the event of its content.
RecordsOK(rec, ev) ==
    \A c \in Contents : \A x \in Range(Pending(c)) : rec[x] \in {None, ev[c]}

ImportsInv ==
    /\ ImportTypes
    /\ \A k \in Keys : JobOK(jobs[k], events)
    /\ \A h \in Handlers : HandlerOK(handler[h], events)
    /\ RecordsOK(records, events)

\* Stored records stay as they are.
RecordsGrow == \A x \in Records : records[x] # None => records'[x] = records[x]

-----------------------------------------------------------------------------
(* Facts about the constants.                                              *)

\* The records of a content.
LEMMA PendingRecords ==
    ASSUME NEW c \in Contents
    PROVE  /\ Pending(c) \in Seq(Records)
           /\ Len(Pending(c)) \in Nat /\ 1 <= Len(Pending(c))
           /\ \A i \in 1..Len(Pending(c)) :
                 Pending(c)[i] \in Records /\ Pending(c)[i] \in Range(Pending(c))
           /\ Range(Pending(c)) \subseteq Records
<1>1. /\ EvidenceOf[c] \in Seq(Records) /\ EvidenceOf[c] # <<>>
      /\ FactsOf[c] \in Seq(Records) /\ EntitiesOf[c] \in Seq(Records)
  BY ImportsAssumption DEF Records
<1> DEFINE e == EvidenceOf[c]
<1> DEFINE f == FactsOf[c]
<1> DEFINE n == EntitiesOf[c]
<1>2. Pending(c) = e \o f \o n
  BY DEF Pending
<1>3. e \in Seq(Records) /\ e # <<>> /\ f \in Seq(Records) /\ n \in Seq(Records)
  BY <1>1
<1> HIDE DEF e, f, n
<1>4. (e \o f) \o n \in Seq(Records) /\ Len((e \o f) \o n) = Len(e) + Len(f) + Len(n)
  BY <1>3
<1>5. Len(e) \in Nat /\ Len(e) # 0 /\ Len(f) \in Nat /\ Len(n) \in Nat
  BY <1>3
<1> DEFINE q == Pending(c)
<1>6. q \in Seq(Records) /\ Len(q) \in Nat /\ 1 <= Len(q)
  BY <1>2, <1>4, <1>5
<1> HIDE DEF q
<1>7. DOMAIN q = 1..Len(q) /\ \A i \in 1..Len(q) : q[i] \in Records
  BY <1>6
<1>8. Range(q) = {q[i] : i \in DOMAIN q}
  BY DEF Range
<1>9. Range(q) \subseteq Records /\ \A i \in 1..Len(q) : q[i] \in Range(q)
  BY <1>7, <1>8
<1> QED
  BY <1>6, <1>7, <1>9 DEF q

LEMMA RequestParts ==
    ASSUME NEW r \in Requests
    PROVE  r.key \in Keys /\ r.content \in Contents
BY DEF Keys, Contents

LEMMA NoneIsNoStamp == None \notin Stamps
BY ImportsAssumption

-----------------------------------------------------------------------------
(* The imports.                                                            *)

\* A step that gives one handler its next state.
LEMMA HandlerStep ==
    ASSUME ImportTypes, NEW h \in Handlers, NEW x, NEW ev, HandlerOK(x, ev),
           \A g \in Handlers : HandlerOK(handler[g], ev),
           handler' = [handler EXCEPT ![h] = x]
    PROVE  /\ handler' = [g \in Handlers |-> handler'[g]]
           /\ \A g \in Handlers : HandlerOK(handler'[g], ev)
<1>1. handler' = [g \in Handlers |-> handler'[g]]
  BY DEF ImportTypes
<1>2. ASSUME NEW g \in Handlers PROVE HandlerOK(handler'[g], ev)
  <2>1. CASE g = h
    BY <2>1 DEF ImportTypes
  <2>2. CASE g # h
    BY <2>2 DEF ImportTypes
  <2> QED
    BY <2>1, <2>2
<1> QED
  BY <1>1, <1>2

LEMMA IdleOK == \A ev : HandlerOK(Idle, ev)
BY DEF HandlerOK

LEMMA IngestStep ==
    ASSUME ImportsInv, NEW h \in Handlers, NEW r \in Requests, Ingest(h, r)
    PROVE  ImportsInv' /\ RecordsGrow
<1>0. ImportTypes /\ r.key \in Keys /\ r.content \in Contents
  BY RequestParts DEF ImportsInv
<1>1. epoch \in 0..MaxFaults /\ MaxFaults \in Nat
  BY <1>0, ImportsAssumption DEF ImportTypes
<1> DEFINE m == Ingested(r)
<1>2. m \in Replay
  <2>1. <<r.key, epoch>> \in Stamps
    BY <1>0, <1>1 DEF Stamps
  <2> QED
    BY <1>0, <2>1 DEF Ingested, Replay
<1> HIDE DEF m
<1>3. memory' = [memory EXCEPT ![r.key] = IF memory[r.key] = None THEN m ELSE memory[r.key]]
  BY DEF Ingest, m
<1>4. memory' \in [Keys -> Replay \cup {None}] /\ memory'[r.key] \in Replay
  BY <1>0, <1>2, <1>3 DEF ImportTypes
<1> DEFINE st == memory'[r.key].stamp
<1> DEFINE x == [stage |-> "ingested", req |-> r, stamp |-> st]
<1>5. st \in Stamps
  BY <1>4 DEF Replay
<1>6. handler' = [handler EXCEPT ![h] = x]
  BY DEF Ingest
<1>7. HandlerOK(x, events)
  BY <1>5 DEF HandlerOK
<1> HIDE DEF x
<1>8. /\ handler' = [g \in Handlers |-> handler'[g]]
      /\ \A g \in Handlers : HandlerOK(handler'[g], events)
  BY <1>0, <1>6, <1>7, HandlerStep DEF ImportsInv
<1> QED
  BY <1>0, <1>4, <1>8 DEF Ingest, ImportsInv, ImportTypes, RecordsGrow, RecordsOK

\* What persist answers is a handler that publishes what is stored, or none.
LEMMA AnsweredOK ==
    ASSUME ImportTypes, NEW h \in Handlers, handler[h].req \in Requests,
           NEW status, NEW stamp, NEW ev,
           \A g \in Handlers : HandlerOK(handler[g], ev),
           status = "stored" => stamp \in Stamps /\ stamp = ev[handler[h].req.content],
           Answered(h, status, stamp)
    PROVE  /\ handler' = [g \in Handlers |-> handler'[g]]
           /\ \A g \in Handlers : HandlerOK(handler'[g], ev)
<1> DEFINE r == handler[h].req
<1> DEFINE p == [stage |-> "publishing", req |-> r, stamp |-> stamp, pos |-> 1]
<1> DEFINE x == IF status = "stored" THEN p ELSE Idle
<1>1. handler' = [handler EXCEPT ![h] = x]
  BY DEF Answered
<1>2. CASE status = "stored"
  <2>1. 1 \in 1..Len(Pending(r.content))
    BY RequestParts, PendingRecords
  <2>2. p.stage = "publishing" /\ p.req = r /\ p.stamp = stamp /\ p.pos = 1
    OBVIOUS
  <2> HIDE DEF p
  <2>3. HandlerOK(p, ev)
    BY <1>2, <2>1, <2>2 DEF HandlerOK
  <2> QED
    BY <1>1, <1>2, <2>3, HandlerStep
<1>3. CASE status # "stored"
  BY <1>1, <1>3, IdleOK, HandlerStep
<1> QED
  BY <1>2, <1>3

\* The request of a handler that is not idle.
LEMMA Working ==
    ASSUME ImportsInv, NEW h \in Handlers, handler[h].stage \in {"ingested", "publishing"}
    PROVE  /\ handler[h].req \in Requests /\ handler[h].stamp \in Stamps
           /\ handler[h].stage = "publishing" =>
                 /\ handler[h].stamp = events[handler[h].req.content]
                 /\ handler[h].pos \in 1..Len(Pending(handler[h].req.content))
<1>1. HandlerOK(handler[h], events)
  BY DEF ImportsInv
<1>2. Idle.stage = "idle"
  BY DEF Idle
<1> QED
  BY <1>1, <1>2 DEF HandlerOK

LEMMA PersistReplayStep ==
    ASSUME ImportsInv, NEW h \in Handlers, PersistReplay(h)
    PROVE  ImportsInv' /\ RecordsGrow
<1> DEFINE r == handler[h].req
<1>0. ImportTypes
  BY DEF ImportsInv
<1>1. r \in Requests
  BY Working DEF PersistReplay
<1>2. /\ handler' = [g \in Handlers |-> handler'[g]]
      /\ \A g \in Handlers : HandlerOK(handler'[g], events)
  <2>1. CASE jobs[r.key].content = r.content
    <3>1. Answered(h, jobs[r.key].status, events[r.content]) /\ jobs[r.key] # None
      BY <2>1 DEF PersistReplay, StoredStamp
    <3>2. jobs[r.key].status = "stored" => events[r.content] # None
      BY <1>1, <2>1, <3>1, RequestParts DEF ImportsInv, JobOK
    <3>3. events[r.content] \in Stamps \cup {None}
      BY <1>0, <1>1, RequestParts DEF ImportTypes
    <3> QED
      BY <1>0, <1>1, <3>1, <3>2, <3>3, AnsweredOK DEF ImportsInv
  <2>2. CASE jobs[r.key].content # r.content
    BY <1>0, <2>2, IdleOK, HandlerStep DEF PersistReplay, ImportsInv
  <2> QED
    BY <2>1, <2>2
<1> QED
  BY <1>0, <1>2 DEF PersistReplay, ImportsInv, ImportTypes, RecordsGrow, RecordsOK

\* A new event disturbs nobody: no handler publishes its content and no record
\* of it is stored.
LEMMA NewEvent ==
    ASSUME ImportsInv, NEW c \in Contents, events[c] = None, NEW stamp \in Stamps,
           events' = [events EXCEPT ![c] = stamp]
    PROVE  /\ events' \in [Contents -> Stamps \cup {None}]
           /\ events'[c] = stamp
           /\ \A k \in Keys : JobOK(jobs[k], events')
           /\ \A h \in Handlers : HandlerOK(handler[h], events')
           /\ RecordsOK(records, events')
<1>1. /\ events' \in [Contents -> Stamps \cup {None}] /\ events'[c] = stamp
      /\ \A d \in Contents : d # c => events'[d] = events[d]
  BY DEF ImportsInv, ImportTypes
<1>2. ASSUME NEW k \in Keys PROVE JobOK(jobs[k], events')
  <2>1. CASE jobs[k] = None
    BY <2>1 DEF JobOK
  <2>2. CASE jobs[k] # None
    <3>1. jobs[k].content \in Contents
      BY <2>2 DEF ImportsInv, ImportTypes, Job
    <3>2. JobOK(jobs[k], events)
      BY DEF ImportsInv
    <3> QED
      BY <1>1, <3>1, <3>2, NoneIsNoStamp DEF JobOK
  <2> QED
    BY <2>1, <2>2
<1>3. ASSUME NEW h \in Handlers PROVE HandlerOK(handler[h], events')
  <2>1. HandlerOK(handler[h], events)
    BY DEF ImportsInv
  <2>2. CASE handler[h].stage = "publishing"
    <3>1. /\ handler[h].req \in Requests /\ handler[h].stamp \in Stamps
          /\ handler[h].stamp = events[handler[h].req.content]
      BY <2>2, Working
    <3>2. handler[h].req.content \in Contents /\ handler[h].req.content # c
      BY <3>1, RequestParts, NoneIsNoStamp
    <3> QED
      BY <1>1, <2>1, <3>2 DEF HandlerOK
  <2>3. CASE handler[h].stage # "publishing"
    BY <2>1, <2>3 DEF HandlerOK
  <2> QED
    BY <2>2, <2>3
<1>4. ASSUME NEW d \in Contents, NEW x \in Range(Pending(d))
      PROVE  records[x] \in {None, events'[d]}
  <2>1. records[x] \in {None, events[d]}
    BY DEF ImportsInv, RecordsOK
  <2> QED
    BY <1>1, <2>1
<1> QED
  BY <1>1, <1>2, <1>3, <1>4 DEF RecordsOK

\* A job is inserted, with its event if it is a stored one.
LEMMA NewJob ==
    ASSUME ImportTypes, NEW r \in Requests,
           NEW status \in {"stored", "duplicate", "dead_letter"}, NEW ev,
           \A k \in Keys : JobOK(jobs[k], ev),
           status = "stored" => ev[r.content] # None,
           InsertJob(r, status)
    PROVE  /\ jobs' \in [Keys -> Job \cup {None}]
           /\ \A k \in Keys : JobOK(jobs'[k], ev)
<1> DEFINE j == [content |-> r.content, status |-> status]
<1>1. j \in Job /\ j.content = r.content /\ j.status = status
  BY RequestParts DEF Job
<1> HIDE DEF j
<1>2. JobOK(j, ev)
  BY <1>1 DEF JobOK
<1>3. jobs' = [jobs EXCEPT ![r.key] = j] /\ r.key \in Keys
  BY RequestParts DEF InsertJob, j
<1>4. jobs' \in [Keys -> Job \cup {None}]
  BY <1>1, <1>3 DEF ImportTypes
<1>5. \A k \in Keys : JobOK(jobs'[k], ev)
  BY <1>2, <1>3 DEF ImportTypes
<1> QED
  BY <1>4, <1>5

LEMMA PersistNewStep ==
    ASSUME ImportsInv, NEW h \in Handlers, PersistNew(h)
    PROVE  ImportsInv' /\ RecordsGrow
<1> DEFINE r == handler[h].req
<1> DEFINE c == r.content
<1>0. ImportTypes
  BY DEF ImportsInv
<1>1. /\ r \in Requests /\ handler[h].stamp \in Stamps /\ c \in Contents
      /\ memory' = memory /\ epoch' = epoch /\ records' = records /\ failures' = failures
  BY Working, RequestParts DEF PersistNew
<1>2. ASSUME NEW status \in {"duplicate", "dead_letter"},
             InsertJob(r, status), Answered(h, status, None),
             events' = events, checkpoint' = checkpoint
      PROVE  ImportsInv' /\ RecordsGrow
  <2>1. /\ jobs' \in [Keys -> Job \cup {None}]
        /\ \A k \in Keys : JobOK(jobs'[k], events)
    BY <1>0, <1>1, <1>2, NewJob DEF ImportsInv
  <2>2. /\ handler' = [g \in Handlers |-> handler'[g]]
        /\ \A g \in Handlers : HandlerOK(handler'[g], events)
    BY <1>0, <1>1, <1>2, AnsweredOK DEF ImportsInv
  <2> HIDE DEF r, c
  <2> QED
    BY <1>0, <1>1, <1>2, <2>1, <2>2 DEF ImportsInv, ImportTypes, RecordsGrow, RecordsOK
<1>3. ASSUME FindDuplicate(c) = {}, InsertJob(r, "stored"),
             PersistEvent(c, handler[h].stamp),
             checkpoint' = AdvanceCheckpoint(OccurredAt[c]),
             Answered(h, "stored", handler[h].stamp)
      PROVE  ImportsInv' /\ RecordsGrow
  <2>1. events[c] = None
    BY <1>1, <1>3 DEF FindDuplicate
  <2>2. events' = [events EXCEPT ![c] = handler[h].stamp]
    BY <1>3 DEF PersistEvent
  <2>3. /\ events' \in [Contents -> Stamps \cup {None}]
        /\ events'[c] = handler[h].stamp
        /\ \A k \in Keys : JobOK(jobs[k], events')
        /\ \A g \in Handlers : HandlerOK(handler[g], events')
        /\ RecordsOK(records, events')
    BY <1>1, <2>1, <2>2, NewEvent
  <2>4. /\ jobs' \in [Keys -> Job \cup {None}]
        /\ \A k \in Keys : JobOK(jobs'[k], events')
    BY <1>0, <1>1, <1>3, <2>3, NewJob, NoneIsNoStamp
  <2>5. /\ handler' = [g \in Handlers |-> handler'[g]]
        /\ \A g \in Handlers : HandlerOK(handler'[g], events')
    BY <1>0, <1>1, <1>3, <2>3, AnsweredOK
  <2>6. checkpoint' \in {OccurredAt[d] : d \in Contents} \cup {None}
    BY <1>0, <1>1, <1>3 DEF AdvanceCheckpoint, ImportTypes
  <2> HIDE DEF r, c
  <2> QED
    BY <1>0, <1>1, <2>3, <2>4, <2>5, <2>6 DEF ImportsInv, ImportTypes, RecordsGrow
<1> QED
  BY <1>2, <1>3 DEF PersistNew

LEMMA RestartStep ==
    ASSUME ImportsInv, Restart
    PROVE  ImportsInv' /\ RecordsGrow
<1>1. epoch \in 0..MaxFaults /\ failures \in 0..MaxFaults /\ MaxFaults \in Nat
  BY ImportsAssumption DEF ImportsInv, ImportTypes
<1>2. epoch + failures < MaxFaults /\ epoch' = epoch + 1
  BY DEF Restart
<1>3. epoch' \in 0..MaxFaults
  BY <1>1, <1>2
<1>4. /\ handler' = [h \in Handlers |-> handler'[h]]
      /\ \A h \in Handlers : HandlerOK(handler'[h], events)
  BY IdleOK DEF Restart
<1>5. memory' \in [Keys -> Replay \cup {None}]
  BY DEF Restart
<1> QED
  BY <1>3, <1>4, <1>5 DEF Restart, ImportsInv, ImportTypes, RecordsGrow, RecordsOK

\* A save is of a record of the handler's content, under the stored stamp.
LEMMA SavedOK ==
    ASSUME ImportsInv, NEW h \in Handlers, handler[h].stage = "publishing",
           Saved(Pending(handler[h].req.content)[handler[h].pos], RecordedAt(h))
    PROVE  /\ records' \in [Records -> Stamps \cup {None}]
           /\ RecordsOK(records', events)
           /\ RecordsGrow
<1> DEFINE c == handler[h].req.content
<1> DEFINE x == Pending(c)[handler[h].pos]
<1> DEFINE t == RecordedAt(h)
<1>1. /\ c \in Contents /\ t \in Stamps /\ t = events[c]
      /\ handler[h].pos \in 1..Len(Pending(c))
  BY Working, RequestParts DEF RecordedAt
<1>2. x \in Records /\ x \in Range(Pending(c))
  BY <1>1, PendingRecords
<1>3. records' = [records EXCEPT ![x] = IF records[x] = None THEN t ELSE records[x]]
  BY DEF Saved
<1>4. records \in [Records -> Stamps \cup {None}]
  BY DEF ImportsInv, ImportTypes
<1> HIDE DEF c, x, t
<1>5. /\ records' \in [Records -> Stamps \cup {None}]
      /\ \A y \in Records : y # x => records'[y] = records[y]
      /\ records'[x] = IF records[x] = None THEN t ELSE records[x]
  BY <1>1, <1>2, <1>3, <1>4
<1>6. ASSUME NEW d \in Contents, NEW y \in Range(Pending(d))
      PROVE  records'[y] \in {None, events[d]}
  <2>1. records[y] \in {None, events[d]} /\ y \in Records
    BY PendingRecords DEF ImportsInv, RecordsOK
  <2>2. CASE y # x
    BY <1>5, <2>1, <2>2
  <2>3. CASE y = x
    <3>1. d = c
      BY <1>1, <1>2, <2>3, ImportsAssumption
    <3> QED
      BY <1>1, <1>5, <2>1, <2>3, <3>1
  <2> QED
    BY <2>2, <2>3
<1> QED
  BY <1>2, <1>5, <1>6 DEF RecordsOK, RecordsGrow

LEMMA PublishStep ==
    ASSUME ImportsInv, NEW h \in Handlers, Publish(h)
    PROVE  ImportsInv' /\ RecordsGrow
<1> DEFINE c == handler[h].req.content
<1> DEFINE todo == Pending(c)
<1> DEFINE x == todo[handler[h].pos]
<1> DEFINE conflict == records[x] \notin {None, RecordedAt(h)}
<1> DEFINE y == IF conflict \/ handler[h].pos = Len(todo) THEN Idle
                ELSE [handler[h] EXCEPT !.pos = @ + 1]
<1>0. ImportTypes
  BY DEF ImportsInv
<1>1. /\ handler[h].stage = "publishing" /\ Saved(x, RecordedAt(h))
      /\ handler' = [handler EXCEPT ![h] = y]
      /\ memory' = memory /\ epoch' = epoch /\ jobs' = jobs /\ events' = events
      /\ checkpoint' = checkpoint /\ failures' = failures
  BY DEF Publish
<1>2. /\ records' \in [Records -> Stamps \cup {None}]
      /\ RecordsOK(records', events)
      /\ RecordsGrow
  BY <1>1, SavedOK
<1>3. HandlerOK(y, events)
  <2>1. CASE conflict \/ handler[h].pos = Len(todo)
    BY <2>1, IdleOK
  <2>2. CASE ~conflict /\ handler[h].pos # Len(todo)
    <3> DEFINE z == [handler[h] EXCEPT !.pos = @ + 1]
    <3>1. HandlerOK(handler[h], events) /\ handler[h] # Idle
      BY <1>1 DEF ImportsInv, Idle
    <3>2. /\ handler[h].req \in Requests /\ handler[h].stamp \in Stamps
          /\ handler[h].stamp = events[c] /\ handler[h].pos \in 1..Len(todo)
      BY <1>1, Working
    <3>3. Len(todo) \in Nat
      BY <3>2, RequestParts, PendingRecords
    <3>4. handler[h].pos + 1 \in 1..Len(todo)
      BY <2>2, <3>2, <3>3
    <3>5. z.stage = handler[h].stage /\ z.req = handler[h].req /\ z.stamp = handler[h].stamp
      OBVIOUS
    <3>6. z.pos = handler[h].pos + 1
      OBVIOUS
    <3> QED
      BY <1>1, <2>2, <3>2, <3>4, <3>5, <3>6 DEF HandlerOK
  <2> QED
    BY <2>1, <2>2
<1> HIDE DEF y
<1>4. /\ handler' = [g \in Handlers |-> handler'[g]]
      /\ \A g \in Handlers : HandlerOK(handler'[g], events)
  BY <1>0, <1>1, <1>3, HandlerStep DEF ImportsInv
<1> QED
  BY <1>0, <1>1, <1>2, <1>4 DEF ImportsInv, ImportTypes

LEMMA PublishFailsStep ==
    ASSUME ImportsInv, NEW h \in Handlers, PublishFails(h)
    PROVE  ImportsInv' /\ RecordsGrow
<1>0. ImportTypes
  BY DEF ImportsInv
<1>1. /\ handler[h].stage = "publishing" /\ handler' = [handler EXCEPT ![h] = Idle]
      /\ epoch + failures < MaxFaults /\ failures' = failures + 1
      /\ memory' = memory /\ epoch' = epoch /\ jobs' = jobs /\ events' = events
      /\ checkpoint' = checkpoint
      /\ \/ records' = records
         \/ Saved(Pending(handler[h].req.content)[handler[h].pos], RecordedAt(h))
  BY DEF PublishFails
<1>2. /\ records' \in [Records -> Stamps \cup {None}]
      /\ RecordsOK(records', events)
      /\ RecordsGrow
  BY <1>1, SavedOK DEF ImportsInv, ImportTypes, RecordsGrow, RecordsOK
<1>3. failures' \in 0..MaxFaults
  <2>1. epoch \in 0..MaxFaults /\ failures \in 0..MaxFaults /\ MaxFaults \in Nat
    BY <1>0, ImportsAssumption DEF ImportTypes
  <2> QED
    BY <1>1, <2>1
<1>4. /\ handler' = [g \in Handlers |-> handler'[g]]
      /\ \A g \in Handlers : HandlerOK(handler'[g], events)
  BY <1>0, <1>1, IdleOK, HandlerStep DEF ImportsInv
<1> QED
  BY <1>0, <1>1, <1>2, <1>3, <1>4 DEF ImportsInv, ImportTypes

-----------------------------------------------------------------------------
(* Chains of facts.                                                        *)

Chain(F, s) == {f \in F : f.subject = s}

\* The keys and unique constraints of context.verified_facts, and that a
\* decision confirms one fact.
Distinct(f, g) ==
    /\ Ref(f) # Ref(g) /\ f.proposal # g.proposal /\ f.decision # g.decision
    /\ f.supersedes # None => f.supersedes # g.supersedes
    /\ f.subject = g.subject => f.version # g.version

\* A fact is the first of its subject or follows the one it supersedes.
Follows(f, F) ==
    IF f.version = 1 THEN f.supersedes = None
    ELSE \E g \in F : /\ g.subject = f.subject /\ g.version = f.version - 1
                      /\ f.supersedes = Ref(g)

FactSet(F) ==
    /\ F \subseteq Fact /\ IsFiniteSet(F)
    /\ \A f, g \in F : f # g => Distinct(f, g)
    /\ \A f \in F : Follows(f, F)
    /\ \A s : {f.version : f \in Chain(F, s)} = 1..Cardinality(Chain(F, s))

\* What no fact supersedes.
Unsuperseded(F, s) == {f \in F : f.subject = s /\ \A g \in F : g.supersedes # Ref(f)}

LEMMA VersionNat == \A f \in Fact : f.version \in Nat /\ f.version # 0 /\ Ref(f) \in FactRefs
<1>1. Cardinality(Proposals) \in Nat
  BY ImportsAssumption, FS_CardinalityType
<1>2. ASSUME NEW f \in Fact
      PROVE  f.version \in Nat /\ f.version # 0 /\ Ref(f) \in FactRefs
  <2>1. f.version \in Versions /\ f.id \in FactIds
    BY DEF Fact
  <2>2. f.version \in Nat /\ f.version # 0
    BY <1>1, <2>1 DEF Versions
  <2> QED
    BY <2>1, <2>2 DEF Ref, FactRefs
<1> QED
  BY <1>2

LEMMA ChainFinite ==
    ASSUME NEW F, FactSet(F), NEW s
    PROVE  /\ IsFiniteSet(Chain(F, s)) /\ Cardinality(Chain(F, s)) \in Nat
           /\ Cardinality(Chain(F, s)) = 0 <=> Chain(F, s) = {}
<1>1. Chain(F, s) \in SUBSET F
  BY DEF Chain
<1>2. IsFiniteSet(Chain(F, s))
  BY <1>1, FS_Subset DEF FactSet
<1> QED
  BY <1>2, FS_CardinalityType, FS_EmptySet

\* The fact of the highest version is the only one of its subject that is not
\* superseded.
LEMMA ChainTop ==
    ASSUME NEW F, FactSet(F), NEW s, Chain(F, s) # {}
    PROVE  \E t \in F : /\ t.subject = s
                        /\ t.version = Cardinality(Chain(F, s))
                        /\ Unsuperseded(F, s) = {t}
<1> DEFINE C == Chain(F, s)
<1> DEFINE n == Cardinality(C)
<1>1. n \in Nat /\ n # 0
  BY ChainFinite
<1>2. /\ {f.version : f \in C} = 1..n
      /\ \A f \in C : f \in F /\ f.subject = s
      /\ \A f \in F : f.subject = s => f \in C
      /\ \A f \in F : f \in Fact
  BY DEF FactSet, Chain
<1> HIDE DEF C, n
<1>3. n \in 1..n
  BY <1>1
<1>4. PICK t \in C : t.version = n
  BY <1>2, <1>3
<1>5. t \in F /\ t.subject = s /\ t \in Fact
  BY <1>2, <1>4
<1>6. ASSUME NEW g \in F, g.supersedes = Ref(t) PROVE FALSE
  <2>1. g.supersedes # None
    BY <1>5, <1>6, VersionNat, ImportsAssumption
  <2>2. PICK h \in F : /\ h.subject = g.subject /\ h.version = g.version - 1
                       /\ g.supersedes = Ref(h)
    BY <2>1 DEF FactSet, Follows
  <2>3. h = t
    BY <1>5, <1>6, <2>2 DEF FactSet, Distinct
  <2>4. g \in C /\ g.version \in 1..n
    BY <1>2, <1>5, <2>2, <2>3
  <2>5. n = g.version - 1 /\ g.version \in Nat
    BY <1>2, <1>4, <2>2, <2>3, VersionNat
  <2> QED
    BY <1>1, <2>4, <2>5
<1>7. ASSUME NEW u \in F, u.subject = s, u # t
      PROVE  \E g \in F : g.supersedes = Ref(u)
  <2>1. u \in C /\ u.version \in 1..n /\ u.version # n
    BY <1>2, <1>4, <1>5, <1>7 DEF FactSet, Distinct
  <2>2. u.version \in Nat /\ u.version + 1 \in 1..n /\ u.version # 0
    BY <1>1, <2>1
  <2>3. PICK g \in C : g.version = u.version + 1
    BY <1>2, <2>2
  <2>4. g \in F /\ g.version # 1 /\ g.version - 1 = u.version /\ g.subject = s
    BY <1>2, <2>2, <2>3
  <2>5. PICK h \in F : /\ h.subject = g.subject /\ h.version = g.version - 1
                       /\ g.supersedes = Ref(h)
    BY <2>4 DEF FactSet, Follows
  <2>6. h = u
    BY <1>7, <2>4, <2>5 DEF FactSet, Distinct
  <2> QED
    BY <2>4, <2>5, <2>6
<1>8. Unsuperseded(F, s) = {t}
  BY <1>5, <1>6, <1>7 DEF Unsuperseded
<1> QED
  BY <1>4, <1>5, <1>8 DEF C, n

\* A chain is no longer than there are proposals.
LEMMA ChainBound ==
    ASSUME NEW C, \A f \in C : f.proposal \in Proposals,
           \A f, g \in C : f # g => f.proposal # g.proposal
    PROVE  Cardinality(C) <= Cardinality(Proposals)
<1> DEFINE m == [f \in C |-> f.proposal]
<1>1. m \in [C -> Proposals]
  OBVIOUS
<1>2. \A f, g \in C : m[f] = m[g] => f = g
  OBVIOUS
<1>3. DOMAIN m = C
  OBVIOUS
<1> HIDE DEF m
<1>4. m \in Injection(C, Proposals)
  BY <1>1, <1>2, <1>3 DEF Injection, IsInjective
<1> QED
  BY <1>4, FS_Injection, ImportsAssumption

\* One more fact, at the end of its chain.
LEMMA ChainGrows ==
    ASSUME NEW F, FactSet(F), NEW f, NEW s, f.subject = s, f \notin F,
           f.id \in FactIds, f.proposal \in Proposals,
           f.version \in Versions => f \in Fact,
           \A g \in F : Distinct(f, g) /\ Distinct(g, f),
           f.version = Cardinality(Chain(F, s)) + 1,
           Follows(f, F)
    PROVE  FactSet(F \cup {f})
<1> DEFINE G == F \cup {f}
<1> DEFINE C == Chain(F, s)
<1> DEFINE D == Chain(G, s)
<1> DEFINE n == Cardinality(C)
<1>1. IsFiniteSet(C) /\ n \in Nat /\ {g.version : g \in C} = 1..n
  BY ChainFinite DEF FactSet
<1>2. D = C \cup {f} /\ f \notin C
  BY DEF Chain
<1>3. Cardinality(D) = n + 1
  <2> HIDE DEF C, D
  <2> QED
    BY <1>1, <1>2, FS_AddElement
<1>4. Cardinality(D) <= Cardinality(Proposals)
  <2>1. \A g \in D : g.proposal \in Proposals
    BY <1>2 DEF Chain, FactSet, Fact
  <2>2. \A g, h \in D : g # h => g.proposal # h.proposal
    BY <1>2 DEF Chain, FactSet, Distinct
  <2> HIDE DEF D
  <2> QED
    BY <2>1, <2>2, ChainBound
<1>5. f \in Fact
  <2>1. Cardinality(Proposals) \in Nat
    BY ImportsAssumption, FS_CardinalityType
  <2>2. f.version = n + 1
    OBVIOUS
  <2> HIDE DEF n, D
  <2>3. f.version \in Versions
    BY <1>1, <1>3, <1>4, <2>1, <2>2 DEF Versions
  <2> QED
    BY <2>3
<1>6. G \subseteq Fact /\ IsFiniteSet(G)
  BY <1>5, FS_AddElement DEF FactSet
<1>7. \A g, h \in G : g # h => Distinct(g, h)
  BY DEF FactSet
<1>8. \A g \in G : Follows(g, G)
  BY DEF FactSet, Follows
<1>9. ASSUME NEW u PROVE {g.version : g \in Chain(G, u)} = 1..Cardinality(Chain(G, u))
  <2>1. CASE u = s
    <3>1. {g.version : g \in D} = {g.version : g \in C} \cup {n + 1}
      BY <1>2
    <3> HIDE DEF C, D, n
    <3>2. {g.version : g \in D} = 1..(n + 1)
      BY <1>1, <3>1
    <3> QED
      BY <1>3, <2>1, <3>2 DEF D
  <2>2. CASE u # s
    <3>1. Chain(G, u) = Chain(F, u)
      BY <2>2 DEF Chain
    <3> QED
      BY <3>1 DEF FactSet
  <2> QED
    BY <2>1, <2>2
<1> HIDE DEF G
<1>10. FactSet(G)
  BY <1>6, <1>7, <1>8, <1>9 DEF FactSet
<1> QED
  BY <1>10 DEF G

-----------------------------------------------------------------------------
(* Decisions.                                                              *)

Conflict == [id : ConflictIds, proposal : Proposals, fact : FactRefs,
             evidence : SUBSET Evidence]

\* The decision document a fact goes with.
DecisionOf(f) ==
    [proposal |-> f.proposal, input |-> {f.supersedes} \ {None}, output |-> {Ref(f)},
     evidence |-> f.evidence]

\* The relational rows a fact goes with.
FactRows(f) ==
    {<<"decision", f.decision, "input", ref>> : ref \in {f.supersedes} \ {None}}
    \cup {<<"decision", f.decision, "output", ref>> : ref \in {Ref(f)}}
    \cup {<<"decision", f.decision, "evidence", e>> : e \in f.evidence}
    \cup {<<"fact", Ref(f), "evidence", e>> : e \in f.evidence}

\* A proposal is stored, with the evidence it uses.
Held(p, rec) == rec[p] # None /\ \A e \in Uses[p] : rec[e] # None

\* A fact says what its proposal said, and its decision says so.
FactTold(f, rec, dec) ==
    /\ f.evidence = Uses[f.proposal] /\ f.subject = Subject[f.proposal]
    /\ Held(f.proposal, rec)
    /\ dec[f.decision] = DecisionOf(f)

ReadingOK(w, rec) ==
    w # None => Held(w.req.proposal, rec) /\ w.req.supersedes = w.current

GovernedInv ==
    /\ FactSet(facts)
    /\ \A f \in facts : FactTold(f, records, decisions)
    /\ decisions \in [DecisionIds -> Decision \cup {None}]
    /\ \A d \in DecisionIds : decisions[d] # None => \E f \in facts : f.decision = d
    /\ lineage = UNION {FactRows(f) : f \in facts}
    /\ work \in [Operators -> Reading \cup {None}]
    /\ \A o \in Operators : ReadingOK(work[o], records)
    /\ conflicts \subseteq Conflict

LEMMA HeldGrows ==
    ASSUME RecordsGrow, NEW p \in Proposals, Held(p, records)
    PROVE  Held(p, records')
<1>1. p \in Records /\ \A e \in Uses[p] : e \in Records
  BY ImportsAssumption DEF Records
<1> QED
  BY <1>1 DEF RecordsGrow, Held

\* Imports do not disturb what was decided.
LEMMA GovernedFrame ==
    ASSUME GovernedInv, RecordsGrow, UNCHANGED <<work, governed>>
    PROVE  GovernedInv'
<1>1. /\ work' = work /\ decisions' = decisions /\ facts' = facts
      /\ lineage' = lineage /\ conflicts' = conflicts
  BY DEF governed
<1>2. ASSUME NEW f \in facts PROVE FactTold(f, records', decisions)
  <2>1. f.proposal \in Proposals
    BY DEF GovernedInv, FactSet, Fact
  <2> QED
    BY <2>1, HeldGrows DEF GovernedInv, FactTold
<1>3. ASSUME NEW o \in Operators PROVE ReadingOK(work[o], records')
  <2>1. CASE work[o] = None
    BY <2>1 DEF ReadingOK
  <2>2. CASE work[o] # None
    <3>1. work[o].req.proposal \in Proposals
      BY <2>2 DEF GovernedInv, Reading, Commands
    <3> QED
      BY <3>1, HeldGrows DEF GovernedInv, ReadingOK
  <2> QED
    BY <2>1, <2>2
<1> QED
  BY <1>1, <1>2, <1>3 DEF GovernedInv

\* A step of the operators that writes nothing but what they have read.
LEMMA OperatorStep ==
    ASSUME GovernedInv, NEW o \in Operators, NEW w \in Reading \cup {None},
           ReadingOK(w, records), work' = [work EXCEPT ![o] = w],
           UNCHANGED <<records, governed>>
    PROVE  GovernedInv'
<1>1. /\ records' = records /\ decisions' = decisions /\ facts' = facts
      /\ lineage' = lineage /\ conflicts' = conflicts
  BY DEF governed
<1>2. work' \in [Operators -> Reading \cup {None}]
  BY DEF GovernedInv
<1>3. \A p \in Operators : ReadingOK(work'[p], records)
  BY DEF GovernedInv
<1> QED
  BY <1>1, <1>2, <1>3 DEF GovernedInv

\* What get_current_fact returns: the end of the subject's chain.
LEMMA CurrentIs ==
    ASSUME FactSet(facts), NEW s
    PROVE  /\ Chain(facts, s) = {} => CurrentRef(s) = None
           /\ Chain(facts, s) # {} =>
                 \E t \in facts : /\ t.subject = s /\ CurrentRef(s) = Ref(t)
                                  /\ t.version = Cardinality(Chain(facts, s))
<1>1. CurrentFacts(s) = Unsuperseded(facts, s)
  BY DEF CurrentFacts, Unsuperseded
<1>2. ASSUME Chain(facts, s) = {} PROVE CurrentRef(s) = None
  <2>1. CurrentFacts(s) = {}
    BY <1>1, <1>2 DEF Chain, Unsuperseded
  <2> QED
    BY <2>1 DEF CurrentRef
<1>3. ASSUME Chain(facts, s) # {}
      PROVE  \E t \in facts : /\ t.subject = s /\ CurrentRef(s) = Ref(t)
                              /\ t.version = Cardinality(Chain(facts, s))
  <2>1. PICK t \in facts : /\ t.subject = s
                           /\ t.version = Cardinality(Chain(facts, s))
                           /\ CurrentFacts(s) = {t}
    BY <1>1, <1>3, ChainTop
  <2>2. t.version <= t.version
    <3>1. t.version \in Nat
      BY <2>1, VersionNat DEF FactSet
    <3> QED
      BY <3>1
  <2> DEFINE current == CurrentFacts(s)
  <2> DEFINE top == CHOOSE f \in current : \A g \in current : g.version <= f.version
  <2>3. CurrentRef(s) = Ref(top)
    BY <2>1 DEF CurrentRef
  <2>4. \E f \in current : \A g \in current : g.version <= f.version
    BY <2>1, <2>2
  <2>5. top \in current
    BY <2>4
  <2>6. top = t
    BY <2>1, <2>5
  <2> QED
    BY <2>1, <2>3, <2>6
<1> QED
  BY <1>2, <1>3

LEMMA CurrentType ==
    ASSUME FactSet(facts), NEW s
    PROVE  CurrentRef(s) \in FactRefs \cup {None}
<1>1. \A t \in facts : Ref(t) \in FactRefs
  BY VersionNat DEF FactSet
<1> QED
  BY <1>1, CurrentIs

LEMMA ReadCurrentStep ==
    ASSUME GovernedInv, NEW o \in Operators, NEW req \in Commands, ReadCurrent(o, req)
    PROVE  GovernedInv'
<1> DEFINE cur == CurrentRef(Subject[req.proposal])
<1> DEFINE w == [req |-> req, current |-> cur]
<1>1. /\ CheckedProposal(req.proposal) /\ req.supersedes = cur
      /\ work' = [work EXCEPT ![o] = w] /\ UNCHANGED <<records, governed>>
  BY DEF ReadCurrent, CheckSupersession, imports
<1>2. cur \in FactRefs \cup {None}
  BY CurrentType DEF GovernedInv
<1> HIDE DEF cur
<1>3. w \in Reading /\ w.req = req /\ w.current = cur
  BY <1>2 DEF Reading
<1>4. Held(req.proposal, records)
  BY <1>1 DEF CheckedProposal, GetProposal, CheckEvidence, Held
<1> HIDE DEF w
<1>5. ReadingOK(w, records)
  BY <1>1, <1>3, <1>4 DEF ReadingOK
<1> QED
  BY <1>1, <1>3, <1>5, OperatorStep

LEMMA ConfirmFailsStep ==
    ASSUME GovernedInv, NEW o \in Operators, ConfirmFails(o)
    PROVE  GovernedInv'
<1>1. work' = [work EXCEPT ![o] = None] /\ UNCHANGED <<records, governed>>
  BY DEF ConfirmFails, imports
<1>2. ReadingOK(None, records)
  BY DEF ReadingOK
<1> QED
  BY <1>1, <1>2, OperatorStep

LEMMA CreateConflictStep ==
    ASSUME GovernedInv, NEW k \in ConflictIds, NEW p \in Proposals, NEW f \in facts,
           CreateConflict(k, p, f)
    PROVE  GovernedInv'
<1> DEFINE x == [id |-> k, proposal |-> p, fact |-> Ref(f),
                 evidence |-> f.evidence \cup Uses[p]]
<1>1. /\ conflicts' = conflicts \cup {x} /\ records' = records /\ work' = work
      /\ decisions' = decisions /\ facts' = facts /\ lineage' = lineage
  BY DEF CreateConflict, SaveConflict, imports
<1>2. f \in Fact
  BY DEF GovernedInv, FactSet
<1>3. Ref(f) \in FactRefs /\ f.evidence \cup Uses[p] \subseteq Evidence
  BY <1>2, VersionNat, ImportsAssumption DEF Fact
<1>4. x \in Conflict
  BY <1>3 DEF Conflict
<1> HIDE DEF x
<1> QED
  BY <1>1, <1>4 DEF GovernedInv

\* The decision document of a fact is one.
LEMMA DecisionType ==
    ASSUME NEW f \in Fact
    PROVE  DecisionOf(f) \in Decision /\ DecisionOf(f) # None
<1>1. f.supersedes \in FactRefs \cup {None} /\ Ref(f) \in FactRefs
  BY VersionNat DEF Fact
<1>2. DecisionOf(f) \in Decision
  BY <1>1 DEF DecisionOf, Decision, Fact
<1> QED
  BY <1>2, ImportsAssumption

\* The fact of a confirmation follows the end of its subject's chain.
LEMMA BuiltFact ==
    ASSUME GovernedInv, NEW req \in Commands, NEW cur, NEW f,
           f = BuildFact(req, cur), req.supersedes = cur,
           CurrentRef(Subject[req.proposal]) = cur
    PROVE  /\ f.id = req.fact /\ f.proposal = req.proposal
           /\ f.subject = Subject[req.proposal] /\ f.evidence = Uses[req.proposal]
           /\ f.decision = req.decision /\ f.supersedes = cur
           /\ f.version \in Versions => f \in Fact
           /\ f.version = Cardinality(Chain(facts, f.subject)) + 1
           /\ Follows(f, facts)
<1> DEFINE s == Subject[req.proposal]
<1> DEFINE v == IF cur = None THEN 1 ELSE cur[2] + 1
<1>0. FactSet(facts)
  BY DEF GovernedInv
<1>1. f = [id |-> req.fact, version |-> v, proposal |-> req.proposal, subject |-> s,
           evidence |-> Uses[req.proposal], decision |-> req.decision,
           supersedes |-> cur]
  BY DEF BuildFact
<1>2. /\ f.id = req.fact /\ f.version = v /\ f.proposal = req.proposal /\ f.subject = s
      /\ f.evidence = Uses[req.proposal] /\ f.decision = req.decision
      /\ f.supersedes = cur
  BY <1>1
<1>3. /\ req.fact \in FactIds /\ req.proposal \in Proposals
      /\ req.decision \in DecisionIds /\ cur \in FactRefs \cup {None}
  BY DEF Commands
<1>4. f.version \in Versions => f \in Fact
  BY <1>1, <1>2, <1>3, ImportsAssumption DEF Fact
<1>5. ASSUME cur = None
      PROVE  f.version = Cardinality(Chain(facts, s)) + 1 /\ Follows(f, facts)
  <2>1. Chain(facts, s) = {}
    <3>1. \A t \in facts : Ref(t) # None
      BY <1>0, VersionNat, ImportsAssumption DEF FactSet
    <3> QED
      BY <1>0, <1>5, <3>1, CurrentIs
  <2>2. Cardinality(Chain(facts, s)) = 0
    BY <2>1, FS_EmptySet
  <2>3. f.version = 1
    BY <1>2, <1>5
  <2> QED
    BY <1>2, <1>5, <2>2, <2>3 DEF Follows
<1>6. ASSUME cur # None
      PROVE  f.version = Cardinality(Chain(facts, s)) + 1 /\ Follows(f, facts)
  <2>1. PICK t \in facts : /\ t.subject = s /\ cur = Ref(t)
                           /\ t.version = Cardinality(Chain(facts, s))
    BY <1>0, <1>6, CurrentIs
  <2>2. t.version \in Nat /\ t.version # 0
    BY <1>0, <2>1, VersionNat DEF FactSet
  <2>3. cur[2] = t.version
    BY <2>1 DEF Ref
  <2>4. f.version = t.version + 1
    BY <1>2, <1>6, <2>3
  <2>5. f.version # 1 /\ t.version = f.version - 1
    BY <2>2, <2>4
  <2>6. Follows(f, facts)
    BY <1>2, <2>1, <2>5 DEF Follows
  <2> QED
    BY <2>1, <2>4, <2>6
<1> QED
  BY <1>2, <1>4, <1>5, <1>6

LEMMA SaveConfirmationStep ==
    ASSUME GovernedInv, NEW o \in Operators, SaveConfirmation(o)
    PROVE  GovernedInv'
<1> DEFINE req == work[o].req
<1> DEFINE cur == work[o].current
<1> DEFINE f == BuildFact(req, cur)
<1> DEFINE d == BuildDecision(req, cur, f)
<1>0. FactSet(facts)
  BY DEF GovernedInv
<1>1. /\ work[o] # None /\ CurrentRef(Subject[req.proposal]) = cur /\ Insertable(req, f)
      /\ decisions' = [decisions EXCEPT ![req.decision] = d]
      /\ facts' = facts \cup {f}
      /\ lineage' = lineage \cup LineageRows(req, d, f)
      /\ work' = [work EXCEPT ![o] = None]
      /\ records' = records /\ conflicts' = conflicts
  BY DEF SaveConfirmation, imports
<1>2. req \in Commands /\ req.supersedes = cur /\ Held(req.proposal, records)
  BY <1>1 DEF GovernedInv, Reading, ReadingOK
<1>3. req.decision \in DecisionIds /\ req.fact \in FactIds /\ req.proposal \in Proposals
  BY <1>2 DEF Commands
<1>4. /\ f.id = req.fact /\ f.proposal = req.proposal
      /\ f.subject = Subject[req.proposal] /\ f.evidence = Uses[req.proposal]
      /\ f.decision = req.decision /\ f.supersedes = cur
      /\ f.version \in Versions => f \in Fact
      /\ f.version = Cardinality(Chain(facts, f.subject)) + 1
      /\ Follows(f, facts)
  <2> HIDE DEF req, cur
  <2> QED
    BY <1>1, <1>2, BuiltFact
<1>5. d = DecisionOf(f) /\ LineageRows(req, d, f) = FactRows(f)
  <2> HIDE DEF req, cur, f
  <2>1. d = DecisionOf(f)
    BY <1>4 DEF BuildDecision, DecisionOf
  <2>2. d.input = {f.supersedes} \ {None} /\ d.output = {Ref(f)} /\ d.evidence = f.evidence
    BY <2>1 DEF DecisionOf
  <2> HIDE DEF d
  <2> QED
    BY <1>4, <2>1, <2>2 DEF LineageRows, FactRows
<1>6. /\ decisions[f.decision] = None
      /\ \A g \in facts : /\ Ref(g) # Ref(f) /\ g.proposal # f.proposal
                          /\ f.supersedes # None => g.supersedes # f.supersedes
                          /\ g.subject = f.subject => g.version # f.version
  BY <1>1, <1>4 DEF Insertable, VersionFree
<1> HIDE DEF req, cur, f, d
<1>7. ASSUME NEW g \in facts PROVE g.decision # f.decision /\ g.decision \in DecisionIds
  <2>1. decisions[g.decision] = DecisionOf(g) /\ g \in Fact
    BY <1>0 DEF GovernedInv, FactTold, FactSet
  <2>2. decisions[g.decision] # None
    BY <2>1, DecisionType
  <2> QED
    BY <1>6, <2>1, <2>2 DEF Fact
<1>8. \A g \in facts : Distinct(f, g) /\ Distinct(g, f)
  BY <1>6, <1>7 DEF Distinct
<1>9. f \notin facts
  BY <1>6
<1>10. FactSet(facts')
  BY <1>0, <1>1, <1>3, <1>4, <1>8, <1>9, ChainGrows
<1>11. f \in Fact
  BY <1>1, <1>10 DEF FactSet
<1>12. /\ decisions' \in [DecisionIds -> Decision \cup {None}]
       /\ decisions'[f.decision] = DecisionOf(f)
       /\ \A x \in DecisionIds : x # f.decision => decisions'[x] = decisions[x]
  BY <1>1, <1>3, <1>4, <1>5, <1>11, DecisionType DEF GovernedInv
<1>13. \A g \in facts' : FactTold(g, records', decisions')
  <2>1. FactTold(f, records, decisions')
    BY <1>2, <1>4, <1>12 DEF FactTold
  <2>2. \A g \in facts : FactTold(g, records, decisions')
    BY <1>7, <1>12 DEF GovernedInv, FactTold
  <2> QED
    BY <1>1, <2>1, <2>2
<1>14. \A x \in DecisionIds : decisions'[x] # None => \E g \in facts' : g.decision = x
  BY <1>1, <1>12 DEF GovernedInv
<1>15. lineage' = UNION {FactRows(g) : g \in facts'}
  BY <1>1, <1>5 DEF GovernedInv
<1>16. /\ work' \in [Operators -> Reading \cup {None}]
       /\ \A p \in Operators : ReadingOK(work'[p], records)
  BY <1>1 DEF GovernedInv, ReadingOK
<1> QED
  BY <1>1, <1>10, <1>12, <1>13, <1>14, <1>15, <1>16 DEF GovernedInv

-----------------------------------------------------------------------------
(* Reading.                                                                *)

\* The rows of a fact and its decision are exactly theirs.
LEMMA RowsOf ==
    ASSUME GovernedInv, NEW f \in facts
    PROVE  /\ Rows("decision", f.decision, "input") = {f.supersedes} \ {None}
           /\ Rows("decision", f.decision, "output") = {Ref(f)}
           /\ Rows("decision", f.decision, "evidence") = f.evidence
           /\ Rows("fact", Ref(f), "evidence") = f.evidence
<1>1. \A g \in facts : g # f => g.decision # f.decision /\ Ref(g) # Ref(f)
  BY DEF GovernedInv, FactSet, Distinct
<1>2. ASSUME NEW l
      PROVE  l \in lineage <=> \E g \in facts :
                \/ \E ref \in {g.supersedes} \ {None} : l = <<"decision", g.decision, "input", ref>>
                \/ l = <<"decision", g.decision, "output", Ref(g)>>
                \/ \E e \in g.evidence : l = <<"decision", g.decision, "evidence", e>>
                \/ \E e \in g.evidence : l = <<"fact", Ref(g), "evidence", e>>
  BY DEF GovernedInv, FactRows
<1>3. ASSUME NEW owner, NEW id, NEW role, NEW y
      PROVE  y \in Rows(owner, id, role) <=>
                \E l \in lineage : l[1] = owner /\ l[2] = id /\ l[3] = role /\ l[4] = y
  BY DEF Rows
<1>4. ASSUME NEW y
      PROVE  y \in Rows("decision", f.decision, "input") <=> y \in {f.supersedes} \ {None}
  <2>1. ASSUME y \in Rows("decision", f.decision, "input")
        PROVE  y \in {f.supersedes} \ {None}
    <3>1. PICK l \in lineage : /\ l[1] = "decision" /\ l[2] = f.decision
                               /\ l[3] = "input" /\ l[4] = y
      BY <1>3, <2>1
    <3>2. PICK g \in facts :
             \E ref \in {g.supersedes} \ {None} : l = <<"decision", g.decision, "input", ref>>
      BY <1>2, <3>1
    <3> QED
      BY <1>1, <3>1, <3>2
  <2>2. ASSUME y \in {f.supersedes} \ {None}
        PROVE  y \in Rows("decision", f.decision, "input")
    <3> DEFINE l == <<"decision", f.decision, "input", y>>
    <3>1. l \in lineage
      BY <1>2, <2>2
    <3> QED
      BY <1>3, <3>1
  <2> QED
    BY <2>1, <2>2
<1>5. ASSUME NEW y
      PROVE  y \in Rows("decision", f.decision, "output") <=> y \in {Ref(f)}
  <2>1. ASSUME y \in Rows("decision", f.decision, "output")
        PROVE  y \in {Ref(f)}
    <3>1. PICK l \in lineage : /\ l[1] = "decision" /\ l[2] = f.decision
                               /\ l[3] = "output" /\ l[4] = y
      BY <1>3, <2>1
    <3>2. PICK g \in facts : l = <<"decision", g.decision, "output", Ref(g)>>
      BY <1>2, <3>1
    <3> QED
      BY <1>1, <3>1, <3>2
  <2>2. ASSUME y \in {Ref(f)}
        PROVE  y \in Rows("decision", f.decision, "output")
    <3> DEFINE l == <<"decision", f.decision, "output", y>>
    <3>1. l \in lineage
      BY <1>2, <2>2
    <3> QED
      BY <1>3, <3>1
  <2> QED
    BY <2>1, <2>2
<1>6. ASSUME NEW y
      PROVE  y \in Rows("decision", f.decision, "evidence") <=> y \in f.evidence
  <2>1. ASSUME y \in Rows("decision", f.decision, "evidence")
        PROVE  y \in f.evidence
    <3>1. PICK l \in lineage : /\ l[1] = "decision" /\ l[2] = f.decision
                               /\ l[3] = "evidence" /\ l[4] = y
      BY <1>3, <2>1
    <3>2. PICK g \in facts :
             \E e \in g.evidence : l = <<"decision", g.decision, "evidence", e>>
      BY <1>2, <3>1
    <3> QED
      BY <1>1, <3>1, <3>2
  <2>2. ASSUME y \in f.evidence
        PROVE  y \in Rows("decision", f.decision, "evidence")
    <3> DEFINE l == <<"decision", f.decision, "evidence", y>>
    <3>1. l \in lineage
      BY <1>2, <2>2
    <3> QED
      BY <1>3, <3>1
  <2> QED
    BY <2>1, <2>2
<1>7. ASSUME NEW y
      PROVE  y \in Rows("fact", Ref(f), "evidence") <=> y \in f.evidence
  <2>1. ASSUME y \in Rows("fact", Ref(f), "evidence")
        PROVE  y \in f.evidence
    <3>1. PICK l \in lineage : /\ l[1] = "fact" /\ l[2] = Ref(f)
                               /\ l[3] = "evidence" /\ l[4] = y
      BY <1>3, <2>1
    <3>2. PICK g \in facts :
             \E e \in g.evidence : l = <<"fact", Ref(g), "evidence", e>>
      BY <1>2, <3>1
    <3> QED
      BY <1>1, <3>1, <3>2
  <2>2. ASSUME y \in f.evidence
        PROVE  y \in Rows("fact", Ref(f), "evidence")
    <3> DEFINE l == <<"fact", Ref(f), "evidence", y>>
    <3>1. l \in lineage
      BY <1>2, <2>2
    <3> QED
      BY <1>3, <3>1
  <2> QED
    BY <2>1, <2>2
<1> QED
  BY <1>4, <1>5, <1>6, <1>7

\* What an agent reads through a decision: the one fact it confirmed.
Readable(f) ==
    /\ Traces(f.decision)
    /\ Resolve(f.decision, {Ref(f)}, f.evidence) = {<<Ref(f), f.proposal>>}

LEMMA ReadsBack == GovernedInv => \A f \in facts : Readable(f)
<1> SUFFICES ASSUME GovernedInv, NEW f \in facts PROVE Readable(f)
  OBVIOUS
<1> DEFINE d == f.decision
<1>1. f \in Fact /\ FactTold(f, records, decisions)
  BY DEF GovernedInv, FactSet
<1>2. decisions[d] = DecisionOf(f) /\ decisions[d] # None
  BY <1>1, DecisionType DEF FactTold
<1>3. /\ decisions[d].proposal = f.proposal /\ decisions[d].input = {f.supersedes} \ {None}
      /\ decisions[d].output = {Ref(f)} /\ decisions[d].evidence = f.evidence
  BY <1>2 DEF DecisionOf
<1>4. /\ Rows("decision", d, "input") = decisions[d].input
      /\ Rows("decision", d, "output") = decisions[d].output
      /\ Rows("decision", d, "evidence") = decisions[d].evidence
      /\ Rows("fact", Ref(f), "evidence") = f.evidence
  BY <1>3, RowsOf
<1>5. GetProposal(f.proposal) /\ CheckEvidence(f.evidence)
  BY <1>1 DEF FactTold, Held, GetProposal, CheckEvidence
<1>6. FactOf(Ref(f)) = {f}
  BY DEF FactOf, GovernedInv, FactSet, Distinct
<1>7. Traces(d)
  BY <1>3, <1>4, <1>5, <1>6 DEF Traces
<1>8. ValidDecision(d, {Ref(f)}, f.evidence)
  BY <1>2, <1>3, <1>4 DEF ValidDecision
<1>9. CanonicalFact(d, f, f.evidence)
  BY <1>3, <1>4 DEF CanonicalFact
<1> DEFINE found == UNION {GetFact(ref) : ref \in {Ref(f)}}
<1>10. found = {f} /\ \A ref \in {Ref(f)} : GetFact(ref) # {}
  BY <1>6 DEF GetFact
<1>11. UNION {g.evidence : g \in found} = f.evidence
  BY <1>10
<1>12. {<<Ref(g), g.proposal>> : g \in found} = {<<Ref(f), f.proposal>>}
  BY <1>10
<1>13. \A g \in found : CanonicalFact(d, g, f.evidence)
  BY <1>9, <1>10
<1>14. Resolve(d, {Ref(f)}, f.evidence) = {<<Ref(g), g.proposal>> : g \in found}
  BY <1>3, <1>5, <1>8, <1>10, <1>11, <1>13 DEF Resolve
<1> QED
  BY <1>7, <1>12, <1>14 DEF Readable

-----------------------------------------------------------------------------
(* The invariants hold throughout.                                         *)

IndInv == ImportsInv /\ GovernedInv

LEMMA Initially == Init => IndInv
<1> SUFFICES ASSUME Init PROVE IndInv
  OBVIOUS
<1>1. ImportsInv
  <2>1. 0 \in 0..MaxFaults
    BY ImportsAssumption
  <2>2. ImportTypes
    BY <2>1 DEF Init, ImportTypes
  <2>3. \A h \in Handlers : HandlerOK(handler[h], events)
    BY IdleOK DEF Init
  <2>4. RecordsOK(records, events)
    BY PendingRecords DEF Init, RecordsOK
  <2>5. \A k \in Keys : JobOK(jobs[k], events)
    BY DEF Init, JobOK
  <2> QED
    BY <2>2, <2>3, <2>4, <2>5 DEF ImportsInv
<1>2. GovernedInv
  <2>1. FactSet({})
    <3>1. \A s : Chain({}, s) = {}
      BY DEF Chain
    <3>2. IsFiniteSet({}) /\ Cardinality({}) = 0
      BY FS_EmptySet
    <3>3. 1..0 = {}
      OBVIOUS
    <3>4. \A s : {f.version : f \in Chain({}, s)} = 1..Cardinality(Chain({}, s))
      BY <3>1, <3>2, <3>3
    <3> QED
      BY <3>2, <3>4 DEF FactSet
  <2> QED
    BY <2>1 DEF Init, GovernedInv, ReadingOK
<1> QED
  BY <1>1, <1>2 DEF IndInv

LEMMA Step ==
    ASSUME IndInv, [Next]_vars
    PROVE  IndInv' /\ facts \subseteq facts'
<1>0. ImportsInv /\ GovernedInv
  BY DEF IndInv
<1>1. ASSUME ImportsInv' /\ RecordsGrow, UNCHANGED <<work, governed>>
      PROVE  IndInv' /\ facts \subseteq facts'
  BY <1>0, <1>1, GovernedFrame DEF IndInv, governed
<1>2. ASSUME UNCHANGED imports PROVE ImportsInv' /\ RecordsGrow
  BY <1>0, <1>2 DEF imports, ImportsInv, ImportTypes, RecordsGrow, RecordsOK
<1>3. ASSUME NEW h \in Handlers, NEW r \in Requests, Ingest(h, r)
      PROVE  IndInv' /\ facts \subseteq facts'
  BY <1>0, <1>1, <1>3, IngestStep DEF Ingest
<1>4. ASSUME NEW h \in Handlers, PersistReplay(h)
      PROVE  IndInv' /\ facts \subseteq facts'
  BY <1>0, <1>1, <1>4, PersistReplayStep DEF PersistReplay
<1>5. ASSUME NEW h \in Handlers, PersistNew(h)
      PROVE  IndInv' /\ facts \subseteq facts'
  BY <1>0, <1>1, <1>5, PersistNewStep DEF PersistNew
<1>6. ASSUME Restart PROVE IndInv' /\ facts \subseteq facts'
  BY <1>0, <1>1, <1>6, RestartStep DEF Restart
<1>7. ASSUME NEW h \in Handlers, Publish(h)
      PROVE  IndInv' /\ facts \subseteq facts'
  BY <1>0, <1>1, <1>7, PublishStep DEF Publish
<1>8. ASSUME NEW h \in Handlers, PublishFails(h)
      PROVE  IndInv' /\ facts \subseteq facts'
  BY <1>0, <1>1, <1>8, PublishFailsStep DEF PublishFails
<1>9. ASSUME NEW o \in Operators, NEW req \in Commands, ReadCurrent(o, req)
      PROVE  IndInv' /\ facts \subseteq facts'
  BY <1>0, <1>2, <1>9, ReadCurrentStep DEF ReadCurrent, IndInv, governed
<1>10. ASSUME NEW o \in Operators, SaveConfirmation(o)
       PROVE  IndInv' /\ facts \subseteq facts'
  BY <1>0, <1>2, <1>10, SaveConfirmationStep DEF SaveConfirmation, IndInv
<1>11. ASSUME NEW o \in Operators, ConfirmFails(o)
       PROVE  IndInv' /\ facts \subseteq facts'
  BY <1>0, <1>2, <1>11, ConfirmFailsStep DEF ConfirmFails, IndInv, governed
<1>12. ASSUME NEW k \in ConflictIds, NEW p \in Proposals, NEW f \in facts,
              CreateConflict(k, p, f)
       PROVE  IndInv' /\ facts \subseteq facts'
  BY <1>0, <1>2, <1>12, CreateConflictStep DEF CreateConflict, IndInv
<1>13. ASSUME UNCHANGED vars PROVE IndInv' /\ facts \subseteq facts'
  BY <1>1, <1>2, <1>13 DEF vars
<1> QED
  BY <1>3, <1>4, <1>5, <1>6, <1>7, <1>8, <1>9, <1>10, <1>11, <1>12, <1>13 DEF Next

LEMMA Invariant == Spec => []IndInv
<1>1. IndInv /\ [Next]_vars => IndInv'
  BY Step
<1> QED
  BY Initially, <1>1, PTL DEF Spec

\* Type correctness: identifiers, stamps and versions stay within what the
\* imports and operators can produce; a version is bounded by the number of
\* proposals because each of them is confirmed once.
THEOREM TypeCorrect == Spec => []TypeOK
<1>1. IndInv => TypeOK
  <2> SUFFICES ASSUME IndInv PROVE TypeOK
    OBVIOUS
  <2>1. \A h \in Handlers : handler[h].stage \in {"idle", "ingested", "publishing"}
    BY DEF IndInv, ImportsInv, HandlerOK, Idle
  <2> QED
    BY <2>1 DEF TypeOK, IndInv, ImportsInv, ImportTypes, GovernedInv, FactSet, Conflict
<1> QED
  BY Invariant, <1>1, PTL

\* RetryAgrees: a retry of an import never meets a record with another payload.
THEOREM RetriesAgree == Spec => []RetryAgrees
<1>1. IndInv => RetryAgrees
  <2> SUFFICES ASSUME IndInv, NEW h \in Handlers, handler[h].stage = "publishing",
                      NEW i \in handler[h].pos .. Len(Pending(handler[h].req.content))
               PROVE  records[Pending(handler[h].req.content)[i]] \in {None, RecordedAt(h)}
    BY DEF RetryAgrees
  <2> DEFINE c == handler[h].req.content
  <2>1. /\ handler[h].req \in Requests /\ handler[h].stamp = events[c]
        /\ handler[h].pos \in 1..Len(Pending(c))
    BY Working DEF IndInv
  <2>2. c \in Contents
    BY <2>1, RequestParts
  <2>3. Len(Pending(c)) \in Nat
    BY <2>2, PendingRecords
  <2>4. i \in 1..Len(Pending(c))
    BY <2>1, <2>3
  <2>5. Pending(c)[i] \in Range(Pending(c))
    BY <2>2, <2>4, PendingRecords
  <2> QED
    BY <2>1, <2>2, <2>5 DEF IndInv, ImportsInv, RecordsOK, RecordedAt
<1> QED
  BY Invariant, <1>1, PTL

\* FactChain: concurrent confirmations leave one line of versions per subject,
\* of which exactly the last is current.
THEOREM FactsFormChains == Spec => []FactChain
<1>1. IndInv => FactChain
  <2> SUFFICES ASSUME IndInv, NEW s \in {Subject[p] : p \in Proposals}
               PROVE  LET chain == {f \in facts : f.subject = s} IN
                      /\ {f.version : f \in chain} = 1..Cardinality(chain)
                      /\ \A f \in chain : f.version > 1 =>
                            \E g \in chain : f.supersedes = Ref(g) /\ g.version = f.version - 1
                      /\ chain # {} => Cardinality(CurrentFacts(s)) = 1
    BY DEF FactChain
  <2>0. FactSet(facts)
    BY DEF IndInv, GovernedInv
  <2> DEFINE chain == {f \in facts : f.subject = s}
  <2>1. chain = Chain(facts, s)
    BY DEF Chain
  <2>2. {f.version : f \in chain} = 1..Cardinality(chain)
    BY <2>0, <2>1 DEF FactSet
  <2>3. ASSUME NEW f \in chain, f.version > 1
        PROVE  \E g \in chain : f.supersedes = Ref(g) /\ g.version = f.version - 1
    <3>1. f.version # 1
      BY <2>3
    <3> QED
      BY <2>0, <3>1 DEF FactSet, Follows
  <2>4. ASSUME chain # {} PROVE Cardinality(CurrentFacts(s)) = 1
    <3>1. CurrentFacts(s) = Unsuperseded(facts, s)
      BY DEF CurrentFacts, Unsuperseded
    <3>2. \E t : CurrentFacts(s) = {t}
      BY <2>0, <2>1, <2>4, <3>1, ChainTop
    <3> QED
      BY <3>2, FS_Singleton
  <2> QED
    BY <2>2, <2>3, <2>4
<1> QED
  BY Invariant, <1>1, PTL

\* ContextStable: what a decision resolved to, it resolves to after every step,
\* so the context a materialization attempt digests is the one a retry sees.
THEOREM ContextIsStable == Spec => ContextStable
<1> DEFINE R == \A f \in facts : Readable(f)
<1> DEFINE A == \A d \in DecisionIds : decisions'[d] # None =>
          \A refs \in {decisions'[d].output}, es \in {decisions'[d].evidence} :
              /\ Traces(d)'
              /\ Resolve(d, refs, es)' # Rejected
              /\ decisions[d] # None => Resolve(d, refs, es)' = Resolve(d, refs, es)
<1>1. IndInv => R
  BY ReadsBack DEF IndInv
<1>2. IndInv /\ IndInv' /\ R /\ R' /\ [Next]_vars => A
  <2> SUFFICES ASSUME IndInv, IndInv', R, R', [Next]_vars, NEW d \in DecisionIds,
                      decisions'[d] # None,
                      NEW refs, refs = decisions'[d].output,
                      NEW es, es = decisions'[d].evidence
               PROVE  /\ Traces(d)'
                      /\ Resolve(d, refs, es)' # Rejected
                      /\ decisions[d] # None => Resolve(d, refs, es)' = Resolve(d, refs, es)
    OBVIOUS
  <2>1. PICK f \in facts' : f.decision = d
    BY DEF IndInv, GovernedInv
  <2>2. decisions'[d] = DecisionOf(f)
    BY <2>1 DEF IndInv, GovernedInv, FactTold
  <2>3. refs = {Ref(f)} /\ es = f.evidence
    BY <2>2 DEF DecisionOf
  <2>4. Readable(f)'
    BY <2>1
  <2>5. Traces(d)'
    BY <2>1, <2>4 DEF Readable
  <2>6. Resolve(d, refs, es)' = {<<Ref(f), f.proposal>>}
    BY <2>1, <2>3, <2>4 DEF Readable
  <2>7. ASSUME decisions[d] # None PROVE Resolve(d, refs, es) = {<<Ref(f), f.proposal>>}
    <3>1. PICK g \in facts : g.decision = d
      BY <2>7 DEF IndInv, GovernedInv
    <3>2. g \in facts'
      BY <3>1, Step
    <3>3. g = f
      BY <2>1, <3>1, <3>2 DEF IndInv, GovernedInv, FactSet, Distinct
    <3>4. Readable(f)
      BY <3>1, <3>3
    <3> QED
      BY <2>1, <2>3, <3>4 DEF Readable
  <2> QED
    BY <2>5, <2>6, <2>7 DEF Rejected
<1> QED
  BY Invariant, <1>1, <1>2, PTL DEF Spec, ContextStable
=============================================================================
