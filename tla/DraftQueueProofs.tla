-------------------------- MODULE DraftQueueProofs ---------------------------
(***************************************************************************)
(* What the communication draft queue guarantees for every number of       *)
(* drafts, workers and attempts, however requests and answers are delayed, *)
(* lost or repeated.                                                       *)
(***************************************************************************)
EXTENDS DraftQueue, TLAPS

Receipts == 1..MaxAttempts \cup {None}

RowType == [status : {"absent"} \cup OpenStates \cup FinalStates,
            attempt : 0..MaxAttempts, lapsed : BOOLEAN, receipt : Receipts]

LocalType == [pc : {"idle", "down", "claimed", "sending", "waiting", "acking", "failing"},
              draft : Drafts \cup {None}, attempt : 0..MaxAttempts, receipt : Receipts]

RequestType == [draft : Drafts, attempt : 1..MaxAttempts,
                found : {"unread", "none", "stored"}]

EffectType == [mat : Drafts, name : 1..MaxAttempts]

\* The CHECK constraints of one row.
RowOK(r) ==
    /\ r.status = "running" => r.attempt >= 1
    /\ r.lapsed => r.status = "running"
    /\ r.status = "succeeded" <=> r.receipt # None

\* Frappe commits a document and its Integration Request together.
AuditIsEffect ==
    /\ \A d \in Drafts : audit[d] # None => [mat |-> d, name |-> audit[d]] \in effects
    /\ \A e \in effects : audit[e.mat] = e.name

\* What a busy worker remembers: a draft that is stored and, when it is about
\* to acknowledge, the receipt that Frappe stored.
Good(l) ==
    l.pc \notin {"idle", "down"} =>
        /\ l.draft \in Drafts /\ Stored(l.draft) /\ l.attempt >= 1
        /\ l.pc = "acking" => l.receipt = audit[l.draft] /\ l.receipt # None

\* The same of a memory l in the state that a step leads to.
GoodAfter(l) ==
    l.pc \notin {"idle", "down"} =>
        /\ l.draft \in Drafts /\ outbox'[l.draft].status # "absent" /\ l.attempt >= 1
        /\ l.pc = "acking" => l.receipt = audit'[l.draft] /\ l.receipt # None

LocalsOK == \A w \in Workers : Good(local[w])

RequestsOK ==
    \A r \in requests : Stored(r.draft) /\ (r.found = "stored" => audit[r.draft] # None)

\* The inductive invariant.
IndInv ==
    /\ outbox \in [Drafts -> RowType]
    /\ \A d \in Drafts : RowOK(outbox[d])
    /\ local \in [Workers -> LocalType]
    /\ requests \subseteq RequestType
    /\ audit \in [Drafts -> Receipts]
    /\ effects \subseteq EffectType
    /\ AuditIsEffect
    /\ LocalsOK
    /\ RequestsOK

\* The initial state satisfies it.
LEMMA InitInv == Init => IndInv
<1> SUFFICES ASSUME Init PROVE IndInv
    OBVIOUS
<1>1. NoRow \in RowType /\ RowOK(NoRow) /\ Idle \in LocalType
    BY DraftQueueAssumption DEF NoRow, RowType, RowOK, Idle, LocalType, Receipts
<1>2. audit \in [Drafts -> Receipts]
    BY DEF Init, Receipts
<1>3. AuditIsEffect /\ RequestsOK
    BY DEF Init, AuditIsEffect, RequestsOK
<1>4. LocalsOK
    BY DEF Init, LocalsOK, Good, Idle
<1> QED BY <1>1, <1>2, <1>3, <1>4 DEF Init, IndInv

-----------------------------------------------------------------------------
\* Rows do not disappear and Integration Requests do not change.
Grows ==
    /\ \A d \in Drafts : Stored(d) => Stored(d)'
    /\ \A d \in Drafts : audit[d] # None => audit'[d] = audit[d]

\* What one worker remembers may change, the others' memory stays right.
LEMMA OneLocal ==
    ASSUME IndInv, Grows, NEW w \in Workers, NEW l \in LocalType, GoodAfter(l),
           local' = [local EXCEPT ![w] = l]
    PROVE  local' \in [Workers -> LocalType] /\ LocalsOK'
<1>1. local' \in [Workers -> LocalType]
    BY DEF IndInv
<1>2. ASSUME NEW v \in Workers
      PROVE  Good(local[v])'
    <2>1. CASE v = w
        BY <2>1 DEF IndInv, Good, GoodAfter, Stored
    <2>2. CASE v # w
        <3>1. local'[v] = local[v] /\ Good(local[v])
            BY <2>2 DEF IndInv, LocalsOK
        <3> QED BY <3>1 DEF Good, Grows
    <2> QED BY <2>1, <2>2
<1> QED BY <1>1, <1>2 DEF LocalsOK

\* No worker changes what it remembers.
LEMMA SameLocal ==
    ASSUME IndInv, Grows, UNCHANGED local
    PROVE  local' \in [Workers -> LocalType] /\ LocalsOK'
<1>1. ASSUME NEW v \in Workers
      PROVE  Good(local[v])'
    BY DEF IndInv, LocalsOK, Good, Grows
<1> QED BY <1>1 DEF IndInv, LocalsOK

\* A worker forgets its claim.
LEMMA Forget ==
    ASSUME IndInv, Grows, NEW w \in Workers,
           local' = [local EXCEPT ![w] = Idle] \/ local' = [local EXCEPT ![w] = Down]
    PROVE  local' \in [Workers -> LocalType] /\ LocalsOK'
<1>1. /\ Idle \in LocalType /\ Down \in LocalType
      /\ Idle.pc = "idle" /\ Down.pc = "down"
    BY DraftQueueAssumption DEF Idle, Down, LocalType, Receipts
<1>2. GoodAfter(Idle) /\ GoodAfter(Down)
    BY <1>1 DEF GoodAfter
<1> QED BY <1>1, <1>2, OneLocal

\* Requests stay right while rows and Integration Requests grow.
LEMMA RequestsKept ==
    ASSUME IndInv, Grows, requests' \subseteq requests
    PROVE  requests' \subseteq RequestType /\ RequestsOK'
<1>1. \A r \in requests : r \in RequestType /\ r.draft \in Drafts
    BY DEF IndInv, RequestType
<1> QED BY <1>1 DEF Grows, IndInv, RequestsOK

\* A step that leaves Frappe's tables alone.
LEMMA FrappeKept ==
    ASSUME IndInv, UNCHANGED frappe,
           outbox' \in [Drafts -> RowType], \A d \in Drafts : RowOK(outbox'[d]),
           requests' \subseteq RequestType, RequestsOK',
           local' \in [Workers -> LocalType], LocalsOK'
    PROVE  IndInv'
<1>1. audit' = audit /\ effects' = effects
    BY DEF frappe
<1>2. AuditIsEffect'
    BY <1>1 DEF IndInv, AuditIsEffect
<1> QED BY <1>1, <1>2 DEF IndInv

\* A step that changes one row, and no request.
LEMMA RowChanged ==
    ASSUME IndInv, NEW d \in Drafts, NEW r \in RowType, RowOK(r), r.status # "absent",
           outbox' = [outbox EXCEPT ![d] = r], UNCHANGED <<requests, frappe>>
    PROVE  /\ Grows
           /\ outbox' \in [Drafts -> RowType] /\ \A c \in Drafts : RowOK(outbox'[c])
           /\ requests' \subseteq RequestType /\ RequestsOK'
<1>1. outbox' \in [Drafts -> RowType] /\ \A c \in Drafts : RowOK(outbox'[c])
    BY DEF IndInv
<1>2. Grows
    BY DEF IndInv, Grows, Stored, frappe
<1> QED BY <1>1, <1>2, RequestsKept

\* What the statements of the queue leave of a row that is not final.
LEMMA RowSteps ==
    ASSUME NEW r \in RowType, RowOK(r), r.status \in OpenStates
    PROVE  /\ \A s \in {"dead_letter", "retry"} :
                Ended(r, s) \in RowType /\ RowOK(Ended(r, s)) /\ Ended(r, s).status = s
           /\ r.attempt < MaxAttempts =>
                /\ Taken(r) \in RowType /\ RowOK(Taken(r))
                /\ Taken(r).status = "running" /\ Taken(r).attempt = r.attempt + 1
           /\ \A x \in Receipts \ {None} :
                LET e == [Ended(r, "succeeded") EXCEPT !.receipt = x] IN
                e \in RowType /\ RowOK(e) /\ e.status = "succeeded"
<1>1. \A s \in {"dead_letter", "retry"} :
         Ended(r, s) \in RowType /\ RowOK(Ended(r, s)) /\ Ended(r, s).status = s
    BY DEF Ended, RowType, RowOK, OpenStates, FinalStates
<1>2. r.attempt < MaxAttempts =>
         /\ Taken(r) \in RowType /\ RowOK(Taken(r))
         /\ Taken(r).status = "running" /\ Taken(r).attempt = r.attempt + 1
    <2> HAVE r.attempt < MaxAttempts
    <2> DEFINE n == r.attempt + 1
    <2>1. n \in 0..MaxAttempts /\ n >= 1
        BY DraftQueueAssumption DEF RowType
    <2>2. Taken(r) = [r EXCEPT !.status = "running", !.attempt = n, !.lapsed = FALSE]
        BY DEF Taken, RowType
    <2> HIDE DEF n
    <2>3. Taken(r) \in RowType /\ Taken(r).status = "running" /\ Taken(r).attempt = n
        BY <2>1, <2>2 DEF RowType, OpenStates
    <2>4. Taken(r).lapsed = FALSE /\ Taken(r).receipt = r.receipt
        BY <2>2 DEF RowType
    <2>5. RowOK(Taken(r))
        BY <2>1, <2>3, <2>4 DEF RowOK, OpenStates
    <2> QED BY <2>3, <2>5 DEF n
<1>3. \A x \in Receipts \ {None} :
         LET e == [Ended(r, "succeeded") EXCEPT !.receipt = x] IN
         e \in RowType /\ RowOK(e) /\ e.status = "succeeded"
    BY DEF Ended, RowType, RowOK, OpenStates, FinalStates
<1> QED BY <1>1, <1>2, <1>3

-----------------------------------------------------------------------------
(* One lemma per kind of step. *)

\* publish() and the passing of a lease.
LEMMA RowStep ==
    ASSUME IndInv, NEW d \in Drafts, Publish(d) \/ Lapse(d)
    PROVE  IndInv'
<1>1. UNCHANGED <<local, requests, frappe>>
    BY DEF Publish, Lapse
<1>2. outbox[d] \in RowType /\ RowOK(outbox[d])
    BY DEF IndInv
<1>3. \E r \in RowType : /\ RowOK(r) /\ r.status # "absent"
                         /\ outbox' = [outbox EXCEPT ![d] = r]
    <2>1. CASE Publish(d)
        <3> DEFINE r == [outbox[d] EXCEPT !.status = "pending"]
        <3>1. r \in RowType /\ RowOK(r) /\ r.status # "absent"
            BY <1>2, <2>1 DEF Publish, Stored, RowType, RowOK, OpenStates
        <3>2. outbox' = [outbox EXCEPT ![d] = r]
            BY <2>1 DEF Publish
        <3> QED BY <3>1, <3>2
    <2>2. CASE Lapse(d)
        <3> DEFINE r == [outbox[d] EXCEPT !.lapsed = TRUE]
        <3>1. r \in RowType /\ RowOK(r) /\ r.status # "absent"
            BY <1>2, <2>2 DEF Lapse, RowType, RowOK
        <3>2. outbox' = [outbox EXCEPT ![d] = r]
            BY <2>2 DEF Lapse
        <3> QED BY <3>1, <3>2
    <2> QED BY <2>1, <2>2
<1>4. PICK r \in RowType : /\ RowOK(r) /\ r.status # "absent"
                          /\ outbox' = [outbox EXCEPT ![d] = r]
    BY <1>3
<1>5. /\ Grows
      /\ outbox' \in [Drafts -> RowType] /\ \A c \in Drafts : RowOK(outbox'[c])
      /\ requests' \subseteq RequestType /\ RequestsOK'
    BY <1>1, <1>4, RowChanged
<1>6. local' \in [Workers -> LocalType] /\ LocalsOK'
    BY <1>1, <1>5, SameLocal
<1> QED BY <1>1, <1>5, <1>6, FrappeKept

\* Reaping ends leases as dead_letter and changes nothing else.
LEMMA ReapedRows ==
    ASSUME IndInv
    PROVE  /\ Reaped \in [Drafts -> RowType]
           /\ \A d \in Drafts : RowOK(Reaped[d])
           /\ \A d \in Drafts : Stored(d) => Reaped[d].status # "absent"
           /\ \A d \in Reapable : /\ d \in Drafts /\ outbox[d].status = "running"
                                  /\ Reaped[d].status = "dead_letter"
           /\ \A d \in Drafts \ Reapable : Reaped[d] = outbox[d]
<1>1. ASSUME NEW d \in Reapable
      PROVE  /\ d \in Drafts /\ outbox[d].status = "running"
             /\ Reaped[d] = Ended(outbox[d], "dead_letter")
             /\ Reaped[d] \in RowType /\ RowOK(Reaped[d])
             /\ Reaped[d].status = "dead_letter"
    <2>1. d \in Drafts /\ outbox[d].status = "running"
        BY DEF Reapable, Expired
    <2>2. Reaped[d] = Ended(outbox[d], "dead_letter")
        BY <2>1 DEF Reaped
    <2>3. outbox[d] \in RowType /\ RowOK(outbox[d]) /\ outbox[d].status \in OpenStates
        BY <2>1 DEF IndInv, OpenStates
    <2> QED BY <2>1, <2>2, <2>3, RowSteps
<1>2. ASSUME NEW d \in Drafts \ Reapable
      PROVE  Reaped[d] = outbox[d]
    BY DEF Reaped
<1>3. ASSUME NEW d \in Drafts
      PROVE  /\ Reaped[d] \in RowType /\ RowOK(Reaped[d])
             /\ Stored(d) => Reaped[d].status # "absent"
    <2>1. CASE d \in Reapable
        BY <1>1, <2>1
    <2>2. CASE d \notin Reapable
        BY <1>2, <2>2 DEF IndInv, Stored
    <2> QED BY <2>1, <2>2
<1>4. Reaped \in [Drafts -> RowType]
    BY <1>3 DEF Reaped
<1> QED BY <1>1, <1>2, <1>3, <1>4

\* A row that can be claimed is open and is not reaped.
LEMMA ClaimableRow ==
    ASSUME IndInv, NEW d \in Claimable
    PROVE  /\ d \in Drafts \ Reapable /\ outbox[d] \in RowType /\ RowOK(outbox[d])
           /\ outbox[d].status \in OpenStates /\ outbox[d].attempt < MaxAttempts
<1>1. /\ d \in Drafts /\ outbox[d].attempt < MaxAttempts
      /\ outbox[d].status \in OpenStates
    BY DEF Claimable, Expired, OpenStates
<1>2. outbox[d] \in RowType /\ RowOK(outbox[d]) /\ outbox[d].attempt \in Nat
    BY <1>1 DEF IndInv, RowType
<1>3. d \notin Reapable
    BY <1>1, <1>2, DraftQueueAssumption DEF Reapable
<1> QED BY <1>1, <1>2, <1>3

\* claim_draft
LEMMA ClaimStep ==
    ASSUME IndInv, NEW w \in Workers, NEW d \in Drafts, Claim(w, d)
    PROVE  IndInv'
<1> DEFINE l == [Idle EXCEPT !.pc = "claimed", !.draft = d,
                             !.attempt = outbox'[d].attempt]
<1>1. d \in Claimable /\ UNCHANGED <<requests, frappe>>
    BY DEF Claim
<1>2. /\ d \in Drafts \ Reapable /\ outbox[d] \in RowType /\ RowOK(outbox[d])
      /\ outbox[d].status \in OpenStates /\ outbox[d].attempt < MaxAttempts
    BY <1>1, ClaimableRow
<1>3. /\ Taken(outbox[d]) \in RowType /\ RowOK(Taken(outbox[d]))
      /\ Taken(outbox[d]).status = "running"
    BY <1>2, RowSteps
<1>4. outbox' = [Reaped EXCEPT ![d] = Taken(outbox[d])]
    BY <1>2, ReapedRows DEF Claim
<1>5. outbox' \in [Drafts -> RowType] /\ \A c \in Drafts : RowOK(outbox'[c])
    BY <1>3, <1>4, ReapedRows
<1>6. Grows
    BY <1>1, <1>3, <1>4, ReapedRows DEF Grows, Stored, frappe
<1>7. outbox'[d] = Taken(outbox[d])
    BY <1>2, <1>4, ReapedRows
<1>8. outbox'[d].attempt \in 0..MaxAttempts /\ outbox'[d].attempt >= 1
    BY <1>3, <1>7 DEF RowType, RowOK
<1>9. /\ l \in LocalType /\ l.pc = "claimed" /\ l.draft = d
      /\ l.attempt = outbox'[d].attempt
    BY <1>8 DEF Idle, LocalType, Receipts
<1>10. local' = [local EXCEPT ![w] = l]
    BY DEF Claim
<1> HIDE DEF l
<1>11. GoodAfter(l)
    BY <1>3, <1>7, <1>8, <1>9 DEF GoodAfter
<1>12. local' \in [Workers -> LocalType] /\ LocalsOK'
    BY <1>6, <1>9, <1>10, <1>11, OneLocal
<1>13. requests' \subseteq RequestType /\ RequestsOK'
    BY <1>1, <1>6, RequestsKept
<1> QED BY <1>1, <1>5, <1>12, <1>13, FrappeKept

\* claim_draft without a row to take.
LEMMA ClaimNoneStep ==
    ASSUME IndInv, NEW w \in Workers, ClaimNone(w)
    PROVE  IndInv'
<1>1. outbox' = Reaped /\ UNCHANGED <<local, requests, frappe>>
    BY DEF ClaimNone
<1>2. Grows
    BY <1>1, ReapedRows DEF Grows, Stored, frappe
<1>3. local' \in [Workers -> LocalType] /\ LocalsOK'
    BY <1>1, <1>2, SameLocal
<1>4. requests' \subseteq RequestType /\ RequestsOK'
    BY <1>1, <1>2, RequestsKept
<1> QED BY <1>1, <1>3, <1>4, ReapedRows, FrappeKept

\* What is known of a worker that is busy.
LEMMA BusyWorker ==
    ASSUME IndInv, NEW w \in Workers, local[w].pc \notin {"idle", "down"}
    PROVE  /\ local[w] \in LocalType /\ local[w].draft \in Drafts /\ Good(local[w])
           /\ outbox[local[w].draft] \in RowType /\ RowOK(outbox[local[w].draft])
    BY DEF IndInv, LocalsOK, Good

\* A worker steps from one place to another with what it remembers.
LEMMA GotoLocal ==
    ASSUME IndInv, Grows, NEW w \in Workers, local[w].pc \notin {"idle", "down"},
           NEW pc \in {"sending", "waiting", "failing"}, Goto(w, pc)
    PROVE  local' \in [Workers -> LocalType] /\ LocalsOK'
<1> DEFINE l == [local[w] EXCEPT !.pc = pc]
<1>1. /\ local[w] \in LocalType /\ Good(local[w])
    BY BusyWorker
<1>2. local' = [local EXCEPT ![w] = l]
    BY DEF Goto
<1>3. /\ l \in LocalType /\ l.pc = pc /\ l.draft = local[w].draft
      /\ l.attempt = local[w].attempt
    BY <1>1 DEF LocalType
<1> HIDE DEF l
<1>4. GoodAfter(l)
    BY <1>1, <1>3 DEF Good, GoodAfter, Grows, Stored
<1> QED BY <1>2, <1>3, <1>4, OneLocal

\* Steps that change nothing but what a worker remembers.
LEMMA LocalStep ==
    ASSUME IndInv, NEW w \in Workers,
           ClaimAborts(w) \/ Lost(w) \/ GiveUp(w) \/ Crash(w) \/ Restart(w)
    PROVE  IndInv'
<1>1. UNCHANGED <<outbox, requests, frappe>>
    BY DEF ClaimAborts, Lost, GiveUp, Crash, Restart
<1>2. Grows
    BY <1>1 DEF Grows, Stored, frappe
<1>3. local' \in [Workers -> LocalType] /\ LocalsOK'
    <2>1. CASE GiveUp(w)
        BY <1>2, <2>1, GotoLocal DEF GiveUp
    <2>2. CASE ClaimAborts(w) \/ Lost(w) \/ Crash(w) \/ Restart(w)
        BY <1>2, <2>2, Forget DEF ClaimAborts, Lost, Crash, Restart, Return
    <2> QED BY <2>1, <2>2
<1>4. requests' \subseteq RequestType /\ RequestsOK'
    BY <1>1, <1>2, RequestsKept
<1> QED BY <1>1, <1>3, <1>4, FrappeKept DEF IndInv

\* client.apply
LEMMA SendStep ==
    ASSUME IndInv, NEW w \in Workers, Send(w)
    PROVE  IndInv'
<1>1. /\ UNCHANGED <<outbox, frappe>> /\ requests' = requests \cup {Intent(w)}
      /\ local[w].pc = "sending" /\ Goto(w, "waiting")
    BY DEF Send
<1>2. Grows
    BY <1>1 DEF Grows, Stored, frappe
<1>3. local' \in [Workers -> LocalType] /\ LocalsOK'
    BY <1>1, <1>2, GotoLocal
<1>4. local[w] \in LocalType /\ Good(local[w])
    BY <1>1, BusyWorker
<1>5. local[w].attempt \in 1..MaxAttempts
    BY <1>1, <1>4, DraftQueueAssumption DEF LocalType, Good
<1>6. Intent(w) \in RequestType /\ Stored(Intent(w).draft) /\ Intent(w).found = "unread"
    BY <1>1, <1>4, <1>5 DEF Intent, RequestType, Good
<1>7. requests' \subseteq RequestType /\ RequestsOK'
    <2>1. audit' = audit /\ outbox' = outbox
        BY <1>1 DEF frappe
    <2> QED BY <1>1, <1>6, <2>1 DEF IndInv, RequestsOK, Stored
<1> QED BY <1>1, <1>3, <1>7, FrappeKept DEF IndInv

\* heartbeat_draft, acknowledge_draft and fail_draft change the row they hold.
LEMMA HolderStep ==
    ASSUME IndInv, NEW w \in Workers, Heartbeat(w) \/ Acknowledge(w) \/ Fail(w)
    PROVE  IndInv'
<1> DEFINE d == local[w].draft
           row == outbox[d]
<1>1. local[w].pc \notin {"idle", "down"} /\ UNCHANGED <<requests, frappe>>
    BY DEF Heartbeat, Acknowledge, Fail
<1>2. /\ local[w] \in LocalType /\ d \in Drafts /\ Good(local[w])
      /\ row \in RowType /\ RowOK(row)
    BY <1>1, BusyWorker
<1>3. row.status = "running" /\ row.status \in OpenStates
    BY DEF Heartbeat, Acknowledge, Fail, Holds, OpenStates
<1>4. \E r \in RowType : /\ RowOK(r) /\ r.status # "absent"
                         /\ outbox' = [outbox EXCEPT ![d] = r]
    <2>1. CASE Heartbeat(w)
        <3> DEFINE r == [row EXCEPT !.lapsed = FALSE]
        <3>1. r \in RowType /\ RowOK(r) /\ r.status # "absent"
            BY <1>2, <1>3 DEF RowType, RowOK
        <3>2. outbox' = [outbox EXCEPT ![d] = r]
            BY <2>1 DEF Heartbeat
        <3> QED BY <3>1, <3>2
    <2>2. CASE Acknowledge(w)
        <3> DEFINE r == [Ended(row, "succeeded") EXCEPT !.receipt = local[w].receipt]
        <3>1. local[w].receipt \in Receipts \ {None}
            BY <1>2, <2>2 DEF Acknowledge, Good, LocalType
        <3>2. r \in RowType /\ RowOK(r) /\ r.status = "succeeded"
            BY <1>2, <1>3, <3>1, RowSteps
        <3>3. outbox' = [outbox EXCEPT ![d] = r]
            BY <2>2 DEF Acknowledge
        <3> QED BY <3>2, <3>3
    <2>3. CASE Fail(w)
        <3> DEFINE s == IF row.attempt >= MaxAttempts THEN "dead_letter" ELSE "retry"
        <3>1. s \in {"dead_letter", "retry"}
            OBVIOUS
        <3>2. outbox' = [outbox EXCEPT ![d] = Ended(row, s)]
            BY <2>3 DEF Fail
        <3> HIDE DEF s
        <3>3. Ended(row, s) \in RowType /\ RowOK(Ended(row, s)) /\ Ended(row, s).status = s
            BY <1>2, <1>3, <3>1, RowSteps
        <3> QED BY <3>1, <3>2, <3>3
    <2> QED BY <2>1, <2>2, <2>3
<1>5. PICK r \in RowType : /\ RowOK(r) /\ r.status # "absent"
                           /\ outbox' = [outbox EXCEPT ![d] = r]
    BY <1>4
<1>6. /\ Grows
      /\ outbox' \in [Drafts -> RowType] /\ \A c \in Drafts : RowOK(outbox'[c])
      /\ requests' \subseteq RequestType /\ RequestsOK'
    BY <1>1, <1>2, <1>5, RowChanged
<1>7. local' \in [Workers -> LocalType] /\ LocalsOK'
    BY <1>1, <1>6, GotoLocal, Forget DEF Heartbeat, Acknowledge, Fail, Return
<1> QED BY <1>1, <1>6, <1>7, FrappeKept

\* An answer reaches one worker or none.
LEMMA AnswerLocal ==
    ASSUME IndInv, Grows, NEW r, NEW x \in Receipts,
           x # None => x = audit'[r.draft], Answer(r, x)
    PROVE  local' \in [Workers -> LocalType] /\ LocalsOK'
<1>1. CASE UNCHANGED local
    BY <1>1, SameLocal
<1>2. ASSUME NEW w \in Workers, local[w].pc = "waiting", local[w].draft = r.draft,
             local' = [local EXCEPT ![w].receipt = x,
                         ![w].pc = IF x = None THEN "failing" ELSE "acking"]
      PROVE  local' \in [Workers -> LocalType] /\ LocalsOK'
    <2> DEFINE pc == IF x = None THEN "failing" ELSE "acking"
               l == [local[w] EXCEPT !.receipt = x, !.pc = pc]
    <2>1. local[w] \in LocalType /\ Good(local[w])
        BY <1>2, BusyWorker
    <2>2. local' = [local EXCEPT ![w] = l]
        BY <1>2, <2>1 DEF IndInv
    <2>3. pc \in {"failing", "acking"} /\ (pc = "acking" => x # None)
        OBVIOUS
    <2> HIDE DEF pc
    <2>4. /\ l \in LocalType /\ l.pc = pc /\ l.draft = local[w].draft
          /\ l.attempt = local[w].attempt /\ l.receipt = x
        BY <2>1, <2>3 DEF LocalType
    <2> HIDE DEF l
    <2>5. GoodAfter(l)
        BY <1>2, <2>1, <2>3, <2>4 DEF Good, GoodAfter, Grows, Stored
    <2> QED BY <2>2, <2>4, <2>5, OneLocal
<1> QED BY <1>1, <1>2 DEF Answer

\* Frappe reads: _load_audit, a repeated answer, an error.
LEMMA ReadStep ==
    ASSUME IndInv, NEW r \in requests, Load(r) \/ Replay(r) \/ Refuse(r)
    PROVE  IndInv'
<1>1. UNCHANGED <<outbox, frappe>> /\ audit' = audit
    BY DEF Load, Replay, Refuse, frappe
<1>2. Grows
    BY <1>1 DEF Grows, Stored
<1>3. r \in RequestType /\ r.draft \in Drafts /\ Stored(r.draft)
      /\ (r.found = "stored" => audit[r.draft] # None)
    BY DEF IndInv, RequestType, RequestsOK
<1>4. CASE Load(r)
    <2> DEFINE f == IF audit[r.draft] = None THEN "none" ELSE "stored"
               q == [r EXCEPT !.found = f]
    <2>1. f \in {"none", "stored"} /\ (f = "stored" => audit[r.draft] # None)
        OBVIOUS
    <2>2. requests' = (requests \ {r}) \cup {q}
        BY <1>4 DEF Load
    <2> HIDE DEF f
    <2>3. q \in RequestType /\ q.draft = r.draft /\ q.found = f
        BY <1>3, <2>1 DEF RequestType
    <2> HIDE DEF q
    <2>4. requests' \subseteq RequestType /\ RequestsOK'
        BY <1>1, <1>3, <2>1, <2>2, <2>3 DEF IndInv, RequestsOK, Stored
    <2>5. local' \in [Workers -> LocalType] /\ LocalsOK'
        BY <1>2, <1>4, SameLocal DEF Load
    <2> QED BY <1>1, <2>4, <2>5, FrappeKept DEF IndInv
<1>5. CASE Replay(r) \/ Refuse(r)
    <2>1. requests' \subseteq RequestType /\ RequestsOK'
        BY <1>2, <1>5, RequestsKept DEF Replay, Refuse
    <2>2. audit[r.draft] \in Receipts /\ None \in Receipts
        BY <1>3 DEF IndInv, Receipts
    <2>3. local' \in [Workers -> LocalType] /\ LocalsOK'
        BY <1>1, <1>2, <1>5, <2>2, AnswerLocal DEF Replay, Refuse
    <2> QED BY <1>1, <2>1, <2>3, FrappeKept DEF IndInv
<1> QED BY <1>4, <1>5

\* Frappe makes the document and its Integration Request.
LEMMA ExecuteStep ==
    ASSUME IndInv, NEW r \in requests, Execute(r)
    PROVE  IndInv'
<1> DEFINE e == [mat |-> r.draft, name |-> r.attempt]
<1>1. /\ audit[r.draft] = None /\ UNCHANGED outbox /\ requests' = requests \ {r}
      /\ audit' = [audit EXCEPT ![r.draft] = r.attempt] /\ effects' = effects \cup {e}
      /\ Answer(r, r.attempt)
    BY DEF Execute
<1>2. r.draft \in Drafts /\ r.attempt \in 1..MaxAttempts
    BY DEF IndInv, RequestType
<1>3. r.attempt \in Receipts /\ r.attempt # None
    BY <1>2, DraftQueueAssumption DEF Receipts
<1>4. audit' \in [Drafts -> Receipts] /\ audit'[r.draft] = r.attempt
    BY <1>1, <1>2, <1>3 DEF IndInv
<1>5. Grows
    BY <1>1, <1>2 DEF IndInv, Grows, Stored
<1>6. effects' \subseteq EffectType
    BY <1>1, <1>2 DEF IndInv, EffectType
<1>7. AuditIsEffect'
    <2>1. \A x \in effects : x.mat \in Drafts /\ x.mat # r.draft
        BY <1>1, DraftQueueAssumption DEF IndInv, AuditIsEffect, EffectType
    <2>2. ASSUME NEW d \in Drafts, audit'[d] # None
          PROVE  [mat |-> d, name |-> audit'[d]] \in effects'
        BY <1>1, <1>2, <2>2 DEF IndInv, AuditIsEffect
    <2>3. ASSUME NEW x \in effects'
          PROVE  audit'[x.mat] = x.name
        BY <1>1, <1>2, <2>1 DEF IndInv, AuditIsEffect
    <2> QED BY <2>2, <2>3 DEF AuditIsEffect
<1>8. local' \in [Workers -> LocalType] /\ LocalsOK'
    BY <1>1, <1>3, <1>4, <1>5, AnswerLocal
<1>9. requests' \subseteq RequestType /\ RequestsOK'
    BY <1>1, <1>5, RequestsKept
<1> QED BY <1>1, <1>4, <1>6, <1>7, <1>8, <1>9 DEF IndInv

-----------------------------------------------------------------------------
\* Every step keeps the inductive invariant.
LEMMA NextInv == IndInv /\ [Next]_vars => IndInv'
<1> SUFFICES ASSUME IndInv, [Next]_vars PROVE IndInv'
    OBVIOUS
<1>1. ASSUME NEW w \in Workers,
             \/ \E d \in Drafts : Claim(w, d)
             \/ ClaimNone(w) \/ ClaimAborts(w) \/ Run(w) \/ Crash(w) \/ Restart(w)
      PROVE  IndInv'
    BY <1>1, ClaimStep, ClaimNoneStep, LocalStep, SendStep, HolderStep DEF Run
<1>2. ASSUME NEW r \in requests, Load(r) \/ Execute(r) \/ Replay(r) \/ Refuse(r)
      PROVE  IndInv'
    BY <1>2, ReadStep, ExecuteStep
<1>3. CASE UNCHANGED vars
    BY <1>3 DEF vars, IndInv, AuditIsEffect, LocalsOK, Good, RequestsOK, Stored
<1> QED BY <1>1, <1>2, <1>3, RowStep DEF Next

\* The inductive invariant holds throughout.
LEMMA Invariance == Spec => []IndInv
    BY InitInv, NextInv, PTL DEF Spec

\* The variables keep their types and no statement of the repository meets a
\* CHECK constraint of communication_draft_outbox.
THEOREM TypeCorrect == Spec => []TypeOK
<1>1. IndInv => TypeOK
    BY DEF IndInv, TypeOK, RowType, RowOK, LocalType, RequestType, EffectType, Receipts
<1> QED BY <1>1, Invariance, PTL

-----------------------------------------------------------------------------
(* The queue implements DraftOnce. *)

Out == [d \in Drafts |-> Outcome(d)]

\* Ending the leases in S as dead_letter gives those drafts up.
LEMMA GivesUp ==
    ASSUME NEW S \in SUBSET Drafts, effects' = effects,
           \A d \in S : outbox[d].status = "running" /\ outbox'[d].status = "dead_letter",
           \A d \in Drafts \ S :
              \/ outbox'[d].status = outbox[d].status
              \/ outbox[d].status \in OpenStates /\ outbox'[d].status \in OpenStates
    PROVE  Abstract!Next
<1>1. \A d \in S : Out[d] = "open" /\ Outcome(d)' = "dead_letter"
    BY DEF Out, Outcome, OpenStates, Stored
<1>2. \A d \in Drafts \ S : Outcome(d)' = Outcome(d)
    BY DEF Outcome, Stored
<1>3. Out' = [d \in Drafts |-> IF d \in S THEN "dead_letter" ELSE Out[d]]
    BY <1>1, <1>2 DEF Out
<1>4. Abstract!GiveUp(S)
    BY <1>1, <1>3 DEF Abstract!GiveUp, Out
<1> QED BY <1>4 DEF Abstract!Next

\* A claim gives up what it reaps and leaves every other outcome alone.
LEMMA ClaimRefines ==
    ASSUME IndInv, NEW w \in Workers, ClaimNone(w) \/ \E d \in Drafts : Claim(w, d)
    PROVE  Abstract!Next
<1>1. effects' = effects /\ Reapable \in SUBSET Drafts
    BY DEF ClaimNone, Claim, frappe, Reapable
<1>2. CASE ClaimNone(w)
    <2>1. outbox' = Reaped
        BY <1>2 DEF ClaimNone
    <2> QED BY <1>1, <2>1, ReapedRows, GivesUp
<1>3. ASSUME NEW d \in Drafts, Claim(w, d)
      PROVE  Abstract!Next
    <2>1. /\ d \notin Reapable /\ outbox[d] \in RowType /\ RowOK(outbox[d])
          /\ outbox[d].status \in OpenStates /\ outbox[d].attempt < MaxAttempts
        BY <1>3, ClaimableRow DEF Claim
    <2>2. outbox' = [Reaped EXCEPT ![d] = Taken(outbox[d])]
        BY <1>3, <2>1, ReapedRows DEF Claim
    <2>3. Taken(outbox[d]).status = "running"
        BY <2>1, RowSteps
    <2>4. /\ outbox'[d].status \in OpenStates
          /\ \A c \in Drafts : c # d => outbox'[c] = Reaped[c]
        BY <2>2, <2>3, ReapedRows DEF OpenStates
    <2> QED BY <1>1, <2>1, <2>4, ReapedRows, GivesUp
<1> QED BY <1>2, <1>3

\* A heartbeat and a retry change no outcome, the last failure gives a draft up,
\* and only a document that was made can be acknowledged.
LEMMA HolderRefines ==
    ASSUME IndInv, NEW w \in Workers, Heartbeat(w) \/ Acknowledge(w) \/ Fail(w)
    PROVE  Abstract!Next
<1> DEFINE d == local[w].draft
           row == outbox[d]
<1>1. /\ local[w].pc \notin {"idle", "down"} /\ UNCHANGED <<requests, frappe>>
      /\ effects' = effects
    BY DEF Heartbeat, Acknowledge, Fail, frappe
<1>2. /\ d \in Drafts /\ Good(local[w]) /\ row \in RowType /\ RowOK(row)
      /\ local[w] \in LocalType
    BY <1>1, BusyWorker
<1>3. row.status = "running" /\ row.status \in OpenStates
    BY DEF Heartbeat, Acknowledge, Fail, Holds, OpenStates
<1>4. ASSUME NEW r, outbox' = [outbox EXCEPT ![d] = r],
             r.status \in {"running", "retry", "dead_letter"}
      PROVE  Abstract!Next
    <2>1. outbox'[d] = r /\ \A c \in Drafts : c # d => outbox'[c] = outbox[c]
        BY <1>2, <1>4 DEF IndInv
    <2>2. CASE r.status = "dead_letter"
        BY <1>1, <1>2, <1>3, <2>1, <2>2, GivesUp, {d} \in SUBSET Drafts
    <2>3. CASE r.status \in {"running", "retry"}
        BY <1>1, <1>3, <2>1, <2>3, GivesUp, {} \in SUBSET Drafts DEF OpenStates
    <2> QED BY <1>4, <2>2, <2>3
<1>5. CASE Heartbeat(w)
    <2> DEFINE r == [row EXCEPT !.lapsed = FALSE]
    <2>1. r.status = "running"
        BY <1>2, <1>3 DEF RowType
    <2>2. outbox' = [outbox EXCEPT ![d] = r]
        BY <1>5 DEF Heartbeat
    <2> QED BY <1>4, <2>1, <2>2
<1>6. CASE Fail(w)
    <2> DEFINE s == IF row.attempt >= MaxAttempts THEN "dead_letter" ELSE "retry"
    <2>1. s \in {"dead_letter", "retry"}
        OBVIOUS
    <2>2. outbox' = [outbox EXCEPT ![d] = Ended(row, s)]
        BY <1>6 DEF Fail
    <2> HIDE DEF s
    <2>3. Ended(row, s).status = s
        BY <1>2, <1>3, <2>1, RowSteps
    <2> QED BY <1>4, <2>1, <2>2, <2>3
<1>7. CASE Acknowledge(w)
    <2> DEFINE r == [Ended(row, "succeeded") EXCEPT !.receipt = local[w].receipt]
    <2>1. local[w].receipt \in Receipts \ {None} /\ audit[d] # None
        BY <1>2, <1>7 DEF Acknowledge, Good, LocalType
    <2>2. r.status = "succeeded"
        BY <1>2, <1>3, <2>1, RowSteps
    <2>3. outbox' = [outbox EXCEPT ![d] = r]
        BY <1>7 DEF Acknowledge
    <2> HIDE DEF r
    <2>4. outbox'[d] = r /\ \A c \in Drafts : c # d => outbox'[c] = outbox[c]
        BY <1>2, <2>3 DEF IndInv
    <2>5. \A c \in Drafts : c = d => Outcome(c) = "open" /\ Outcome(c)' = "succeeded"
        BY <1>3, <2>2, <2>4 DEF Outcome, OpenStates, Stored
    <2>6. \A c \in Drafts : c # d => Outcome(c)' = Outcome(c)
        BY <2>4 DEF Outcome, Stored
    <2>7. Out' = [Out EXCEPT ![d] = "succeeded"] /\ Out[d] = "open"
        BY <1>2, <2>5, <2>6 DEF Out
    <2>8. \E e \in effects : e.mat = d
        BY <1>2, <2>1 DEF IndInv, AuditIsEffect
    <2>9. Abstract!Finish(d)
        BY <1>1, <2>7, <2>8 DEF Abstract!Finish, Abstract!Made, Out
    <2> QED BY <1>2, <2>9 DEF Abstract!Next
<1> QED BY <1>5, <1>6, <1>7

\* A document is made for a stored row whose draft had none.
LEMMA ExecuteRefines ==
    ASSUME IndInv, NEW r \in requests, Execute(r)
    PROVE  Abstract!Next
<1> DEFINE e == [mat |-> r.draft, name |-> r.attempt]
<1>1. audit[r.draft] = None /\ effects' = effects \cup {e} /\ UNCHANGED outbox
    BY DEF Execute
<1>2. r.draft \in Drafts /\ Stored(r.draft)
    BY DEF IndInv, RequestType, RequestsOK
<1>3. Out' = Out /\ Out[r.draft] # "none"
    <2>1. outbox[r.draft].status \in OpenStates \cup FinalStates
        BY <1>2 DEF IndInv, RowType, Stored
    <2> QED BY <1>1, <1>2, <2>1 DEF Out, Outcome, Stored, OpenStates, FinalStates
<1>4. ~\E x \in effects : x.mat = r.draft
    BY <1>1, DraftQueueAssumption DEF IndInv, AuditIsEffect, EffectType
<1>5. e \in effects' /\ e.mat = r.draft
    BY <1>1
<1> HIDE DEF e
<1>6. Abstract!Make(r.draft)
    BY <1>1, <1>3, <1>4, <1>5 DEF Abstract!Make, Abstract!Made, Out
<1> QED BY <1>2, <1>6 DEF Abstract!Next

\* publish() opens a draft, a lease that lapses changes no outcome.
LEMMA RowRefines ==
    ASSUME IndInv, NEW d \in Drafts, Publish(d) \/ Lapse(d)
    PROVE  Abstract!Next
<1>1. effects' = effects /\ outbox[d] \in RowType
    BY DEF Publish, Lapse, frappe, IndInv
<1>2. CASE Publish(d)
    <2>1. /\ outbox[d].status = "absent" /\ outbox'[d].status = "pending"
          /\ \A c \in Drafts : c # d => outbox'[c] = outbox[c]
        BY <1>1, <1>2 DEF Publish, Stored, IndInv, RowType
    <2>2. Outcome(d) = "none" /\ Outcome(d)' = "open"
        BY <2>1 DEF Outcome, OpenStates, Stored
    <2>3. \A c \in Drafts : c # d => Outcome(c)' = Outcome(c)
        BY <2>1 DEF Outcome, Stored
    <2>4. Out' = [Out EXCEPT ![d] = "open"] /\ Out[d] = "none"
        BY <2>2, <2>3 DEF Out
    <2>5. Abstract!Accept(d)
        BY <1>1, <2>4 DEF Abstract!Accept, Out
    <2> QED BY <2>5 DEF Abstract!Next
<1>3. CASE Lapse(d)
    <2>1. \A c \in Drafts : outbox'[c].status = outbox[c].status
        BY <1>1, <1>3 DEF Lapse, IndInv, RowType
    <2> QED BY <1>1, <2>1, GivesUp, {} \in SUBSET Drafts
<1> QED BY <1>2, <1>3

\* The queue, its workers and Frappe implement DraftOnce: a draft becomes at
\* most one document, and succeeds only after it.
THEOREM PromiseKept == Spec => KeepsPromise
<1>1. Init => Abstract!Init
    BY DEF Init, Abstract!Init, Outcome, NoRow, OpenStates, Stored
<1>2. IndInv /\ [Next]_vars => [Abstract!Next]_<<effects, Out>>
    <2> SUFFICES ASSUME IndInv, [Next]_vars
                 PROVE  Abstract!Next \/ UNCHANGED <<effects, Out>>
        OBVIOUS
    <2>1. ASSUME UNCHANGED <<outbox, effects>>
          PROVE  UNCHANGED <<effects, Out>>
        BY <2>1 DEF Out, Outcome, Stored
    <2>2. ASSUME NEW w \in Workers,
                 \/ ClaimAborts(w) \/ Lost(w) \/ GiveUp(w) \/ Send(w)
                 \/ Crash(w) \/ Restart(w)
          PROVE  UNCHANGED <<effects, Out>>
        BY <2>1, <2>2 DEF ClaimAborts, Lost, GiveUp, Send, Crash, Restart, frappe
    <2>3. ASSUME NEW r \in requests, Load(r) \/ Replay(r) \/ Refuse(r)
          PROVE  UNCHANGED <<effects, Out>>
        BY <2>1, <2>3 DEF Load, Replay, Refuse, frappe
    <2>4. CASE UNCHANGED vars
        BY <2>1, <2>4 DEF vars
    <2> QED BY <2>2, <2>3, <2>4, ClaimRefines, HolderRefines, ExecuteRefines, RowRefines
            DEF Next, Run
<1> QED BY <1>1, <1>2, Invariance, PTL DEF Spec, KeepsPromise, Abstract!Spec, Out
=============================================================================
