------------------------ MODULE MaterializationProofs ------------------------
(***************************************************************************)
(* What materialization guarantees for every number of workers, proposals, *)
(* attempts and contexts, however requests and replies are delayed or lost.*)
(***************************************************************************)
EXTENDS Materialization, TLAPS

\* Frappe commits a document and its Integration Request together.
AuditIsEffect ==
    /\ \A m \in Mats : audit[m] # None =>
          [mat |-> m, name |-> audit[m].name, digest |-> audit[m].digest] \in effects
    /\ \A e \in effects : /\ audit[e.mat] # None
                          /\ audit[e.mat].name = e.name
                          /\ audit[e.mat].digest = e.digest

\* What a busy worker remembers; a receipt that it is about to acknowledge is
\* the one that Frappe stored.
Good(l) ==
    l.pc \notin {"idle", "down"} =>
        /\ l.mat \in Mats
        /\ Stored(l.mat)
        /\ l.pc \in {"resolved", "sending", "waiting"} => l.digest \in Digests
        /\ l.pc = "acking" => l.receipt = audit[l.mat] /\ audit[l.mat] # None

\* The same of a memory l in the state that a step leads to.
GoodAfter(l) ==
    l.pc \notin {"idle", "down"} =>
        /\ l.mat \in Mats
        /\ outbox'[l.mat].status # "absent"
        /\ l.pc \in {"resolved", "sending", "waiting"} => l.digest \in Digests
        /\ l.pc = "acking" => l.receipt = audit'[l.mat] /\ audit'[l.mat] # None

LocalsOK == \A p \in Workers : Good(local[p])

RequestOK(r) == Stored(r.mat) /\ (r.found = "stored" => audit[r.mat] # None)

RequestsOK == \A r \in requests : RequestOK(r)

\* The receipt of a succeeded row is the one that Frappe stored.
ReceiptsOK ==
    \A m \in Mats : outbox[m].status = "succeeded" => outbox[m].receipt = audit[m]

\* The inductive invariant.
IndInv ==
    /\ TypesOK
    /\ RowChecks
    /\ AuditIsEffect
    /\ LocalsOK
    /\ RequestsOK
    /\ ReceiptsOK

\* Rows do not disappear and Integration Requests do not change.
Grows ==
    /\ \A m \in Mats : Stored(m) => Stored(m)'
    /\ \A m \in Mats : audit[m] # None => audit'[m] = audit[m]

\* Requests stay right while those grow.
LEMMA RequestsKept ==
    ASSUME IndInv, Grows, requests' \subseteq requests
    PROVE  RequestsOK' /\ requests' \subseteq RequestType
<1>1. \A r \in requests : r \in RequestType /\ r.mat \in Mats
    BY DEF IndInv, TypesOK, RequestType
<1> QED BY <1>1 DEF Grows, IndInv, RequestsOK, RequestOK

\* One worker changes what it remembers, or none does.
LEMMA OneLocal ==
    ASSUME IndInv, Grows, NEW p \in Workers, NEW l \in LocalType, GoodAfter(l),
           local' = [local EXCEPT ![p] = l]
    PROVE  local' \in [Workers -> LocalType] /\ LocalsOK'
<1>1. local' \in [Workers -> LocalType]
    BY DEF IndInv, TypesOK
<1>2. ASSUME NEW q \in Workers
      PROVE  Good(local[q])'
    <2>1. CASE q = p
        BY <2>1 DEF IndInv, TypesOK, Good, GoodAfter, Stored
    <2>2. CASE q # p
        <3>1. local'[q] = local[q]
            BY <2>2 DEF IndInv, TypesOK
        <3>2. Good(local[q])
            BY DEF IndInv, LocalsOK
        <3> QED BY <3>1, <3>2 DEF Good, Grows
    <2> QED BY <2>1, <2>2
<1> QED BY <1>1, <1>2 DEF LocalsOK

\* No worker changes what it remembers.
LEMMA SameLocal ==
    ASSUME IndInv, Grows, local' = local
    PROVE  local' \in [Workers -> LocalType] /\ LocalsOK'
<1>1. ASSUME NEW q \in Workers
      PROVE  Good(local[q])'
    BY DEF IndInv, LocalsOK, Good, Grows
<1> QED BY <1>1 DEF IndInv, TypesOK, LocalsOK

\* A worker forgets its claim.
LEMMA Forget ==
    ASSUME IndInv, Grows, NEW p \in Workers,
           local' = [local EXCEPT ![p] = Idle] \/ local' = [local EXCEPT ![p] = Down]
    PROVE  local' \in [Workers -> LocalType] /\ LocalsOK'
<1>1. /\ Idle \in LocalType /\ Down \in LocalType
      /\ Idle.pc = "idle" /\ Down.pc = "down"
    BY DEF Idle, Down, LocalType
<1>2. GoodAfter(Idle) /\ GoodAfter(Down)
    BY <1>1 DEF GoodAfter
<1> QED BY <1>1, <1>2, OneLocal

\* A step that leaves the tables alone.
LEMMA TablesKept ==
    ASSUME IndInv, UNCHANGED <<outbox, frappe, context>>, clock' \in Nat,
           requests' \subseteq RequestType, RequestsOK',
           local' \in [Workers -> LocalType], LocalsOK'
    PROVE  IndInv'
<1>1. UNCHANGED <<outbox, audit, effects, draft, context>>
    BY DEF frappe
<1>2. TypesOK'
    BY <1>1 DEF IndInv, TypesOK
<1>3. RowChecks' /\ AuditIsEffect' /\ ReceiptsOK'
    BY <1>1 DEF IndInv, RowChecks, AuditIsEffect, ReceiptsOK
<1> QED BY <1>2, <1>3 DEF IndInv

\* A worker that is busy.
LEMMA BusyWorker ==
    ASSUME IndInv, NEW p \in Workers, Active(p)
    PROVE  /\ local[p] \in LocalType
           /\ Good(local[p])
           /\ local[p].mat \in Mats
           /\ Stored(local[p].mat)
           /\ outbox[local[p].mat] \in RowType
           /\ local[p].attempt \in Nat
<1>1. local[p] \in LocalType /\ Good(local[p])
    BY DEF IndInv, TypesOK, LocalsOK
<1>2. local[p].mat \in Mats /\ Stored(local[p].mat)
    BY <1>1 DEF Good, Active
<1>3. local[p].attempt \in Nat
    BY <1>1 DEF LocalType
<1> QED BY <1>1, <1>2, <1>3 DEF IndInv, TypesOK

\* Initial states.
LEMMA InitInv == Init => IndInv
<1> SUFFICES ASSUME Init PROVE IndInv
    OBVIOUS
<1>1. TypesOK
    <2>1. NoRow \in RowType /\ Idle \in LocalType
        BY DEF NoRow, RowType, Idle, LocalType
    <2>2. draft \in [Docs -> DraftType] /\ context \in [Mats -> ContextType]
        BY DEF Init, DraftType, ContextType
    <2> QED BY <2>1, <2>2 DEF Init, TypesOK
<1>2. RowChecks /\ ReceiptsOK
    BY NumberAssumption DEF Init, RowChecks, ReceiptsOK, NoRow
<1>3. AuditIsEffect /\ RequestsOK
    BY DEF Init, AuditIsEffect, RequestsOK
<1>4. LocalsOK
    BY DEF Init, LocalsOK, Good, Idle
<1> QED BY <1>1, <1>2, <1>3, <1>4 DEF IndInv

\* Steps in which one worker alone changes what it remembers.
LEMMA LocalSteps ==
    ASSUME IndInv, NEW p \in Workers,
           ClaimAborts(p) \/ Resolve(p) \/ GiveUp(p) \/ Crash(p) \/ Restart(p)
    PROVE  IndInv'
<1>1. UNCHANGED <<clock, outbox, requests, frappe, context>>
    BY DEF ClaimAborts, Resolve, GiveUp, Crash, Restart
<1>2. Grows /\ clock' \in Nat
    BY <1>1 DEF Grows, Stored, frappe, IndInv, TypesOK
<1>3. RequestsOK' /\ requests' \subseteq RequestType
    BY <1>1, <1>2, RequestsKept
<1>4. CASE ClaimAborts(p) \/ Crash(p) \/ Restart(p)
    <2>1. local' \in [Workers -> LocalType] /\ LocalsOK'
        BY <1>2, <1>4, Forget DEF ClaimAborts, Crash, Restart, Return
    <2> QED BY <1>1, <1>2, <1>3, <2>1, TablesKept
<1>5. CASE Resolve(p)
    <2> DEFINE m == local[p].mat
               d == IF Kind[m] = "submit" THEN "submit" ELSE context[m].value
               l == [local[p] EXCEPT !.pc = "resolved", !.digest = d]
    <2>1. Active(p) /\ local[p].pc = "resolving"
        BY <1>5 DEF Resolve, Active
    <2>2. /\ local[p] \in LocalType /\ m \in Mats /\ Stored(m)
        BY <2>1, BusyWorker
    <2>3. d \in Digests
        BY <2>2 DEF Digests, IndInv, TypesOK, ContextType
    <2>4. local' = [local EXCEPT ![p] = l]
        BY <1>5 DEF Resolve, IndInv, TypesOK
    <2> HIDE DEF d
    <2>5. l \in LocalType /\ l.pc = "resolved" /\ l.mat = m /\ l.digest = d
        BY <2>2, <2>3 DEF LocalType
    <2> HIDE DEF l
    <2>6. GoodAfter(l)
        BY <1>2, <2>2, <2>3, <2>5 DEF GoodAfter, Grows, Stored
    <2>7. local' \in [Workers -> LocalType] /\ LocalsOK'
        BY <1>2, <2>4, <2>5, <2>6, OneLocal
    <2> QED BY <1>1, <1>2, <1>3, <2>7, TablesKept
<1>6. CASE GiveUp(p)
    <2> DEFINE l == [local[p] EXCEPT !.pc = "failing"]
    <2>1. Active(p)
        BY <1>6 DEF GiveUp, Active
    <2>2. local[p] \in LocalType /\ local[p].mat \in Mats /\ Stored(local[p].mat)
        BY <2>1, BusyWorker
    <2>3. local' = [local EXCEPT ![p] = l]
        BY <1>6 DEF GiveUp, IndInv, TypesOK
    <2>4. l \in LocalType /\ l.pc = "failing" /\ l.mat = local[p].mat
        BY <2>2 DEF LocalType
    <2> HIDE DEF l
    <2>5. GoodAfter(l)
        BY <1>2, <2>2, <2>4 DEF GoodAfter, Grows, Stored
    <2>6. local' \in [Workers -> LocalType] /\ LocalsOK'
        BY <1>2, <2>3, <2>4, <2>5, OneLocal
    <2> QED BY <1>1, <1>2, <1>3, <2>6, TablesKept
<1> QED BY <1>4, <1>5, <1>6
-----------------------------------------------------------------------------
(* Steps that write the outbox *)

\* proposal_materialization_outbox_state_check, and what a new row r of
\* materialization m must be like.
RowFine(r) ==
    /\ r.attempt <= MaxAttempts
    /\ r.status = "running" <=> r.owner # None
    /\ r.status = "running" => r.attempt >= 1
    /\ r.status = "succeeded" <=> r.receipt # None

RowMay(m, r) ==
    /\ r \in RowType
    /\ RowFine(r)
    /\ Stored(m) => r.status # "absent"
    /\ r.status = "succeeded" => r.receipt = audit[m]

\* Every row as it is may stay.
LEMMA RowsMay ==
    ASSUME IndInv, NEW m \in Mats
    PROVE  RowMay(m, outbox[m])
    BY DEF IndInv, TypesOK, RowChecks, ReceiptsOK, RowMay, RowFine, Stored

\* A step whose new rows are all like that.
LEMMA OutboxGrows ==
    ASSUME IndInv, UNCHANGED frappe, \A m \in Mats : RowMay(m, outbox'[m])
    PROVE  Grows
    BY DEF Grows, RowMay, Stored, frappe

\* Such a step, with what the workers remember, keeps the invariant.
LEMMA OutboxStep ==
    ASSUME IndInv, UNCHANGED <<clock, requests, frappe, context>>,
           outbox' \in [Mats -> RowType], \A m \in Mats : RowMay(m, outbox'[m]),
           local' \in [Workers -> LocalType], LocalsOK'
    PROVE  IndInv'
<1>1. Grows
    BY OutboxGrows
<1>2. RequestsOK' /\ requests' \subseteq RequestType
    BY <1>1, RequestsKept
<1>3. UNCHANGED <<clock, audit, effects, draft, context>>
    BY DEF frappe
<1>4. TypesOK'
    BY <1>2, <1>3 DEF IndInv, TypesOK
<1>5. RowChecks' /\ ReceiptsOK'
    BY <1>3 DEF RowMay, RowFine, RowChecks, ReceiptsOK
<1>6. AuditIsEffect'
    BY <1>3 DEF IndInv, AuditIsEffect
<1> QED BY <1>2, <1>4, <1>5, <1>6 DEF IndInv

\* One row is rewritten.
LEMMA OneRow ==
    ASSUME IndInv, NEW m \in Mats, NEW r, RowMay(m, r),
           outbox' = [outbox EXCEPT ![m] = r]
    PROVE  outbox' \in [Mats -> RowType] /\ \A n \in Mats : RowMay(n, outbox'[n])
<1>1. r \in RowType
    BY DEF RowMay
<1>2. /\ outbox' \in [Mats -> RowType] /\ outbox'[m] = r
      /\ \A n \in Mats : n # m => outbox'[n] = outbox[n]
    BY <1>1 DEF IndInv, TypesOK
<1>3. ASSUME NEW n \in Mats
      PROVE  RowMay(n, outbox'[n])
    BY <1>2, RowsMay
<1> QED BY <1>2, <1>3

\* The row of a lease that ends without a receipt.
LEMMA EndedRow ==
    ASSUME IndInv, NEW m \in Mats, outbox[m].status = "running", NEW t \in Nat,
           NEW status \in {"retry", "dead_letter"}
    PROVE  /\ RowMay(m, Ended(outbox[m], status, t))
           /\ Ended(outbox[m], status, t).status = status
<1> DEFINE r == Ended(outbox[m], status, t)
<1>1. /\ outbox[m] \in RowType /\ outbox[m].receipt = None
      /\ outbox[m].attempt <= MaxAttempts
    BY DEF IndInv, TypesOK, RowChecks
<1>2. /\ r \in RowType /\ r.status = status /\ r.owner = None
      /\ r.attempt = outbox[m].attempt /\ r.receipt = outbox[m].receipt
    BY <1>1 DEF Ended, RowType, DueStates, FinalStates
<1> HIDE DEF r
<1> QED BY <1>1, <1>2 DEF RowMay, RowFine, r

\* What _reap does is to end leases.
LEMMA ReapedRows ==
    ASSUME IndInv, NEW t \in Nat
    PROVE  /\ Reaped(t) \in [Mats -> RowType]
           /\ \A m \in Mats : RowMay(m, Reaped(t)[m])
           /\ \A m \in Mats : outbox[m].attempt < MaxAttempts => Reaped(t)[m] = outbox[m]
<1>1. ASSUME NEW m \in Mats
      PROVE  RowMay(m, Reaped(t)[m])
    <2>1. CASE m \in Reapable(t)
        <3>1. outbox[m].status = "running" /\ Reaped(t)[m] = Ended(outbox[m], "dead_letter", t)
            BY <2>1 DEF Reapable, Expired, Reaped
        <3> QED BY <3>1, EndedRow
    <2>2. CASE m \notin Reapable(t)
        BY <2>2, RowsMay DEF Reaped
    <2> QED BY <2>1, <2>2
<1>2. \A m \in Mats : Reaped(t)[m] \in RowType
    BY <1>1 DEF RowMay
<1>3. Reaped(t) = [m \in Mats |-> Reaped(t)[m]]
    BY DEF Reaped
<1>4. Reaped(t) \in [Mats -> RowType]
    BY <1>2, <1>3
<1>5. ASSUME NEW m \in Mats, outbox[m].attempt < MaxAttempts
      PROVE  Reaped(t)[m] = outbox[m]
    <2>1. outbox[m].attempt \in Nat
        BY DEF IndInv, TypesOK, RowType
    <2>2. m \notin Reapable(t)
        BY <1>5, <2>1, NumberAssumption DEF Reapable
    <2> QED BY <2>2 DEF Reaped
<1> QED BY <1>1, <1>4, <1>5

\* Clock readings are numbers.
LEMMA ReadingsNat ==
    ASSUME IndInv, NEW t \in Readings
    PROVE  t \in Nat /\ t + Lease \in Nat /\ t + RetryDelay \in Nat
    BY NumberAssumption DEF Readings, IndInv, TypesOK

\* Insert
LEMMA InsertStep ==
    ASSUME IndInv, NEW m \in Mats, Insert(m)
    PROVE  IndInv'
<1> DEFINE r == [NoRow EXCEPT !.status = "pending", !.due = clock,
                              !.created = clock, !.updated = clock]
<1>1. UNCHANGED <<clock, local, requests, frappe, context>>
    BY DEF Insert
<1>2. outbox' = [outbox EXCEPT ![m] = r]
    BY DEF Insert
<1>3. clock \in Nat
    BY DEF IndInv, TypesOK
<1>4. /\ r \in RowType /\ r.status = "pending" /\ r.owner = None
      /\ r.attempt = 0 /\ r.receipt = None
    BY <1>3 DEF NoRow, RowType, DueStates
<1> HIDE DEF r
<1>5. RowMay(m, r)
    BY <1>4, NumberAssumption DEF RowMay, RowFine
<1>6. outbox' \in [Mats -> RowType] /\ \A n \in Mats : RowMay(n, outbox'[n])
    BY <1>2, <1>5, OneRow
<1>7. local' \in [Workers -> LocalType] /\ LocalsOK'
    BY <1>1, <1>6, OutboxGrows, SameLocal
<1> QED BY <1>1, <1>6, <1>7, OutboxStep

\* claim_materialization
LEMMA ClaimSteps ==
    ASSUME IndInv, NEW p \in Workers, ClaimNone(p) \/ Claim(p)
    PROVE  IndInv'
<1>1. CASE ClaimNone(p)
    <2>1. UNCHANGED <<clock, local, requests, frappe, context>>
        BY <1>1 DEF ClaimNone
    <2>2. PICK t \in Readings : outbox' = Reaped(t)
        BY <1>1 DEF ClaimNone
    <2>3. outbox' \in [Mats -> RowType] /\ \A n \in Mats : RowMay(n, outbox'[n])
        BY <2>2, ReadingsNat, ReapedRows
    <2>4. local' \in [Workers -> LocalType] /\ LocalsOK'
        BY <2>1, <2>3, OutboxGrows, SameLocal
    <2> QED BY <2>1, <2>3, <2>4, OutboxStep
<1>2. CASE Claim(p)
    <2>1. UNCHANGED <<clock, requests, frappe, context>>
        BY <1>2 DEF Claim
    <2>2. PICK t \in Readings, locked \in LockSets(p) :
             \E m \in Candidate(t, locked) \cap Readable :
                /\ outbox' = [Reaped(t) EXCEPT ![m] = Taken(p, m, t)]
                /\ local' = [local EXCEPT ![p] =
                      [Idle EXCEPT !.pc = "claimed", !.mat = m,
                                   !.attempt = outbox[m].attempt + 1]]
        BY <1>2 DEF Claim
    <2>3. PICK m \in Candidate(t, locked) :
                /\ outbox' = [Reaped(t) EXCEPT ![m] = Taken(p, m, t)]
                /\ local' = [local EXCEPT ![p] =
                      [Idle EXCEPT !.pc = "claimed", !.mat = m,
                                   !.attempt = outbox[m].attempt + 1]]
        BY <2>2
    <2> DEFINE r == Taken(p, m, t)
               l == [Idle EXCEPT !.pc = "claimed", !.mat = m,
                                 !.attempt = outbox[m].attempt + 1]
    <2>4. /\ m \in Mats /\ outbox[m].attempt < MaxAttempts
          /\ outbox[m].status \in DueStates \cup {"running"}
        BY DEF Candidate, Claimable, Expired
    <2>5. /\ outbox[m] \in RowType /\ outbox[m].attempt \in Nat
          /\ outbox[m].receipt = None
        BY <2>4 DEF IndInv, TypesOK, RowChecks, RowType, DueStates
    <2>6. /\ WorkerId[p] \in {WorkerId[q] : q \in Workers} \cup {None}
          /\ WorkerId[p] # None
        BY WorkerAssumption
    <2>7. /\ r \in RowType /\ r.status = "running" /\ r.owner # None
          /\ r.attempt = outbox[m].attempt + 1 /\ r.receipt = None
        <3>1. t \in Nat /\ t + Lease \in Nat /\ outbox[m].attempt + 1 \in Nat
            BY <2>5, ReadingsNat
        <3> QED BY <2>5, <2>6, <3>1 DEF Taken, RowType
    <2>8. l \in LocalType /\ l.pc = "claimed" /\ l.mat = m
        <3>1. outbox[m].attempt + 1 \in Nat
            BY <2>5
        <3> QED BY <2>4, <3>1 DEF Idle, LocalType
    <2>9. outbox' = [Reaped(t) EXCEPT ![m] = r] /\ local' = [local EXCEPT ![p] = l]
        BY <2>3
    <2> HIDE DEF r, l
    <2>10. RowMay(m, r)
        BY <2>4, <2>5, <2>7, NumberAssumption DEF RowMay, RowFine
    <2>11. Reaped(t) \in [Mats -> RowType] /\ \A n \in Mats : RowMay(n, Reaped(t)[n])
        BY ReadingsNat, ReapedRows
    <2>12. /\ outbox' \in [Mats -> RowType] /\ outbox'[m] = r
           /\ \A n \in Mats : n # m => outbox'[n] = Reaped(t)[n]
        BY <2>4, <2>7, <2>9, <2>11
    <2>13. \A n \in Mats : RowMay(n, outbox'[n])
        BY <2>10, <2>11, <2>12
    <2>14. Grows
        BY <2>1, <2>13, OutboxGrows
    <2>15. GoodAfter(l)
        BY <2>4, <2>7, <2>8, <2>12 DEF GoodAfter
    <2>16. local' \in [Workers -> LocalType] /\ LocalsOK'
        BY <2>8, <2>9, <2>14, <2>15, OneLocal
    <2> QED BY <2>1, <2>12, <2>13, <2>16, OutboxStep
<1> QED BY <1>1, <1>2
\* heartbeat_materialization
LEMMA HeartbeatStep ==
    ASSUME IndInv, NEW p \in Workers, Heartbeat(p)
    PROVE  IndInv'
<1> DEFINE m == local[p].mat
<1>1. Active(p)
    BY DEF Heartbeat, Active
<1>2. /\ local[p] \in LocalType /\ Good(local[p]) /\ m \in Mats /\ Stored(m)
      /\ outbox[m] \in RowType
    BY <1>1, BusyWorker
<1>3. UNCHANGED <<clock, requests, frappe, context>>
    BY DEF Heartbeat
<1>4. CASE Return(p) /\ UNCHANGED outbox
    <2>1. Grows /\ clock' \in Nat
        BY <1>3, <1>4 DEF Grows, Stored, frappe, IndInv, TypesOK
    <2>2. local' \in [Workers -> LocalType] /\ LocalsOK'
        BY <1>4, <2>1, Forget DEF Return
    <2> QED BY <1>3, <1>4, <2>1, <2>2, RequestsKept, TablesKept
<1>5. ASSUME NEW t \in Readings, Holds(p, t),
             outbox' = [outbox EXCEPT ![m] = Renewed(@, t)],
             local' = [local EXCEPT
                ![p].pc = IF @ = "claimed" THEN "resolving" ELSE "sending"]
      PROVE  IndInv'
    <2> DEFINE r == Renewed(outbox[m], t)
               pc == IF local[p].pc = "claimed" THEN "resolving" ELSE "sending"
               l == [local[p] EXCEPT !.pc = pc]
    <2>1. t \in Nat /\ t + Lease \in Nat
        BY ReadingsNat
    <2>2. outbox[m].status = "running"
        BY <1>5 DEF Holds
    <2>3. /\ r \in RowType /\ r.status = outbox[m].status /\ r.owner = outbox[m].owner
          /\ r.attempt = outbox[m].attempt /\ r.receipt = outbox[m].receipt
        BY <1>2, <2>1 DEF Renewed, RowType
    <2>4. outbox' = [outbox EXCEPT ![m] = r]
        BY <1>5
    <2>5. local' = [local EXCEPT ![p] = l]
        BY <1>5 DEF IndInv, TypesOK
    <2>6. l \in LocalType /\ l.pc = pc /\ l.mat = m /\ l.digest = local[p].digest
        BY <1>2 DEF LocalType
    <2>7. pc = "sending" => local[p].pc = "resolved"
        BY DEF Heartbeat
    <2>8. pc \in {"resolving", "sending"}
        OBVIOUS
    <2> HIDE DEF r, l, pc
    <2>9. RowMay(m, r)
        BY <1>2, <2>2, <2>3, RowsMay DEF RowMay, RowFine
    <2>10. outbox' \in [Mats -> RowType] /\ \A n \in Mats : RowMay(n, outbox'[n])
        BY <1>2, <2>4, <2>9, OneRow
    <2>11. Grows
        BY <1>3, <2>10, OutboxGrows
    <2>12. GoodAfter(l)
        BY <1>2, <2>6, <2>7, <2>8, <2>11 DEF GoodAfter, Good, Grows, Stored
    <2>13. local' \in [Workers -> LocalType] /\ LocalsOK'
        BY <2>5, <2>6, <2>11, <2>12, OneLocal
    <2> QED BY <1>3, <2>10, <2>13, OutboxStep
<1> QED BY <1>4, <1>5 DEF Heartbeat

\* acknowledge_materialization: the receipt is the one Frappe stored.
LEMMA AcknowledgeStep ==
    ASSUME IndInv, NEW p \in Workers, Acknowledge(p)
    PROVE  IndInv'
<1> DEFINE m == local[p].mat
<1>1. Active(p)
    BY DEF Acknowledge, Active
<1>2. /\ local[p] \in LocalType /\ m \in Mats /\ outbox[m] \in RowType
      /\ local[p].receipt = audit[m] /\ audit[m] # None /\ audit[m] \in ReceiptType
    <2>1. local[p].pc = "acking"
        BY DEF Acknowledge
    <2>2. local[p] \in LocalType /\ m \in Mats /\ outbox[m] \in RowType /\ Good(local[p])
        BY <1>1, BusyWorker
    <2>3. local[p].receipt = audit[m] /\ audit[m] # None
        BY <2>1, <2>2 DEF Good
    <2> QED BY <2>2, <2>3 DEF IndInv, TypesOK
<1>3. UNCHANGED <<clock, requests, frappe, context>> /\ Return(p)
    BY DEF Acknowledge
<1>4. CASE UNCHANGED outbox
    <2>1. Grows /\ clock' \in Nat
        BY <1>3, <1>4 DEF Grows, Stored, frappe, IndInv, TypesOK
    <2>2. local' \in [Workers -> LocalType] /\ LocalsOK'
        BY <1>3, <2>1, Forget DEF Return
    <2> QED BY <1>3, <1>4, <2>1, <2>2, RequestsKept, TablesKept
<1>5. ASSUME NEW t \in Readings, Holds(p, t),
             outbox' = [outbox EXCEPT ![m] = [Ended(@, "succeeded", t) EXCEPT
                                                 !.receipt = local[p].receipt]]
      PROVE  IndInv'
    <2> DEFINE e == Ended(outbox[m], "succeeded", t)
               r == [e EXCEPT !.receipt = local[p].receipt]
    <2>1. t \in Nat
        BY ReadingsNat
    <2>2. /\ e \in RowType /\ e.status = "succeeded" /\ e.owner = None
          /\ e.attempt = outbox[m].attempt
        BY <1>2, <2>1 DEF Ended, RowType, FinalStates
    <2>3. outbox' = [outbox EXCEPT ![m] = r]
        BY <1>5
    <2> HIDE DEF e
    <2>4. /\ r \in RowType /\ r.status = "succeeded" /\ r.owner = None
          /\ r.attempt = outbox[m].attempt /\ r.receipt = audit[m]
        BY <1>2, <2>2 DEF RowType
    <2> HIDE DEF r
    <2>5. RowMay(m, r)
        BY <1>2, <2>4, RowsMay DEF RowMay, RowFine
    <2>6. outbox' \in [Mats -> RowType] /\ \A n \in Mats : RowMay(n, outbox'[n])
        BY <1>2, <2>3, <2>5, OneRow
    <2>7. local' \in [Workers -> LocalType] /\ LocalsOK'
        BY <1>3, <2>6, OutboxGrows, Forget DEF Return
    <2> QED BY <1>3, <2>6, <2>7, OutboxStep
<1> QED BY <1>4, <1>5 DEF Acknowledge

\* fail_materialization
LEMMA FailStep ==
    ASSUME IndInv, NEW p \in Workers, Fail(p)
    PROVE  IndInv'
<1> DEFINE m == local[p].mat
<1>1. Active(p)
    BY DEF Fail, Active
<1>2. m \in Mats /\ outbox[m] \in RowType
    BY <1>1, BusyWorker
<1>3. UNCHANGED <<clock, requests, frappe, context>> /\ Return(p)
    BY DEF Fail
<1>4. CASE UNCHANGED outbox
    <2>1. Grows /\ clock' \in Nat
        BY <1>3, <1>4 DEF Grows, Stored, frappe, IndInv, TypesOK
    <2>2. local' \in [Workers -> LocalType] /\ LocalsOK'
        BY <1>3, <2>1, Forget DEF Return
    <2> QED BY <1>3, <1>4, <2>1, <2>2, RequestsKept, TablesKept
<1>5. ASSUME NEW t \in Readings, Holds(p, t),
             outbox' = [outbox EXCEPT ![m] = FailedRow(m, t)]
      PROVE  IndInv'
    <2> DEFINE st == IF outbox[m].attempt >= MaxAttempts THEN "dead_letter" ELSE "retry"
               e == Ended(outbox[m], st, t)
               r == [e EXCEPT !.due = t + RetryDelay]
    <2>1. t \in Nat /\ t + RetryDelay \in Nat /\ outbox[m].status = "running"
        BY <1>5, ReadingsNat DEF Holds
    <2>2. outbox' = [outbox EXCEPT ![m] = r]
        BY <1>5 DEF FailedRow
    <2>3. st \in {"retry", "dead_letter"}
        OBVIOUS
    <2> HIDE DEF st
    <2>4. RowMay(m, e) /\ e.status = st
        BY <1>2, <2>1, <2>3, EndedRow
    <2> HIDE DEF e
    <2>5. e \in RowType
        BY <2>4 DEF RowMay
    <2>6. /\ r \in RowType /\ r.status = e.status /\ r.owner = e.owner
          /\ r.attempt = e.attempt /\ r.receipt = e.receipt
        BY <2>1, <2>5 DEF RowType
    <2> HIDE DEF r
    <2>7. RowMay(m, r)
        BY <2>4, <2>6 DEF RowMay, RowFine
    <2>8. outbox' \in [Mats -> RowType] /\ \A n \in Mats : RowMay(n, outbox'[n])
        BY <1>2, <2>2, <2>7, OneRow
    <2>9. local' \in [Workers -> LocalType] /\ LocalsOK'
        BY <1>3, <2>8, OutboxGrows, Forget DEF Return
    <2> QED BY <1>3, <2>8, <2>9, OutboxStep
<1> QED BY <1>4, <1>5 DEF Fail

-----------------------------------------------------------------------------
(* Requests *)

\* Send
LEMMA SendStep ==
    ASSUME IndInv, NEW p \in Workers, Send(p)
    PROVE  IndInv'
<1> DEFINE r == [mat |-> local[p].mat, attempt |-> local[p].attempt,
                 digest |-> local[p].digest, found |-> "unread", seen |-> None]
           l == [local[p] EXCEPT !.pc = "waiting"]
<1>1. Active(p) /\ local[p].pc = "sending"
    BY DEF Send, Active
<1>2. /\ local[p] \in LocalType /\ Good(local[p]) /\ local[p].mat \in Mats
      /\ Stored(local[p].mat) /\ local[p].attempt \in Nat
    BY <1>1, BusyWorker
<1>3. local[p].digest \in Digests
    BY <1>1, <1>2 DEF Good
<1>4. UNCHANGED <<clock, outbox, frappe, context>> /\ requests' = requests \cup {r}
    BY DEF Send
<1>5. Grows /\ clock' \in Nat
    BY <1>4 DEF Grows, Stored, frappe, IndInv, TypesOK
<1>6. r \in RequestType /\ r.mat = local[p].mat /\ r.found = "unread"
    BY <1>2, <1>3 DEF RequestType
<1>7. local' = [local EXCEPT ![p] = l]
    BY DEF Send, IndInv, TypesOK
<1>8. l \in LocalType /\ l.pc = "waiting" /\ l.mat = local[p].mat /\ l.digest = local[p].digest
    BY <1>2 DEF LocalType
<1> HIDE DEF r, l
<1>9. \A q \in requests : q \in RequestType /\ q.mat \in Mats /\ RequestOK(q)
    BY DEF IndInv, TypesOK, RequestsOK, RequestType
<1>10. UNCHANGED audit
    BY <1>4 DEF frappe
<1>11. RequestsOK' /\ requests' \subseteq RequestType
    BY <1>2, <1>4, <1>6, <1>9, <1>10 DEF RequestsOK, RequestOK, Stored
<1>12. GoodAfter(l)
    BY <1>2, <1>3, <1>5, <1>8 DEF GoodAfter, Grows, Stored
<1>13. local' \in [Workers -> LocalType] /\ LocalsOK'
    BY <1>5, <1>7, <1>8, <1>12, OneLocal
<1> QED BY <1>4, <1>5, <1>11, <1>13, TablesKept
\* The worker that gets an answer remembers a receipt only if Frappe stored it.
LEMMA Answered ==
    ASSUME IndInv, Grows, NEW r \in requests, NEW receipt, Answer(r, receipt),
           receipt # None => receipt \in ReceiptType /\ receipt = audit'[r.mat]
    PROVE  local' \in [Workers -> LocalType] /\ LocalsOK'
<1>1. CASE UNCHANGED local
    BY <1>1, SameLocal
<1>2. ASSUME NEW p \in Workers, local[p].pc = "waiting", local[p].mat = r.mat,
             \/ /\ receipt # None
                /\ local' = [local EXCEPT ![p].pc = "acking", ![p].receipt = receipt]
             \/ local' = [local EXCEPT ![p].pc = "failing"]
      PROVE  local' \in [Workers -> LocalType] /\ LocalsOK'
    <2> DEFINE a == [local[p] EXCEPT !.pc = "acking", !.receipt = receipt]
               f == [local[p] EXCEPT !.pc = "failing"]
    <2>1. Active(p)
        BY <1>2 DEF Active
    <2>2. local[p] \in LocalType /\ local[p].mat \in Mats /\ Stored(local[p].mat)
        BY <2>1, BusyWorker
    <2>3. CASE receipt # None /\ local' = [local EXCEPT ![p].pc = "acking", ![p].receipt = receipt]
        <3>1. a \in LocalType /\ a.pc = "acking" /\ a.mat = r.mat /\ a.receipt = receipt
            BY <1>2, <2>2, <2>3 DEF LocalType
        <3>2. local' = [local EXCEPT ![p] = a]
            BY <2>3 DEF IndInv, TypesOK
        <3> HIDE DEF a
        <3>3. GoodAfter(a)
            BY <1>2, <2>2, <2>3, <3>1 DEF GoodAfter, Grows, Stored
        <3> QED BY <3>1, <3>2, <3>3, OneLocal
    <2>4. CASE local' = [local EXCEPT ![p].pc = "failing"]
        <3>1. f \in LocalType /\ f.pc = "failing" /\ f.mat = local[p].mat
            BY <2>2 DEF LocalType
        <3>2. local' = [local EXCEPT ![p] = f]
            BY <2>4 DEF IndInv, TypesOK
        <3> HIDE DEF f
        <3>3. GoodAfter(f)
            BY <2>2, <3>1 DEF GoodAfter, Grows, Stored
        <3> QED BY <3>1, <3>2, <3>3, OneLocal
    <2> QED BY <1>2, <2>3, <2>4
<1> QED BY <1>1, <1>2 DEF Answer

\* Requests that Frappe answers without an effect, or only looks up.
LEMMA ReadSteps ==
    ASSUME IndInv, NEW r \in requests, Load(r) \/ Replay(r) \/ Refuse(r)
    PROVE  IndInv'
<1>1. UNCHANGED <<clock, outbox, frappe, context>>
    BY DEF Load, Replay, Refuse
<1>2. Grows /\ clock' \in Nat /\ audit' = audit
    BY <1>1 DEF Grows, Stored, frappe, IndInv, TypesOK
<1>3. r \in RequestType /\ r.mat \in Mats /\ RequestOK(r)
    BY DEF IndInv, TypesOK, RequestsOK, RequestType
<1>4. CASE Load(r)
    <2> DEFINE f == IF audit[r.mat] = None THEN "none" ELSE "stored"
               v == Snapshot(r.mat)
               n == [r EXCEPT !.found = f, !.seen = v]
    <2>1. requests' = (requests \ {r}) \cup {n} /\ UNCHANGED local
        BY <1>4 DEF Load
    <2>2. v \in DraftType \cup ContextType \cup {None}
        BY <1>3, MatAssumption DEF Snapshot, IndInv, TypesOK
    <2>3. f \in {"none", "stored"} /\ (f = "stored" => audit[r.mat] # None)
        OBVIOUS
    <2> HIDE DEF f, v
    <2>4. n \in RequestType /\ n.mat = r.mat /\ n.found = f
        BY <1>3, <2>3, <2>2 DEF RequestType
    <2> HIDE DEF n
    <2>5. \A q \in requests : q \in RequestType /\ q.mat \in Mats /\ RequestOK(q)
        BY DEF IndInv, TypesOK, RequestsOK, RequestType
    <2>6. RequestsOK' /\ requests' \subseteq RequestType
        BY <1>1, <1>2, <1>3, <2>1, <2>3, <2>4, <2>5 DEF RequestsOK, RequestOK, Stored
    <2>7. local' \in [Workers -> LocalType] /\ LocalsOK'
        BY <1>2, <2>1, SameLocal
    <2> QED BY <1>1, <1>2, <2>6, <2>7, TablesKept
<1>5. CASE Replay(r)
    <2>1. requests' \subseteq requests /\ r.found = "stored"
        BY <1>5 DEF Replay
    <2>2. audit[r.mat] \in ReceiptType
        BY <1>3, <2>1 DEF RequestOK, IndInv, TypesOK
    <2>3. local' \in [Workers -> LocalType] /\ LocalsOK'
        <3>1. CASE Answer(r, audit[r.mat])
            BY <1>2, <2>2, <3>1, Answered
        <3>2. CASE Answer(r, None)
            BY <1>2, <3>2, Answered
        <3> QED BY <1>5, <3>1, <3>2 DEF Replay
    <2> QED BY <1>1, <1>2, <2>1, <2>3, RequestsKept, TablesKept
<1>6. CASE Refuse(r)
    <2>1. requests' \subseteq requests /\ Answer(r, None)
        BY <1>6 DEF Refuse
    <2>2. local' \in [Workers -> LocalType] /\ LocalsOK'
        BY <1>2, <2>1, Answered
    <2> QED BY <1>1, <1>2, <2>1, <2>2, RequestsKept, TablesKept
<1> QED BY <1>4, <1>5, <1>6

\* _execute_intent: the effect and its Integration Request appear together, for
\* a request_id that had neither.
LEMMA ExecuteStep ==
    ASSUME IndInv, NEW r \in requests, Execute(r)
    PROVE  IndInv'
<1> DEFINE c == [name |-> r.attempt, digest |-> r.digest]
           e == [mat |-> r.mat, name |-> r.attempt, digest |-> r.digest]
<1>1. /\ audit[r.mat] = None /\ Answer(r, c)
      /\ audit' = [audit EXCEPT ![r.mat] = c]
      /\ effects' = effects \cup {e}
      /\ requests' = requests \ {r}
      /\ UNCHANGED <<clock, outbox, context>>
    BY DEF Execute, Inserts
<1>2. r \in RequestType /\ r.mat \in Mats
    BY DEF IndInv, TypesOK, RequestType
<1>3. draft' \in [Docs -> DraftType]
    <2>1. draft \in [Docs -> DraftType]
        BY DEF IndInv, TypesOK
    <2>2. CASE Kind[r.mat] # "submit"
        BY <2>1, <2>2 DEF Execute
    <2>3. CASE Kind[r.mat] = "submit"
        <3>1. Target[r.mat] \in Docs
            BY <1>2, <2>3, MatAssumption
        <3>2. draft' = [draft EXCEPT ![Target[r.mat]] =
                           [open |-> FALSE, revision |-> @.revision + 1]]
            BY <2>3 DEF Execute
        <3> QED BY <2>1, <3>1, <3>2 DEF DraftType
    <2> QED BY <2>2, <2>3
<1>4. c \in ReceiptType /\ c.name = r.attempt /\ c.digest = r.digest
    BY <1>2 DEF RequestType, ReceiptType
<1>5. /\ e \in EffectType /\ e.mat = r.mat /\ e.name = c.name /\ e.digest = c.digest
      /\ e = [mat |-> r.mat, name |-> c.name, digest |-> c.digest]
    BY <1>2 DEF RequestType, EffectType
<1>6. c # None
    BY <1>4, NullAssumption
<1> HIDE DEF c, e
<1>7. /\ audit' \in [Mats -> ReceiptType \cup {None}] /\ audit'[r.mat] = c
      /\ \A m \in Mats : m # r.mat => audit'[m] = audit[m]
    BY <1>1, <1>2, <1>4 DEF IndInv, TypesOK
<1>8. Grows
    BY <1>1, <1>7 DEF Grows, Stored
<1>9. local' \in [Workers -> LocalType] /\ LocalsOK'
    BY <1>1, <1>4, <1>7, <1>8, Answered
<1>10. RequestsOK' /\ requests' \subseteq RequestType
    BY <1>1, <1>8, RequestsKept
<1>11. TypesOK'
    BY <1>1, <1>3, <1>5, <1>7, <1>9, <1>10 DEF IndInv, TypesOK
<1>12. \A x \in effects : x.mat \in Mats /\ x.mat # r.mat
    BY <1>1 DEF IndInv, TypesOK, EffectType, AuditIsEffect
<1>13. AuditIsEffect'
    <2>1. ASSUME NEW m \in Mats, audit'[m] # None
          PROVE  [mat |-> m, name |-> audit'[m].name, digest |-> audit'[m].digest]
                    \in effects'
        <3>1. CASE m = r.mat
            BY <1>1, <1>5, <1>7, <3>1
        <3>2. CASE m # r.mat
            BY <1>1, <1>7, <2>1, <3>2 DEF IndInv, AuditIsEffect
        <3> QED BY <3>1, <3>2
    <2>2. ASSUME NEW x \in effects'
          PROVE  /\ audit'[x.mat] # None
                 /\ audit'[x.mat].name = x.name
                 /\ audit'[x.mat].digest = x.digest
        <3>1. CASE x = e
            BY <1>5, <1>6, <1>7, <3>1
        <3>2. CASE x \in effects
            BY <1>7, <1>12, <3>2 DEF IndInv, AuditIsEffect
        <3> QED BY <1>1, <3>1, <3>2
    <2> QED BY <2>1, <2>2 DEF AuditIsEffect
<1>14. RowChecks'
    BY <1>1 DEF IndInv, RowChecks
<1>15. ReceiptsOK'
    BY <1>1, <1>8 DEF IndInv, RowChecks, ReceiptsOK, Grows
<1> QED BY <1>9, <1>10, <1>11, <1>13, <1>14, <1>15 DEF IndInv

\* People and the clock.
LEMMA EnvironmentSteps ==
    ASSUME IndInv,
           \/ \E m \in Mats : ContextChanges(m)
           \/ \E d \in Docs : DraftChanges(d)
           \/ Tick \/ UNCHANGED vars
    PROVE  IndInv'
<1>1. /\ UNCHANGED <<outbox, local, requests, audit, effects>>
      /\ clock' \in Nat
      /\ context' \in [Mats -> ContextType]
      /\ draft' \in [Docs -> DraftType]
    <2>1. CASE \E m \in Mats : ContextChanges(m)
        BY <2>1 DEF ContextChanges, frappe, IndInv, TypesOK, ContextType
    <2>2. CASE \E d \in Docs : DraftChanges(d)
        BY <2>2 DEF DraftChanges, IndInv, TypesOK, DraftType
    <2>3. CASE Tick
        BY <2>3 DEF Tick, frappe, IndInv, TypesOK
    <2>4. CASE UNCHANGED vars
        BY <2>4 DEF vars, IndInv, TypesOK
    <2> QED BY <2>1, <2>2, <2>3, <2>4
<1>2. TypesOK'
    BY <1>1 DEF IndInv, TypesOK
<1>3. RowChecks' /\ AuditIsEffect' /\ ReceiptsOK'
    BY <1>1 DEF IndInv, RowChecks, AuditIsEffect, ReceiptsOK
<1>4. LocalsOK' /\ RequestsOK'
    BY <1>1 DEF IndInv, LocalsOK, RequestsOK, RequestOK, Good, Stored
<1> QED BY <1>2, <1>3, <1>4 DEF IndInv

-----------------------------------------------------------------------------
\* Every step keeps the inductive invariant.
LEMMA NextInv == IndInv /\ [Next]_vars => IndInv'
<1> SUFFICES ASSUME IndInv, [Next]_vars PROVE IndInv'
    OBVIOUS
<1>1. ASSUME NEW p \in Workers,
             \/ ClaimNone(p) \/ Claim(p) \/ ClaimAborts(p)
             \/ Run(p) \/ Crash(p) \/ Restart(p)
      PROVE  IndInv'
    BY <1>1, ClaimSteps, LocalSteps, HeartbeatStep, SendStep, AcknowledgeStep, FailStep
    DEF Run
<1>2. ASSUME NEW r \in requests, Serve(r)
      PROVE  IndInv'
    BY <1>2, ReadSteps, ExecuteStep DEF Serve
<1>3. ASSUME NEW m \in Mats, Insert(m)
      PROVE  IndInv'
    BY <1>3, InsertStep
<1> QED BY <1>1, <1>2, <1>3, EnvironmentSteps DEF Next

\* The inductive invariant holds throughout.
LEMMA Invariance == Spec => []IndInv
    BY InitInv, NextInv, PTL DEF Spec

\* The tables keep their types and the CHECK constraint of migration 004 holds.
THEOREM TypeCorrect == Spec => []TypeOK
<1>1. IndInv => TypeOK
    BY DEF IndInv, TypeOK
<1> QED BY <1>1, Invariance, PTL

\* Frappe never creates or submits twice for one materialization, whatever is
\* retried, however late: the Integration Request is unique and comes with the
\* document.
THEOREM EffectsUnique == Spec => []OneEffect
<1>1. IndInv => OneEffect
    <2> SUFFICES ASSUME IndInv, NEW d \in effects, NEW e \in effects, d.mat = e.mat
                 PROVE  d = e
        BY DEF OneEffect
    <2>1. d.name = e.name /\ d.digest = e.digest
        BY DEF IndInv, AuditIsEffect
    <2> QED BY <2>1 DEF IndInv, TypesOK, EffectType
<1> QED BY <1>1, Invariance, PTL

\* A row that says succeeded has the receipt of an effect that Frappe made.
THEOREM SuccessesReal == Spec => []SuccessIsReal
<1>1. IndInv => SuccessIsReal
    <2> SUFFICES ASSUME IndInv, NEW m \in Mats, outbox[m].status = "succeeded"
                 PROVE  [mat |-> m, name |-> outbox[m].receipt.name,
                         digest |-> outbox[m].receipt.digest] \in effects
        BY DEF SuccessIsReal
    <2>1. outbox[m].receipt = audit[m] /\ audit[m] # None
        BY DEF IndInv, ReceiptsOK, RowChecks
    <2> QED BY <2>1 DEF IndInv, AuditIsEffect
<1> QED BY <1>1, Invariance, PTL

\* Outbox and Frappe agree on the effect: it is made at most once and reported
\* only when it was made.
THEOREM EffectsExact == Spec => []EffectExact
    BY EffectsUnique, SuccessesReal, PTL DEF EffectExact
-----------------------------------------------------------------------------
(* Materialization implements DraftOnce. *)

Out == [m \in Mats |-> Outcome(m)]

\* Ending the leases in S as dead_letter gives those materializations up.
LEMMA GivesUp ==
    ASSUME IndInv, NEW S \in SUBSET Mats, effects' = effects,
           \A m \in S : outbox[m].status = "running" /\ outbox'[m].status = "dead_letter",
           \A m \in Mats \ S :
              \/ outbox'[m].status = outbox[m].status
              \/ /\ outbox[m].status \in DueStates \cup {"running"}
                 /\ outbox'[m].status \in DueStates \cup {"running"}
    PROVE  Abstract!Next
<1>1. \A m \in S : Out[m] = "open"
    BY DEF Out, Outcome
<1>2. \A m \in S : Outcome(m)' = "dead_letter"
    BY DEF Outcome, DueStates
<1>3. \A m \in Mats \ S : Outcome(m)' = Outcome(m)
    BY DEF Outcome
<1>4. Out' = [m \in Mats |-> IF m \in S THEN "dead_letter" ELSE Out[m]]
    BY <1>2, <1>3 DEF Out
<1>5. Abstract!GiveUp(S)
    BY <1>1, <1>4 DEF Abstract!GiveUp, Out
<1> QED BY <1>5 DEF Abstract!Next

\* A claim gives up what it reaps and leaves every other outcome alone.
LEMMA ClaimRefines ==
    ASSUME IndInv, NEW p \in Workers, ClaimNone(p) \/ Claim(p)
    PROVE  Abstract!Next
<1>1. effects' = effects
    BY DEF ClaimNone, Claim, frappe
<1>2. ASSUME NEW t \in Readings,
             \A m \in Mats : \/ outbox'[m] = Reaped(t)[m]
                             \/ /\ m \notin Reapable(t)
                                /\ outbox[m].status \in DueStates \cup {"running"}
                                /\ outbox'[m].status = "running"
      PROVE  Abstract!Next
    <2>1. ASSUME NEW m \in Reapable(t)
          PROVE  outbox[m].status = "running" /\ outbox'[m].status = "dead_letter"
        <3>1. /\ m \in Mats /\ outbox[m].status = "running"
              /\ outbox'[m] = Ended(outbox[m], "dead_letter", t)
            BY <1>2 DEF Reapable, Expired, Reaped
        <3> QED BY <3>1, ReadingsNat, EndedRow
    <2>2. ASSUME NEW m \in Mats \ Reapable(t)
          PROVE  \/ outbox'[m].status = outbox[m].status
                 \/ /\ outbox[m].status \in DueStates \cup {"running"}
                    /\ outbox'[m].status \in DueStates \cup {"running"}
        BY <1>2 DEF Reaped
    <2>3. Reapable(t) \in SUBSET Mats
        BY DEF Reapable
    <2> QED BY <1>1, <2>1, <2>2, <2>3, GivesUp
<1>3. CASE ClaimNone(p)
    BY <1>2, <1>3 DEF ClaimNone
<1>4. CASE Claim(p)
    <2>1. PICK t \in Readings, locked \in LockSets(p) :
             \E m \in Candidate(t, locked) \cap Readable :
                outbox' = [Reaped(t) EXCEPT ![m] = Taken(p, m, t)]
        BY <1>4 DEF Claim
    <2>2. PICK c \in Candidate(t, locked) :
                outbox' = [Reaped(t) EXCEPT ![c] = Taken(p, c, t)]
        BY <2>1
    <2>3. /\ c \in Mats /\ outbox[c].attempt < MaxAttempts
          /\ outbox[c].status \in DueStates \cup {"running"}
        BY DEF Candidate, Claimable, Expired
    <2>4. c \notin Reapable(t) /\ outbox[c] \in RowType
        <3>1. outbox[c] \in RowType /\ outbox[c].attempt \in Nat
            BY <2>3 DEF IndInv, TypesOK, RowType
        <3> QED BY <2>3, <3>1, NumberAssumption DEF Reapable
    <2>5. Reaped(t) \in [Mats -> RowType]
        BY ReadingsNat, ReapedRows
    <2>6. /\ outbox'[c] = Taken(p, c, t)
          /\ \A m \in Mats : m # c => outbox'[m] = Reaped(t)[m]
        BY <2>2, <2>3, <2>5
    <2>7. outbox'[c].status = "running"
        BY <2>4, <2>6 DEF Taken, RowType
    <2> QED BY <1>2, <2>3, <2>4, <2>6, <2>7
<1> QED BY <1>3, <1>4

\* A heartbeat changes no outcome, a failed attempt gives up or changes none,
\* and only an effect can be acknowledged.
LEMMA LeaseRefines ==
    ASSUME IndInv, NEW p \in Workers, Heartbeat(p) \/ Fail(p) \/ Acknowledge(p)
    PROVE  Abstract!Next \/ UNCHANGED <<effects, Out>>
<1> DEFINE m == local[p].mat
<1>1. effects' = effects /\ audit' = audit
    BY DEF Heartbeat, Fail, Acknowledge, frappe
<1>2. Active(p)
    BY DEF Heartbeat, Fail, Acknowledge, Active
<1>3. m \in Mats /\ outbox[m] \in RowType /\ Good(local[p])
    BY <1>2, BusyWorker
<1>4. CASE UNCHANGED outbox
    BY <1>1, <1>4 DEF Out, Outcome
<1>5. ASSUME outbox[m].status = "running", NEW r, outbox' = [outbox EXCEPT ![m] = r],
             r.status \in {"running", "retry", "dead_letter"}
      PROVE  Abstract!Next
    <2>1. /\ outbox'[m] = r /\ \A n \in Mats : n # m => outbox'[n] = outbox[n]
        BY <1>3, <1>5 DEF IndInv, TypesOK
    <2>2. CASE r.status = "dead_letter"
        BY <1>1, <1>3, <1>5, <2>1, <2>2, GivesUp, {m} \in SUBSET Mats
    <2>3. CASE r.status \in {"running", "retry"}
        <3>1. r.status \in DueStates \cup {"running"}
            BY <2>3 DEF DueStates
        <3>2. \A n \in Mats \ {} :
                 \/ outbox'[n].status = outbox[n].status
                 \/ /\ outbox[n].status \in DueStates \cup {"running"}
                    /\ outbox'[n].status \in DueStates \cup {"running"}
            BY <1>5, <2>1, <3>1
        <3> QED BY <1>1, <3>2, GivesUp, {} \in SUBSET Mats
    <2> QED BY <1>5, <2>2, <2>3
<1>6. CASE Heartbeat(p)
    <2>1. ASSUME NEW t \in Readings, Holds(p, t),
                 outbox' = [outbox EXCEPT ![m] = Renewed(@, t)]
          PROVE  Abstract!Next
        <3>1. outbox[m].status = "running"
            BY <2>1 DEF Holds
        <3>2. Renewed(outbox[m], t).status = "running"
            BY <1>3, <3>1 DEF Renewed, RowType
        <3>3. outbox' = [outbox EXCEPT ![m] = Renewed(outbox[m], t)]
            BY <2>1
        <3> QED BY <1>5, <3>1, <3>2, <3>3
    <2> QED BY <1>4, <1>6, <2>1 DEF Heartbeat
<1>7. CASE Fail(p)
    <2>1. ASSUME NEW t \in Readings, Holds(p, t),
                 outbox' = [outbox EXCEPT ![m] = FailedRow(m, t)]
          PROVE  Abstract!Next
        <3> DEFINE st == IF outbox[m].attempt >= MaxAttempts THEN "dead_letter" ELSE "retry"
                   e == Ended(outbox[m], st, t)
        <3>1. outbox[m].status = "running" /\ st \in {"retry", "dead_letter"}
            BY <2>1 DEF Holds
        <3>2. FailedRow(m, t) = [e EXCEPT !.due = t + RetryDelay]
            BY DEF FailedRow
        <3> HIDE DEF st
        <3>3. e \in RowType /\ e.status = st
            BY <1>3, <3>1, ReadingsNat, EndedRow DEF RowMay
        <3> HIDE DEF e
        <3>4. FailedRow(m, t).status = st
            BY <3>2, <3>3 DEF RowType
        <3> QED BY <1>5, <2>1, <3>1, <3>4
    <2> QED BY <1>4, <1>7, <2>1 DEF Fail
<1>8. CASE Acknowledge(p)
    <2>1. ASSUME NEW t \in Readings, Holds(p, t),
                 outbox' = [outbox EXCEPT ![m] = [Ended(@, "succeeded", t) EXCEPT
                                                     !.receipt = local[p].receipt]]
          PROVE  Abstract!Next
        <3> DEFINE e == Ended(outbox[m], "succeeded", t)
        <3>1. outbox[m].status = "running"
            BY <2>1 DEF Holds
        <3>2. e \in RowType /\ e.status = "succeeded"
            BY <1>3, ReadingsNat DEF Ended, RowType, FinalStates
        <3>3. outbox' = [outbox EXCEPT ![m] = [e EXCEPT !.receipt = local[p].receipt]]
            BY <2>1
        <3> HIDE DEF e
        <3>4. /\ outbox'[m].status = "succeeded"
              /\ \A n \in Mats : n # m => outbox'[n] = outbox[n]
            BY <1>3, <3>2, <3>3 DEF IndInv, TypesOK, RowType
        <3>5. Outcome(m) = "open" /\ outbox'[m].status \notin DueStates \cup {"running"}
            BY <3>1, <3>4 DEF Outcome, DueStates
        <3>6. \A n \in Mats : Outcome(n)' = IF n = m THEN "succeeded" ELSE Outcome(n)
            BY <3>4, <3>5 DEF Outcome
        <3>7. Out' = [Out EXCEPT ![m] = "succeeded"]
            BY <3>6 DEF Out
        <3>8. audit[m] # None
            BY <1>3, <1>8 DEF Good, Acknowledge
        <3>9. \E x \in effects : x.mat = m
            BY <1>3, <3>8 DEF IndInv, AuditIsEffect
        <3>10. Abstract!Finish(m)
            BY <1>1, <1>3, <3>5, <3>7, <3>9 DEF Abstract!Finish, Abstract!Made, Out
        <3> QED BY <1>3, <3>10 DEF Abstract!Next
    <2> QED BY <1>4, <1>8, <2>1 DEF Acknowledge
<1> QED BY <1>6, <1>7, <1>8

\* An effect is made for a stored row and a request_id that had none.
LEMMA ExecuteRefines ==
    ASSUME IndInv, NEW r \in requests, Execute(r)
    PROVE  Abstract!Next
<1> DEFINE e == [mat |-> r.mat, name |-> r.attempt, digest |-> r.digest]
<1>1. /\ audit[r.mat] = None /\ effects' = effects \cup {e} /\ UNCHANGED outbox
    BY DEF Execute, Inserts
<1>2. r.mat \in Mats /\ Stored(r.mat)
    BY DEF IndInv, TypesOK, RequestType, RequestsOK, RequestOK
<1>3. Out' = Out /\ Out[r.mat] # "none"
    <2>1. outbox[r.mat].status \in {"running"} \cup DueStates \cup FinalStates
        BY <1>2 DEF IndInv, TypesOK, RowType, Stored
    <2> QED BY <1>1, <1>2, <2>1 DEF Out, Outcome, DueStates, FinalStates
<1>4. ~\E x \in effects : x.mat = r.mat
    BY <1>1 DEF IndInv, AuditIsEffect
<1>5. e \in effects' /\ e.mat = r.mat
    BY <1>1
<1> HIDE DEF e
<1>6. Abstract!Make(r.mat)
    BY <1>1, <1>3, <1>4, <1>5 DEF Abstract!Make, Abstract!Made, Out
<1> QED BY <1>2, <1>6 DEF Abstract!Next

\* A new row is accepted.
LEMMA InsertRefines ==
    ASSUME IndInv, NEW m \in Mats, Insert(m)
    PROVE  Abstract!Next
<1> DEFINE r == [NoRow EXCEPT !.status = "pending", !.due = clock,
                              !.created = clock, !.updated = clock]
<1>1. /\ outbox[m].status = "absent" /\ effects' = effects
      /\ outbox' = [outbox EXCEPT ![m] = r]
    BY DEF Insert, Stored, frappe
<1>2. r.status = "pending"
    BY DEF NoRow
<1> HIDE DEF r
<1>3. /\ outbox'[m].status = "pending"
      /\ \A n \in Mats : n # m => outbox'[n] = outbox[n]
    BY <1>1, <1>2 DEF IndInv, TypesOK
<1>4. Outcome(m) = "none" /\ \A n \in Mats : Outcome(n)' = IF n = m THEN "open" ELSE Outcome(n)
    BY <1>1, <1>3 DEF Outcome, DueStates
<1>5. Out' = [Out EXCEPT ![m] = "open"] /\ Out[m] = "none"
    BY <1>4 DEF Out
<1>6. Abstract!Accept(m)
    BY <1>1, <1>5 DEF Abstract!Accept, Out
<1> QED BY <1>6 DEF Abstract!Next

\* The outbox, the workers and Frappe implement DraftOnce: a materialization
\* has at most one effect and succeeds only after it.
THEOREM PromiseKept == Spec => KeepsPromise
<1>1. Init => Abstract!Init
    BY DEF Init, Abstract!Init, Outcome, NoRow, DueStates
<1>2. IndInv /\ [Next]_vars => [Abstract!Next]_<<effects, Out>>
    <2> SUFFICES ASSUME IndInv, [Next]_vars
                 PROVE  Abstract!Next \/ UNCHANGED <<effects, Out>>
        OBVIOUS
    <2>1. ASSUME UNCHANGED <<outbox, effects>>
          PROVE  UNCHANGED <<effects, Out>>
        BY <2>1 DEF Out, Outcome
    <2>2. ASSUME NEW p \in Workers,
                 \/ ClaimNone(p) \/ Claim(p) \/ ClaimAborts(p)
                 \/ Run(p) \/ Crash(p) \/ Restart(p)
          PROVE  Abstract!Next \/ UNCHANGED <<effects, Out>>
        <3>1. CASE ClaimAborts(p) \/ Resolve(p) \/ GiveUp(p) \/ Send(p) \/ Crash(p) \/ Restart(p)
            BY <2>1, <3>1 DEF ClaimAborts, Resolve, GiveUp, Send, Crash, Restart, frappe
        <3> QED BY <2>2, <3>1, ClaimRefines, LeaseRefines DEF Run
    <2>3. ASSUME NEW r \in requests, Serve(r)
          PROVE  Abstract!Next \/ UNCHANGED <<effects, Out>>
        <3>1. CASE Load(r) \/ Replay(r) \/ Refuse(r)
            BY <2>1, <3>1 DEF Load, Replay, Refuse, frappe
        <3> QED BY <2>3, <3>1, ExecuteRefines DEF Serve
    <2>4. CASE \/ \E m \in Mats : ContextChanges(m)
               \/ \E d \in Docs : DraftChanges(d)
               \/ Tick \/ UNCHANGED vars
        BY <2>1, <2>4 DEF ContextChanges, DraftChanges, Tick, vars, frappe
    <2> QED BY <2>2, <2>3, <2>4, InsertRefines DEF Next
<1> QED BY <1>1, <1>2, Invariance, PTL DEF Spec, KeepsPromise, Abstract!Spec, Out

-----------------------------------------------------------------------------
(* Submissions of a draft *)

\* The version of a draft that request r read: if the stored version has its
\* revision, it is that version.
Version(r) ==
    r.found # "unread" /\ Kind[r.mat] = "submit" =>
        LET now == draft[Target[r.mat]] IN
        /\ r.seen \in DraftType
        /\ r.seen.revision <= now.revision
        /\ r.seen.revision = now.revision => r.seen = now

VersionsOK == \A r \in requests : Version(r)

\* Every save counts the revision up.
RevisionsGrow ==
    \A d \in Docs : draft'[d] = draft[d] \/ draft'[d].revision > draft[d].revision

\* What a request read stays a version of the draft.
LEMMA VersionsKept ==
    ASSUME IndInv, VersionsOK, RevisionsGrow, draft' \in [Docs -> DraftType],
           NEW r \in requests
    PROVE  Version(r)'
<1> SUFFICES ASSUME r.found # "unread", Kind[r.mat] = "submit"
             PROVE  LET now == draft'[Target[r.mat]] IN
                    /\ r.seen \in DraftType
                    /\ r.seen.revision <= now.revision
                    /\ r.seen.revision = now.revision => r.seen = now
    BY DEF Version
<1> DEFINE d == Target[r.mat]
<1>1. d \in Docs
    BY MatAssumption DEF IndInv, TypesOK, RequestType
<1>2. /\ r.seen \in DraftType
      /\ r.seen.revision <= draft[d].revision
      /\ r.seen.revision = draft[d].revision => r.seen = draft[d]
    BY DEF VersionsOK, Version
<1>3. /\ draft[d].revision \in Nat /\ draft'[d].revision \in Nat
      /\ r.seen.revision \in Nat
    BY <1>1, <1>2 DEF IndInv, TypesOK, DraftType
<1>4. draft'[d] = draft[d] \/ draft'[d].revision > draft[d].revision
    BY <1>1 DEF RevisionsGrow
<1> HIDE DEF d
<1>5. /\ r.seen.revision <= draft'[d].revision
      /\ r.seen.revision = draft'[d].revision => r.seen = draft'[d]
    BY <1>2, <1>3, <1>4
<1> QED BY <1>2, <1>5 DEF d

\* A request reads the stored version; a submission that is saved finds the
\* version that it read, and closes it.
LEMMA VersionsStep ==
    IndInv /\ VersionsOK /\ [Next]_vars =>
        /\ VersionsOK'
        /\ \A e \in effects' \ effects : Kind[e.mat] = "submit" =>
              draft[Target[e.mat]].open /\ ~draft'[Target[e.mat]].open
<1> SUFFICES ASSUME IndInv, VersionsOK, [Next]_vars
             PROVE  /\ VersionsOK'
                    /\ \A e \in effects' \ effects : Kind[e.mat] = "submit" =>
                          draft[Target[e.mat]].open /\ ~draft'[Target[e.mat]].open
    OBVIOUS
<1>1. draft' \in [Docs -> DraftType]
    BY NextInv DEF IndInv, TypesOK
<1>2. CASE UNCHANGED effects /\ RevisionsGrow /\ requests' \subseteq requests
    BY <1>1, <1>2, VersionsKept DEF VersionsOK
<1>3. ASSUME UNCHANGED frappe
      PROVE  UNCHANGED effects /\ RevisionsGrow
    BY <1>3 DEF frappe, RevisionsGrow
<1>4. ASSUME NEW p \in Workers,
             \/ ClaimNone(p) \/ Claim(p) \/ ClaimAborts(p)
             \/ Run(p) \/ Crash(p) \/ Restart(p)
      PROVE  UNCHANGED frappe /\ (requests' = requests \/ Send(p))
    BY <1>4 DEF ClaimNone, Claim, ClaimAborts, Run, Heartbeat, Resolve, GiveUp, Send,
                Acknowledge, Fail, Crash, Restart
<1>5. ASSUME NEW p \in Workers, Send(p)
      PROVE  VersionsOK' /\ UNCHANGED effects
    <2>1. PICK n : requests' = requests \cup {n} /\ n.found = "unread"
        <3> DEFINE n == [mat |-> local[p].mat, attempt |-> local[p].attempt,
                         digest |-> local[p].digest, found |-> "unread", seen |-> None]
        <3>1. requests' = requests \cup {n} /\ n.found = "unread"
            BY <1>5 DEF Send
        <3> HIDE DEF n
        <3> QED BY <3>1
    <2>2. UNCHANGED frappe
        BY <1>5 DEF Send
    <2>3. \A q \in requests : Version(q)'
        BY <1>1, <1>3, <2>2, VersionsKept
    <2> QED BY <1>3, <2>1, <2>2, <2>3 DEF VersionsOK, Version
<1>6. ASSUME NEW r \in requests, Load(r)
      PROVE  VersionsOK' /\ UNCHANGED effects
    <2>1. r \in RequestType /\ r.mat \in Mats
        BY DEF IndInv, TypesOK, RequestType
    <2>2. PICK n : /\ requests' = (requests \ {r}) \cup {n}
                   /\ n.mat = r.mat /\ n.seen = Snapshot(r.mat)
        <3> DEFINE n == [r EXCEPT !.found = IF audit[r.mat] = None THEN "none" ELSE "stored",
                                  !.seen = Snapshot(r.mat)]
        <3>1. requests' = (requests \ {r}) \cup {n}
            BY <1>6 DEF Load
        <3>2. n.mat = r.mat /\ n.seen = Snapshot(r.mat)
            BY <2>1 DEF RequestType
        <3> HIDE DEF n
        <3> QED BY <3>1, <3>2
    <2>3. UNCHANGED frappe /\ UNCHANGED draft
        BY <1>6 DEF Load, frappe
    <2>4. Version(n)'
        <3>1. CASE Kind[r.mat] = "submit"
            <4>1. Target[r.mat] \in Docs /\ n.seen = draft[Target[r.mat]]
                BY <2>1, <2>2, <3>1, MatAssumption DEF Snapshot
            <4>2. draft[Target[r.mat]] \in DraftType /\ draft[Target[r.mat]].revision \in Nat
                BY <4>1 DEF IndInv, TypesOK, DraftType
            <4> QED BY <2>2, <2>3, <4>1, <4>2 DEF Version
        <3>2. CASE Kind[r.mat] # "submit"
            BY <2>2, <3>2 DEF Version
        <3> QED BY <3>1, <3>2
    <2>5. \A q \in requests : Version(q)'
        BY <1>1, <1>3, <2>3, VersionsKept
    <2>6. UNCHANGED effects
        BY <1>3, <2>3
    <2> QED BY <2>2, <2>4, <2>5, <2>6 DEF VersionsOK
<1>7. ASSUME NEW r \in requests, Replay(r) \/ Refuse(r)
      PROVE  UNCHANGED frappe /\ requests' \subseteq requests
    BY <1>7 DEF Replay, Refuse
<1>8. ASSUME NEW r \in requests, Execute(r)
      PROVE  /\ VersionsOK'
             /\ \A e \in effects' \ effects : Kind[e.mat] = "submit" =>
                   draft[Target[e.mat]].open /\ ~draft'[Target[e.mat]].open
    <2> DEFINE x == [mat |-> r.mat, name |-> r.attempt, digest |-> r.digest]
               d == Target[r.mat]
    <2>1. /\ effects' = effects \cup {x} /\ x.mat = r.mat /\ requests' \subseteq requests
          /\ r.found = "none" /\ Valid(r) /\ SavesLatest(r)
          /\ draft' = IF Kind[r.mat] # "submit" THEN draft
                      ELSE [draft EXCEPT ![d] = [open |-> FALSE, revision |-> @.revision + 1]]
        BY <1>8 DEF Execute, Inserts
    <2> HIDE DEF x
    <2>2. CASE Kind[r.mat] # "submit"
        <3>1. RevisionsGrow
            BY <2>1, <2>2 DEF RevisionsGrow
        <3>2. VersionsOK'
            BY <1>1, <2>1, <3>1, VersionsKept DEF VersionsOK
        <3> QED BY <2>1, <2>2, <3>2
    <2>3. CASE Kind[r.mat] = "submit"
        <3>1. d \in Docs /\ draft[d] \in DraftType
            BY <2>3, MatAssumption DEF IndInv, TypesOK, RequestType
        <3>2. r.seen.open /\ draft[d].revision = r.seen.revision
            BY <2>1, <2>3 DEF Valid, SavesLatest
        <3>3. r.seen = draft[d]
            BY <2>1, <2>3, <3>2 DEF VersionsOK, Version
        <3>4. /\ draft'[d] = [open |-> FALSE, revision |-> draft[d].revision + 1]
              /\ \A c \in Docs : c # d => draft'[c] = draft[c]
            BY <2>1, <2>3, <3>1 DEF IndInv, TypesOK
        <3>5. draft'[d].revision > draft[d].revision /\ ~draft'[d].open
            BY <3>1, <3>4 DEF DraftType
        <3> HIDE DEF d
        <3>6. RevisionsGrow
            BY <3>4, <3>5 DEF RevisionsGrow
        <3>7. VersionsOK'
            BY <1>1, <2>1, <3>6, VersionsKept DEF VersionsOK
        <3> QED BY <2>1, <3>2, <3>3, <3>5, <3>7 DEF d
    <2> QED BY <2>2, <2>3
<1>9. ASSUME NEW m \in Mats, Insert(m) \/ ContextChanges(m)
      PROVE  UNCHANGED frappe /\ requests' = requests
    BY <1>9 DEF Insert, ContextChanges
<1>10. ASSUME NEW d \in Docs, DraftChanges(d)
       PROVE  UNCHANGED effects /\ RevisionsGrow /\ requests' = requests
    BY <1>10 DEF DraftChanges, RevisionsGrow, IndInv, TypesOK, DraftType
<1>11. CASE Tick \/ UNCHANGED vars
    BY <1>2, <1>3, <1>11 DEF Tick, vars, frappe
<1> QED BY <1>2, <1>3, <1>4, <1>5, <1>6, <1>7, <1>8, <1>9, <1>10, <1>11 DEF Next, Serve

\* Of several proposals that submit one draft, and of the people who change it,
\* one takes effect on each version: whatever a request read and however requests
\* interleave in Frappe, it submits an open draft and closes it.
THEOREM SubmissionsUnique == Spec => OneSubmissionPerDraft
<1>1. Init => VersionsOK
    BY DEF Init, VersionsOK
<1>2. IndInv /\ VersionsOK /\ [Next]_vars =>
         /\ VersionsOK'
         /\ [\A e \in effects' \ effects : Kind[e.mat] = "submit" =>
                draft[Target[e.mat]].open /\ ~draft'[Target[e.mat]].open]_vars
    BY VersionsStep
<1> QED BY <1>1, <1>2, Invariance, PTL DEF Spec, OneSubmissionPerDraft

-----------------------------------------------------------------------------
(* The transition trigger of migration 006 *)

\* Both dates of a lease come from one reading of the clock.
Dated(row) == row.status = "running" => row.expires = row.updated + Lease

LeasesDated == \A m \in Mats : Dated(outbox[m])

\* What a step does to a row: nothing, the insertion, or a transition.
Update(m, row) ==
    \/ row = outbox[m]
    \/ ~Stored(m) /\ row.status = "pending"
    \/ Transition(outbox[m], row) /\ Dated(row)

\* A lease that ends, with whatever else is written.
LEMMA EndUpdates ==
    ASSUME IndInv, NEW m \in Mats, outbox[m].status = "running", NEW row,
           row.attempt = outbox[m].attempt,
           row.status \in FinalStates \cup {"retry"}
    PROVE  Update(m, row)
    BY DEF Update, Transition, Dated, FinalStates

\* What _reap does to a row.
LEMMA ReapUpdates ==
    ASSUME IndInv, NEW t \in Nat, NEW m \in Mats
    PROVE  Update(m, Reaped(t)[m])
<1>1. CASE m \notin Reapable(t)
    BY <1>1 DEF Reaped, Update
<1>2. CASE m \in Reapable(t)
    <2>1. outbox[m].status = "running" /\ outbox[m] \in RowType
        BY <1>2 DEF Reapable, Expired, IndInv, TypesOK
    <2>2. Reaped(t)[m] = Ended(outbox[m], "dead_letter", t)
        BY <1>2 DEF Reaped
    <2>3. /\ Ended(outbox[m], "dead_letter", t).attempt = outbox[m].attempt
          /\ Ended(outbox[m], "dead_letter", t).status = "dead_letter"
        BY <2>1 DEF Ended, RowType
    <2> QED BY <2>1, <2>2, <2>3, EndUpdates DEF FinalStates
<1> QED BY <1>1, <1>2

\* A step that writes one row.
LEMMA OneUpdate ==
    ASSUME IndInv, NEW c \in Mats, NEW row, Update(c, row),
           outbox' = [outbox EXCEPT ![c] = row]
    PROVE  \A m \in Mats : Update(m, outbox'[m])
<1>1. outbox'[c] = row /\ \A m \in Mats : m # c => outbox'[m] = outbox[m]
    BY DEF IndInv, TypesOK
<1> QED BY <1>1 DEF Update

\* A claim takes a due row, or one whose lease ran out.
LEMMA ClaimUpdates ==
    ASSUME IndInv, NEW p \in Workers, Claim(p), NEW m \in Mats
    PROVE  Update(m, outbox'[m])
<1>1. PICK t \in Readings, locked \in LockSets(p) :
         \E c \in Candidate(t, locked) :
            outbox' = [Reaped(t) EXCEPT ![c] = Taken(p, c, t)]
    BY DEF Claim
<1>2. PICK c \in Candidate(t, locked) :
         outbox' = [Reaped(t) EXCEPT ![c] = Taken(p, c, t)]
    BY <1>1
<1>3. /\ c \in Mats /\ outbox[c] \in RowType
      /\ outbox[c].status \in DueStates \cup {"running"}
    BY DEF Candidate, Claimable, Expired, IndInv, TypesOK
<1>4. t \in Nat /\ Reaped(t) \in [Mats -> RowType]
    BY ReadingsNat, ReapedRows
<1>5. CASE m # c
    <2>1. outbox'[m] = Reaped(t)[m]
        BY <1>2, <1>4, <1>5
    <2> QED BY <1>4, <2>1, ReapUpdates
<1>6. CASE m = c
    <2> DEFINE row == Taken(p, c, t)
    <2>1. outbox'[m] = row
        BY <1>2, <1>3, <1>4, <1>6
    <2>2. /\ row.status = "running" /\ row.attempt = outbox[c].attempt + 1
          /\ row.expires = t + Lease /\ row.updated = t
        BY <1>3 DEF Taken, RowType
    <2> HIDE DEF row
    <2>3. Dated(row)
        BY <2>2 DEF Dated
    <2> QED BY <1>3, <1>6, <2>1, <2>2, <2>3 DEF Update, Transition
<1> QED BY <1>5, <1>6

\* heartbeat writes the row only when the lease becomes longer, and then the
\* reading is later than the one before.
LEMMA HeartbeatUpdates ==
    ASSUME IndInv, LeasesDated, NEW p \in Workers, Heartbeat(p), NEW m \in Mats
    PROVE  Update(m, outbox'[m])
<1> DEFINE c == local[p].mat
<1>1. c \in Mats /\ outbox[c] \in RowType
    BY BusyWorker DEF Heartbeat, Active
<1>2. CASE UNCHANGED outbox
    BY <1>2 DEF Update
<1>3. ASSUME NEW t \in Readings, Holds(p, t),
             outbox' = [outbox EXCEPT ![c] = Renewed(@, t)]
      PROVE  Update(m, outbox'[m])
    <2> DEFINE row == Renewed(outbox[c], t)
    <2>1. outbox' = [outbox EXCEPT ![c] = row]
        BY <1>3
    <2>2. outbox[c].status = "running" /\ outbox[c].expires = outbox[c].updated + Lease
        BY <1>1, <1>3 DEF Holds, LeasesDated, Dated
    <2>3. /\ t \in Nat /\ Lease \in Nat
          /\ outbox[c].expires \in Nat /\ outbox[c].updated \in Nat
        BY <1>1, ReadingsNat, NumberAssumption DEF RowType
    <2>4. CASE outbox[c].expires < t + Lease
        <3>1. row = [outbox[c] EXCEPT !.expires = t + Lease, !.updated = t]
            BY <2>4 DEF Renewed
        <3>2. /\ row.status = outbox[c].status /\ row.attempt = outbox[c].attempt
              /\ row.owner = outbox[c].owner /\ row.due = outbox[c].due
              /\ row.receipt = outbox[c].receipt
              /\ row.expires = t + Lease /\ row.updated = t
            BY <1>1, <3>1 DEF RowType
        <3> HIDE DEF row
        <3>3. row.expires > outbox[c].expires /\ row.updated >= outbox[c].updated
            BY <2>2, <2>3, <2>4, <3>2
        <3>4. Update(c, row)
            BY <2>2, <3>2, <3>3 DEF Update, Transition, Dated
        <3> QED BY <1>1, <2>1, <3>4, OneUpdate
    <2>5. CASE ~(outbox[c].expires < t + Lease)
        <3>1. Update(c, row)
            BY <2>5 DEF Renewed, Update
        <3> QED BY <1>1, <2>1, <3>1, OneUpdate
    <2> QED BY <2>4, <2>5
<1> QED BY <1>2, <1>3 DEF Heartbeat

\* acknowledge and fail end the lease of a worker that holds it.
LEMMA EndingUpdates ==
    ASSUME IndInv, NEW p \in Workers, Acknowledge(p) \/ Fail(p), NEW m \in Mats
    PROVE  Update(m, outbox'[m])
<1> DEFINE c == local[p].mat
<1>1. c \in Mats /\ outbox[c] \in RowType
    BY BusyWorker DEF Acknowledge, Fail, Active
<1>2. CASE UNCHANGED outbox
    BY <1>2 DEF Update
<1>3. ASSUME NEW t \in Readings, Holds(p, t), NEW row,
             outbox' = [outbox EXCEPT ![c] = row],
             row.attempt = outbox[c].attempt,
             row.status \in FinalStates \cup {"retry"}
      PROVE  Update(m, outbox'[m])
    <2>1. Update(c, row)
        BY <1>1, <1>3, EndUpdates DEF Holds
    <2> QED BY <1>1, <1>3, <2>1, OneUpdate
<1>4. CASE Acknowledge(p)
    <2>1. ASSUME NEW t \in Readings, Holds(p, t),
                 outbox' = [outbox EXCEPT ![c] = [Ended(@, "succeeded", t) EXCEPT
                                                     !.receipt = local[p].receipt]]
          PROVE  Update(m, outbox'[m])
        <3> DEFINE row == [Ended(outbox[c], "succeeded", t) EXCEPT
                              !.receipt = local[p].receipt]
        <3>1. outbox' = [outbox EXCEPT ![c] = row]
            BY <2>1
        <3>2. row.attempt = outbox[c].attempt /\ row.status \in FinalStates
            BY <1>1 DEF Ended, RowType, FinalStates
        <3> HIDE DEF row
        <3> QED BY <1>3, <2>1, <3>1, <3>2
    <2> QED BY <1>2, <1>4, <2>1 DEF Acknowledge
<1>5. CASE Fail(p)
    <2>1. ASSUME NEW t \in Readings, Holds(p, t),
                 outbox' = [outbox EXCEPT ![c] = FailedRow(c, t)]
          PROVE  Update(m, outbox'[m])
        <3> DEFINE row == FailedRow(c, t)
        <3>1. row.attempt = outbox[c].attempt /\ row.status \in FinalStates \cup {"retry"}
            BY <1>1 DEF FailedRow, Ended, RowType, FinalStates
        <3> HIDE DEF row
        <3> QED BY <1>3, <2>1, <3>1 DEF row
    <2> QED BY <1>2, <1>5, <2>1 DEF Fail
<1> QED BY <1>4, <1>5

\* Every step does one of these things to every row.
LEMMA Updates == IndInv /\ LeasesDated /\ [Next]_vars => \A m \in Mats : Update(m, outbox'[m])
<1> SUFFICES ASSUME IndInv, LeasesDated, [Next]_vars, NEW m \in Mats
             PROVE  Update(m, outbox'[m])
    OBVIOUS
<1>1. CASE UNCHANGED outbox
    BY <1>1 DEF Update
<1>2. ASSUME NEW n \in Mats, Insert(n)
      PROVE  Update(m, outbox'[m])
    <2> DEFINE row == [NoRow EXCEPT !.status = "pending", !.due = clock,
                                    !.created = clock, !.updated = clock]
    <2>1. outbox' = [outbox EXCEPT ![n] = row] /\ ~Stored(n) /\ row.status = "pending"
        BY <1>2 DEF Insert, NoRow
    <2> HIDE DEF row
    <2>2. Update(n, row)
        BY <2>1 DEF Update
    <2> QED BY <2>1, <2>2, OneUpdate
<1>3. ASSUME NEW p \in Workers, ClaimNone(p)
      PROVE  Update(m, outbox'[m])
    BY <1>3, ReapUpdates, ReadingsNat DEF ClaimNone
<1>4. ASSUME NEW p \in Workers,
             \/ ClaimAborts(p) \/ Resolve(p) \/ GiveUp(p) \/ Send(p) \/ Crash(p) \/ Restart(p)
      PROVE  UNCHANGED outbox
    BY <1>4 DEF ClaimAborts, Resolve, GiveUp, Send, Crash, Restart
<1>5. ASSUME NEW r \in requests, Serve(r)
      PROVE  UNCHANGED outbox
    BY <1>5 DEF Serve, Load, Execute, Replay, Refuse
<1>6. CASE \/ \E n \in Mats : ContextChanges(n)
           \/ \E d \in Docs : DraftChanges(d)
           \/ Tick \/ UNCHANGED vars
    BY <1>1, <1>6 DEF ContextChanges, DraftChanges, Tick, vars
<1> QED BY <1>1, <1>2, <1>3, <1>4, <1>5, <1>6, ClaimUpdates, HeartbeatUpdates, EndingUpdates
        DEF Next, Run

\* No UPDATE meets the trigger: a renewed lease is longer and its date later,
\* though readings of the clock may be old or go back.
THEOREM TriggerNeverFires == Spec => TriggerAccepts
<1>1. Init => LeasesDated
    BY DEF Init, LeasesDated, Dated, NoRow
<1>2. IndInv /\ LeasesDated /\ [Next]_vars => LeasesDated'
    <2> SUFFICES ASSUME IndInv, LeasesDated, [Next]_vars, NEW m \in Mats
                 PROVE  Dated(outbox'[m])
        BY DEF LeasesDated
    <2>1. Update(m, outbox'[m])
        BY Updates
    <2> QED BY <2>1 DEF Update, Dated, LeasesDated
<1>3. IndInv /\ LeasesDated /\ [Next]_vars =>
         [\A m \in Mats : Stored(m) /\ outbox'[m] # outbox[m]
                             => Transition(outbox[m], outbox'[m])]_vars
    BY Updates DEF Update
<1> QED BY <1>1, <1>2, <1>3, Invariance, PTL DEF Spec, TriggerAccepts
=============================================================================
