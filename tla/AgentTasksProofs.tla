-------------------------- MODULE AgentTasksProofs --------------------------
(***************************************************************************)
(* What the agent task queue guarantees for every set of submissions,      *)
(* every number of processes, every assignment of worker_ids and every     *)
(* choice of durations.                                                    *)
(***************************************************************************)
EXTENDS AgentTasks, FiniteSetTheorems, TLAPS

\* Attempt numbers that were handed out do not exceed the one the row stands at.
ClaimsBounded ==
    \A c \in claimant : 1 <= c[2] /\ c[2] <= tasks[c[1]].attempt

\* What a busy process remembers is a claim that it was given.
ClaimsRemembered ==
    \A p \in Procs :
        Active(p) => /\ local[p].task \in Tasks
                     /\ <<local[p].task, local[p].attempt, p>> \in claimant
                     /\ local[p].pc = "completing" => local[p].output \in Outputs

\* A task_id without a row has no history.
AbsentRows == \A k \in Tasks : ~Stored(k) => tasks[k] = NoRow

\* The inductive invariant.
IndInv ==
    /\ TypesOK
    /\ RowChecks
    /\ AbsentRows
    /\ ClaimsBounded
    /\ ClaimsRemembered
    /\ UniqueClaims
    /\ ProposalFenced
    /\ DeadLetterExact
    /\ OneTaskPerKey

\* A step that only rewrites leased or running rows, and keeps their submission
\* and attempt, keeps what is said about rows, claims and keys.
RowKept(k) ==
    \/ tasks'[k] = tasks[k]
    \/ /\ tasks[k].status \in LeaseStates
       /\ tasks'[k].sub = tasks[k].sub
       /\ tasks'[k].attempt = tasks[k].attempt
       /\ tasks'[k].status # "absent"
       /\ tasks'[k].status \in LeaseStates <=> tasks'[k].owner # None

LEMMA RowsKept ==
    ASSUME IndInv, tasks' \in [Tasks -> RowType], claimant' = claimant,
           \A k \in Tasks : RowKept(k)
    PROVE  /\ RowChecks' /\ AbsentRows' /\ ClaimsBounded' /\ UniqueClaims'
           /\ OneTaskPerKey'
           /\ proposals' = proposals => ProposalFenced'
<1>1. RowChecks'
    BY DEF IndInv, RowChecks, RowKept, MaxAttempts, LeaseStates
<1>2. AbsentRows'
    BY DEF IndInv, AbsentRows, RowKept, Stored, LeaseStates
<1>3. ClaimsBounded'
    BY DEF IndInv, TypesOK, ClaimsBounded, RowKept
<1>4. UniqueClaims'
    BY DEF IndInv, UniqueClaims
<1>5. OneTaskPerKey'
    BY DEF IndInv, OneTaskPerKey, RowKept, Stored, LeaseStates
<1>6. proposals' = proposals => ProposalFenced'
    <2>1. ASSUME NEW r \in proposals PROVE tasks'[r.task] = tasks[r.task]
        <3>1. r.task \in Tasks /\ tasks[r.task].status = "succeeded"
            BY DEF IndInv, TypesOK, ProposalType, ProposalFenced
        <3> QED BY <3>1 DEF RowKept, LeaseStates
    <2> QED BY <2>1 DEF IndInv, ProposalFenced
<1> QED BY <1>1, <1>2, <1>3, <1>4, <1>5, <1>6

\* Ended keeps every column but the status and the lease.
LEMMA EndedRow ==
    ASSUME NEW row \in RowType, NEW status \in DueStates \cup FinalStates
    PROVE  /\ Ended(row, status) \in RowType
           /\ Ended(row, status).sub = row.sub
           /\ Ended(row, status).attempt = row.attempt
           /\ Ended(row, status).failure = row.failure
           /\ Ended(row, status).status = status
           /\ Ended(row, status).owner = None
    BY DEF Ended, RowType, DueStates, LeaseStates, FinalStates

\* The timeline keeps its type when events are appended.
LEMMA Logged ==
    ASSUME IndInv, NEW k \in Tasks, NEW e \in Events,
           timeline' = [timeline EXCEPT ![k] = Append(@, e)]
    PROVE  timeline' \in [Tasks -> Seq(Events)]
<1>1. timeline \in [Tasks -> Seq(Events)]
    BY DEF IndInv, TypesOK
<1>2. Append(timeline[k], e) \in Seq(Events)
    BY <1>1
<1> QED BY <1>1, <1>2

\* The attempts a stored task may have, and the numbers in a row.
LEMMA Attempts ==
    ASSUME IndInv, NEW k \in Tasks
    PROVE  /\ tasks[k] \in RowType
           /\ tasks[k].attempt \in Nat
           /\ Stored(k) => /\ tasks[k].sub \in Submissions
                           /\ MaxAttempts(k) \in Nat
                           /\ tasks[k].attempt <= MaxAttempts(k)
<1>1. tasks[k] \in RowType
    BY DEF IndInv, TypesOK
<1>2. tasks[k].attempt \in Nat
    BY <1>1 DEF RowType
<1>3. Stored(k) => tasks[k].sub \in Submissions /\ tasks[k].attempt <= MaxAttempts(k)
    BY DEF IndInv, RowChecks, Stored
<1>4. \A s \in Submissions : s.maxAttempts \in Nat
    <2>1. \A s \in SubmissionType : s.maxAttempts \in 1..100
        BY DEF SubmissionType
    <2> QED BY <2>1, SubmissionAssumption
<1> QED BY <1>1, <1>2, <1>3, <1>4 DEF MaxAttempts

\* A process that is busy, and the row it works on.
LEMMA BusyProcess ==
    ASSUME IndInv, NEW p \in Procs, Active(p)
    PROVE  /\ local[p] \in LocalType
           /\ local[p].task \in Tasks
           /\ <<local[p].task, local[p].attempt, p>> \in claimant
           /\ tasks[local[p].task] \in RowType
    BY DEF IndInv, TypesOK, ClaimsRemembered

\* Initial states.
LEMMA InitInv == Init => IndInv
<1> SUFFICES ASSUME Init PROVE IndInv OBVIOUS
<1>1. TypesOK
    BY DEF Init, TypesOK, RowType, LocalType, NoRow, Idle
<1>2. RowChecks /\ AbsentRows /\ OneTaskPerKey
    BY DEF Init, RowChecks, AbsentRows, OneTaskPerKey, Stored, NoRow, LeaseStates
<1>3. ClaimsBounded /\ UniqueClaims /\ ProposalFenced
    BY DEF Init, ClaimsBounded, UniqueClaims, ProposalFenced
<1>4. ClaimsRemembered
    BY DEF Init, ClaimsRemembered, Active, Idle
<1>5. DeadLetterExact
    BY DEF Init, DeadLetterExact, NoRow
<1> QED BY <1>1, <1>2, <1>3, <1>4, <1>5 DEF IndInv

\* What the processes remember stays right when one of them forgets its claim.
LEMMA Forget ==
    ASSUME IndInv, NEW p \in Procs, claimant' = claimant,
           local' = [local EXCEPT ![p] = Idle] \/ local' = [local EXCEPT ![p] = Down]
    PROVE  local' \in [Procs -> LocalType] /\ ClaimsRemembered'
<1>1. Idle \in LocalType /\ Down \in LocalType /\ Idle.pc = "idle" /\ Down.pc = "down"
    BY DEF Idle, Down, LocalType
<1>2. local' \in [Procs -> LocalType]
    BY <1>1 DEF IndInv, TypesOK
<1>3. ASSUME NEW q \in Procs, Active(q)'
      PROVE  q # p /\ local'[q] = local[q]
    BY <1>1, <1>3 DEF IndInv, TypesOK, Active
<1>4. ClaimsRemembered'
    BY <1>3 DEF IndInv, ClaimsRemembered, Active
<1> QED BY <1>2, <1>4

\* ... and when one goes on working on the claim it has.
LEMMA GoOn ==
    ASSUME IndInv, NEW p \in Procs, Active(p), claimant' = claimant,
           NEW l \in LocalType, local' = [local EXCEPT ![p] = l],
           l.task = local[p].task, l.attempt = local[p].attempt,
           l.pc = "completing" => l.output \in Outputs
    PROVE  local' \in [Procs -> LocalType] /\ ClaimsRemembered'
    BY DEF IndInv, TypesOK, ClaimsRemembered, Active

\* A step that leaves the database alone.
LEMMA DbKept ==
    ASSUME IndInv, UNCHANGED db, clock' \in Nat,
           local' \in [Procs -> LocalType], ClaimsRemembered'
    PROVE  IndInv'
<1>1. TypesOK'
    BY DEF IndInv, TypesOK, db
<1>2. RowChecks' /\ AbsentRows' /\ ClaimsBounded' /\ UniqueClaims' /\ OneTaskPerKey'
    BY DEF IndInv, db, RowChecks, AbsentRows, ClaimsBounded, UniqueClaims,
           OneTaskPerKey, Stored, MaxAttempts
<1>3. ProposalFenced' /\ DeadLetterExact'
    BY DEF IndInv, db, ProposalFenced, DeadLetterExact, MaxAttempts
<1> QED BY <1>1, <1>2, <1>3 DEF IndInv

\* The steps of a process that touch no table.
LEMMA LocalSteps ==
    ASSUME IndInv, NEW p \in Procs,
           \/ ClaimAborts(p) \/ Resolve(p) \/ ExecuteReturns(p) \/ ExecuteRaises(p)
           \/ CompleteRejected(p) \/ CompleteAnswered(p) \/ Crash(p) \/ Restart(p)
    PROVE  IndInv'
<1>1. UNCHANGED db /\ clock' \in Nat
    BY DEF IndInv, TypesOK, db, ClaimAborts, Resolve, ExecuteReturns, ExecuteRaises,
           CompleteRejected, CompleteAnswered, Crash, Restart
<1>2. CASE \/ local' = [local EXCEPT ![p] = Idle]
           \/ local' = [local EXCEPT ![p] = Down]
    BY <1>1, <1>2, Forget, DbKept DEF db
<1>3. CASE /\ local[p].pc \in {"claimed", "executing", "completing"}
           /\ \E pc \in {"executing", "failing"} :
                 local' = [local EXCEPT ![p].pc = pc]
    <2>1. PICK pc \in {"executing", "failing"} : local' = [local EXCEPT ![p].pc = pc]
        BY <1>3
    <2>2. Active(p)
        BY <1>3 DEF Active
    <2> DEFINE l == [local[p] EXCEPT !.pc = pc]
    <2>3. local[p] \in LocalType
        BY DEF IndInv, TypesOK
    <2>4. /\ l \in LocalType /\ l.task = local[p].task
          /\ l.attempt = local[p].attempt /\ l.pc = pc
        BY <2>3 DEF LocalType
    <2>5. local' = [local EXCEPT ![p] = l]
        BY <2>1 DEF IndInv, TypesOK
    <2> HIDE DEF l
    <2>6. local' \in [Procs -> LocalType] /\ ClaimsRemembered'
        BY <1>1, <2>2, <2>4, <2>5, GoOn DEF db
    <2> QED BY <1>1, <2>6, DbKept
<1>4. CASE /\ local[p].pc = "executing"
           /\ \E o \in Outputs :
                 local' = [local EXCEPT ![p].pc = "completing", ![p].output = o]
    <2>1. PICK o \in Outputs :
             local' = [local EXCEPT ![p].pc = "completing", ![p].output = o]
        BY <1>4
    <2>2. Active(p)
        BY <1>4 DEF Active
    <2> DEFINE l == [local[p] EXCEPT !.pc = "completing", !.output = o]
    <2>3. local[p] \in LocalType
        BY DEF IndInv, TypesOK
    <2>4. /\ l \in LocalType /\ l.task = local[p].task
          /\ l.attempt = local[p].attempt /\ l.output = o
        BY <2>3 DEF LocalType
    <2>5. local' = [local EXCEPT ![p] = l]
        BY <2>1 DEF IndInv, TypesOK
    <2> HIDE DEF l
    <2>6. local' \in [Procs -> LocalType] /\ ClaimsRemembered'
        BY <1>1, <2>2, <2>4, <2>5, GoOn DEF db
    <2> QED BY <1>1, <2>6, DbKept
<1> QED
    BY <1>2, <1>3, <1>4 DEF ClaimAborts, Resolve, ExecuteReturns, ExecuteRaises,
       CompleteRejected, CompleteAnswered, Crash, Restart, Return

\* Rewriting one leased row.
LEMMA OneRow ==
    ASSUME IndInv, NEW k \in Tasks, tasks[k].status \in LeaseStates,
           NEW r \in RowType, tasks' = [tasks EXCEPT ![k] = r],
           r.sub = tasks[k].sub, r.attempt = tasks[k].attempt, r.status # "absent",
           r.status \in LeaseStates <=> r.owner # None
    PROVE  /\ tasks' \in [Tasks -> RowType]
           /\ \A j \in Tasks : RowKept(j)
           /\ tasks'[k] = r
           /\ deadLetter' = deadLetter /\ r.status # "dead_letter" => DeadLetterExact'
<1>1. tasks' \in [Tasks -> RowType] /\ tasks'[k] = r
    BY DEF IndInv, TypesOK
<1>2. \A j \in Tasks : j # k => tasks'[j] = tasks[j]
    BY DEF IndInv, TypesOK
<1>3. \A j \in Tasks : RowKept(j)
    BY <1>1, <1>2 DEF RowKept
<1>4. ASSUME deadLetter' = deadLetter, r.status # "dead_letter"
      PROVE  DeadLetterExact'
    BY <1>1, <1>2, <1>4 DEF IndInv, DeadLetterExact, MaxAttempts, LeaseStates
<1> QED BY <1>1, <1>3, <1>4

\* start
LEMMA StartStep ==
    ASSUME IndInv, NEW p \in Procs, Start(p)
    PROVE  IndInv'
<1> DEFINE k == local[p].task
<1>0. Active(p)
    BY DEF Start, Active
<1>1. /\ local[p] \in LocalType /\ k \in Tasks /\ tasks[k] \in RowType
    BY <1>0, BusyProcess
<1>2. UNCHANGED <<clock, deadLetter, proposals, claimant>>
    BY DEF Start
<1>3. CASE Return(p) /\ UNCHANGED <<tasks, timeline>>
    <2>1. UNCHANGED db /\ clock' \in Nat
        BY <1>2, <1>3 DEF db, IndInv, TypesOK
    <2> QED BY <1>2, <1>3, <2>1, Forget, DbKept DEF Return
<1>4. CASE /\ \E t \in Readings : Holds(p, t)
           /\ tasks' = [tasks EXCEPT ![k].status = "running"]
           /\ timeline' = [timeline EXCEPT ![k] = Append(@, "running")]
           /\ local' = [local EXCEPT ![p].pc = "started"]
    <2> DEFINE r == [tasks[k] EXCEPT !.status = "running"]
               l == [local[p] EXCEPT !.pc = "started"]
    <2>1. tasks[k].status \in LeaseStates /\ tasks[k].owner # None
        BY <1>1, <1>4, ProcAssumption DEF Holds
    <2>2. /\ r \in RowType /\ r.sub = tasks[k].sub /\ r.attempt = tasks[k].attempt
          /\ r.status = "running" /\ r.owner = tasks[k].owner
        BY <1>1 DEF RowType, LeaseStates
    <2>3. tasks' = [tasks EXCEPT ![k] = r]
        BY <1>1, <1>4 DEF IndInv, TypesOK
    <2>4. /\ l \in LocalType /\ l.task = k /\ l.attempt = local[p].attempt
          /\ l.pc = "started"
        BY <1>1 DEF LocalType
    <2>5. local' = [local EXCEPT ![p] = l]
        BY <1>4 DEF IndInv, TypesOK
    <2> HIDE DEF r, l
    <2>6. /\ tasks' \in [Tasks -> RowType] /\ \A j \in Tasks : RowKept(j)
          /\ DeadLetterExact'
        BY <1>1, <1>2, <2>1, <2>2, <2>3, OneRow DEF LeaseStates
    <2>7. local' \in [Procs -> LocalType] /\ ClaimsRemembered'
        BY <1>0, <1>2, <2>4, <2>5, GoOn
    <2>8. timeline' \in [Tasks -> Seq(Events)]
        BY <1>1, <1>4, Logged DEF Events
    <2>9. TypesOK'
        BY <1>2, <2>6, <2>7, <2>8 DEF IndInv, TypesOK
    <2> QED BY <1>2, <2>6, <2>7, <2>9, RowsKept DEF IndInv
<1> QED BY <1>3, <1>4 DEF Start

\* heartbeat
LEMMA HeartbeatStep ==
    ASSUME IndInv, NEW p \in Procs, Heartbeat(p)
    PROVE  IndInv'
<1> DEFINE k == local[p].task
<1>0. Active(p)
    BY DEF Heartbeat, Active
<1>1. /\ local[p] \in LocalType /\ k \in Tasks /\ tasks[k] \in RowType
    BY <1>0, BusyProcess
<1>2. UNCHANGED <<clock, timeline, deadLetter, proposals, claimant>>
    BY DEF Heartbeat
<1>3. CASE UNCHANGED tasks /\ Return(p)
    <2>1. UNCHANGED db /\ clock' \in Nat
        BY <1>2, <1>3 DEF db, IndInv, TypesOK
    <2> QED BY <1>2, <1>3, <2>1, Forget, DbKept DEF Return
<1>4. CASE UNCHANGED tasks /\ local' = [local EXCEPT ![p].lost = TRUE]
    <2> DEFINE l == [local[p] EXCEPT !.lost = TRUE]
    <2>1. UNCHANGED db /\ clock' \in Nat
        BY <1>2, <1>4 DEF db, IndInv, TypesOK
    <2>2. /\ l \in LocalType /\ l.task = k /\ l.attempt = local[p].attempt
          /\ l.pc = local[p].pc
        BY <1>1 DEF LocalType
    <2>3. local' = [local EXCEPT ![p] = l]
        BY <1>4 DEF IndInv, TypesOK
    <2>4. local[p].pc # "completing"
        BY DEF Heartbeat
    <2> HIDE DEF l
    <2>5. local' \in [Procs -> LocalType] /\ ClaimsRemembered'
        BY <1>0, <1>2, <2>2, <2>3, <2>4, GoOn
    <2> QED BY <2>1, <2>5, DbKept
<1>5. ASSUME NEW t \in Readings, Holds(p, t),
             tasks' = [tasks EXCEPT ![k].expires = t + Lease],
             local' = [local EXCEPT ![p].beats = @ + 1]
      PROVE  IndInv'
    <2> DEFINE r == [tasks[k] EXCEPT !.expires = t + Lease]
               l == [local[p] EXCEPT !.beats = @ + 1]
    <2>1. tasks[k].status \in LeaseStates /\ tasks[k].owner # None
        BY <1>1, <1>5, ProcAssumption DEF Holds
    <2>2. t + Lease \in Nat
        BY <1>5, TimeAssumption DEF Readings, IndInv, TypesOK
    <2>3. /\ r \in RowType /\ r.sub = tasks[k].sub /\ r.attempt = tasks[k].attempt
          /\ r.status = tasks[k].status /\ r.owner = tasks[k].owner
        BY <1>1, <2>2 DEF RowType
    <2>4. tasks' = [tasks EXCEPT ![k] = r]
        BY <1>1, <1>5 DEF IndInv, TypesOK
    <2>5. /\ l \in LocalType /\ l.task = k /\ l.attempt = local[p].attempt
          /\ l.pc = local[p].pc
        BY <1>1 DEF LocalType
    <2>6. local' = [local EXCEPT ![p] = l]
        BY <1>5 DEF IndInv, TypesOK
    <2>7. local[p].pc # "completing"
        BY DEF Heartbeat
    <2> HIDE DEF r, l
    <2>8. /\ tasks' \in [Tasks -> RowType] /\ \A j \in Tasks : RowKept(j)
          /\ DeadLetterExact'
        BY <1>1, <1>2, <2>1, <2>3, <2>4, OneRow DEF LeaseStates
    <2>9. local' \in [Procs -> LocalType] /\ ClaimsRemembered'
        BY <1>0, <1>2, <2>5, <2>6, <2>7, GoOn
    <2>10. TypesOK'
        BY <1>2, <2>8, <2>9 DEF IndInv, TypesOK
    <2> QED BY <1>2, <2>8, <2>9, <2>10, RowsKept DEF IndInv
<1> QED BY <1>3, <1>4, <1>5 DEF Heartbeat

\* A process that returns or keeps its state.
LEMMA ReturnOrKeep ==
    ASSUME IndInv, NEW p \in Procs, claimant' = claimant,
           Return(p) \/ UNCHANGED local
    PROVE  local' \in [Procs -> LocalType] /\ ClaimsRemembered'
<1>1. CASE Return(p)
    BY <1>1, Forget DEF Return
<1>2. CASE UNCHANGED local
    BY <1>2 DEF IndInv, TypesOK, ClaimsRemembered, Active
<1> QED BY <1>1, <1>2

\* succeed
LEMMA SucceedStep ==
    ASSUME IndInv, NEW p \in Procs, Succeed(p)
    PROVE  IndInv'
<1> DEFINE k == local[p].task
<1>0. Active(p)
    BY DEF Succeed, Active
<1>1. /\ local[p] \in LocalType /\ k \in Tasks /\ tasks[k] \in RowType
    BY <1>0, BusyProcess
<1>2. UNCHANGED <<clock, deadLetter, proposals, claimant>>
    BY DEF Succeed
<1>3. local' \in [Procs -> LocalType] /\ ClaimsRemembered'
    BY <1>2, ReturnOrKeep DEF Succeed
<1>4. CASE UNCHANGED <<tasks, timeline>>
    <2>1. UNCHANGED db /\ clock' \in Nat
        BY <1>2, <1>4 DEF db, IndInv, TypesOK
    <2> QED BY <1>3, <2>1, DbKept
<1>5. CASE /\ \E t \in Readings : Holds(p, t)
           /\ tasks' = [tasks EXCEPT ![k] = Ended(@, "succeeded")]
           /\ timeline' = [timeline EXCEPT ![k] = Append(@, "succeeded")]
    <2> DEFINE r == Ended(tasks[k], "succeeded")
    <2>1. tasks[k].status \in LeaseStates
        BY <1>5 DEF Holds
    <2>2. /\ r \in RowType /\ r.sub = tasks[k].sub /\ r.attempt = tasks[k].attempt
          /\ r.status = "succeeded" /\ r.owner = None
        BY <1>1, EndedRow DEF FinalStates
    <2>3. tasks' = [tasks EXCEPT ![k] = r]
        BY <1>5
    <2> HIDE DEF r
    <2>4. /\ tasks' \in [Tasks -> RowType] /\ \A j \in Tasks : RowKept(j)
          /\ DeadLetterExact'
        BY <1>1, <1>2, <2>1, <2>2, <2>3, OneRow DEF LeaseStates
    <2>5. timeline' \in [Tasks -> Seq(Events)]
        BY <1>1, <1>5, Logged DEF Events
    <2>6. TypesOK'
        BY <1>2, <1>3, <2>4, <2>5 DEF IndInv, TypesOK
    <2> QED BY <1>2, <1>3, <2>4, <2>6, RowsKept DEF IndInv
<1> QED BY <1>4, <1>5 DEF Succeed

\* complete_with_proposal, when it commits: the row was running, so no proposal
\* of the task exists yet.
LEMMA CompleteStep ==
    ASSUME IndInv, NEW p \in Procs, CompleteCommits(p)
    PROVE  IndInv'
<1> DEFINE k == local[p].task
           n == [task |-> k, attempt |-> local[p].attempt,
                 output |-> local[p].output, by |-> p]
           r == Ended(tasks[k], "succeeded")
<1>0. Active(p)
    BY DEF CompleteCommits, Active
<1>1. /\ local[p] \in LocalType /\ k \in Tasks /\ tasks[k] \in RowType
      /\ <<k, local[p].attempt, p>> \in claimant
    BY <1>0, BusyProcess
<1>2. /\ UNCHANGED <<clock, deadLetter, claimant>>
      /\ proposals' = proposals \cup {n}
      /\ tasks' = [tasks EXCEPT ![k] = r]
      /\ timeline' = [timeline EXCEPT ![k] = Append(@, "succeeded")]
      /\ tasks[k].status = "running" /\ tasks[k].attempt = local[p].attempt
    BY DEF CompleteCommits, Holds
<1>3. local' \in [Procs -> LocalType] /\ ClaimsRemembered'
    BY <1>2, ReturnOrKeep DEF CompleteCommits
<1>4. /\ r \in RowType /\ r.sub = tasks[k].sub /\ r.attempt = tasks[k].attempt
      /\ r.status = "succeeded" /\ r.owner = None
    BY <1>1, EndedRow DEF FinalStates
<1>5. local[p].output \in Outputs
    BY <1>0 DEF IndInv, ClaimsRemembered, CompleteCommits
<1>6. n \in ProposalType /\ n.task = k /\ n.attempt = local[p].attempt /\ n.by = p
    BY <1>1, <1>5 DEF ProposalType, LocalType
<1> HIDE DEF r, n
<1>7. /\ tasks' \in [Tasks -> RowType] /\ \A j \in Tasks : RowKept(j)
      /\ DeadLetterExact' /\ tasks'[k] = r
    BY <1>1, <1>2, <1>4, OneRow DEF LeaseStates
<1>8. timeline' \in [Tasks -> Seq(Events)]
    BY <1>1, <1>2, Logged DEF Events
<1>9. TypesOK'
    BY <1>2, <1>3, <1>6, <1>7, <1>8 DEF IndInv, TypesOK
<1>10. \A q \in proposals : q.task # k /\ tasks'[q.task] = tasks[q.task]
    BY <1>2, <1>7 DEF IndInv, TypesOK, ProposalType, ProposalFenced, RowKept, LeaseStates
<1>11. ASSUME NEW x \in proposals'
       PROVE  /\ tasks'[x.task].status = "succeeded"
              /\ tasks'[x.task].attempt = x.attempt
              /\ <<x.task, x.attempt, x.by>> \in claimant'
              /\ \A q \in proposals' : q.task = x.task => q = x
    <2>1. CASE x = n
        BY <1>1, <1>2, <1>4, <1>6, <1>7, <1>10, <2>1
    <2>2. CASE x \in proposals
        BY <1>2, <1>6, <1>10, <2>2 DEF IndInv, ProposalFenced
    <2> QED BY <1>2, <2>1, <2>2
<1>12. ProposalFenced'
    BY <1>11 DEF ProposalFenced
<1> QED BY <1>2, <1>3, <1>7, <1>9, <1>12, RowsKept DEF IndInv

\* fail
LEMMA FailStep ==
    ASSUME IndInv, NEW p \in Procs, Fail(p)
    PROVE  IndInv'
<1> DEFINE k == local[p].task
<1>0. Active(p)
    BY DEF Fail, Active
<1>1. /\ local[p] \in LocalType /\ k \in Tasks /\ tasks[k] \in RowType
    BY <1>0, BusyProcess
<1>2. UNCHANGED <<clock, proposals, claimant>>
    BY DEF Fail
<1>3. local' \in [Procs -> LocalType] /\ ClaimsRemembered'
    BY <1>2, ReturnOrKeep DEF Fail
<1>4. CASE UNCHANGED <<tasks, timeline, deadLetter>>
    <2>1. UNCHANGED db /\ clock' \in Nat
        BY <1>2, <1>4 DEF db, IndInv, TypesOK
    <2> QED BY <1>3, <2>1, DbKept
<1>5. ASSUME NEW t \in Readings, NEW why \in Failures, Holds(p, t),
             tasks' = [tasks EXCEPT ![k] = FailedRow(k, t, why)],
             timeline' = [timeline EXCEPT ![k] = Append(@,
                        IF Retries(k) THEN "recheck_scheduled" ELSE "dead_lettered")],
             deadLetter' = IF Retries(k) THEN deadLetter ELSE
                        [deadLetter EXCEPT ![k] =
                           Buried(k, why, "max_attempts_exhausted")]
      PROVE  IndInv'
    <2> DEFINE st == IF Retries(k) THEN "recheck" ELSE "dead_letter"
               r == FailedRow(k, t, why)
               again == [tasks[k] EXCEPT !.failure = why, !.due = t + RetryDelay]
               dead == [tasks[k] EXCEPT !.failure = why]
    <2>1. tasks[k].status \in LeaseStates
        BY <1>5 DEF Holds
    <2>2. t \in Nat /\ t + RetryDelay \in Nat
        BY TimeAssumption DEF Readings, IndInv, TypesOK
    <2>3. /\ again \in RowType /\ again.sub = tasks[k].sub
          /\ again.attempt = tasks[k].attempt /\ again.failure = why
        BY <1>1, <2>2 DEF RowType
    <2>4. /\ dead \in RowType /\ dead.sub = tasks[k].sub
          /\ dead.attempt = tasks[k].attempt /\ dead.failure = why
        BY <1>1 DEF RowType
    <2>0. /\ Retries(k) => r = Ended(again, "recheck")
          /\ ~Retries(k) => r = Ended(dead, "dead_letter")
        BY DEF FailedRow
    <2>12. tasks' = [tasks EXCEPT ![k] = r]
        BY <1>5
    <2>5. st \notin LeaseStates /\ st # "absent"
        BY DEF LeaseStates
    <2>13. (Retries(k) => st = "recheck") /\ (~Retries(k) => st = "dead_letter")
        OBVIOUS
    <2> HIDE DEF again, dead, r, st
    <2>6. /\ r \in RowType /\ r.sub = tasks[k].sub /\ r.attempt = tasks[k].attempt
          /\ r.status = st /\ r.owner = None /\ r.failure = why
        <3>1. CASE Retries(k)
            BY <2>0, <2>3, <2>13, <3>1, EndedRow DEF DueStates
        <3>2. CASE ~Retries(k)
            BY <2>0, <2>4, <2>13, <3>2, EndedRow DEF FinalStates
        <3> QED BY <3>1, <3>2
    <2>7. /\ tasks' \in [Tasks -> RowType] /\ \A j \in Tasks : RowKept(j)
          /\ tasks'[k] = r
          /\ deadLetter' = deadLetter /\ r.status # "dead_letter" => DeadLetterExact'
        <3>1. r.status \notin LeaseStates /\ r.status # "absent" /\ r.owner = None
            BY <2>5, <2>6
        <3> QED BY <1>1, <2>1, <2>6, <2>12, <3>1, OneRow
    <2>8. timeline' \in [Tasks -> Seq(Events)]
        <3>1. CASE Retries(k)
            BY <1>1, <1>5, <3>1, Logged DEF Events
        <3>2. CASE ~Retries(k)
            BY <1>1, <1>5, <3>2, Logged DEF Events
        <3> QED BY <3>1, <3>2
    <2>9. \A j \in Tasks : j # k => tasks'[j] = tasks[j] /\ deadLetter'[j] = deadLetter[j]
        BY <1>1, <1>5 DEF IndInv, TypesOK
    <2>10. deadLetter' \in [Tasks -> LetterType \cup {None}] /\ DeadLetterExact'
        <3>1. CASE Retries(k)
            <4>1. deadLetter' = deadLetter /\ r.status # "dead_letter"
                BY <1>5, <2>6, <2>13, <3>1
            <4> QED BY <2>7, <4>1 DEF IndInv, TypesOK
        <3>2. CASE ~Retries(k)
            <4>1. deadLetter[k] = None
                BY <1>1, <2>1 DEF IndInv, DeadLetterExact, LeaseStates
            <4>2. tasks[k].attempt = MaxAttempts(k)
                BY <1>1, <2>1, <3>2, SubmissionAssumption
                DEF IndInv, RowChecks, RowType, LeaseStates, MaxAttempts, Retries,
                    SubmissionType
            <4> DEFINE d == [attempts |-> tasks[k].attempt, failure |-> why,
                             reason |-> "max_attempts_exhausted"]
            <4>3. deadLetter' = [deadLetter EXCEPT ![k] = d]
                BY <1>5, <3>2, <4>1 DEF Buried
            <4>4. d \in LetterType /\ d.attempts = tasks[k].attempt /\ d.failure = why
                BY <1>1, <1>5 DEF LetterType, RowType
            <4> HIDE DEF d
            <4>5. d # None
                BY <4>4, NullAssumption
            <4>6. deadLetter' \in [Tasks -> LetterType \cup {None}] /\ deadLetter'[k] = d
                BY <1>1, <4>3, <4>4 DEF IndInv, TypesOK
            <4>7. DeadLetterExact'
                <5>1. r.status = "dead_letter" /\ tasks'[k] = r
                    BY <2>6, <2>7, <2>13, <3>2
                <5>2. d.attempts = r.sub.maxAttempts /\ r.attempt = r.sub.maxAttempts
                    BY <2>6, <4>2, <4>4 DEF MaxAttempts
                <5> QED BY <1>1, <2>6, <2>9, <4>4, <4>5, <4>6, <5>1, <5>2
                        DEF IndInv, DeadLetterExact, MaxAttempts
            <4> QED BY <4>6, <4>7
        <3> QED BY <3>1, <3>2
    <2>11. TypesOK'
        BY <1>2, <1>3, <2>7, <2>8, <2>10 DEF IndInv, TypesOK
    <2> QED BY <1>2, <1>3, <2>7, <2>10, <2>11, RowsKept DEF IndInv
<1> QED BY <1>4, <1>5 DEF Fail

\* _reap_expired: the rows it rewrites stood at their last attempt.
LEMMA ReapRows ==
    ASSUME IndInv, NEW t, NEW locked
    PROVE  LET S == Reapable(t, locked) IN
           /\ Reaped(S) \in [Tasks -> RowType]
           /\ ReapedTimeline(S) \in [Tasks -> Seq(Events)]
           /\ ReapedLetters(S) \in [Tasks -> LetterType \cup {None}]
           /\ \A k \in Tasks \ S :
                 Reaped(S)[k] = tasks[k] /\ ReapedLetters(S)[k] = deadLetter[k]
           /\ \A k \in S :
                 /\ k \in Tasks
                 /\ tasks[k].status \in LeaseStates
                 /\ tasks[k].attempt = MaxAttempts(k)
                 /\ Reaped(S)[k].sub = tasks[k].sub
                 /\ Reaped(S)[k].attempt = tasks[k].attempt
                 /\ Reaped(S)[k].status = "dead_letter"
                 /\ Reaped(S)[k].owner = None
                 /\ Reaped(S)[k].failure = "internal"
                 /\ ReapedLetters(S)[k] # None
                 /\ ReapedLetters(S)[k].attempts = tasks[k].attempt
                 /\ ReapedLetters(S)[k].failure = "internal"
<1> DEFINE S == Reapable(t, locked)
<1>1. \A k \in S : /\ k \in Tasks /\ tasks[k].status \in LeaseStates
                    /\ tasks[k].attempt >= MaxAttempts(k)
    BY DEF Reapable, Expired
<1> HIDE DEF S
<1>2. ASSUME NEW k \in S
      PROVE  tasks[k].attempt = MaxAttempts(k)
    <2>1. /\ k \in Tasks /\ tasks[k].attempt >= MaxAttempts(k)
          /\ tasks[k].status \in LeaseStates
        BY <1>1
    <2>2. Stored(k)
        BY <2>1 DEF Stored, LeaseStates
    <2> QED BY <2>1, <2>2, Attempts
<1>3. ASSUME NEW k \in S
      PROVE  /\ Reaped(S)[k] \in RowType
             /\ Reaped(S)[k].sub = tasks[k].sub
             /\ Reaped(S)[k].attempt = tasks[k].attempt
             /\ Reaped(S)[k].status = "dead_letter"
             /\ Reaped(S)[k].owner = None
             /\ Reaped(S)[k].failure = "internal"
    <2> DEFINE m == [tasks[k] EXCEPT !.failure = "internal"]
    <2>1. tasks[k] \in RowType
        BY <1>1 DEF IndInv, TypesOK
    <2>2. /\ m \in RowType /\ m.sub = tasks[k].sub /\ m.attempt = tasks[k].attempt
          /\ m.failure = "internal"
        BY <2>1 DEF RowType
    <2>3. Reaped(S)[k] = Ended(m, "dead_letter")
        BY <1>1 DEF Reaped
    <2> HIDE DEF m
    <2> QED BY <2>2, <2>3, EndedRow DEF FinalStates
<1>4. ASSUME NEW k \in S
      PROVE  /\ ReapedLetters(S)[k] \in LetterType
             /\ ReapedLetters(S)[k] # None
             /\ ReapedLetters(S)[k].attempts = tasks[k].attempt
             /\ ReapedLetters(S)[k].failure = "internal"
    <2> DEFINE d == [attempts |-> tasks[k].attempt, failure |-> "internal",
                     reason |-> "lease_expired_max_attempts"]
    <2>1. deadLetter[k] = None
        BY <1>1 DEF IndInv, DeadLetterExact, LeaseStates
    <2>2. ReapedLetters(S)[k] = d
        BY <1>1, <2>1 DEF ReapedLetters, Buried
    <2>3. tasks[k].attempt \in Nat
        BY <1>1 DEF IndInv, TypesOK, RowType
    <2>4. d \in LetterType /\ d.attempts = tasks[k].attempt /\ d.failure = "internal"
        BY <2>3 DEF LetterType
    <2> HIDE DEF d
    <2> QED BY <2>2, <2>4, NullAssumption
<1>5. \A k \in Tasks \ S :
         Reaped(S)[k] = tasks[k] /\ ReapedLetters(S)[k] = deadLetter[k]
    BY DEF Reaped, ReapedLetters
<1>6. Reaped(S) \in [Tasks -> RowType]
    <2>1. \A k \in Tasks : Reaped(S)[k] \in RowType
        BY <1>3, <1>5 DEF IndInv, TypesOK
    <2>2. Reaped(S) = [k \in Tasks |-> Reaped(S)[k]]
        BY DEF Reaped
    <2> QED BY <2>1, <2>2
<1>7. ReapedLetters(S) \in [Tasks -> LetterType \cup {None}]
    <2>1. \A k \in Tasks : ReapedLetters(S)[k] \in LetterType \cup {None}
        BY <1>4, <1>5 DEF IndInv, TypesOK
    <2>2. ReapedLetters(S) = [k \in Tasks |-> ReapedLetters(S)[k]]
        BY DEF ReapedLetters
    <2> QED BY <2>1, <2>2
<1>8. ReapedTimeline(S) \in [Tasks -> Seq(Events)]
    <2>1. \A k \in Tasks : timeline[k] \in Seq(Events)
        BY DEF IndInv, TypesOK
    <2>2. \A k \in Tasks : Append(timeline[k], "dead_lettered") \in Seq(Events)
        BY <2>1 DEF Events
    <2> QED BY <2>1, <2>2 DEF ReapedTimeline
<1> QED BY <1>1, <1>2, <1>3, <1>4, <1>5, <1>6, <1>7, <1>8 DEF S

\* A claim that finds no candidate.
LEMMA ClaimNoneStep ==
    ASSUME IndInv, NEW p \in Procs, ClaimNone(p)
    PROVE  IndInv'
<1>1. PICK t \in Readings, locked \in LockSets(p) :
          /\ tasks' = Reaped(Reapable(t, locked))
          /\ timeline' = ReapedTimeline(Reapable(t, locked))
          /\ deadLetter' = ReapedLetters(Reapable(t, locked))
    BY DEF ClaimNone
<1> DEFINE S == Reapable(t, locked)
<1>2. UNCHANGED <<clock, proposals, claimant, local>>
    BY DEF ClaimNone
<1>3. /\ tasks' \in [Tasks -> RowType]
      /\ timeline' \in [Tasks -> Seq(Events)]
      /\ deadLetter' \in [Tasks -> LetterType \cup {None}]
      /\ \A k \in Tasks \ S : tasks'[k] = tasks[k] /\ deadLetter'[k] = deadLetter[k]
      /\ \A k \in S :
            /\ k \in Tasks /\ tasks[k].status \in LeaseStates
            /\ tasks[k].attempt = MaxAttempts(k)
            /\ tasks'[k].sub = tasks[k].sub
            /\ tasks'[k].attempt = tasks[k].attempt
            /\ tasks'[k].status = "dead_letter"
            /\ tasks'[k].owner = None
            /\ tasks'[k].failure = "internal"
            /\ deadLetter'[k] # None
            /\ deadLetter'[k].attempts = tasks[k].attempt
            /\ deadLetter'[k].failure = "internal"
    BY <1>1, ReapRows
<1> HIDE DEF S
<1>4. \A k \in Tasks : RowKept(k)
    BY <1>3 DEF RowKept, LeaseStates
<1>5. DeadLetterExact'
    BY <1>3 DEF IndInv, DeadLetterExact, MaxAttempts
<1>6. TypesOK' /\ ClaimsRemembered'
    BY <1>2, <1>3 DEF IndInv, TypesOK, ClaimsRemembered, Active
<1> QED BY <1>2, <1>3, <1>4, <1>5, <1>6, RowsKept DEF IndInv

\* A claim that takes candidate k: the new attempt number is larger than every
\* one handed out before, and the row had neither a proposal nor a dead letter.
LEMMA TakeStep ==
    ASSUME IndInv, NEW p \in Procs, NEW t \in Readings, NEW locked,
           NEW k \in Candidate(t, locked), NEW status \in LeaseStates,
           NEW pc \in {"claimed", "leased"}, local[p].pc = "idle",
           Take(p, k, t, locked, status), Remember(p, k, pc),
           timeline' \in [Tasks -> Seq(Events)]
    PROVE  IndInv'
<1> DEFINE S == Reapable(t, locked)
           r == [tasks[k] EXCEPT !.status = status, !.attempt = @ + 1,
                                 !.owner = WorkerId[p], !.expires = t + Lease]
           c == <<k, tasks[k].attempt + 1, p>>
<1>1. /\ k \in Tasks /\ tasks[k].attempt < MaxAttempts(k)
      /\ tasks[k].status \in DueStates \cup LeaseStates
    BY DEF Candidate, Claimable, Expired
<1>2. /\ tasks[k] \in RowType /\ tasks[k].sub \in Submissions /\ Stored(k)
      /\ tasks[k].attempt \in Nat /\ MaxAttempts(k) \in Nat
    <2>1. Stored(k)
        BY <1>1 DEF Stored, DueStates, LeaseStates
    <2> QED BY <1>1, <2>1, Attempts
<1>3. /\ Reaped(S) \in [Tasks -> RowType]
      /\ ReapedLetters(S) \in [Tasks -> LetterType \cup {None}]
      /\ \A j \in Tasks \ S :
            Reaped(S)[j] = tasks[j] /\ ReapedLetters(S)[j] = deadLetter[j]
      /\ \A j \in S :
            /\ j \in Tasks /\ tasks[j].status \in LeaseStates
            /\ tasks[j].attempt = MaxAttempts(j)
            /\ Reaped(S)[j].sub = tasks[j].sub
            /\ Reaped(S)[j].attempt = tasks[j].attempt
            /\ Reaped(S)[j].status = "dead_letter"
            /\ Reaped(S)[j].owner = None
            /\ Reaped(S)[j].failure = "internal"
            /\ ReapedLetters(S)[j] # None
            /\ ReapedLetters(S)[j].attempts = tasks[j].attempt
            /\ ReapedLetters(S)[j].failure = "internal"
    BY ReapRows
<1>4. k \notin S
    BY <1>1, <1>2, <1>3
<1>5. t + Lease \in Nat
    BY TimeAssumption DEF Readings, IndInv, TypesOK
<1>6. /\ r \in RowType /\ r.sub = tasks[k].sub /\ r.attempt = tasks[k].attempt + 1
      /\ r.status = status /\ r.owner = WorkerId[p] /\ r.owner # None
    <2>1. /\ WorkerId[p] # None
          /\ WorkerId[p] \in {WorkerId[q] : q \in Procs} \cup {None}
          /\ status \in {"absent"} \cup DueStates \cup LeaseStates \cup FinalStates
          /\ tasks[k].attempt + 1 \in Nat
        BY <1>2, ProcAssumption
    <2> QED BY <1>2, <1>5, <2>1 DEF RowType
<1>7. /\ tasks' = [Reaped(S) EXCEPT ![k] = r]
      /\ deadLetter' = ReapedLetters(S)
      /\ claimant' = claimant \cup {c}
      /\ UNCHANGED <<clock, proposals>>
    BY DEF Take, Taken
<1> HIDE DEF S, r
<1>8. /\ tasks' \in [Tasks -> RowType]
      /\ tasks'[k] = r
      /\ \A j \in Tasks : j # k => tasks'[j] = Reaped(S)[j]
    BY <1>1, <1>3, <1>6, <1>7
<1>9. \A j \in Tasks :
         /\ tasks'[j].sub = tasks[j].sub
         /\ tasks'[j].status = "absent" <=> tasks[j].status = "absent"
         /\ j # k => tasks'[j].attempt = tasks[j].attempt
         /\ tasks[j].status \in FinalStates \cup {"absent"} => tasks'[j] = tasks[j]
    <2> SUFFICES ASSUME NEW j \in Tasks
                 PROVE  /\ tasks'[j].sub = tasks[j].sub
                        /\ tasks'[j].status = "absent" <=> tasks[j].status = "absent"
                        /\ j # k => tasks'[j].attempt = tasks[j].attempt
                        /\ tasks[j].status \in FinalStates \cup {"absent"}
                              => tasks'[j] = tasks[j]
        OBVIOUS
    <2>1. CASE j = k
        BY <1>1, <1>6, <1>8, <2>1 DEF LeaseStates, DueStates, FinalStates
    <2>2. CASE j # k /\ j \in S
        <3>1. /\ tasks[j].status \in LeaseStates /\ tasks'[j].sub = tasks[j].sub
              /\ tasks'[j].attempt = tasks[j].attempt
              /\ tasks'[j].status = "dead_letter"
            BY <1>3, <1>8, <2>2
        <3> QED BY <2>2, <3>1 DEF LeaseStates, FinalStates
    <2>3. CASE j # k /\ j \notin S
        BY <1>3, <1>8, <2>3
    <2> QED BY <2>1, <2>2, <2>3
<1>10. local' \in [Procs -> LocalType] /\ ClaimsRemembered'
    <2> DEFINE l == [Idle EXCEPT !.pc = pc, !.task = k,
                                 !.attempt = tasks[k].attempt + 1]
    <2>1. /\ l \in LocalType /\ l.task = k /\ l.attempt = tasks[k].attempt + 1
          /\ l.pc # "completing"
        <3>1. tasks[k].attempt + 1 \in Nat
            BY <1>2
        <3> QED BY <1>1, <3>1 DEF Idle, LocalType
    <2>2. local' = [local EXCEPT ![p] = l]
        BY DEF Remember
    <2> HIDE DEF l
    <2>3. local' \in [Procs -> LocalType] /\ local'[p] = l
          /\ \A q \in Procs : q # p => local'[q] = local[q]
        BY <2>1, <2>2 DEF IndInv, TypesOK
    <2>4. ASSUME NEW q \in Procs, Active(q)'
          PROVE  /\ local'[q].task \in Tasks
                 /\ <<local'[q].task, local'[q].attempt, q>> \in claimant'
                 /\ local'[q].pc = "completing" => local'[q].output \in Outputs
        BY <1>1, <1>7, <2>1, <2>3, <2>4 DEF IndInv, ClaimsRemembered, Active
    <2> QED BY <2>3, <2>4 DEF ClaimsRemembered
<1>11. c \in Tasks \X Nat \X Procs /\ c[1] = k /\ c[2] = tasks[k].attempt + 1
    BY <1>1, <1>2
<1> HIDE DEF c
<1>12. TypesOK'
    BY <1>3, <1>7, <1>8, <1>10, <1>11 DEF IndInv, TypesOK
<1>13. RowChecks'
    <2>1. ASSUME NEW j \in Tasks
          PROVE  /\ tasks'[j].status # "absent" => /\ tasks'[j].sub \in Submissions
                                                   /\ tasks'[j].sub.task = j
                                                   /\ tasks'[j].attempt <= tasks'[j].sub.maxAttempts
                 /\ tasks'[j].status \in LeaseStates <=> tasks'[j].owner # None
        <3>1. CASE j = k
            BY <1>1, <1>2, <1>6, <1>8, <3>1 DEF IndInv, RowChecks, Stored, MaxAttempts
        <3>2. CASE j # k /\ j \in S
            <4>1. /\ tasks[j].status \in LeaseStates /\ tasks'[j].sub = tasks[j].sub
                  /\ tasks'[j].attempt = tasks[j].attempt
                  /\ tasks'[j].status = "dead_letter" /\ tasks'[j].owner = None
                BY <1>3, <1>8, <3>2
            <4> QED BY <4>1 DEF IndInv, RowChecks, MaxAttempts, LeaseStates
        <3>3. CASE j # k /\ j \notin S
            <4>1. tasks'[j] = tasks[j]
                BY <1>3, <1>8, <3>3
            <4> QED BY <4>1 DEF IndInv, RowChecks, MaxAttempts
        <3> QED BY <3>1, <3>2, <3>3
    <2> QED BY <2>1 DEF RowChecks, MaxAttempts
<1>14. AbsentRows' /\ OneTaskPerKey'
    BY <1>9 DEF IndInv, AbsentRows, OneTaskPerKey, Stored
<1>15. \A d \in claimant : /\ d[1] \in Tasks /\ d[2] \in Nat
                           /\ 1 <= d[2] /\ d[2] <= tasks[d[1]].attempt
    BY DEF IndInv, TypesOK, ClaimsBounded
<1>16. ClaimsBounded'
    BY <1>2, <1>6, <1>7, <1>8, <1>9, <1>11, <1>15 DEF ClaimsBounded
<1>17. UniqueClaims'
    BY <1>2, <1>7, <1>11, <1>15 DEF IndInv, UniqueClaims
<1>18. ProposalFenced'
    <2>1. \A q \in proposals : /\ q.task \in Tasks /\ tasks[q.task].status = "succeeded"
                               /\ tasks'[q.task] = tasks[q.task]
        BY <1>9 DEF IndInv, TypesOK, ProposalType, ProposalFenced, FinalStates
    <2> QED BY <1>7, <2>1 DEF IndInv, ProposalFenced
<1>19. DeadLetterExact'
    <2>1. deadLetter[k] = None /\ deadLetter'[k] = None
        BY <1>1, <1>3, <1>4, <1>7
        DEF IndInv, DeadLetterExact, DueStates, LeaseStates
    <2>2. ASSUME NEW j \in Tasks
          PROVE  /\ tasks'[j].status = "dead_letter" <=> deadLetter'[j] # None
                 /\ deadLetter'[j] # None =>
                       /\ deadLetter'[j].attempts = tasks'[j].sub.maxAttempts
                       /\ tasks'[j].attempt = tasks'[j].sub.maxAttempts
                       /\ deadLetter'[j].failure = tasks'[j].failure
        <3>1. CASE j = k
            BY <1>6, <1>8, <2>1, <3>1 DEF LeaseStates
        <3>2. CASE j # k /\ j \in S
            BY <1>3, <1>7, <1>8, <3>2 DEF MaxAttempts
        <3>3. CASE j # k /\ j \notin S
            BY <1>3, <1>7, <1>8, <3>3 DEF IndInv, DeadLetterExact, MaxAttempts
        <3> QED BY <3>1, <3>2, <3>3
    <2> QED BY <2>2 DEF DeadLetterExact, MaxAttempts
<1> QED BY <1>10, <1>12, <1>13, <1>14, <1>16, <1>17, <1>18, <1>19 DEF IndInv
\* claim() and claim_for_execution().
LEMMA ClaimSteps ==
    ASSUME IndInv, NEW p \in Procs, Claim(p) \/ ClaimForExecution(p)
    PROVE  IndInv'
<1>1. CASE Claim(p)
    <2>1. PICK t \in Readings, locked \in LockSets(p) :
             \E k \in Candidate(t, locked) :
                /\ Take(p, k, t, locked, "leased")
                /\ timeline' = [ReapedTimeline(Reapable(t, locked)) EXCEPT
                                   ![k] = Append(@, "leased")]
                /\ Remember(p, k, "leased")
        BY <1>1 DEF Claim
    <2>2. PICK k \in Candidate(t, locked) :
                /\ Take(p, k, t, locked, "leased")
                /\ timeline' = [ReapedTimeline(Reapable(t, locked)) EXCEPT
                                   ![k] = Append(@, "leased")]
                /\ Remember(p, k, "leased")
        BY <2>1
    <2> DEFINE T == ReapedTimeline(Reapable(t, locked))
    <2>3. T \in [Tasks -> Seq(Events)] /\ timeline' = [T EXCEPT ![k] = Append(@, "leased")]
        BY <2>2, ReapRows
    <2> HIDE DEF T
    <2>4. k \in Tasks /\ "leased" \in Events /\ "leased" \in LeaseStates
        BY DEF Candidate, Claimable, Events, LeaseStates
    <2>5. Append(T[k], "leased") \in Seq(Events)
        BY <2>3, <2>4
    <2>6. timeline' \in [Tasks -> Seq(Events)]
        BY <2>3, <2>4, <2>5
    <2>7. local[p].pc = "idle"
        BY <1>1 DEF Claim
    <2> QED BY <2>2, <2>4, <2>6, <2>7, TakeStep
<1>2. CASE ClaimForExecution(p)
    <2>1. PICK t \in Readings, locked \in LockSets(p) :
             \E k \in Candidate(t, locked) :
                /\ Take(p, k, t, locked, "running")
                /\ timeline' = [ReapedTimeline(Reapable(t, locked)) EXCEPT
                                   ![k] = @ \o <<"leased", "running">>]
                /\ Remember(p, k, "claimed")
        BY <1>2 DEF ClaimForExecution
    <2>2. PICK k \in Candidate(t, locked) :
                /\ Take(p, k, t, locked, "running")
                /\ timeline' = [ReapedTimeline(Reapable(t, locked)) EXCEPT
                                   ![k] = @ \o <<"leased", "running">>]
                /\ Remember(p, k, "claimed")
        BY <2>1
    <2> DEFINE T == ReapedTimeline(Reapable(t, locked))
               e == <<"leased", "running">>
    <2>3. T \in [Tasks -> Seq(Events)] /\ timeline' = [T EXCEPT ![k] = @ \o e]
        BY <2>2, ReapRows
    <2> HIDE DEF T
    <2>4. k \in Tasks /\ "running" \in LeaseStates
        BY DEF Candidate, Claimable, LeaseStates
    <2>5. e \in Seq(Events)
        BY DEF Events
    <2> HIDE DEF e
    <2>6. T[k] \o e \in Seq(Events)
        BY <2>3, <2>4, <2>5
    <2>7. timeline' \in [Tasks -> Seq(Events)]
        BY <2>3, <2>4, <2>6
    <2>8. local[p].pc = "idle"
        BY <1>2 DEF ClaimForExecution
    <2> QED BY <2>2, <2>4, <2>7, <2>8, TakeStep
<1> QED BY <1>1, <1>2

\* enqueue(): a new row, whose key no stored row has.
LEMMA EnqueueStep ==
    ASSUME IndInv, NEW s \in Submissions, Enqueue(s)
    PROVE  IndInv'
<1> DEFINE k == s.task
           r == [NoRow EXCEPT !.sub = s, !.status = "queued",
                              !.due = s.due, !.created = clock]
<1>1. k \in Tasks /\ ~Stored(k) /\ \A j \in Tasks : Stored(j) => tasks[j].sub.key # s.key
    BY DEF Enqueue, Accepts, Tasks
<1>2. tasks[k] = NoRow
    BY <1>1 DEF IndInv, AbsentRows
<1>3. /\ tasks' = [tasks EXCEPT ![k] = r]
      /\ timeline' = [timeline EXCEPT ![k] = Append(@, "created")]
      /\ UNCHANGED <<clock, deadLetter, proposals, claimant, local>>
    BY DEF Enqueue
<1>4. s.due \in Nat /\ s.maxAttempts \in Nat /\ clock \in Nat
    <2>1. \A x \in SubmissionType : x.due \in Nat /\ x.maxAttempts \in Nat
        BY DEF SubmissionType
    <2> QED BY <2>1, SubmissionAssumption DEF IndInv, TypesOK
<1>5. /\ r \in RowType /\ r.sub = s /\ r.status = "queued" /\ r.attempt = 0
      /\ r.owner = None
    BY <1>4 DEF NoRow, RowType, DueStates
<1>6. timeline' \in [Tasks -> Seq(Events)]
    BY <1>1, <1>3, Logged DEF Events
<1>7. r.sub.task = k /\ r.sub.key = s.key
    BY <1>5
<1> HIDE DEF r, k
<1>8. /\ tasks' \in [Tasks -> RowType] /\ tasks'[k] = r
      /\ \A j \in Tasks : j # k => tasks'[j] = tasks[j]
    BY <1>1, <1>3, <1>5 DEF IndInv, TypesOK
<1>9. TypesOK'
    BY <1>3, <1>6, <1>8 DEF IndInv, TypesOK
<1>10. RowChecks'
    <2>1. 0 <= s.maxAttempts
        BY <1>4
    <2> QED BY <1>5, <1>7, <1>8, <2>1
            DEF IndInv, RowChecks, MaxAttempts, LeaseStates
<1>11. AbsentRows' /\ OneTaskPerKey'
    BY <1>1, <1>5, <1>7, <1>8 DEF IndInv, AbsentRows, OneTaskPerKey, Stored
<1>12. tasks[k].status = "absent" /\ tasks[k].attempt = 0 /\ r.attempt = tasks[k].attempt
    BY <1>2, <1>5 DEF NoRow
<1>13. ClaimsBounded' /\ UniqueClaims' /\ ClaimsRemembered'
    BY <1>3, <1>8, <1>12
    DEF IndInv, TypesOK, ClaimsBounded, UniqueClaims, ClaimsRemembered, Active
<1>14. ProposalFenced'
    <2>1. \A q \in proposals : q.task \in Tasks /\ q.task # k
        BY <1>12 DEF IndInv, TypesOK, ProposalType, ProposalFenced
    <2> QED BY <1>3, <1>8, <2>1 DEF IndInv, ProposalFenced
<1>15. DeadLetterExact'
    <2>1. deadLetter[k] = None
        BY <1>1, <1>12 DEF IndInv, DeadLetterExact
    <2> QED BY <1>3, <1>5, <1>8, <2>1 DEF IndInv, DeadLetterExact, MaxAttempts
<1> QED BY <1>9, <1>10, <1>11, <1>13, <1>14, <1>15 DEF IndInv

\* The clock moves.
LEMMA TickStep ==
    ASSUME IndInv, Tick
    PROVE  IndInv'
<1>1. clock' \in Nat /\ UNCHANGED db /\ UNCHANGED local
    BY DEF Tick, IndInv, TypesOK
<1>2. ClaimsRemembered' /\ local' \in [Procs -> LocalType]
    BY <1>1 DEF IndInv, TypesOK, ClaimsRemembered, Active, db
<1> QED BY <1>1, <1>2, DbKept
\* Every step keeps the inductive invariant.
LEMMA NextInv == IndInv /\ [Next]_vars => IndInv'
<1> SUFFICES ASSUME IndInv, [Next]_vars PROVE IndInv'
    OBVIOUS
<1>1. CASE \E s \in Submissions : Enqueue(s)
    BY <1>1, EnqueueStep
<1>2. ASSUME NEW p \in Procs,
             \/ ClaimNone(p) \/ WorkerStep(p) \/ ClientStep(p)
             \/ Heartbeat(p) \/ Fail(p) \/ Crash(p) \/ Restart(p)
      PROVE  IndInv'
    <2>1. CASE ClaimNone(p) \/ Heartbeat(p) \/ Fail(p)
        BY <2>1, ClaimNoneStep, HeartbeatStep, FailStep
    <2>2. CASE Crash(p) \/ Restart(p)
        BY <2>2, LocalSteps
    <2>3. CASE WorkerStep(p)
        BY <2>3, LocalSteps, ClaimSteps, CompleteStep DEF WorkerStep
    <2>4. CASE ClientStep(p)
        BY <2>4, ClaimSteps, StartStep, SucceedStep DEF ClientStep
    <2> QED BY <1>2, <2>1, <2>2, <2>3, <2>4
<1>3. CASE Tick
    BY <1>3, TickStep
<1>4. CASE UNCHANGED vars
    <2>1. clock' \in Nat /\ UNCHANGED db /\ UNCHANGED local
        BY <1>4 DEF IndInv, TypesOK, vars, db
    <2>2. ClaimsRemembered' /\ local' \in [Procs -> LocalType]
        BY <2>1 DEF IndInv, TypesOK, ClaimsRemembered, Active, db
    <2> QED BY <2>1, <2>2, DbKept
<1> QED BY <1>1, <1>2, <1>3, <1>4 DEF Next

\* The inductive invariant holds throughout.
LEMMA Invariance == Spec => []IndInv
    BY InitInv, NextInv, PTL DEF Spec

\* The columns keep their types and the CHECK constraints of agent_tasks hold:
\* no attempt beyond max_attempts, a lease owner exactly while leased or running.
THEOREM TypeCorrect == Spec => []TypeOK
<1>1. IndInv => TypeOK
    BY DEF IndInv, TypeOK
<1> QED BY <1>1, Invariance, PTL

\* No attempt number is handed out twice, even to processes that share their
\* worker_id: claim() and claim_for_execution() always move past every attempt.
THEOREM ClaimsUnique == Spec => []UniqueClaims
<1>1. IndInv => UniqueClaims
    BY DEF IndInv
<1> QED BY <1>1, Invariance, PTL

\* complete_with_proposal() stores at most one proposal per task, from the
\* process that its attempt was given to and for the attempt the row ends at.
THEOREM ProposalsFenced == Spec => []ProposalFenced
<1>1. IndInv => ProposalFenced
    BY DEF IndInv
<1> QED BY <1>1, Invariance, PTL

\* fail() and _reap_expired() bury a task exactly when its attempts are used up.
THEOREM DeadLettersExact == Spec => []DeadLetterExact
<1>1. IndInv => DeadLetterExact
    BY DEF IndInv
<1> QED BY <1>1, Invariance, PTL

\* enqueue() never stores two tasks under one idempotency key.
THEOREM KeysUnique == Spec => []OneTaskPerKey
<1>1. IndInv => OneTaskPerKey
    BY DEF IndInv
<1> QED BY <1>1, Invariance, PTL

\* Repeated enqueue() and concurrent claim() calls hand nothing out twice: one
\* row for a key, one process for an attempt.
THEOREM NothingGivenTwice == Spec => []NothingTwice
    BY ClaimsUnique, KeysUnique, PTL DEF NothingTwice
-----------------------------------------------------------------------------
(* What one step may do to a row. *)

\* A row is left alone, or is new, or is written by the process its attempt was
\* given to, or is reaped after the lease of its last attempt, or is taken by a
\* claim when it is due or its lease has run out.
RowStep(k) ==
    \/ tasks'[k] = tasks[k]
    \/ ~Stored(k)
    \/ /\ tasks[k].status \in LeaseStates
       /\ tasks'[k].attempt = tasks[k].attempt
       /\ \E p \in Procs : /\ <<k, tasks[k].attempt, p>> \in claimant
                           /\ local[p].task = k
                           /\ local[p].attempt = tasks[k].attempt
    \/ /\ tasks[k].status \in LeaseStates
       /\ tasks[k].expires <= clock
       /\ tasks[k].attempt = MaxAttempts(k)
       /\ tasks'[k].attempt = tasks[k].attempt
       /\ tasks'[k].status = "dead_letter"
    \/ /\ tasks'[k].status \in LeaseStates
       /\ \/ tasks[k].status \in DueStates
          \/ tasks[k].status \in LeaseStates /\ tasks[k].expires <= clock

\* The holder of a lease rewrites its row.
LEMMA HolderWrites ==
    ASSUME IndInv, NEW p \in Procs, Active(p), NEW t \in Readings, Holds(p, t),
           NEW r, tasks' = [tasks EXCEPT ![local[p].task] = r],
           r.attempt = tasks[local[p].task].attempt
    PROVE  \A k \in Tasks : RowStep(k)
<1>1. /\ local[p].task \in Tasks
      /\ <<local[p].task, local[p].attempt, p>> \in claimant
    BY BusyProcess
<1>2. /\ tasks'[local[p].task] = r
      /\ \A k \in Tasks : k # local[p].task => tasks'[k] = tasks[k]
    BY <1>1 DEF IndInv, TypesOK
<1> SUFFICES ASSUME NEW k \in Tasks PROVE RowStep(k)
    OBVIOUS
<1>3. CASE k # local[p].task
    BY <1>2, <1>3 DEF RowStep
<1>4. CASE k = local[p].task
    BY <1>1, <1>2, <1>4 DEF RowStep, Holds
<1> QED BY <1>3, <1>4

\* The rows a reaping rewrites, at a clock reading that is not in the future.
LEMMA ReapedStep ==
    ASSUME IndInv, NEW t \in Readings, NEW locked, NEW k \in Tasks,
           tasks'[k] = Reaped(Reapable(t, locked))[k]
    PROVE  RowStep(k)
<1>1. CASE k \notin Reapable(t, locked)
    <2>1. Reaped(Reapable(t, locked))[k] = tasks[k]
        BY <1>1, ReapRows
    <2> QED BY <2>1 DEF RowStep
<1>2. CASE k \in Reapable(t, locked)
    <2>1. /\ tasks[k].status \in LeaseStates /\ tasks[k].attempt = MaxAttempts(k)
          /\ tasks'[k].attempt = tasks[k].attempt /\ tasks'[k].status = "dead_letter"
        BY <1>2, ReapRows
    <2>2. tasks[k].expires <= t /\ t \in Nat /\ t <= clock
        BY <1>2 DEF Reapable, Expired, Readings, IndInv, TypesOK
    <2>3. tasks[k].expires \in Nat /\ clock \in Nat
        BY Attempts DEF RowType, IndInv, TypesOK
    <2>4. tasks[k].expires <= clock
        BY <2>2, <2>3
    <2> QED BY <2>1, <2>4 DEF RowStep
<1> QED BY <1>1, <1>2

\* A claim that takes candidate c.
LEMMA TakenStep ==
    ASSUME IndInv, NEW p \in Procs, NEW t \in Readings, NEW locked,
           NEW c \in Candidate(t, locked), NEW status \in LeaseStates,
           Take(p, c, t, locked, status), NEW k \in Tasks
    PROVE  RowStep(k)
<1>1. /\ c \in Tasks
      /\ \/ tasks[c].status \in DueStates
         \/ tasks[c].status \in LeaseStates /\ tasks[c].expires <= t
    BY DEF Candidate, Claimable, Expired
<1>2. Reaped(Reapable(t, locked)) \in [Tasks -> RowType]
    BY ReapRows
<1>3. tasks' = [Reaped(Reapable(t, locked)) EXCEPT ![c] = Taken(p, c, t, status)]
    BY DEF Take
<1>4. CASE k # c
    <2>1. tasks'[k] = Reaped(Reapable(t, locked))[k]
        BY <1>2, <1>3, <1>4
    <2> QED BY <2>1, ReapedStep
<1>5. CASE k = c
    <2>1. tasks'[k] = Taken(p, c, t, status)
        BY <1>1, <1>2, <1>3, <1>5
    <2>2. tasks[c] \in RowType
        BY <1>1, Attempts
    <2>3. tasks'[k].status = status
        BY <2>1, <2>2 DEF Taken, RowType
    <2>4. t \in Nat /\ t <= clock /\ clock \in Nat /\ tasks[c].expires \in Nat
        BY <2>2 DEF Readings, RowType, IndInv, TypesOK
    <2>5. tasks[c].status \in LeaseStates => tasks[c].expires <= clock \/ tasks[c].status \in DueStates
        BY <1>1, <2>4
    <2> QED BY <1>1, <1>5, <2>3, <2>5 DEF RowStep
<1> QED BY <1>4, <1>5
\* The steps of a process that holds, or believes it holds, a lease.
LEMMA LeaseSteps ==
    ASSUME IndInv, NEW p \in Procs,
           \/ Start(p) \/ Heartbeat(p) \/ Succeed(p) \/ Fail(p) \/ CompleteCommits(p)
    PROVE  \A k \in Tasks : RowStep(k)
<1> DEFINE c == local[p].task
<1>1. Active(p)
    BY DEF Start, Heartbeat, Succeed, Fail, CompleteCommits, Active
<1>2. c \in Tasks /\ tasks[c] \in RowType
    BY <1>1, BusyProcess
<1>3. CASE UNCHANGED tasks
    BY <1>3 DEF RowStep
<1>4. ASSUME NEW t \in Readings, Holds(p, t),
             \/ tasks' = [tasks EXCEPT ![c].status = "running"]
             \/ tasks' = [tasks EXCEPT ![c].expires = t + Lease]
      PROVE  \A k \in Tasks : RowStep(k)
    <2> DEFINE r == [tasks[c] EXCEPT !.status = "running"]
               x == [tasks[c] EXCEPT !.expires = t + Lease]
    <2>1. r.attempt = tasks[c].attempt /\ x.attempt = tasks[c].attempt
        BY <1>2 DEF RowType
    <2>2. tasks' = [tasks EXCEPT ![c] = r] \/ tasks' = [tasks EXCEPT ![c] = x]
        BY <1>2, <1>4 DEF IndInv, TypesOK
    <2> HIDE DEF r, x
    <2> QED BY <1>1, <1>4, <2>1, <2>2, HolderWrites
<1>5. ASSUME NEW t \in Readings, Holds(p, t),
             tasks' = [tasks EXCEPT ![c] = Ended(@, "succeeded")]
      PROVE  \A k \in Tasks : RowStep(k)
    <2>1. Ended(tasks[c], "succeeded").attempt = tasks[c].attempt
        BY <1>2, EndedRow DEF FinalStates
    <2>2. tasks' = [tasks EXCEPT ![c] = Ended(tasks[c], "succeeded")]
        BY <1>5
    <2> QED BY <1>1, <1>5, <2>1, <2>2, HolderWrites
<1>6. ASSUME NEW t \in Readings, NEW why \in Failures, Holds(p, t),
             tasks' = [tasks EXCEPT ![c] = FailedRow(c, t, why)]
      PROVE  \A k \in Tasks : RowStep(k)
    <2> DEFINE again == [tasks[c] EXCEPT !.failure = why, !.due = t + RetryDelay]
               dead == [tasks[c] EXCEPT !.failure = why]
    <2>1. t + RetryDelay \in Nat
        BY TimeAssumption DEF Readings, IndInv, TypesOK
    <2>2. /\ again \in RowType /\ again.attempt = tasks[c].attempt
          /\ dead \in RowType /\ dead.attempt = tasks[c].attempt
        BY <1>2, <2>1 DEF RowType
    <2>3. \/ FailedRow(c, t, why) = Ended(again, "recheck")
          \/ FailedRow(c, t, why) = Ended(dead, "dead_letter")
        BY DEF FailedRow
    <2> HIDE DEF again, dead
    <2>4. FailedRow(c, t, why).attempt = tasks[c].attempt
        BY <2>2, <2>3, EndedRow DEF DueStates, FinalStates
    <2> QED BY <1>1, <1>6, <2>4, HolderWrites
<1>7. CASE Start(p)
    BY <1>3, <1>4, <1>7 DEF Start
<1>8. CASE Heartbeat(p)
    BY <1>3, <1>4, <1>8 DEF Heartbeat
<1>9. CASE Succeed(p) \/ CompleteCommits(p)
    BY <1>3, <1>5, <1>9 DEF Succeed, CompleteCommits
<1>10. CASE Fail(p)
    BY <1>3, <1>6, <1>10 DEF Fail
<1> QED BY <1>7, <1>8, <1>9, <1>10

\* Every step of the queue does one of these things to every row.
LEMMA RowSteps == IndInv /\ [Next]_vars => \A k \in Tasks : RowStep(k)
<1> SUFFICES ASSUME IndInv, [Next]_vars, NEW k \in Tasks PROVE RowStep(k)
    OBVIOUS
<1>1. CASE UNCHANGED tasks
    BY <1>1 DEF RowStep
<1>2. ASSUME NEW s \in Submissions, Enqueue(s)
      PROVE  RowStep(k)
    <2>1. CASE k = s.task
        BY <1>2, <2>1 DEF Enqueue, Accepts, RowStep
    <2>2. CASE k # s.task
        BY <1>2, <2>2 DEF Enqueue, RowStep, IndInv, TypesOK
    <2> QED BY <2>1, <2>2
<1>3. ASSUME NEW p \in Procs, ClaimNone(p)
      PROVE  RowStep(k)
    BY <1>3, ReapedStep DEF ClaimNone
<1>4. ASSUME NEW p \in Procs, Claim(p) \/ ClaimForExecution(p)
      PROVE  RowStep(k)
    <2>1. PICK t \in Readings, locked \in LockSets(p) :
             \E c \in Candidate(t, locked), status \in LeaseStates :
                Take(p, c, t, locked, status)
        <3>1. CASE Claim(p)
            BY <3>1 DEF Claim, LeaseStates
        <3>2. CASE ClaimForExecution(p)
            BY <3>2 DEF ClaimForExecution, LeaseStates
        <3> QED BY <1>4, <3>1, <3>2
    <2> QED BY <2>1, TakenStep
<1>5. ASSUME NEW p \in Procs,
             \/ ClaimAborts(p) \/ Resolve(p) \/ ExecuteReturns(p) \/ ExecuteRaises(p)
             \/ CompleteRejected(p) \/ CompleteAnswered(p) \/ Crash(p) \/ Restart(p)
      PROVE  UNCHANGED tasks
    BY <1>5 DEF ClaimAborts, Resolve, ExecuteReturns, ExecuteRaises,
                CompleteRejected, CompleteAnswered, Crash, Restart, db
<1>6. CASE Tick \/ UNCHANGED vars
    BY <1>1, <1>6 DEF Tick, vars, db
<1> QED BY <1>1, <1>2, <1>3, <1>4, <1>5, <1>6, LeaseSteps
        DEF Next, WorkerStep, ClientStep

\* No call, however late, changes a succeeded or dead-lettered row.
THEOREM TerminalRowsFinal == Spec => TerminalIsFinal
<1>1. IndInv /\ [Next]_vars =>
         [\A k \in Tasks : tasks[k].status \in FinalStates => tasks'[k] = tasks[k]]_vars
    BY RowSteps DEF RowStep, Stored, DueStates, LeaseStates, FinalStates
<1> QED BY <1>1, Invariance, PTL DEF Spec, TerminalIsFinal

\* No claim takes a task away from a process while its lease is live.
THEOREM LiveLeasesKept == Spec => LiveLeaseKept
<1>1. IndInv /\ [Next]_vars =>
         [\A k \in Tasks : tasks[k].status \in LeaseStates /\ tasks[k].expires > clock
             => tasks'[k].attempt = tasks[k].attempt]_vars
    <2> SUFFICES ASSUME IndInv, [Next]_vars, NEW k \in Tasks,
                        tasks[k].status \in LeaseStates, tasks[k].expires > clock
                 PROVE  tasks'[k].attempt = tasks[k].attempt
        OBVIOUS
    <2>1. tasks[k].expires \in Nat /\ clock \in Nat
        BY Attempts DEF RowType, IndInv, TypesOK
    <2>2. ~(tasks[k].expires <= clock)
        BY <2>1
    <2> QED BY <2>2, RowSteps DEF RowStep, Stored, DueStates, LeaseStates
<1> QED BY <1>1, Invariance, PTL DEF Spec, LiveLeaseKept

\* A lease is ended by the process that holds it, by the reaper, or by nobody:
\* the attempt number in the WHERE clauses fences a process that lost its claim.
THEOREM LeasesEndedByHolder == Spec => LeaseEndedByHolder
<1>1. IndInv /\ [Next]_vars =>
         [\A k \in Tasks :
             tasks[k].status \in LeaseStates /\ tasks'[k].status \notin LeaseStates
                => \/ \E p \in Procs :
                         /\ <<k, tasks[k].attempt, p>> \in claimant
                         /\ local[p].task = k
                         /\ local[p].attempt = tasks[k].attempt
                   \/ /\ tasks'[k].status = "dead_letter"
                      /\ tasks[k].attempt = MaxAttempts(k)
                      /\ tasks[k].expires <= clock]_vars
    BY RowSteps DEF RowStep, Stored, LeaseStates
<1> QED BY <1>1, Invariance, PTL DEF Spec, LeaseEndedByHolder

\* What claim() and late calls can do to a row: nothing to a finished one, no
\* takeover while the lease is live, and no end to the lease of another attempt.
THEOREM LeaseRulesKept == Spec => LeaseRules
    BY LiveLeasesKept, LeasesEndedByHolder, TerminalRowsFinal DEF LeaseRules

-----------------------------------------------------------------------------
(* The timeline *)

\* The events of a history that belong to a set.
Places(h, E) == {i \in DOMAIN h : h[i] \in E}

Occurrences(h, E) == Cardinality(Places(h, E))

Ends == {"recheck_scheduled", "succeeded", "dead_lettered"}

\* An event appended counts once, where it belongs.
LEMMA Appended ==
    ASSUME NEW h \in Seq(Events), NEW e \in Events, NEW E
    PROVE  /\ Occurrences(h, E) \in Nat
           /\ e \in E => Occurrences(Append(h, e), E) = Occurrences(h, E) + 1
           /\ e \notin E => Occurrences(Append(h, e), E) = Occurrences(h, E)
           /\ Append(h, e) \in Seq(Events)
           /\ Append(h, e)[Len(Append(h, e))] = e
<1>1. /\ Len(h) \in Nat /\ DOMAIN h = 1..Len(h)
      /\ DOMAIN Append(h, e) = 1..(Len(h) + 1)
      /\ Len(Append(h, e)) = Len(h) + 1
      /\ \A i \in 1..Len(h) : Append(h, e)[i] = h[i]
      /\ Append(h, e)[Len(h) + 1] = e
    OBVIOUS
<1>2. IsFiniteSet(Places(h, E)) /\ Cardinality(Places(h, E)) \in Nat
    <2>1. IsFiniteSet(1..Len(h))
        BY <1>1, FS_Interval
    <2>2. Places(h, E) \subseteq 1..Len(h)
        BY <1>1 DEF Places
    <2> QED BY <2>1, <2>2, FS_Subset, FS_CardinalityType
<1>3. 1..(Len(h) + 1) = (1..Len(h)) \cup {Len(h) + 1} /\ Len(h) + 1 \notin 1..Len(h)
    BY <1>1
<1>4. ASSUME e \in E
      PROVE  Occurrences(Append(h, e), E) = Occurrences(h, E) + 1
    <2>1. Places(Append(h, e), E) = Places(h, E) \cup {Len(h) + 1}
        BY <1>1, <1>3, <1>4 DEF Places
    <2>2. Len(h) + 1 \notin Places(h, E)
        BY <1>1, <1>3 DEF Places
    <2> QED BY <1>2, <2>1, <2>2, FS_AddElement DEF Occurrences
<1>5. ASSUME e \notin E
      PROVE  Occurrences(Append(h, e), E) = Occurrences(h, E)
    <2>1. Places(Append(h, e), E) = Places(h, E)
        BY <1>1, <1>3, <1>5 DEF Places
    <2> QED BY <2>1 DEF Occurrences
<1>6. Append(h, e) \in Seq(Events) /\ Append(h, e)[Len(Append(h, e))] = e
    BY <1>1
<1> QED BY <1>2, <1>4, <1>5, <1>6 DEF Occurrences

\* Nothing happened in an empty history.
LEMMA NoOccurrence ==
    ASSUME NEW E
    PROVE  Occurrences(<<>>, E) = 0
<1>1. Places(<<>>, E) = {}
    BY DEF Places
<1> QED BY <1>1, FS_EmptySet DEF Occurrences

\* What a history says about a task with this status and attempt.  A lease that
\* has not ended leaves room for one more end: that is what the ends in
\* TimelineReplays lack to be inductive.
Replays(h, status, attempt) ==
    IF status = "absent" THEN h = <<>>
    ELSE /\ Occurrences(h, {"created"}) = 1
         /\ Occurrences(h, {"leased"}) = attempt
         /\ Occurrences(h, Ends) <= attempt
         /\ status \in LeaseStates => Occurrences(h, Ends) < attempt
         /\ h[Len(h)] = LastEvent(status)

HistoryInv == \A k \in Tasks : Replays(timeline[k], tasks[k].status, tasks[k].attempt)

\* What a step may do to the row and the timeline of a task.
TimelineStep(k) ==
    LET was == tasks[k]
        is == tasks'[k]
        h == timeline[k]
        next == timeline'[k]
    IN  \/ /\ is.status = was.status /\ is.attempt = was.attempt /\ next = h
        \/ /\ was.status = "absent" /\ is.status = "queued" /\ is.attempt = 0
           /\ next = Append(h, "created")
        \/ /\ was.status = "leased" /\ is.status = "running"
           /\ is.attempt = was.attempt
           /\ next = Append(h, "running")
        \/ /\ was.status \in LeaseStates
           /\ is.status \in {"recheck"} \cup FinalStates
           /\ is.attempt = was.attempt
           /\ next = Append(h, LastEvent(is.status))
        \/ /\ was.status # "absent" /\ is.attempt = was.attempt + 1
           /\ \/ is.status = "leased" /\ next = Append(h, "leased")
              \/ is.status = "running" /\ next = Append(Append(h, "leased"), "running")

\* Each of these keeps row and history in agreement.
LEMMA HistoryKept ==
    ASSUME IndInv, NEW k \in Tasks, TimelineStep(k),
           Replays(timeline[k], tasks[k].status, tasks[k].attempt)
    PROVE  Replays(timeline'[k], tasks'[k].status, tasks'[k].attempt)
<1> DEFINE h == timeline[k]
           was == tasks[k].status
           n == tasks[k].attempt
           next == timeline'[k]
           is == tasks'[k].status
           m == tasks'[k].attempt
<1>1. h \in Seq(Events) /\ n \in Nat
    BY Attempts DEF IndInv, TypesOK
<1>2. \/ is = was /\ m = n /\ next = h
      \/ was = "absent" /\ is = "queued" /\ m = 0 /\ next = Append(h, "created")
      \/ was = "leased" /\ is = "running" /\ m = n /\ next = Append(h, "running")
      \/ /\ was \in LeaseStates /\ is \in {"recheck"} \cup FinalStates
         /\ m = n /\ next = Append(h, LastEvent(is))
      \/ was # "absent" /\ is = "leased" /\ m = n + 1 /\ next = Append(h, "leased")
      \/ /\ was # "absent" /\ is = "running" /\ m = n + 1
         /\ next = Append(Append(h, "leased"), "running")
    BY DEF TimelineStep
<1>3. Replays(h, was, n)
    OBVIOUS
<1> SUFFICES Replays(next, is, m)
    OBVIOUS
<1> HIDE DEF h, was, n, next, is, m
<1>4. ASSUME NEW E PROVE Occurrences(h, E) \in Nat
    BY <1>1, Appended DEF Events
<1>5. CASE was = "absent" /\ is = "queued" /\ m = 0 /\ next = Append(h, "created")
    <2>1. h = <<>>
        BY <1>3, <1>5 DEF Replays
    <2>2. /\ Occurrences(next, {"created"}) = Occurrences(h, {"created"}) + 1
          /\ Occurrences(next, {"leased"}) = Occurrences(h, {"leased"})
          /\ Occurrences(next, Ends) = Occurrences(h, Ends)
          /\ next[Len(next)] = "created"
        BY <1>1, <1>5, Appended DEF Events, Ends
    <2>3. /\ Occurrences(h, {"created"}) = 0 /\ Occurrences(h, {"leased"}) = 0
          /\ Occurrences(h, Ends) = 0
        BY <2>1, NoOccurrence
    <2> QED BY <1>5, <2>2, <2>3 DEF Replays, LastEvent, LeaseStates
<1>6. CASE was = "leased" /\ is = "running" /\ m = n /\ next = Append(h, "running")
    <2>1. /\ Occurrences(next, {"created"}) = Occurrences(h, {"created"})
          /\ Occurrences(next, {"leased"}) = Occurrences(h, {"leased"})
          /\ Occurrences(next, Ends) = Occurrences(h, Ends)
          /\ next[Len(next)] = "running"
        BY <1>1, <1>6, Appended DEF Events, Ends
    <2> QED BY <1>3, <1>6, <2>1 DEF Replays, LastEvent, LeaseStates
<1>7. CASE /\ was \in LeaseStates /\ is \in {"recheck"} \cup FinalStates
           /\ m = n /\ next = Append(h, LastEvent(is))
    <2> DEFINE e == LastEvent(is)
    <2>1. e \in Ends /\ e \in Events /\ e \notin {"created"} /\ e \notin {"leased"}
        BY <1>7 DEF LastEvent, Ends, Events, FinalStates
    <2>2. next = Append(h, e) /\ e = LastEvent(is)
        BY <1>7
    <2> HIDE DEF e
    <2>3. /\ Occurrences(next, {"created"}) = Occurrences(h, {"created"})
          /\ Occurrences(next, {"leased"}) = Occurrences(h, {"leased"})
          /\ Occurrences(next, Ends) = Occurrences(h, Ends) + 1
          /\ next[Len(next)] = e
        BY <1>1, <2>1, <2>2, Appended
    <2>4. /\ Occurrences(h, {"created"}) = 1 /\ Occurrences(h, {"leased"}) = n
          /\ Occurrences(h, Ends) < n
        BY <1>3, <1>7 DEF Replays, LeaseStates
    <2>5. is # "absent" /\ is \notin LeaseStates
        BY <1>7 DEF LeaseStates, FinalStates
    <2>6. Occurrences(next, Ends) <= m
        BY <1>1, <1>4, <1>7, <2>3, <2>4
    <2> QED BY <1>7, <2>2, <2>3, <2>4, <2>5, <2>6 DEF Replays
<1>8. CASE was # "absent" /\ is = "leased" /\ m = n + 1 /\ next = Append(h, "leased")
    <2>1. /\ Occurrences(next, {"created"}) = Occurrences(h, {"created"})
          /\ Occurrences(next, {"leased"}) = Occurrences(h, {"leased"}) + 1
          /\ Occurrences(next, Ends) = Occurrences(h, Ends)
          /\ next[Len(next)] = "leased"
        <3>1. "leased" \in Events /\ "leased" \notin {"created"} /\ "leased" \notin Ends
            BY DEF Events, Ends
        <3> QED BY <1>1, <1>8, <3>1, Appended
    <2>2. /\ Occurrences(h, {"created"}) = 1 /\ Occurrences(h, {"leased"}) = n
          /\ Occurrences(h, Ends) <= n
        BY <1>3, <1>8 DEF Replays
    <2>3. Occurrences(next, Ends) < m
        BY <1>1, <1>4, <1>8, <2>1, <2>2
    <2> QED BY <1>1, <1>4, <1>8, <2>1, <2>2, <2>3 DEF Replays, LastEvent
<1>9. CASE /\ was # "absent" /\ is = "running" /\ m = n + 1
           /\ next = Append(Append(h, "leased"), "running")
    <2> DEFINE g == Append(h, "leased")
    <2>1. /\ Occurrences(g, {"created"}) = Occurrences(h, {"created"})
          /\ Occurrences(g, {"leased"}) = Occurrences(h, {"leased"}) + 1
          /\ Occurrences(g, Ends) = Occurrences(h, Ends)
          /\ g \in Seq(Events)
        BY <1>1, Appended DEF Events, Ends
    <2>2. next = Append(g, "running")
        BY <1>9
    <2> HIDE DEF g
    <2>3. /\ Occurrences(next, {"created"}) = Occurrences(g, {"created"})
          /\ Occurrences(next, {"leased"}) = Occurrences(g, {"leased"})
          /\ Occurrences(next, Ends) = Occurrences(g, Ends)
          /\ next[Len(next)] = "running"
        <3>1. /\ "running" \in Events /\ "running" \notin Ends
              /\ "running" \notin {"created"} /\ "running" \notin {"leased"}
            BY DEF Events, Ends
        <3> QED BY <2>1, <2>2, <3>1, Appended
    <2>4. /\ Occurrences(h, {"created"}) = 1 /\ Occurrences(h, {"leased"}) = n
          /\ Occurrences(h, Ends) <= n
        BY <1>3, <1>9 DEF Replays
    <2>5. Occurrences(next, Ends) < m
        BY <1>1, <1>4, <1>9, <2>1, <2>3, <2>4
    <2> QED BY <1>1, <1>4, <1>9, <2>1, <2>3, <2>4, <2>5 DEF Replays, LastEvent
<1>10. CASE is = was /\ m = n /\ next = h
    BY <1>3, <1>10
<1> QED BY <1>2, <1>5, <1>6, <1>7, <1>8, <1>9, <1>10

\* The holder of a lease rewrites its row and logs the new status.
LEMMA HolderLogs ==
    ASSUME IndInv, NEW c \in Tasks, tasks[c].status \in LeaseStates,
           NEW r, NEW e,
           tasks' = [tasks EXCEPT ![c] = r],
           timeline' = [timeline EXCEPT ![c] = Append(@, e)],
           r.attempt = tasks[c].attempt,
           e = LastEvent(r.status),
           \/ tasks[c].status = "leased" /\ r.status = "running"
           \/ r.status \in {"recheck"} \cup FinalStates
    PROVE  \A k \in Tasks : TimelineStep(k)
<1>1. /\ tasks'[c] = r /\ timeline'[c] = Append(timeline[c], e)
      /\ \A k \in Tasks : k # c => tasks'[k] = tasks[k] /\ timeline'[k] = timeline[k]
    BY DEF IndInv, TypesOK
<1>2. \A k \in Tasks : k # c => TimelineStep(k)
    BY <1>1 DEF TimelineStep
<1>3. CASE tasks[c].status = "leased" /\ r.status = "running"
    <2>1. e = "running"
        BY <1>3 DEF LastEvent
    <2>2. TimelineStep(c)
        BY <1>1, <1>3, <2>1 DEF TimelineStep
    <2> QED BY <1>2, <2>2
<1>4. CASE r.status \in {"recheck"} \cup FinalStates
    <2>1. TimelineStep(c)
        BY <1>1, <1>4 DEF TimelineStep
    <2> QED BY <1>2, <2>1
<1> QED BY <1>3, <1>4

\* _reap_expired logs what it does to a row.
LEMMA ReapedLogs ==
    ASSUME IndInv, NEW t, NEW locked, NEW k \in Tasks,
           tasks'[k] = Reaped(Reapable(t, locked))[k],
           timeline'[k] = ReapedTimeline(Reapable(t, locked))[k]
    PROVE  TimelineStep(k)
<1>1. CASE k \notin Reapable(t, locked)
    <2>1. tasks'[k] = tasks[k] /\ timeline'[k] = timeline[k]
        BY <1>1 DEF Reaped, ReapedTimeline
    <2> QED BY <2>1 DEF TimelineStep
<1>2. CASE k \in Reapable(t, locked)
    <2>1. /\ tasks[k].status \in LeaseStates
          /\ tasks'[k].attempt = tasks[k].attempt /\ tasks'[k].status = "dead_letter"
        BY <1>2, ReapRows
    <2>2. timeline'[k] = Append(timeline[k], "dead_lettered")
        BY <1>2 DEF ReapedTimeline
    <2>3. LastEvent("dead_letter") = "dead_lettered"
        BY DEF LastEvent
    <2> QED BY <2>1, <2>2, <2>3 DEF TimelineStep, FinalStates
<1> QED BY <1>1, <1>2

\* A claim logs the lease, and claim_for_execution the start with it.
LEMMA TakenLogs ==
    ASSUME IndInv, NEW p \in Procs, NEW t, NEW locked,
           NEW c \in Candidate(t, locked), NEW status, NEW h,
           Take(p, c, t, locked, status),
           timeline' = [ReapedTimeline(Reapable(t, locked)) EXCEPT ![c] = h],
           \/ status = "leased" /\ h = Append(timeline[c], "leased")
           \/ status = "running" /\ h = Append(Append(timeline[c], "leased"), "running"),
           NEW k \in Tasks
    PROVE  TimelineStep(k)
<1>1. c \in Tasks /\ tasks[c].status # "absent" /\ tasks[c] \in RowType
    BY Attempts DEF Candidate, Claimable, Stored
<1>2. /\ Reaped(Reapable(t, locked)) \in [Tasks -> RowType]
      /\ ReapedTimeline(Reapable(t, locked)) \in [Tasks -> Seq(Events)]
    BY ReapRows
<1>3. tasks' = [Reaped(Reapable(t, locked)) EXCEPT ![c] = Taken(p, c, t, status)]
    BY DEF Take
<1>4. CASE k # c
    <2>1. /\ tasks'[k] = Reaped(Reapable(t, locked))[k]
          /\ timeline'[k] = ReapedTimeline(Reapable(t, locked))[k]
        BY <1>2, <1>3, <1>4
    <2> QED BY <2>1, ReapedLogs
<1>5. CASE k = c
    <2>1. tasks'[k] = Taken(p, c, t, status) /\ timeline'[k] = h
        BY <1>1, <1>2, <1>3, <1>5
    <2>2. tasks'[k].status = status /\ tasks'[k].attempt = tasks[c].attempt + 1
        BY <1>1, <2>1 DEF Taken, RowType
    <2> QED BY <1>1, <1>5, <2>1, <2>2 DEF TimelineStep
<1> QED BY <1>4, <1>5

\* The steps of a process that holds, or believes it holds, a lease.
LEMMA LeaseLogs ==
    ASSUME IndInv, NEW p \in Procs,
           \/ Start(p) \/ Heartbeat(p) \/ Succeed(p) \/ Fail(p) \/ CompleteCommits(p)
    PROVE  \A k \in Tasks : TimelineStep(k)
<1> DEFINE c == local[p].task
<1>1. Active(p)
    BY DEF Start, Heartbeat, Succeed, Fail, CompleteCommits, Active
<1>2. c \in Tasks /\ tasks[c] \in RowType
    BY <1>1, BusyProcess
<1>3. CASE UNCHANGED <<tasks, timeline>>
    BY <1>3 DEF TimelineStep
<1>4. ASSUME NEW t \in Readings, Holds(p, t), tasks[c].status = "leased",
             tasks' = [tasks EXCEPT ![c].status = "running"],
             timeline' = [timeline EXCEPT ![c] = Append(@, "running")]
      PROVE  \A k \in Tasks : TimelineStep(k)
    <2> DEFINE r == [tasks[c] EXCEPT !.status = "running"]
    <2>1. r.attempt = tasks[c].attempt /\ r.status = "running"
        BY <1>2 DEF RowType
    <2>2. tasks' = [tasks EXCEPT ![c] = r]
        BY <1>2, <1>4 DEF IndInv, TypesOK
    <2>3. "running" = LastEvent(r.status) /\ tasks[c].status \in LeaseStates
        BY <1>4, <2>1 DEF LastEvent, LeaseStates
    <2> HIDE DEF r
    <2> QED BY <1>2, <1>4, <2>1, <2>2, <2>3, HolderLogs
<1>5. ASSUME NEW t \in Readings,
             tasks' = [tasks EXCEPT ![c].expires = t + Lease], timeline' = timeline
      PROVE  \A k \in Tasks : TimelineStep(k)
    <2>1. \A k \in Tasks : /\ tasks'[k].status = tasks[k].status
                           /\ tasks'[k].attempt = tasks[k].attempt
        BY <1>2, <1>5 DEF IndInv, TypesOK, RowType
    <2> QED BY <1>5, <2>1 DEF TimelineStep
<1>6. ASSUME NEW t \in Readings, Holds(p, t),
             tasks' = [tasks EXCEPT ![c] = Ended(@, "succeeded")],
             timeline' = [timeline EXCEPT ![c] = Append(@, "succeeded")]
      PROVE  \A k \in Tasks : TimelineStep(k)
    <2> DEFINE r == Ended(tasks[c], "succeeded")
    <2>1. r.attempt = tasks[c].attempt /\ r.status = "succeeded"
        BY <1>2, EndedRow DEF FinalStates
    <2>2. tasks' = [tasks EXCEPT ![c] = r] /\ tasks[c].status \in LeaseStates
        BY <1>6 DEF Holds
    <2>3. "succeeded" = LastEvent(r.status) /\ r.status \in FinalStates
        BY <2>1 DEF LastEvent, FinalStates
    <2> HIDE DEF r
    <2> QED BY <1>2, <1>6, <2>1, <2>2, <2>3, HolderLogs
<1>7. ASSUME NEW t \in Readings, NEW why \in Failures, Holds(p, t),
             tasks' = [tasks EXCEPT ![c] = FailedRow(c, t, why)],
             timeline' = [timeline EXCEPT ![c] = Append(@,
                IF Retries(c) THEN "recheck_scheduled" ELSE "dead_lettered")]
      PROVE  \A k \in Tasks : TimelineStep(k)
    <2> DEFINE again == [tasks[c] EXCEPT !.failure = why, !.due = t + RetryDelay]
               dead == [tasks[c] EXCEPT !.failure = why]
               r == FailedRow(c, t, why)
               e == IF Retries(c) THEN "recheck_scheduled" ELSE "dead_lettered"
    <2>1. t + RetryDelay \in Nat
        BY TimeAssumption DEF Readings, IndInv, TypesOK
    <2>2. /\ again \in RowType /\ again.attempt = tasks[c].attempt
          /\ dead \in RowType /\ dead.attempt = tasks[c].attempt
        BY <1>2, <2>1 DEF RowType
    <2>3. /\ Retries(c) => r = Ended(again, "recheck")
          /\ ~Retries(c) => r = Ended(dead, "dead_letter")
        BY DEF FailedRow
    <2>4. tasks' = [tasks EXCEPT ![c] = r] /\ tasks[c].status \in LeaseStates
        BY <1>7 DEF Holds
    <2>5. timeline' = [timeline EXCEPT ![c] = Append(@, e)]
        BY <1>7
    <2>6. /\ Retries(c) => e = "recheck_scheduled"
          /\ ~Retries(c) => e = "dead_lettered"
        OBVIOUS
    <2> HIDE DEF again, dead, r, e
    <2>7. /\ r.attempt = tasks[c].attempt
          /\ Retries(c) => r.status = "recheck"
          /\ ~Retries(c) => r.status = "dead_letter"
        BY <2>2, <2>3, EndedRow DEF DueStates, FinalStates
    <2>8. e = LastEvent(r.status) /\ r.status \in {"recheck"} \cup FinalStates
        BY <2>6, <2>7 DEF LastEvent, FinalStates
    <2> QED BY <1>2, <2>4, <2>5, <2>7, <2>8, HolderLogs
<1>8. CASE Start(p)
    BY <1>3, <1>4, <1>8 DEF Start
<1>9. CASE Heartbeat(p)
    BY <1>3, <1>5, <1>9 DEF Heartbeat
<1>10. CASE Succeed(p) \/ CompleteCommits(p)
    BY <1>3, <1>6, <1>10 DEF Succeed, CompleteCommits
<1>11. CASE Fail(p)
    BY <1>3, <1>7, <1>11 DEF Fail
<1> QED BY <1>8, <1>9, <1>10, <1>11

\* Every step of the queue logs what it does to a row.
LEMMA TimelineSteps == IndInv /\ [Next]_vars => \A k \in Tasks : TimelineStep(k)
<1> SUFFICES ASSUME IndInv, [Next]_vars, NEW k \in Tasks PROVE TimelineStep(k)
    OBVIOUS
<1>1. CASE UNCHANGED <<tasks, timeline>>
    BY <1>1 DEF TimelineStep
<1>2. ASSUME NEW s \in Submissions, Enqueue(s)
      PROVE  TimelineStep(k)
    <2>1. CASE k = s.task
        <3>1. tasks[k].status = "absent"
            BY <1>2, <2>1 DEF Enqueue, Accepts, Stored
        <3>2. tasks'[k].status = "queued" /\ tasks'[k].attempt = 0
            BY <1>2, <2>1 DEF Enqueue, NoRow, IndInv, TypesOK
        <3>3. timeline'[k] = Append(timeline[k], "created")
            BY <1>2, <2>1 DEF Enqueue, IndInv, TypesOK
        <3> QED BY <3>1, <3>2, <3>3 DEF TimelineStep
    <2>2. CASE k # s.task
        BY <1>2, <2>2 DEF Enqueue, TimelineStep, IndInv, TypesOK
    <2> QED BY <2>1, <2>2
<1>3. ASSUME NEW p \in Procs, ClaimNone(p)
      PROVE  TimelineStep(k)
    BY <1>3, ReapedLogs DEF ClaimNone
<1>4. ASSUME NEW p \in Procs, Claim(p) \/ ClaimForExecution(p)
      PROVE  TimelineStep(k)
    <2> DEFINE Takes(c, t, locked) ==
             \/ /\ Take(p, c, t, locked, "leased")
                /\ timeline' = [ReapedTimeline(Reapable(t, locked)) EXCEPT
                                   ![c] = Append(@, "leased")]
             \/ /\ Take(p, c, t, locked, "running")
                /\ timeline' = [ReapedTimeline(Reapable(t, locked)) EXCEPT
                                   ![c] = @ \o <<"leased", "running">>]
    <2>0. PICK t \in Readings, locked \in LockSets(p) :
             \E c \in Candidate(t, locked) : Takes(c, t, locked)
        BY <1>4 DEF Claim, ClaimForExecution
    <2>1. PICK c \in Candidate(t, locked) : Takes(c, t, locked)
        BY <2>0
    <2> DEFINE base == ReapedTimeline(Reapable(t, locked))
    <2>2. c \in Tasks /\ base \in [Tasks -> Seq(Events)]
        BY ReapRows DEF Candidate, Claimable
    <2>3. base[c] = timeline[c]
        <3>1. c \notin Reapable(t, locked)
            BY Attempts DEF Candidate, Claimable, Reapable
        <3> QED BY <2>2, <3>1 DEF ReapedTimeline
    <2>4. timeline[c] \o <<"leased", "running">> = Append(Append(timeline[c], "leased"), "running")
        BY <2>2 DEF IndInv, TypesOK
    <2> DEFINE one == Append(timeline[c], "leased")
               two == Append(Append(timeline[c], "leased"), "running")
    <2>5. \/ Take(p, c, t, locked, "leased") /\ timeline' = [base EXCEPT ![c] = one]
          \/ Take(p, c, t, locked, "running") /\ timeline' = [base EXCEPT ![c] = two]
        BY <2>1, <2>2, <2>3, <2>4
    <2>6. CASE Take(p, c, t, locked, "leased") /\ timeline' = [base EXCEPT ![c] = one]
        BY <2>6, TakenLogs
    <2>7. CASE Take(p, c, t, locked, "running") /\ timeline' = [base EXCEPT ![c] = two]
        BY <2>7, TakenLogs
    <2> QED BY <2>5, <2>6, <2>7
<1>5. ASSUME NEW p \in Procs,
             \/ ClaimAborts(p) \/ Resolve(p) \/ ExecuteReturns(p) \/ ExecuteRaises(p)
             \/ CompleteRejected(p) \/ CompleteAnswered(p) \/ Crash(p) \/ Restart(p)
      PROVE  UNCHANGED <<tasks, timeline>>
    BY <1>5 DEF ClaimAborts, Resolve, ExecuteReturns, ExecuteRaises,
                CompleteRejected, CompleteAnswered, Crash, Restart, db
<1>6. CASE Tick \/ UNCHANGED vars
    BY <1>1, <1>6 DEF Tick, vars, db
<1> QED BY <1>1, <1>2, <1>3, <1>4, <1>5, <1>6, LeaseLogs
        DEF Next, WorkerStep, ClientStep

\* The timeline can be replayed: one "created", one "leased" per attempt, no
\* lease that ends twice, and a last event that says what the status is.
THEOREM TimelinesReplay == Spec => []TimelineReplays
<1>1. Init => HistoryInv
    BY DEF Init, HistoryInv, Replays, NoRow
<1>2. IndInv /\ HistoryInv /\ [Next]_vars => HistoryInv'
    <2> SUFFICES ASSUME IndInv, HistoryInv, [Next]_vars, NEW k \in Tasks
                 PROVE  Replays(timeline'[k], tasks'[k].status, tasks'[k].attempt)
        BY DEF HistoryInv
    <2>1. TimelineStep(k)
        BY TimelineSteps
    <2>2. Replays(timeline[k], tasks[k].status, tasks[k].attempt)
        BY DEF HistoryInv
    <2> QED BY <2>1, <2>2, HistoryKept
<1>3. HistoryInv => TimelineReplays
    BY DEF HistoryInv, Replays, TimelineReplays, Stored, Count, Occurrences, Places, Ends
<1> QED BY <1>1, <1>2, <1>3, Invariance, PTL DEF Spec

\* The three tables that different statements write tell one story of every
\* task, for every interleaving of claims, ends and reaping.
THEOREM TablesAgree == Spec => []RecordsAgree
    BY DeadLettersExact, TimelinesReplay, PTL DEF RecordsAgree
=============================================================================
