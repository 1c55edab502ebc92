----------------------- MODULE ProjectionOutboxProofs ------------------------
(***************************************************************************)
(* What the projection pipeline guarantees for every number of workers,    *)
(* observations and attempts, although the three transactions of a         *)
(* projection are not one and only the last of them is fenced.             *)
(***************************************************************************)
EXTENDS ProjectionOutbox, TLAPS

\* What a busy worker knows: the publication it goes on from is the one that the
\* context service holds, and the row it is about to mark has its projection.
Good(l) ==
    l.pc \notin {"idle", "down"} =>
        /\ l.obs \in Observations
        /\ l.pc \in {"publishing", "storing", "marking"} => l.payload # None
        /\ l.pc \in {"storing", "marking"} => intelligence[l.obs] = l.payload
        /\ l.pc = "marking" => projections[l.obs] = l.payload.text

\* The same of a memory l in the state that a step leads to.
GoodAfter(l) ==
    l.pc \notin {"idle", "down"} =>
        /\ l.obs \in Observations
        /\ l.pc \in {"publishing", "storing", "marking"} => l.payload # None
        /\ l.pc \in {"storing", "marking"} => intelligence'[l.obs] = l.payload
        /\ l.pc = "marking" => projections'[l.obs] = l.payload.text

LocalsOK == \A p \in Workers : Good(local[p])

\* The inductive invariant.
IndInv ==
    /\ TypesOK
    /\ RowChecks
    /\ LocalsOK
    /\ ViewsAgree
    /\ PublishedComplete
    /\ DeadLetterExact

\* What has been published or stored is never replaced.
ViewsKept ==
    \A o \in Observations :
        /\ intelligence[o] # None => intelligence'[o] = intelligence[o]
        /\ projections[o] # None => projections'[o] = projections[o]

\* Texts are not NULL, so a projection that equals one is stored.
LEMMA PayloadText ==
    ASSUME NEW x \in PayloadType
    PROVE  x.text \in Texts /\ x.text # None
    BY NullAssumption DEF PayloadType

\* One worker changes what it remembers.
LEMMA OneLocal ==
    ASSUME IndInv, ViewsKept, NEW p \in Workers, NEW l \in LocalType, GoodAfter(l),
           local' = [local EXCEPT ![p] = l]
    PROVE  local' \in [Workers -> LocalType] /\ LocalsOK'
<1>1. local' \in [Workers -> LocalType]
    BY DEF IndInv, TypesOK
<1>2. ASSUME NEW q \in Workers
      PROVE  Good(local[q])'
    <2>1. CASE q = p
        BY <2>1 DEF IndInv, TypesOK, Good, GoodAfter
    <2>2. CASE q # p
        <3>1. local'[q] = local[q]
            BY <2>2 DEF IndInv, TypesOK
        <3>2. Good(local[q]) /\ local[q].payload \in PayloadType \cup {None}
            BY DEF IndInv, LocalsOK, TypesOK, LocalType
        <3>3. local[q].payload # None => local[q].payload.text # None
            BY <3>2, PayloadText
        <3> QED BY <3>1, <3>2, <3>3 DEF Good, ViewsKept
    <2> QED BY <2>1, <2>2
<1> QED BY <1>1, <1>2 DEF LocalsOK

\* No worker changes what it remembers.
LEMMA SameLocal ==
    ASSUME IndInv, UNCHANGED <<local, views>>
    PROVE  local' \in [Workers -> LocalType] /\ LocalsOK'
    BY DEF IndInv, TypesOK, LocalsOK, Good, views

\* A worker forgets its claim.
LEMMA Forget ==
    ASSUME IndInv, ViewsKept, NEW p \in Workers,
           local' = [local EXCEPT ![p] = Idle] \/ local' = [local EXCEPT ![p] = Down]
    PROVE  local' \in [Workers -> LocalType] /\ LocalsOK'
<1>1. /\ Idle \in LocalType /\ Down \in LocalType
      /\ Idle.pc = "idle" /\ Down.pc = "down"
    BY DEF Idle, Down, LocalType
<1>2. GoodAfter(Idle) /\ GoodAfter(Down)
    BY <1>1 DEF GoodAfter
<1> QED BY <1>1, <1>2, OneLocal

\* A worker that is busy.
LEMMA BusyWorker ==
    ASSUME IndInv, NEW p \in Workers, Active(p)
    PROVE  /\ local[p] \in LocalType
           /\ Good(local[p])
           /\ local[p].obs \in Observations
           /\ outbox[local[p].obs] \in RowType
<1>1. local[p] \in LocalType /\ Good(local[p])
    BY DEF IndInv, TypesOK, LocalsOK
<1>2. local[p].obs \in Observations
    BY <1>1 DEF Good, Active
<1> QED BY <1>1, <1>2 DEF IndInv, TypesOK

\* A busy worker goes on to a step for which it needs nothing new.
LEMMA GoesOn ==
    ASSUME IndInv, ViewsKept, NEW p \in Workers, Active(p),
           NEW pc \in {"projecting", "failing"}, Goto(p, pc)
    PROVE  local' \in [Workers -> LocalType] /\ LocalsOK'
<1> DEFINE l == [local[p] EXCEPT !.pc = pc]
<1>1. local[p] \in LocalType /\ local[p].obs \in Observations
    BY BusyWorker
<1>2. local' = [local EXCEPT ![p] = l]
    BY DEF Goto, IndInv, TypesOK
<1>3. l \in LocalType /\ l.pc = pc /\ l.obs = local[p].obs
    BY <1>1 DEF LocalType, Running
<1> HIDE DEF l
<1>4. GoodAfter(l)
    BY <1>1, <1>3 DEF GoodAfter
<1> QED BY <1>2, <1>3, <1>4, OneLocal

\* A step that leaves outbox, dead letters and views alone.
LEMMA TablesKept ==
    ASSUME IndInv, UNCHANGED <<outbox, letters, views>>, clock' \in Nat,
           local' \in [Workers -> LocalType], LocalsOK'
    PROVE  IndInv'
<1>1. UNCHANGED <<outbox, letters, intelligence, projections>>
    BY DEF views
<1>2. TypesOK'
    BY <1>1 DEF IndInv, TypesOK
<1>3. RowChecks' /\ ViewsAgree' /\ PublishedComplete' /\ DeadLetterExact'
    BY <1>1 DEF IndInv, RowChecks, ViewsAgree, PublishedComplete, DeadLetterExact
<1> QED BY <1>2, <1>3 DEF IndInv

\* Views that do not change are kept.
LEMMA SameViews ==
    ASSUME UNCHANGED views
    PROVE  ViewsKept
    BY DEF views, ViewsKept

\* Initial states.
LEMMA InitInv == Init => IndInv
<1> SUFFICES ASSUME Init PROVE IndInv
    OBVIOUS
<1>1. TypesOK
    <2>1. NoRow \in RowType /\ Idle \in LocalType
        BY DEF NoRow, RowType, Idle, LocalType
    <2> QED BY <2>1 DEF Init, TypesOK
<1>2. RowChecks /\ PublishedComplete /\ DeadLetterExact
    BY LimitAssumption DEF Init, RowChecks, PublishedComplete, DeadLetterExact, NoRow
<1>3. ViewsAgree
    BY DEF Init, ViewsAgree
<1>4. LocalsOK
    BY DEF Init, LocalsOK, Good, Idle
<1> QED BY <1>1, <1>2, <1>3, <1>4 DEF IndInv

\* Steps in which one worker alone changes what it remembers.
LEMMA LocalSteps ==
    ASSUME IndInv, NEW p \in Workers,
           Begin(p) \/ Project(p) \/ Raise(p) \/ Crash(p) \/ Restart(p)
    PROVE  IndInv'
<1>1. UNCHANGED <<clock, outbox, letters, views>>
    BY DEF Begin, Project, Publication, Raise, Crash, Restart
<1>2. ViewsKept /\ clock' \in Nat
    BY <1>1, SameViews DEF IndInv, TypesOK
<1>3. CASE Crash(p) \/ Restart(p)
    <2>1. local' \in [Workers -> LocalType] /\ LocalsOK'
        BY <1>2, <1>3, Forget DEF Crash, Restart, Return
    <2> QED BY <1>1, <1>2, <2>1, TablesKept
<1>4. CASE Begin(p)
    <2>1. Active(p) /\ (Goto(p, "projecting") \/ Return(p))
        BY <1>4 DEF Begin, Active
    <2>2. local' \in [Workers -> LocalType] /\ LocalsOK'
        BY <1>2, <2>1, Forget, GoesOn DEF Return
    <2> QED BY <1>1, <1>2, <2>2, TablesKept
<1>5. CASE Raise(p)
    <2>1. Active(p) /\ Goto(p, "failing")
        BY <1>5 DEF Raise, Active, Running
    <2>2. local' \in [Workers -> LocalType] /\ LocalsOK'
        BY <1>2, <2>1, GoesOn
    <2> QED BY <1>1, <1>2, <2>2, TablesKept
<1>6. CASE Project(p)
    <2>1. PICK x \in Texts :
             local' = [local EXCEPT ![p].pc = "publishing",
                         ![p].payload = [text |-> x, call |-> local[p].attempt]]
        BY <1>6 DEF Project, Publication
    <2> DEFINE a == [text |-> x, call |-> local[p].attempt]
               l == [local[p] EXCEPT !.pc = "publishing", !.payload = a]
    <2>2. Active(p)
        BY <1>6 DEF Project, Publication, Active
    <2>3. local[p] \in LocalType /\ local[p].obs \in Observations
        BY <2>2, BusyWorker
    <2>4. a \in PayloadType /\ a # None
        BY <2>3, NullAssumption DEF LocalType, PayloadType
    <2>5. local' = [local EXCEPT ![p] = l]
        BY <2>1 DEF IndInv, TypesOK
    <2> HIDE DEF a
    <2>6. l \in LocalType /\ l.pc = "publishing" /\ l.obs = local[p].obs /\ l.payload = a
        BY <2>3, <2>4 DEF LocalType, Running
    <2> HIDE DEF l
    <2>7. GoodAfter(l)
        BY <2>3, <2>4, <2>6 DEF GoodAfter
    <2>8. local' \in [Workers -> LocalType] /\ LocalsOK'
        BY <1>2, <2>5, <2>6, <2>7, OneLocal
    <2> QED BY <1>1, <1>2, <2>8, TablesKept
<1> QED BY <1>3, <1>4, <1>5, <1>6
-----------------------------------------------------------------------------
(* Steps that write the views *)

\* Publish
LEMMA PublishStep ==
    ASSUME IndInv, NEW p \in Workers, Publish(p)
    PROVE  IndInv'
<1> DEFINE o == local[p].obs
           a == local[p].payload
<1>1. Active(p) /\ local[p].pc = "publishing" /\ UNCHANGED <<clock, outbox, letters, projections>>
    BY DEF Publish, Active
<1>2. local[p] \in LocalType /\ o \in Observations /\ a # None /\ Good(local[p])
    BY <1>1, BusyWorker DEF Good
<1>3. a \in PayloadType
    BY <1>2 DEF LocalType
<1>4. CASE Accepts(o, a)
    <2>1. /\ intelligence[o] \in {None, a}
          /\ intelligence' = [intelligence EXCEPT ![o] = a]
          /\ Goto(p, "storing") \/ Goto(p, "failing")
        BY <1>4 DEF Publish, Accepts
    <2>2. /\ intelligence' \in [Observations -> PayloadType \cup {None}]
          /\ intelligence'[o] = a
          /\ \A n \in Observations : n # o => intelligence'[n] = intelligence[n]
        BY <1>2, <1>3, <2>1 DEF IndInv, TypesOK
    <2>3. ViewsKept
        BY <1>1, <2>1, <2>2 DEF ViewsKept
    <2>4. CASE Goto(p, "failing")
        <3>1. local' \in [Workers -> LocalType] /\ LocalsOK'
            BY <1>1, <2>3, <2>4, GoesOn
        <3>2. TypesOK'
            BY <1>1, <2>2, <3>1 DEF IndInv, TypesOK
        <3>3. RowChecks' /\ DeadLetterExact'
            BY <1>1 DEF IndInv, RowChecks, DeadLetterExact
        <3>4. ViewsAgree' /\ PublishedComplete'
            BY <1>1, <2>3 DEF IndInv, ViewsKept, ViewsAgree, PublishedComplete
        <3> QED BY <3>1, <3>2, <3>3, <3>4 DEF IndInv
    <2>5. CASE Goto(p, "storing")
        <3> DEFINE l == [local[p] EXCEPT !.pc = "storing"]
        <3>1. local' = [local EXCEPT ![p] = l]
            BY <2>5 DEF Goto, IndInv, TypesOK
        <3>2. l \in LocalType /\ l.pc = "storing" /\ l.obs = o /\ l.payload = a
            BY <1>2 DEF LocalType, Running
        <3> HIDE DEF l
        <3>3. GoodAfter(l)
            BY <1>2, <2>2, <3>2 DEF GoodAfter
        <3>4. local' \in [Workers -> LocalType] /\ LocalsOK'
            BY <2>3, <3>1, <3>2, <3>3, OneLocal
        <3>5. TypesOK'
            BY <1>1, <2>2, <3>4 DEF IndInv, TypesOK
        <3>6. RowChecks' /\ DeadLetterExact'
            BY <1>1 DEF IndInv, RowChecks, DeadLetterExact
        <3>7. ViewsAgree' /\ PublishedComplete'
            BY <1>1, <2>3 DEF IndInv, ViewsKept, ViewsAgree, PublishedComplete
        <3> QED BY <3>4, <3>5, <3>6, <3>7 DEF IndInv
    <2> QED BY <2>1, <2>4, <2>5
<1>5. CASE ~Accepts(o, a)
    <2>1. Goto(p, "failing") /\ UNCHANGED views
        BY <1>1, <1>5 DEF Publish, views
    <2>2. local' \in [Workers -> LocalType] /\ LocalsOK'
        BY <1>1, <2>1, SameViews, GoesOn
    <2>3. clock' \in Nat
        BY <1>1 DEF IndInv, TypesOK
    <2> QED BY <1>1, <2>1, <2>2, <2>3, TablesKept
<1> QED BY <1>4, <1>5

\* Store
LEMMA StoreStep ==
    ASSUME IndInv, NEW p \in Workers, Store(p)
    PROVE  IndInv'
<1> DEFINE o == local[p].obs
           x == local[p].payload.text
<1>1. Active(p) /\ local[p].pc = "storing" /\ UNCHANGED <<clock, outbox, letters, intelligence>>
    BY DEF Store, Detail, Active
<1>2. /\ local[p] \in LocalType /\ o \in Observations /\ local[p].payload # None
      /\ intelligence[o] = local[p].payload
    BY <1>1, BusyWorker DEF Good
<1>3. local[p].payload \in PayloadType /\ x \in Texts /\ x # None
    BY <1>2, PayloadText DEF LocalType
<1>4. CASE projections[o] \in {None, x}
    <2>1. /\ projections' = [projections EXCEPT ![o] = x]
          /\ Goto(p, "marking") \/ Return(p) \/ Goto(p, "failing")
        BY <1>4 DEF Store, Detail, AfterRun
    <2>2. /\ projections' \in [Observations -> Texts \cup {None}]
          /\ projections'[o] = x
          /\ \A n \in Observations : n # o => projections'[n] = projections[n]
        BY <1>2, <1>3, <2>1 DEF IndInv, TypesOK
    <2>3. ViewsKept
        BY <1>1, <1>4, <2>2 DEF ViewsKept
    <2>4. local' \in [Workers -> LocalType] /\ LocalsOK'
        <3>1. CASE Goto(p, "marking")
            <4> DEFINE l == [local[p] EXCEPT !.pc = "marking"]
            <4>1. local' = [local EXCEPT ![p] = l]
                BY <3>1 DEF Goto, IndInv, TypesOK
            <4>2. /\ l \in LocalType /\ l.pc = "marking" /\ l.obs = o
                  /\ l.payload = local[p].payload
                BY <1>2 DEF LocalType, Running
            <4> HIDE DEF l
            <4>3. GoodAfter(l)
                BY <1>1, <1>2, <2>2, <4>2 DEF GoodAfter
            <4> QED BY <2>3, <4>1, <4>2, <4>3, OneLocal
        <3>2. CASE Return(p)
            BY <2>3, <3>2, Forget DEF Return
        <3>3. CASE Goto(p, "failing")
            BY <1>1, <2>3, <3>3, GoesOn
        <3> QED BY <2>1, <3>1, <3>2, <3>3
    <2>5. TypesOK'
        BY <1>1, <2>2, <2>4 DEF IndInv, TypesOK
    <2>6. RowChecks' /\ DeadLetterExact'
        BY <1>1 DEF IndInv, RowChecks, DeadLetterExact
    <2>7. ViewsAgree'
        BY <1>1, <1>2, <2>2 DEF IndInv, ViewsAgree
    <2>8. PublishedComplete'
        BY <1>1, <1>2, <2>2 DEF IndInv, PublishedComplete
    <2> QED BY <2>4, <2>5, <2>6, <2>7, <2>8 DEF IndInv
<1>5. CASE projections[o] \notin {None, x}
    <2>1. Goto(p, "failing") /\ UNCHANGED views
        BY <1>1, <1>5 DEF Store, Detail, views
    <2>2. local' \in [Workers -> LocalType] /\ LocalsOK'
        BY <1>1, <2>1, SameViews, GoesOn
    <2>3. clock' \in Nat
        BY <1>1 DEF IndInv, TypesOK
    <2> QED BY <1>1, <2>1, <2>2, <2>3, TablesKept
<1> QED BY <1>4, <1>5
-----------------------------------------------------------------------------
(* Steps that write the outbox *)

\* What a row r of observation o must be like.
RowMay(o, r) ==
    /\ r \in RowType
    /\ r.attempt <= MaxAttempts /\ r.gen = r.attempt
    /\ r.status = "leased" <=> r.owner # None
    /\ r.status = "published" =>
          intelligence[o] # None /\ projections[o] = intelligence[o].text

\* A step that rewrites one row, and keeps the dead letters in accord with it.
LEMMA OneRow ==
    ASSUME IndInv, NEW o \in Observations, NEW r, RowMay(o, r),
           outbox' = [outbox EXCEPT ![o] = r], UNCHANGED <<clock, views>>,
           letters' = IF r.status = "dead_letter" THEN letters \cup {o} ELSE letters,
           outbox[o].status # "dead_letter",
           r.status = "dead_letter" => r.attempt = MaxAttempts,
           local' \in [Workers -> LocalType], LocalsOK'
    PROVE  IndInv'
<1>1. UNCHANGED <<clock, intelligence, projections>> /\ r \in RowType
    BY DEF views, RowMay
<1>2. /\ outbox' \in [Observations -> RowType] /\ outbox'[o] = r
      /\ \A n \in Observations : n # o => outbox'[n] = outbox[n]
    BY <1>1 DEF IndInv, TypesOK
<1>3. TypesOK'
    BY <1>1, <1>2 DEF IndInv, TypesOK
<1>4. RowChecks'
    BY <1>2 DEF IndInv, RowChecks, RowMay
<1>5. ViewsAgree' /\ PublishedComplete'
    BY <1>1, <1>2 DEF IndInv, ViewsAgree, PublishedComplete, RowMay
<1>6. DeadLetterExact'
    BY <1>2 DEF IndInv, DeadLetterExact
<1> QED BY <1>3, <1>4, <1>5, <1>6 DEF IndInv

\* Clock readings are numbers, and not ahead of the clock.
LEMMA ReadingsNat ==
    ASSUME IndInv, NEW t \in Readings
    PROVE  t \in Nat /\ t <= clock /\ t + Lease \in Nat /\ t + RetryDelay \in Nat
    BY LimitAssumption DEF Readings, IndInv, TypesOK

\* The row of a lease that ends.
LEMMA EndedRow ==
    ASSUME IndInv, NEW o \in Observations, NEW status \in DueStates \cup FinalStates,
           status = "published" =>
              intelligence[o] # None /\ projections[o] = intelligence[o].text
    PROVE  /\ RowMay(o, Ended(outbox[o], status))
           /\ Ended(outbox[o], status).status = status
           /\ Ended(outbox[o], status).attempt = outbox[o].attempt
<1> DEFINE r == Ended(outbox[o], status)
<1>1. /\ outbox[o] \in RowType /\ outbox[o].attempt <= MaxAttempts
      /\ outbox[o].gen = outbox[o].attempt
    BY DEF IndInv, TypesOK, RowChecks
<1>2. /\ r \in RowType /\ r.status = status /\ r.owner = None
      /\ r.attempt = outbox[o].attempt /\ r.gen = outbox[o].gen
    BY <1>1 DEF Ended, RowType
<1> HIDE DEF r
<1> QED BY <1>1, <1>2 DEF RowMay, r, DueStates, FinalStates

\* Insert
LEMMA InsertStep ==
    ASSUME IndInv, NEW o \in Observations, Insert(o)
    PROVE  IndInv'
<1>1. PICK t \in Readings :
         outbox' = [outbox EXCEPT ![o] = [NoRow EXCEPT !.status = "queued",
                                                       !.due = t, !.created = t]]
    BY DEF Insert
<1> DEFINE r == [NoRow EXCEPT !.status = "queued", !.due = t, !.created = t]
<1>2. RowMay(o, r) /\ r.status = "queued"
    <2>1. t \in Nat
        BY ReadingsNat
    <2>2. /\ r \in RowType /\ r.status = "queued" /\ r.owner = None
          /\ r.attempt = 0 /\ r.gen = 0
        BY <2>1 DEF NoRow, RowType, DueStates
    <2> QED BY <2>2, LimitAssumption DEF RowMay
<1>3. outbox' = [outbox EXCEPT ![o] = r]
    BY <1>1
<1> HIDE DEF r
<1>4. outbox[o].status = "absent" /\ UNCHANGED <<clock, letters, local, views>>
    BY DEF Insert, Stored
<1>5. local' \in [Workers -> LocalType] /\ LocalsOK'
    BY <1>4, SameLocal
<1> QED BY <1>2, <1>3, <1>4, <1>5, OneRow

\* Claim
LEMMA ClaimStep ==
    ASSUME IndInv, NEW p \in Workers, Claim(p)
    PROVE  IndInv'
<1>1. PICK t \in Readings, locked \in LockSets(p) :
         \E o \in Candidate(t, locked) :
            /\ outbox' = [outbox EXCEPT ![o] = Taken(p, o, t)]
            /\ local' = [local EXCEPT ![p] =
                  [Idle EXCEPT !.pc = "claimed", !.obs = o,
                               !.attempt = outbox[o].attempt + 1,
                               !.gen = outbox[o].gen + 1, !.expires = t + Lease]]
    BY DEF Claim
<1>2. PICK o \in Candidate(t, locked) :
         /\ outbox' = [outbox EXCEPT ![o] = Taken(p, o, t)]
         /\ local' = [local EXCEPT ![p] =
               [Idle EXCEPT !.pc = "claimed", !.obs = o,
                            !.attempt = outbox[o].attempt + 1,
                            !.gen = outbox[o].gen + 1, !.expires = t + Lease]]
    BY <1>1
<1> DEFINE r == Taken(p, o, t)
           l == [Idle EXCEPT !.pc = "claimed", !.obs = o,
                             !.attempt = outbox[o].attempt + 1,
                             !.gen = outbox[o].gen + 1, !.expires = t + Lease]
<1>3. /\ o \in Observations /\ outbox[o].attempt < MaxAttempts
      /\ outbox[o].status \in DueStates \cup {"leased"}
    BY DEF Candidate, Claimable, Expired
<1>4. /\ outbox[o] \in RowType /\ outbox[o].gen = outbox[o].attempt
      /\ outbox[o].attempt \in Nat
    BY <1>3 DEF IndInv, TypesOK, RowChecks, RowType
<1>5. r \in RowType
    <2>1. t + Lease \in Nat /\ WorkerId[p] \in {WorkerId[q] : q \in Workers} \cup {None}
        BY ReadingsNat
    <2>2. outbox[o].attempt + 1 \in Nat /\ outbox[o].gen + 1 \in Nat
        BY <1>4
    <2> QED BY <1>4, <2>1, <2>2 DEF Taken, RowType
<1>6. /\ r.status = "leased" /\ r.owner = WorkerId[p]
      /\ r.attempt = outbox[o].attempt + 1 /\ r.gen = outbox[o].gen + 1
    BY <1>4 DEF Taken, RowType
<1>7. l \in LocalType /\ l.pc = "claimed" /\ l.obs = o
    <2>1. t + Lease \in Nat
        BY ReadingsNat
    <2>2. outbox[o].attempt + 1 \in Nat /\ outbox[o].gen + 1 \in Nat
        BY <1>4
    <2> QED BY <1>3, <2>1, <2>2 DEF Idle, LocalType
<1>8. outbox' = [outbox EXCEPT ![o] = r] /\ local' = [local EXCEPT ![p] = l]
    BY <1>2
<1> HIDE DEF r, l
<1>9. RowMay(o, r)
    BY <1>3, <1>4, <1>5, <1>6, LimitAssumption, WorkerIdAssumption DEF RowMay
<1>10. UNCHANGED <<clock, letters, views>>
    BY DEF Claim
<1>11. GoodAfter(l)
    BY <1>3, <1>7 DEF GoodAfter
<1>12. local' \in [Workers -> LocalType] /\ LocalsOK'
    BY <1>7, <1>8, <1>10, <1>11, SameViews, OneLocal
<1>13. outbox[o].status # "dead_letter"
    BY <1>3 DEF DueStates
<1> QED BY <1>3, <1>6, <1>8, <1>9, <1>10, <1>12, <1>13, OneRow

\* Heartbeat
LEMMA HeartbeatStep ==
    ASSUME IndInv, NEW p \in Workers, Heartbeat(p)
    PROVE  IndInv'
<1> DEFINE o == local[p].obs
<1>1. /\ Active(p) /\ local[p].pc \in Running
      /\ UNCHANGED <<clock, letters, views>>
    BY DEF Heartbeat, Active, Running
<1>2. /\ local[p] \in LocalType /\ Good(local[p]) /\ o \in Observations
      /\ outbox[o] \in RowType
    BY <1>1, BusyWorker
<1>3. ViewsKept /\ clock' \in Nat
    BY <1>1, SameViews DEF IndInv, TypesOK
<1>4. ASSUME NEW l \in LocalType, local' = [local EXCEPT ![p] = l],
             l.pc = local[p].pc, l.obs = o, l.payload = local[p].payload
      PROVE  local' \in [Workers -> LocalType] /\ LocalsOK'
    <2>1. GoodAfter(l)
        BY <1>1, <1>2, <1>4 DEF Good, GoodAfter, views
    <2> QED BY <1>3, <1>4, <2>1, OneLocal
<1>5. ASSUME NEW b \in {"lost", "error"},
             local' = [local EXCEPT ![p].beat = b], UNCHANGED outbox
      PROVE  IndInv'
    <2> DEFINE l == [local[p] EXCEPT !.beat = b]
    <2>1. local' = [local EXCEPT ![p] = l]
        BY <1>5 DEF IndInv, TypesOK
    <2>2. /\ l \in LocalType /\ l.pc = local[p].pc /\ l.obs = o
          /\ l.payload = local[p].payload
        BY <1>2 DEF LocalType
    <2> HIDE DEF l
    <2> QED BY <1>1, <1>3, <1>4, <1>5, <2>1, <2>2, TablesKept
<1>6. ASSUME NEW t \in Readings, Holds(p, t),
             outbox' = [outbox EXCEPT ![o].expires = t + Lease],
             local' = [local EXCEPT ![p].beats = @ + 1]
      PROVE  IndInv'
    <2> DEFINE l == [local[p] EXCEPT !.beats = @ + 1]
               r == [outbox[o] EXCEPT !.expires = t + Lease]
    <2>1. local' = [local EXCEPT ![p] = l] /\ outbox' = [outbox EXCEPT ![o] = r]
        BY <1>2, <1>6 DEF IndInv, TypesOK
    <2>2. /\ l \in LocalType /\ l.pc = local[p].pc /\ l.obs = o
          /\ l.payload = local[p].payload
        BY <1>2 DEF LocalType
    <2>3. /\ r \in RowType /\ r.status = outbox[o].status /\ r.owner = outbox[o].owner
          /\ r.attempt = outbox[o].attempt /\ r.gen = outbox[o].gen
        BY <1>2, ReadingsNat DEF RowType
    <2> HIDE DEF l, r
    <2>4. RowMay(o, r) /\ outbox[o].status = "leased"
        BY <1>2, <1>6, <2>3 DEF Holds, RowMay, IndInv, RowChecks
    <2>5. local' \in [Workers -> LocalType] /\ LocalsOK'
        BY <1>4, <2>1, <2>2
    <2> QED BY <1>1, <1>2, <2>1, <2>3, <2>4, <2>5, OneRow
<1> QED BY <1>5, <1>6 DEF Heartbeat

\* MarkPublished and MarkFailed
LEMMA MarkStep ==
    ASSUME IndInv, NEW p \in Workers, MarkPublished(p) \/ MarkFailed(p)
    PROVE  IndInv'
<1> DEFINE o == local[p].obs
<1>1. Active(p) /\ UNCHANGED <<clock, views>>
    BY DEF MarkPublished, MarkFailed, Active
<1>2. ViewsKept /\ clock' \in Nat
    BY <1>1, SameViews DEF IndInv, TypesOK
<1>3. local' \in [Workers -> LocalType] /\ LocalsOK'
    BY <1>2, Forget DEF MarkPublished, MarkFailed, Return
<1>4. o \in Observations /\ outbox[o] \in RowType /\ Good(local[p])
    BY <1>1, BusyWorker
<1>5. CASE UNCHANGED <<outbox, letters>>
    BY <1>1, <1>2, <1>3, <1>5, TablesKept
<1>6. CASE MarkPublished(p)
    <2>1. ASSUME NEW t \in Readings, Holds(p, t),
                 outbox' = [outbox EXCEPT ![o] = Ended(@, "published")]
          PROVE  IndInv'
        <3> DEFINE r == Ended(outbox[o], "published")
        <3>1. /\ intelligence[o] # None /\ projections[o] = intelligence[o].text
            BY <1>4, <1>6 DEF Good, MarkPublished
        <3>2. RowMay(o, r) /\ r.status = "published"
            BY <1>4, <3>1, EndedRow DEF FinalStates
        <3>3. outbox[o].status = "leased"
            BY <2>1 DEF Holds
        <3>4. outbox' = [outbox EXCEPT ![o] = r] /\ letters' = letters
            BY <1>6, <2>1 DEF MarkPublished
        <3> HIDE DEF r
        <3> QED BY <1>1, <1>3, <1>4, <3>2, <3>3, <3>4, OneRow
    <2> QED BY <1>5, <1>6, <2>1 DEF MarkPublished
<1>7. CASE MarkFailed(p)
    <2>1. ASSUME NEW t \in Readings, Holds(p, t),
                 outbox' = [outbox EXCEPT ![o] = FailedRow(o, t)],
                 letters' = IF outbox[o].attempt >= MaxAttempts
                            THEN letters \cup {o} ELSE letters
          PROVE  IndInv'
        <3> DEFINE st == IF outbox[o].attempt >= MaxAttempts THEN "dead_letter"
                                                             ELSE "retry_wait"
                   e == Ended(outbox[o], st)
                   r == FailedRow(o, t)
        <3>1. r = [e EXCEPT !.due = t + RetryDelay]
            BY DEF FailedRow
        <3>2. RowMay(o, e) /\ e.status = st /\ e.attempt = outbox[o].attempt
            BY <1>4, EndedRow DEF DueStates, FinalStates
        <3>3. st \in {"dead_letter", "retry_wait"}
            OBVIOUS
        <3>4. st = "dead_letter" <=> outbox[o].attempt >= MaxAttempts
            OBVIOUS
        <3> HIDE DEF st, e
        <3>5. /\ r \in RowType /\ r.status = st /\ r.owner = e.owner
              /\ r.attempt = e.attempt /\ r.gen = e.gen
            BY <3>1, <3>2, ReadingsNat DEF RowMay, RowType
        <3> HIDE DEF r
        <3>6. RowMay(o, r)
            BY <3>2, <3>3, <3>5 DEF RowMay
        <3>7. outbox[o].attempt \in Nat /\ outbox[o].attempt <= MaxAttempts
            BY <1>4 DEF RowType, IndInv, RowChecks
        <3>8. r.status = "dead_letter" => r.attempt = MaxAttempts
            BY <3>2, <3>4, <3>5, <3>7, LimitAssumption
        <3>9. outbox[o].status = "leased" /\ outbox' = [outbox EXCEPT ![o] = r]
            BY <2>1 DEF Holds, r
        <3>10. letters' = IF r.status = "dead_letter" THEN letters \cup {o} ELSE letters
            BY <2>1, <3>4, <3>5
        <3> QED BY <1>1, <1>3, <1>4, <3>6, <3>8, <3>9, <3>10, OneRow
    <2> QED BY <1>5, <1>7, <2>1 DEF MarkFailed
<1> QED BY <1>6, <1>7
-----------------------------------------------------------------------------
(* Theorems *)

\* Every step keeps the invariant.
LEMMA NextInv == IndInv /\ [Next]_vars => IndInv'
<1> SUFFICES ASSUME IndInv, [Next]_vars PROVE IndInv'
    OBVIOUS
<1>1. CASE Tick
    <2>1. clock' \in Nat /\ UNCHANGED <<outbox, letters, local, views>>
        BY <1>1 DEF Tick, IndInv, TypesOK
    <2> QED BY <2>1, SameLocal, TablesKept
<1>2. ASSUME UNCHANGED vars
      PROVE  IndInv'
    <2>1. clock' \in Nat /\ UNCHANGED <<outbox, letters, local, views>>
        BY <1>2 DEF vars, views, IndInv, TypesOK
    <2> QED BY <2>1, SameLocal, TablesKept
<1>3. ASSUME NEW p \in Workers,
             ClaimNone(p) \/ Claim(p) \/ Run(p) \/ Heartbeat(p) \/ Crash(p) \/ Restart(p)
      PROVE  IndInv'
    BY <1>2, <1>3, ClaimStep, LocalSteps, PublishStep, StoreStep, HeartbeatStep, MarkStep
    DEF ClaimNone, Run
<1> QED BY <1>1, <1>2, <1>3, InsertStep DEF Next

\* The invariant holds in every behaviour.
THEOREM Invariance == Spec => []IndInv
    BY InitInv, NextInv, PTL DEF Spec

\* The variables keep their types, attempts stay bounded and are counted by the
\* lease generation, and a row has an owner exactly while it is leased.
THEOREM TypeCorrect == Spec => []TypeOK
<1>1. IndInv => TypeOK
    BY DEF IndInv, TypeOK
<1> QED BY <1>1, Invariance, PTL

\* The Observer's projection and the context service's publication of an
\* observation never differ, although no transaction covers both and neither
\* write is fenced by the lease.
THEOREM ViewsNeverDiffer == Spec => []ViewsAgree
<1>1. IndInv => ViewsAgree
    BY DEF IndInv
<1> QED BY <1>1, Invariance, PTL

\* What mark_published reports has reached both readers.
THEOREM PublishedRowsComplete == Spec => []PublishedComplete
<1>1. IndInv => PublishedComplete
    BY DEF IndInv
<1> QED BY <1>1, Invariance, PTL

\* mark_failed buries a row exactly after its last attempt, and nothing digs a
\* buried row out.
THEOREM DeadLettersExact == Spec => []DeadLetterExact
<1>1. IndInv => DeadLetterExact
    BY DEF IndInv
<1> QED BY <1>1, Invariance, PTL

\* The two readers of a projection hold the same text, both hold it once the row
\* is marked published, and rows are buried exactly after their last attempt.
THEOREM OutcomesConsistent == Spec => []OutcomesAgree
    BY ViewsNeverDiffer, PublishedRowsComplete, DeadLettersExact, PTL DEF OutcomesAgree

\* What a step may do to the leased row of observation o.
LeaseMay(o) ==
    outbox[o].status = "leased" /\ outbox'[o] # outbox[o] =>
       \/ Expired(o, clock) /\ outbox'[o].attempt = outbox[o].attempt + 1
       \/ /\ outbox'[o].attempt = outbox[o].attempt
          /\ \E p \in Workers : Mine(p, o) /\ local'[p] # local[p]

\* A holder that rewrites its own row without starting an attempt may do so.
LEMMA HolderMay ==
    ASSUME IndInv, NEW p \in Workers, Active(p), NEW t, Holds(p, t), NEW r,
           r.attempt = outbox[local[p].obs].attempt,
           outbox' = [outbox EXCEPT ![local[p].obs] = r], local'[p] # local[p],
           NEW o \in Observations
    PROVE  LeaseMay(o)
<1>1. local[p].obs \in Observations
    BY BusyWorker
<1>2. /\ outbox'[local[p].obs] = r
      /\ o # local[p].obs => outbox'[o] = outbox[o]
    BY <1>1 DEF IndInv, TypesOK
<1>3. CASE o = local[p].obs
    BY <1>2, <1>3 DEF LeaseMay, Mine, Holds
<1> QED BY <1>2, <1>3 DEF LeaseMay

\* A claim takes over only a lease that has expired.
LEMMA ClaimMay ==
    ASSUME IndInv, NEW p \in Workers, Claim(p), NEW o \in Observations
    PROVE  LeaseMay(o)
<1>1. PICK t \in Readings, locked \in LockSets(p) :
         \E c \in Candidate(t, locked) : outbox' = [outbox EXCEPT ![c] = Taken(p, c, t)]
    BY DEF Claim
<1>2. PICK c \in Candidate(t, locked) : outbox' = [outbox EXCEPT ![c] = Taken(p, c, t)]
    BY <1>1
<1>3. /\ c \in Observations /\ outbox[c] \in RowType
      /\ outbox[c].status = "leased" => outbox[c].expires <= t
    BY DEF Candidate, Claimable, Expired, DueStates, IndInv, TypesOK
<1>4. /\ outbox'[c] = Taken(p, c, t)
      /\ o # c => outbox'[o] = outbox[o]
    BY <1>2, <1>3 DEF IndInv, TypesOK
<1>5. outbox'[c].attempt = outbox[c].attempt + 1
    BY <1>3, <1>4 DEF Taken, RowType
<1>6. outbox[c].status = "leased" => Expired(c, clock)
    <2>1. t \in Nat /\ t <= clock /\ clock \in Nat /\ outbox[c].expires \in Nat
        BY <1>3, ReadingsNat DEF RowType, IndInv, TypesOK
    <2> QED BY <1>3, <2>1 DEF Expired
<1>7. CASE o = c
    BY <1>5, <1>6, <1>7 DEF LeaseMay
<1> QED BY <1>4, <1>7 DEF LeaseMay

\* Heartbeat, mark_published and mark_failed are those of the holder.
LEMMA FencedMay ==
    ASSUME IndInv, NEW p \in Workers, Heartbeat(p) \/ MarkPublished(p) \/ MarkFailed(p),
           NEW o \in Observations
    PROVE  LeaseMay(o)
<1> DEFINE m == local[p].obs
<1>1. Active(p)
    BY DEF Heartbeat, MarkPublished, MarkFailed, Active, Running
<1>2. /\ m \in Observations /\ outbox[m] \in RowType /\ local[p] \in LocalType
      /\ outbox[m].attempt \in Nat
    BY <1>1, BusyWorker DEF RowType
<1>3. CASE UNCHANGED outbox
    BY <1>3 DEF LeaseMay
<1>4. Return(p) => local'[p] # local[p]
    <2>1. Idle.pc = "idle" /\ local[p].pc # "idle"
        BY <1>1 DEF Idle, Active
    <2> QED BY <2>1 DEF Return, IndInv, TypesOK
<1>5. CASE Heartbeat(p)
    <2>1. ASSUME NEW t \in Readings, Holds(p, t),
                 outbox' = [outbox EXCEPT ![m].expires = t + Lease],
                 local' = [local EXCEPT ![p].beats = @ + 1]
          PROVE  LeaseMay(o)
        <3> DEFINE r == [outbox[m] EXCEPT !.expires = t + Lease]
        <3>1. r.attempt = outbox[m].attempt /\ outbox' = [outbox EXCEPT ![m] = r]
            BY <1>2, <2>1 DEF RowType, IndInv, TypesOK
        <3>2. local'[p].beats = local[p].beats + 1 /\ local[p].beats \in Nat
            BY <1>2, <2>1 DEF LocalType, IndInv, TypesOK
        <3>3. local'[p] # local[p]
            BY <3>2
        <3> HIDE DEF r
        <3> QED BY <1>1, <2>1, <3>1, <3>3, HolderMay
    <2> QED BY <1>3, <1>5, <2>1 DEF Heartbeat
<1>6. CASE MarkPublished(p)
    <2>1. ASSUME NEW t \in Readings, Holds(p, t),
                 outbox' = [outbox EXCEPT ![m] = Ended(@, "published")]
          PROVE  LeaseMay(o)
        <3> DEFINE r == Ended(outbox[m], "published")
        <3>1. r.attempt = outbox[m].attempt /\ outbox' = [outbox EXCEPT ![m] = r]
            BY <1>2, <2>1 DEF Ended, RowType
        <3> HIDE DEF r
        <3> QED BY <1>1, <1>4, <1>6, <2>1, <3>1, HolderMay DEF MarkPublished
    <2> QED BY <1>3, <1>6, <2>1 DEF MarkPublished
<1>7. CASE MarkFailed(p)
    <2>1. ASSUME NEW t \in Readings, Holds(p, t),
                 outbox' = [outbox EXCEPT ![m] = FailedRow(m, t)]
          PROVE  LeaseMay(o)
        <3> DEFINE r == FailedRow(m, t)
        <3>1. r.attempt = outbox[m].attempt
            BY <1>2 DEF FailedRow, Ended, RowType
        <3>2. outbox' = [outbox EXCEPT ![m] = r]
            BY <2>1
        <3> HIDE DEF r
        <3> QED BY <1>1, <1>4, <1>7, <2>1, <3>1, <3>2, HolderMay DEF MarkFailed
    <2> QED BY <1>3, <1>7, <2>1 DEF MarkFailed
<1> QED BY <1>5, <1>6, <1>7

\* Nobody touches the lease of another attempt before it has expired: a worker
\* that comes back late under a shared worker_id neither marks nor renews the
\* row of its successor.
THEOREM LeasesMovedByHolder == Spec => LeaseMovedByHolder
<1>1. IndInv /\ [Next]_vars => [\A o \in Observations : LeaseMay(o)]_vars
    <2> SUFFICES ASSUME IndInv, [Next]_vars, NEW o \in Observations
                 PROVE  LeaseMay(o)
        OBVIOUS
    <2>1. CASE UNCHANGED outbox
        BY <2>1 DEF LeaseMay
    <2>2. ASSUME NEW n \in Observations, Insert(n)
          PROVE  LeaseMay(o)
        <3>1. /\ outbox[n].status = "absent"
              /\ \E r : outbox' = [outbox EXCEPT ![n] = r]
            BY <2>2 DEF Insert, Stored
        <3>2. o # n => outbox'[o] = outbox[o]
            BY <3>1 DEF IndInv, TypesOK
        <3> QED BY <3>1, <3>2 DEF LeaseMay
    <2>3. ASSUME NEW p \in Workers,
                 ClaimNone(p) \/ Claim(p) \/ Run(p) \/ Heartbeat(p) \/ Crash(p) \/ Restart(p)
          PROVE  LeaseMay(o)
        <3>1. CASE \/ ClaimNone(p) \/ Begin(p) \/ Project(p) \/ Raise(p) \/ Publish(p)
                   \/ Store(p) \/ Crash(p) \/ Restart(p)
            BY <2>1, <3>1
            DEF ClaimNone, vars, Begin, Project, Publication, Raise, Publish, Store, Detail, Crash, Restart
        <3> QED BY <2>3, <3>1, ClaimMay, FencedMay DEF Run
    <2> QED BY <2>1, <2>2, <2>3 DEF Next, Tick, vars
<1>2. [\A o \in Observations : LeaseMay(o)]_vars =>
         [\A o \in Observations :
             outbox[o].status = "leased" /\ outbox'[o] # outbox[o] =>
                \/ Expired(o, clock) /\ outbox'[o].attempt = outbox[o].attempt + 1
                \/ /\ outbox'[o].attempt = outbox[o].attempt
                   /\ \E p \in Workers : Mine(p, o) /\ local'[p] # local[p]]_vars
    BY DEF LeaseMay
<1> QED BY <1>1, <1>2, Invariance, PTL DEF Spec, LeaseMovedByHolder
=============================================================================
