---------------------------- MODULE ModelBudget ------------------------------
(***************************************************************************)
(* The money spent on the external model.  DeepSeekAdapter.invoke makes    *)
(* one logical call for a request, and a second one to review an unsure    *)
(* answer.  Before a logical call posts anything it reserves the price of  *)
(* its worst case in the site's monthly ledger                             *)
(* (PostgresMonthlyUsageLedger); afterwards it settles the reservation at  *)
(* the price of the usage it was told, consumes it whole, or releases it.  *)
(*                                                                         *)
(* Requests run concurrently and can die anywhere, so what the provider    *)
(* bills and what the ledger knows are two different things.  Every ledger *)
(* method is one transaction under the advisory lock of its month.  The id *)
(* of a reservation covers the tokenization receipt, which is new for each *)
(* request: no two logical calls share a row.                              *)
(***************************************************************************)
EXTENDS Integers, FiniteSets, Functions

CONSTANTS
    Requests,     \* TokenizedModelRequests passed to invoke
    Limit,        \* HARD_MONTHLY_LIMIT_USD
    Worst,        \* price of MAX_INPUT_TOKENS and MAX_OUTPUT_TOKENS
    MaxNetwork,   \* MAX_NETWORK_ATTEMPTS
    LastMonth,    \* bound: the clock stops there
    Prior,        \* per month: cost of invocations older than the reservations
    Unknown       \* an invocation whose cost_status is unknown

Months == 1..LastMonth

ASSUME BudgetAssumption ==
    /\ Limit \in Nat /\ Worst \in Nat \ {0} /\ MaxNetwork \in Nat \ {0}
    /\ LastMonth \in Nat \ {0}

ASSUME PriorAssumption ==
    /\ Unknown \notin Nat
    /\ Prior \in [Months -> 0..Limit \cup {Unknown}]

ASSUME RequestAssumption == IsFiniteSet(Requests)

VARIABLES
    month,   \* the month of the wall clock
    rows,    \* table model_budget_reservations, by logical call
    local,   \* what invoke remembers of each request; lost by a crash
    audit,   \* table model_invocations, by logical call
    billed   \* what the provider really charges for a logical call

vars == <<month, rows, local, audit, billed>>

\* A request makes at most two logical calls.
Calls == Requests \X {1, 2}

Amount == Worst * MaxNetwork

NoRow    == [state |-> "absent", month |-> 0, charged |-> 0]
NoRecord == [status |-> "absent", network |-> 0, cost |-> Unknown]

Call(r) == <<r, local[r].attempt>>

Fresh == [pc |-> "start", attempt |-> 1, month |-> 0, network |-> 0,
          ambiguous |-> 0, cost |-> Unknown]

Goto(r, pc) == local' = [local EXCEPT ![r].pc = pc]

-----------------------------------------------------------------------------
(* The ledger *)

\* _fail_on_unknown_cost: an invocation that reached the network, without a
\* known cost and without a reservation that stands for it.
Unpriced(m) ==
    \/ Prior[m] = Unknown
    \/ \E c \in Calls : /\ audit[c].status # "absent"
                        /\ audit[c].network > 0
                        /\ audit[c].cost = Unknown
                        /\ rows[c].state = "absent"

\* Mutant: what is only reserved is not counted yet.
ChargedCallsFinal(m) ==
    {c \in Calls : rows[c].state \in {"settled", "consumed"} /\ rows[c].month = m}

ChargedCalls(m) == {c \in Calls : rows[c].state # "absent" /\ rows[c].month = m}

Charges == [c \in Calls |-> rows[c].charged]

\* _charged_total, where the cost is known.
Charged(m) == Prior[m] + SumFunctionOnSet(Charges, ChargedCalls(m))

Affordable(m) == ~Unpriced(m) /\ Charged(m) < Limit /\ Charged(m) + Amount <= Limit

\* ensure_can_attempt
CanAttempt(r) ==
    LET row == rows[Call(r)] IN
    /\ row.state = "reserved"
    /\ row.month = local[r].month
    /\ ~Unpriced(row.month)
    /\ Charged(row.month) <= Limit

\* _transition: only a reserved row changes; the caller fails otherwise.
Transition(r, state, charge) ==
    rows' = [rows EXCEPT ![Call(r)].state = state, ![Call(r)].charged = charge]

Consume(r) == Transition(r, "consumed", Amount)

Release(r) == rows' = [rows EXCEPT ![Call(r)] =
                          IF @.state = "reserved" THEN NoRow ELSE @]

-----------------------------------------------------------------------------
(* One logical call *)

\* invoke reads the month's cost before anything else, and fails without a
\* record when it is unknown; reserve reads the month before it waits for the
\* month's lock.
Start(r) ==
    /\ local[r].pc = "start"
    /\ IF Unpriced(month) THEN Goto(r, "failed")
       ELSE local' = [local EXCEPT ![r].pc = "reserve", ![r].month = month]
    /\ UNCHANGED <<month, rows, audit, billed>>

\* The network is disabled or the input exceeds MAX_INPUT_TOKENS.
Refuse(r) ==
    /\ local[r].pc = "reserve"
    /\ Goto(r, "record_failure")
    /\ UNCHANGED <<month, rows, audit, billed>>

Reserve(r) ==
    /\ local[r].pc = "reserve"
    /\ IF Affordable(local[r].month)
       THEN /\ rows' = [rows EXCEPT ![Call(r)] = [state |-> "reserved",
                                                  month |-> local[r].month,
                                                  charged |-> Amount]]
            /\ Goto(r, "attempt")
       ELSE Goto(r, "record_failure") /\ UNCHANGED rows
    /\ UNCHANGED <<month, audit, billed>>

Attempt(r) ==
    /\ local[r].pc = "attempt"
    /\ IF CanAttempt(r)
       THEN local' = [local EXCEPT ![r].pc = "posted", ![r].network = @ + 1]
       ELSE Goto(r, "give_up")
    /\ UNCHANGED <<month, rows, audit, billed>>

\* The provider charges b for the post in flight.  It keeps to the token
\* limits of the request, so b is at most Worst.
Bill(r, b) == billed' = [billed EXCEPT ![Call(r)] = @ + b]

\* Mutant: one attempt too many.
RetriedOnceMore(r) == IF local[r].network > MaxNetwork THEN "give_up" ELSE "attempt"

Retried(r) == IF local[r].network = MaxNetwork THEN "give_up" ELSE "attempt"

\* 429, or no connection was made: nothing was computed.
Unserved(r) ==
    /\ local[r].pc = "posted"
    /\ Goto(r, Retried(r))
    /\ UNCHANGED <<month, rows, audit, billed>>

\* A transport error after the connection, or a 5xx: it may have been billed.
Ambiguous(r) ==
    /\ local[r].pc = "posted"
    /\ \E b \in 0..Worst : Bill(r, b)
    /\ local' = [local EXCEPT ![r].pc = Retried(r), ![r].ambiguous = @ + 1]
    /\ UNCHANGED <<month, rows, audit>>

\* What a 2xx answer can be; the checks run in this order and the first one
\* that fails ends the call.
Bodies == {"malformed", "unbound", "unsafe", "unmetered", "good"}

\* One object of the requested model, finished, without tools, on its schema.
Parses(body) == body # "malformed"

\* Subject, evidence and action of the output are those of the request.
Bound(body) == body # "unbound"

\* No forbidden field and no language of a commitment anywhere inside.
Safe(body) == body # "unsafe"

\* Token counts are integers that add up.
Metered(body) == body # "unmetered"

Accepted(body) == Parses(body) /\ Bound(body) /\ Safe(body) /\ Metered(body)

\* Another status, or an answer that fails a check after it was paid for.
Unusable(r) ==
    /\ local[r].pc = "posted"
    /\ \E status \in {"2xx", "4xx"}, body \in Bodies : status = "4xx" \/ ~Accepted(body)
    /\ \E b \in 0..Worst : Bill(r, b)
    /\ Goto(r, "give_up")
    /\ UNCHANGED <<month, rows, audit>>

\* Mutant: attempts that may have been billed are forgotten.
UsableForgetful(r) ==
    /\ local[r].pc = "posted"
    /\ \E b \in 0..Worst :
          /\ Bill(r, b)
          /\ local' = [local EXCEPT ![r].pc = "settle", ![r].cost = b]
    /\ UNCHANGED <<month, rows, audit>>

\* A usable answer states the usage that is billed.  Attempts that may have
\* been billed before it are priced at their worst.
Usable(r) ==
    /\ local[r].pc = "posted"
    /\ \E body \in Bodies : Accepted(body)
    /\ \E b \in 0..Worst :
          /\ Bill(r, b)
          /\ local' = [local EXCEPT ![r].pc = "settle",
                                    ![r].cost = b + Worst * local[r].ambiguous]
    /\ UNCHANGED <<month, rows, audit>>

\* settle; a BudgetHardStop from it is handled like any other failure.
Settle(r) ==
    /\ local[r].pc = "settle"
    /\ IF rows[Call(r)].state = "reserved" /\ local[r].cost <= Amount
       THEN Transition(r, "settled", local[r].cost) /\ Goto(r, "record_success")
       ELSE Goto(r, "give_up") /\ UNCHANGED rows
    /\ UNCHANGED <<month, audit, billed>>

\* Mutant: a failure always releases the reservation.
GiveUpReleases(r) ==
    /\ local[r].pc = "give_up"
    /\ rows' = [rows EXCEPT ![Call(r)] = NoRow]
    /\ Goto(r, "record_failure")
    /\ UNCHANGED <<month, audit, billed>>

\* The handler of a GatewayFailure: consume what was posted, release the rest.
GiveUp(r) ==
    /\ local[r].pc = "give_up"
    /\ IF local[r].network > 0 THEN Consume(r) ELSE Release(r)
    /\ local' = [local EXCEPT ![r].pc = "record_failure",
                              ![r].cost = IF local[r].network > 0 THEN Amount ELSE @]
    /\ UNCHANGED <<month, audit, billed>>

AuditRecord(r) == [status |-> local[r].pc, network |-> local[r].network,
                   cost |-> local[r].cost]

\* INSERT, or nothing under a known idempotency_key.
Append(c, record) ==
    audit' = [audit EXCEPT ![c] = IF @ = NoRecord THEN record ELSE @]

\* _audit_record reads the month's cost again, and raises when it is unknown.
\* A sure answer ends the request, an unsure or complex one is reviewed once.
Record(r) ==
    /\ local[r].pc \in {"record_success", "record_failure"}
    /\ IF Unpriced(month) THEN Goto(r, "failed") /\ UNCHANGED audit
       ELSE /\ Append(Call(r), AuditRecord(r))
            /\ IF local[r].pc = "record_failure" THEN Goto(r, "failed")
               ELSE \/ Goto(r, "done")
                    \/ /\ local[r].attempt = 1
                       /\ local' = [local EXCEPT ![r] = [Fresh EXCEPT
                             !.pc = "reserve", !.attempt = 2, !.month = month]]
    /\ UNCHANGED <<month, rows, billed>>

\* The process dies, or the database fails under a ledger method: neither is a
\* GatewayFailure, so nothing is settled.  The task is retried as a new request.
Crash(r) ==
    /\ local[r].pc \notin {"start", "done", "failed", "lost"}
    /\ Goto(r, "lost")
    /\ UNCHANGED <<month, rows, audit, billed>>

NextMonth ==
    /\ month < LastMonth
    /\ month' = month + 1
    /\ UNCHANGED <<rows, local, audit, billed>>

-----------------------------------------------------------------------------
Init ==
    /\ month = 1
    /\ rows = [c \in Calls |-> NoRow]
    /\ local = [r \in Requests |-> Fresh]
    /\ audit = [c \in Calls |-> NoRecord]
    /\ billed = [c \in Calls |-> 0]

Invoke(r) ==
    \/ Start(r) \/ Refuse(r) \/ Reserve(r) \/ Attempt(r)
    \/ Unserved(r) \/ Ambiguous(r) \/ Unusable(r) \/ Usable(r)
    \/ Settle(r) \/ GiveUp(r) \/ Record(r)

Next == (\E r \in Requests : Invoke(r) \/ Crash(r)) \/ NextMonth

Spec == Init /\ [][Next]_vars

-----------------------------------------------------------------------------
(* Properties *)

Phases == {"start", "reserve", "attempt", "posted", "settle", "give_up",
           "record_success", "record_failure", "done", "failed", "lost"}

\* Every variable has its type.
TypeOK ==
    /\ month \in Months
    /\ rows \in [Calls -> [state : {"absent", "reserved", "settled", "consumed"},
                           month : 0..LastMonth, charged : 0..Amount]]
    /\ local \in [Requests -> [pc : Phases, attempt : {1, 2}, month : 0..LastMonth,
                               network : 0..MaxNetwork, ambiguous : 0..MaxNetwork,
                               cost : Nat \cup {Unknown}]]
    /\ audit \in [Calls -> [status : {"absent", "record_success", "record_failure"},
                            network : 0..MaxNetwork, cost : Nat \cup {Unknown}]]
    /\ billed \in [Calls -> Nat]

\* The hard monthly limit: what the provider bills for the calls reserved in a
\* month, with what was spent before, stays within HARD_MONTHLY_LIMIT_USD
\* however many requests run at once and wherever they die.
BillWithinLimit ==
    \A m \in Months :
        Prior[m] # Unknown =>
            Prior[m] + SumFunctionOnSet(billed, {c \in Calls : rows[c].month = m}) <= Limit

\* What the provider bills for a logical call is charged to a reservation, in
\* every state: before, between and after the network calls, and for good when
\* the process dies there.
SpendCovered == \A c \in Calls : billed[c] <= rows[c].charged

\* The adapter never writes the kind of invocation that blocks the whole month:
\* one that reached the network, without a cost and without a reservation.
NeverBlocksItself ==
    \A c \in Calls : audit[c].network > 0 =>
        rows[c].state \in {"settled", "consumed"} /\ audit[c].cost = rows[c].charged
=============================================================================
