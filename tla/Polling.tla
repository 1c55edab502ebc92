------------------------------- MODULE Polling -------------------------------
(***************************************************************************)
(* The IMAP poller of one connector instance and the control API that      *)
(* pauses and resumes it.  A poller process (DurablePollingScheduler, in   *)
(* its variant that commits filtered scans) takes the connector's lease,   *)
(* reads the checkpoint, fetches the next mails, hands each of them to the *)
(* durable inbox and then moves the cursor by compare-and-swap on the      *)
(* checkpoint's version.                                                   *)
(*                                                                         *)
(* The lease only lowers the odds of two pollers working at once: neither  *)
(* acceptance nor the cursor nor the health columns look at it.  Every     *)
(* storage call is one transaction.  The mailbox is external: mails arrive *)
(* with rising UIDs, and a server may give the folder a new UIDVALIDITY.   *)
(***************************************************************************)
EXTENDS Naturals, FiniteSets, FiniteSetsExt

CONSTANTS
    Pollers,      \* processes running run_poll_daemon, each its own worker_id
    Limit,        \* poll_limit
    Early,        \* UIDs received before the connector's enabled_at
    Huge,         \* UIDs beyond max_message_bytes
    Initial,      \* initial_checkpoint of the configuration, or None
    LastUid,      \* bound: mails per folder
    LastEpoch,    \* bound: values of UIDVALIDITY
    MaxFaults,    \* bound: crashes, server errors and refused acceptances
    Commands,     \* idempotency keys of the control API
    Operation,    \* Commands -> "pause" or "resume"
    Expected,     \* Commands -> expected_revision, as its sender saw it
    None

Uids   == 1..LastUid
Epochs == 1..LastEpoch
Mails  == Epochs \X Uids

\* ImapCheckpoint of the configured mailbox.
Cursors == {None} \cup (Epochs \X (0..LastUid))

ASSUME PollingAssumption ==
    /\ IsFiniteSet(Pollers) /\ IsFiniteSet(Commands)
    /\ Limit \in Nat \ {0} /\ LastUid \in Nat /\ LastEpoch \in Nat \ {0}
    /\ MaxFaults \in Nat
    /\ Early \subseteq Uids /\ Huge \subseteq Uids
    /\ Initial \in Cursors
    /\ Operation \in [Commands -> {"pause", "resume"}]
    /\ Expected \in [Commands -> Nat]
    /\ None \notin Nat \cup Pollers \cup (Epochs \X (0..LastUid))

VARIABLES
    mailbox,     \* external: UIDVALIDITY and the last UID
    accepted,    \* inbound_deliveries: the mails the inbox has
    checkpoint,  \* connector_checkpoints: cursor, version, status, lease
    instance,    \* connector_instances: status, control_revision
    commands,    \* connector_control_commands: key -> result_revision
    local,       \* what each poller is doing; lost by a crash
    faults

vars == <<mailbox, accepted, checkpoint, instance, commands, local, faults>>

control == <<instance, commands>>

Down == [pc |-> "down", cursor |-> None, version |-> 0, todo |-> {}, next |-> None]
Idle == [Down EXCEPT !.pc = "idle"]

Goto(p, pc) == local' = [local EXCEPT ![p].pc = pc]

\* What the run was working with is of no use any more.
End(p, pc) == local' = [local EXCEPT ![p] = [Idle EXCEPT !.pc = pc]]

Fault == faults < MaxFaults /\ faults' = faults + 1

\* load_checkpoint: a paused instance overrides the checkpoint's own status.
Paused == instance.status = "paused" \/ checkpoint.status = "paused"

-----------------------------------------------------------------------------
(* A poller process *)

\* _ensure_initial_checkpoint: a cursor that is not there is set to the
\* configured one, one that differs from it keeps the process from starting.
Configured ==
    \/ Initial \in {None, checkpoint.cursor} /\ UNCHANGED checkpoint
    \/ /\ Initial # None /\ checkpoint.cursor = None
       /\ checkpoint' = [checkpoint EXCEPT !.cursor = Initial, !.version = @ + 1]

\* main: the registration of the instance leaves a registered one alone.
Start(p) ==
    /\ local[p].pc = "down" /\ Configured
    /\ local' = [local EXCEPT ![p] = Idle]
    /\ UNCHANGED <<mailbox, accepted, control, faults>>

\* Mutant: a degraded connector is not polled.
LookHealthy(p) ==
    /\ local[p].pc = "idle" /\ ~Paused /\ checkpoint.status = "healthy"
    /\ Goto(p, "acquire")
    /\ UNCHANGED <<mailbox, accepted, checkpoint, control, faults>>

\* The first load_checkpoint lets the poller go on.
Look(p) ==
    /\ local[p].pc = "idle" /\ ~Paused
    /\ Goto(p, "acquire")
    /\ UNCHANGED <<mailbox, accepted, checkpoint, control, faults>>

Free(p) == checkpoint.owner \in {None, p} \/ checkpoint.lapsed

\* acquire_connector_lease, or the health write of lease_unavailable.
Acquire(p) ==
    /\ local[p].pc = "acquire"
    /\ IF Free(p)
       THEN /\ checkpoint' = [checkpoint EXCEPT !.owner = p, !.lapsed = FALSE]
            /\ Goto(p, "leased")
       ELSE /\ checkpoint' = [checkpoint EXCEPT !.status = "degraded"]
            /\ Goto(p, "idle")
    /\ UNCHANGED <<mailbox, accepted, control, faults>>

\* The second load_checkpoint: cursor and version this run works with.
Load(p) ==
    /\ local[p].pc = "leased"
    /\ IF Paused THEN End(p, "release")
       ELSE local' = [local EXCEPT ![p].pc = "poll",
                                   ![p].cursor = checkpoint.cursor,
                                   ![p].version = checkpoint.version]
    /\ UNCHANGED <<mailbox, accepted, checkpoint, control, faults>>

\* The position a poll starts from.
Base(p) == IF local[p].cursor = None THEN <<mailbox.epoch, 0>> ELSE local[p].cursor

\* SEARCH n+1:* names the last mail even when it is older than n+1.
Found(p) == LET from == Base(p)[2]
                new  == {u \in Uids : from < u /\ u <= mailbox.last}
            IN  IF from > 0 /\ new = {} /\ mailbox.last > 0 THEN {mailbox.last} ELSE new

\* _search_uids: the first Limit of them.
Page(p) == {u \in Found(p) : Cardinality({v \in Found(p) : v < u}) < Limit}

\* The answer of the server makes no sense to _search_uids.
Odd(p) == \E u \in Found(p) : u <= Base(p)[2]

\* _fetch_message refuses a mail beyond max_message_bytes.
TooLarge(p) == Page(p) \cap Huge # {}

\* _build_message: what becomes a delivery; mails from before enabled_at do not.
Kept(p) == Page(p) \ Early

\* A whole page was fetched.
Fetch(p) ==
    /\ local[p].pc = "poll" /\ Base(p)[1] = mailbox.epoch
    /\ ~Odd(p) /\ ~TooLarge(p)
    /\ local' = [local EXCEPT ![p].pc = "accept",
           ![p].todo = Kept(p),
           ![p].next = IF Page(p) = {} THEN Base(p) ELSE <<mailbox.epoch, Max(Page(p))>>]
    /\ UNCHANGED <<mailbox, accepted, checkpoint, control, faults>>

\* uidvalidity_changed, and message_too_large, which imap_poll_batch reports
\* as REJECTED: the connector pauses itself.
FetchPauses(p) ==
    /\ local[p].pc = "poll"
    /\ Base(p)[1] # mailbox.epoch \/ (~Odd(p) /\ TooLarge(p))
    /\ End(p, "pause")
    /\ UNCHANGED <<mailbox, accepted, checkpoint, control, faults>>

\* invalid_search_response: to be tried again.
FetchOdd(p) ==
    /\ local[p].pc = "poll" /\ Base(p)[1] = mailbox.epoch /\ Odd(p)
    /\ End(p, "degrade")
    /\ UNCHANGED <<mailbox, accepted, checkpoint, control, faults>>

\* connect, login, select, search, fetch or the durable acceptance fails.
Fails(p) ==
    /\ local[p].pc \in {"poll", "accept"} /\ Fault
    /\ End(p, "degrade")
    /\ UNCHANGED <<mailbox, accepted, checkpoint, control>>

\* accept_delivery of the next mail of the page; the inbox takes it once.
Accept(p) ==
    /\ local[p].pc = "accept" /\ local[p].todo # {}
    /\ LET u == Min(local[p].todo) IN
          /\ accepted' = accepted \cup {<<local[p].next[1], u>>}
          /\ local' = [local EXCEPT ![p].todo = @ \ {u}]
    /\ UNCHANGED <<mailbox, checkpoint, control, faults>>

\* Mutant: the version is not compared.
AdvanceBlind(p) ==
    /\ local[p].pc = "accept" /\ local[p].todo = {}
    /\ checkpoint' = [checkpoint EXCEPT !.cursor = local[p].next, !.version = @ + 1]
    /\ End(p, "healthy")
    /\ UNCHANGED <<mailbox, accepted, control, faults>>

\* compare_and_swap_checkpoint, if the scan moved at all.
Advance(p) ==
    /\ local[p].pc = "accept" /\ local[p].todo = {}
    /\ IF local[p].next = local[p].cursor
       THEN UNCHANGED checkpoint /\ End(p, "healthy")
       ELSE IF checkpoint.version = local[p].version
            THEN /\ checkpoint' = [checkpoint EXCEPT !.cursor = local[p].next,
                                                     !.version = @ + 1]
                 /\ End(p, "healthy")
            ELSE UNCHANGED checkpoint /\ End(p, "degrade")
    /\ UNCHANGED <<mailbox, accepted, control, faults>>

Health == [healthy |-> "healthy", degrade |-> "degraded", pause |-> "paused"]

\* update_checkpoint_health, with or without the lease.
Report(p) ==
    /\ local[p].pc \in DOMAIN Health
    /\ checkpoint' = [checkpoint EXCEPT !.status = Health[local[p].pc]]
    /\ End(p, "release")
    /\ UNCHANGED <<mailbox, accepted, control, faults>>

\* release_connector_lease; a LeaseConflict ends the process.
Release(p) ==
    /\ local[p].pc = "release"
    /\ checkpoint' = IF checkpoint.owner = p
                     THEN [checkpoint EXCEPT !.owner = None, !.lapsed = FALSE]
                     ELSE checkpoint
    /\ local' = [local EXCEPT ![p] = IF checkpoint.owner = p THEN Idle ELSE Down]
    /\ UNCHANGED <<mailbox, accepted, control, faults>>

\* The process dies; compose restarts it and its lease stays behind.
Crash(p) ==
    /\ local[p].pc # "down" /\ Fault
    /\ local' = [local EXCEPT ![p] = Down]
    /\ UNCHANGED <<mailbox, accepted, checkpoint, control>>

Lapse ==
    /\ checkpoint.owner # None /\ ~checkpoint.lapsed
    /\ checkpoint' = [checkpoint EXCEPT !.lapsed = TRUE]
    /\ UNCHANGED <<mailbox, accepted, control, local, faults>>

-----------------------------------------------------------------------------
(* The mailbox *)

Arrive ==
    /\ mailbox.last < LastUid
    /\ mailbox' = [mailbox EXCEPT !.last = @ + 1]
    /\ UNCHANGED <<accepted, checkpoint, control, local, faults>>

Renumber ==
    /\ mailbox.epoch < LastEpoch
    /\ mailbox' = [epoch |-> mailbox.epoch + 1, last |-> 0]
    /\ UNCHANGED <<accepted, checkpoint, control, local, faults>>

-----------------------------------------------------------------------------
(* The control API *)

\* Mutant: the revision is not compared.
AppliesUnseen(c) == commands[c] = None

\* _lock_and_load_command found nothing, and the revision is the expected one.
\* A command that is sent again is answered from its row.
Applies(c) == commands[c] = None /\ Expected[c] = instance.revision

\* Mutant: the API's word for a running connector is stored.
StatusOfTarget(op) == IF op = "pause" THEN "paused" ELSE "enabled"

StatusOf(op) == IF op = "pause" THEN "paused" ELSE "healthy"

\* _insert_command: what a repetition of the command is answered with.
Recorded(c) == commands' = [commands EXCEPT ![c] = instance.revision + 1]

\* mutate_status.
Mutate(c) ==
    /\ Applies(c)
    /\ instance' = [status |-> StatusOf(Operation[c]), revision |-> instance.revision + 1]
    /\ checkpoint' = [checkpoint EXCEPT !.status = StatusOf(Operation[c])]
    /\ Recorded(c)
    /\ UNCHANGED <<mailbox, accepted, local, faults>>

Init ==
    /\ mailbox = [epoch |-> 1, last |-> 0]
    /\ accepted = {}
    /\ checkpoint = [cursor |-> None, version |-> 0, status |-> "healthy",
                     owner |-> None, lapsed |-> FALSE]
    /\ instance = [status |-> "healthy", revision |-> 0]
    /\ commands = [c \in Commands |-> None]
    /\ local = [p \in Pollers |-> Down]
    /\ faults = 0

Run(p) ==
    \/ Start(p) \/ Look(p) \/ Acquire(p) \/ Load(p)
    \/ Fetch(p) \/ FetchPauses(p) \/ FetchOdd(p)
    \/ Accept(p) \/ Advance(p) \/ Report(p) \/ Release(p)

Next ==
    \/ \E p \in Pollers : Run(p) \/ Fails(p) \/ Crash(p)
    \/ \E c \in Commands : Mutate(c)
    \/ Lapse \/ Arrive \/ Renumber

Spec == Init /\ [][Next]_vars

\* The daemons keep polling and leases run out; faults are finitely many.
FairSpec == Spec /\ WF_vars(Lapse) /\ \A p \in Pollers : WF_vars(Run(p))

-----------------------------------------------------------------------------
(* Properties *)

\* The variables have their types.
TypeOK ==
    /\ mailbox \in [epoch : Epochs, last : 0..LastUid]
    /\ accepted \subseteq Mails
    /\ checkpoint \in [cursor : Cursors, version : Nat, lapsed : BOOLEAN,
           status : {"healthy", "degraded", "paused"}, owner : Pollers \cup {None}]
    /\ instance \in [status : {"healthy", "paused"}, revision : 0..Cardinality(Commands)]
    /\ commands \in [Commands -> {None} \cup 1..Cardinality(Commands)]
    /\ local \in [Pollers -> [pc : {"down", "idle", "acquire", "leased", "poll",
           "accept", "healthy", "degrade", "pause", "release"}, cursor : Cursors,
           version : Nat, todo : SUBSET Uids, next : Cursors]]
    /\ faults \in 0..MaxFaults

\* The mails that the configuration starts behind.
Skipped == {m \in Mails : Initial # None /\ m[1] = Initial[1] /\ m[2] <= Initial[2]}

\* Every mail the cursor has passed was accepted, or is older than the
\* connector or its configured start: no poll that failed, died or was
\* overtaken loses one.
CursorCovered ==
    checkpoint.cursor # None =>
        \A u \in Uids \ Early : u <= checkpoint.cursor[2] =>
            <<checkpoint.cursor[1], u>> \in accepted \cup Skipped

\* The cursor never moves back, however late a poller commits its scan.
CursorForward ==
    [][checkpoint.cursor # None =>
          /\ checkpoint'.cursor # None
          /\ checkpoint'.cursor[1] = checkpoint.cursor[1]
          /\ checkpoint'.cursor[2] >= checkpoint.cursor[2]]_vars

\* The cursor can be trusted: it never moves back and never passes a mail that
\* the inbox does not have.
CursorSound == []CursorCovered /\ CursorForward

\* The revisions that commands report are 1, 2, ..., each once: a command that
\* is sent again is not applied again, and none was applied to a state that
\* its sender had not seen.
CommandsInOrder ==
    /\ {commands[c] : c \in Commands} \ {None} = 1..instance.revision
    /\ \A c \in Commands : commands[c] # None => commands[c] = Expected[c] + 1

\* Every mail of the current folder that the connector is meant to fetch is
\* accepted in the end, unless somebody or something pauses the connector for
\* it, or the folder is renumbered.
EveryMailArrives ==
    \A m \in Mails \ Skipped : m[2] \notin Early =>
        (m[1] = mailbox.epoch /\ m[2] <= mailbox.last)
            ~> (m \in accepted \/ Paused \/ m[1] # mailbox.epoch)
=============================================================================
