--------------------------- MODULE IngestionProofs ---------------------------
(***************************************************************************)
(* What the ingestion of the Observer guarantees.  First the IMAP poller   *)
(* and its control API, for every number of pollers, mails, folders, faults*)
(* and commands: the leases may fail, the cursor is still right.  Then what*)
(* becomes of a delivery the poller or a webhook has put into the inbox,   *)
(* for every number of workers, deliveries, bodies, attempts and replays:  *)
(* nothing is lost on the way from the inbox to the observation events.    *)
(*                                                                         *)
(* The two parts share no variable: a mail that the poller accepts is a    *)
(* delivery of the second part, in a transaction of its own.               *)
(***************************************************************************)
EXTENDS Polling, DeliveryJobs, FiniteSetTheorems, TLAPS

-----------------------------------------------------------------------------
(***************************************************************************)
(* The poller and its control API.                                         *)
(***************************************************************************)

Positions == Epochs \X (0..LastUid)

Mailboxes == [epoch : Epochs, last : 0..LastUid]

CheckpointType == [cursor : Cursors, version : Nat, lapsed : BOOLEAN,
                   status : {"healthy", "degraded", "paused"}, owner : Pollers \cup {None}]

LocalType == [pc : {"down", "idle", "acquire", "leased", "poll",
                    "accept", "healthy", "degrade", "pause", "release"},
              cursor : Cursors, version : Nat, todo : SUBSET Uids, next : Cursors]

InstanceType == [status : {"healthy", "paused"}, revision : Nat]

\* With the inbox acc, the mail u of the folder with UIDVALIDITY e needs no
\* further attention.
Done(acc, e, u) == u \in Early \/ <<e, u>> \in acc \cup Skipped

\* Nothing up to the position cur is left behind.
Passed(acc, cur) == cur # None => \A u \in Uids : u <= cur[2] => Done(acc, cur[1], u)

\* b is where a scan that began at a may end.
Ahead(a, b) == a # None => b[1] = a[1] /\ b[2] >= a[2]

\* What a poll in the memory l works with, given the inbox acc and the
\* checkpoint cp: a cursor that was right when it was read and is still the
\* stored one if the version is, and a page that together with what is
\* accepted leaves nothing out.
PollerOK(acc, cp, l) ==
    /\ l.pc \in {"poll", "accept"} =>
          /\ Passed(acc, l.cursor)
          /\ l.version <= cp.version
          /\ l.version = cp.version => l.cursor = cp.cursor
    /\ l.pc = "accept" =>
          /\ l.next \in Positions /\ Ahead(l.cursor, l.next)
          /\ \A u \in Uids : u <= l.next[2] => u \in l.todo \/ Done(acc, l.next[1], u)

Types ==
    /\ mailbox \in Mailboxes
    /\ accepted \subseteq Mails
    /\ checkpoint \in CheckpointType
    /\ instance \in InstanceType
    /\ commands \in [Commands -> {None} \cup (Nat \ {0})]
    /\ local \in [Pollers -> LocalType]
    /\ faults \in 0..MaxFaults

\* The inductive invariant.
IndInv ==
    /\ Types
    /\ CommandsInOrder
    /\ Passed(accepted, checkpoint.cursor)
    /\ \A p \in Pollers : PollerOK(accepted, checkpoint, local[p])

-----------------------------------------------------------------------------
(* Least and greatest elements *)

\* A nonempty set of natural numbers has a least element, which Min returns.
LEMMA MinNat ==
    ASSUME NEW T \in SUBSET Nat, T # {}
    PROVE  Min(T) \in T /\ \A y \in T : Min(T) <= y
<1>1. PICK x \in T : \A y \in T : ~(<<y, x>> \in OpToRel(<, Nat))
    BY NatLessThanWellFounded, WFMin
<1>2. \A y \in T : ~(y < x)
    BY <1>1 DEF OpToRel
<1>3. \E z \in T : \A y \in T : z <= y
    BY <1>2
<1> QED BY <1>3 DEF Min

\* A nonempty bounded set has a greatest element, which Max returns.
LEMMA MaxNat ==
    ASSUME NEW T \in SUBSET Nat, T # {}, NEW n \in Nat, \A y \in T : y <= n
    PROVE  Max(T) \in T /\ \A y \in T : y <= Max(T)
<1> DEFINE B == {b \in Nat : \A y \in T : y <= b}
<1>1. B \in SUBSET Nat /\ n \in B
    OBVIOUS
<1>2. Min(B) \in B /\ \A b \in B : Min(B) <= b
    BY <1>1, MinNat
<1>3. PICK m \in Nat : (\A y \in T : y <= m) /\ \A b \in B : m <= b
    BY <1>2
<1>4. m \in T
    <2> SUFFICES ASSUME m \notin T PROVE FALSE
        OBVIOUS
    <2>1. \A y \in T : y < m
        BY <1>3
    <2>2. m # 0
        <3>1. PICK y \in T : y \in Nat /\ y < m
            BY <2>1
        <3> QED BY <3>1
    <2>4. m - 1 \in Nat /\ \A y \in T : y <= m - 1
        BY <2>1, <2>2
    <2>3. m - 1 \in B
        BY <2>4
    <2> QED BY <1>3, <2>3
<1>5. \E z \in T : \A y \in T : z >= y
    BY <1>3, <1>4
<1>6. Max(T) \in T /\ \A y \in T : Max(T) >= y
    BY <1>5 DEF Max
<1> QED BY <1>6

-----------------------------------------------------------------------------
(* The frame of a step *)

\* The inbox only grows, and the cursor only changes with the version.
Later ==
    /\ accepted \subseteq accepted'
    /\ checkpoint'.version \in Nat /\ checkpoint'.version >= checkpoint.version
    /\ checkpoint'.version = checkpoint.version => checkpoint'.cursor = checkpoint.cursor

LEMMA PassedKept ==
    ASSUME NEW acc, NEW more, acc \subseteq more, NEW cur, Passed(acc, cur)
    PROVE  Passed(more, cur)
BY DEF Passed, Done

\* The memory of a poller that does not move stays right.
LEMMA PollerKept ==
    ASSUME IndInv, Later, NEW p \in Pollers
    PROVE  PollerOK(accepted', checkpoint', local[p])
<1> DEFINE l == local[p]
<1>1. PollerOK(accepted, checkpoint, l) /\ l \in LocalType /\ checkpoint \in CheckpointType
    BY DEF IndInv, Types
<1>2. l.version \in Nat /\ checkpoint.version \in Nat
    BY <1>1 DEF LocalType, CheckpointType
<1> HIDE DEF l
<1>3. ASSUME l.pc \in {"poll", "accept"}
      PROVE  /\ Passed(accepted', l.cursor)
             /\ l.version <= checkpoint'.version
             /\ l.version = checkpoint'.version => l.cursor = checkpoint'.cursor
    <2>1. /\ Passed(accepted, l.cursor) /\ l.version <= checkpoint.version
          /\ l.version = checkpoint.version => l.cursor = checkpoint.cursor
        BY <1>1, <1>3 DEF PollerOK
    <2>2. Passed(accepted', l.cursor)
        BY <2>1, PassedKept DEF Later
    <2>3. l.version <= checkpoint'.version
        BY <2>1, <1>2 DEF Later
    <2>4. l.version = checkpoint'.version => checkpoint'.version = checkpoint.version
        BY <2>1, <1>2 DEF Later
    <2> QED BY <2>1, <2>2, <2>3, <2>4 DEF Later
<1>4. ASSUME l.pc = "accept"
      PROVE  /\ l.next \in Positions /\ Ahead(l.cursor, l.next)
             /\ \A u \in Uids : u <= l.next[2] =>
                    u \in l.todo \/ Done(accepted', l.next[1], u)
    BY <1>1, <1>4 DEF PollerOK, Later, Done
<1>5. PollerOK(accepted', checkpoint', l)
    BY <1>3, <1>4 DEF PollerOK
<1> QED BY <1>5 DEF l

\* A poller that is neither fetching nor accepting has nothing to be right about.
LEMMA Quiet ==
    ASSUME NEW acc, NEW cp, NEW l, l.pc \notin {"poll", "accept"}
    PROVE  PollerOK(acc, cp, l)
BY DEF PollerOK

\* A step of one poller.
LEMMA OnePoller ==
    ASSUME IndInv, Later, NEW p \in Pollers, NEW l \in LocalType,
           PollerOK(accepted', checkpoint', l),
           local' = [local EXCEPT ![p] = l],
           UNCHANGED <<mailbox, control>>,
           accepted' \subseteq Mails, checkpoint' \in CheckpointType,
           Passed(accepted', checkpoint'.cursor), faults' \in 0..MaxFaults
    PROVE  IndInv'
<1>1. Types'
    BY DEF IndInv, Types, control
<1>2. CommandsInOrder'
    BY DEF IndInv, CommandsInOrder, control
<1>3. ASSUME NEW q \in Pollers
      PROVE  PollerOK(accepted', checkpoint', local'[q])
    <2>1. CASE q = p
        BY <2>1 DEF IndInv, Types
    <2>2. CASE q # p
        <3>1. local'[q] = local[q]
            BY <2>2 DEF IndInv, Types
        <3> QED BY <3>1, PollerKept
    <2> QED BY <2>1, <2>2
<1> QED BY <1>1, <1>2, <1>3 DEF IndInv

\* A step of one poller that leaves the inbox and the cursor alone.
LEMMA CursorSame ==
    ASSUME IndInv, NEW p \in Pollers, NEW l \in LocalType,
           l.pc \notin {"poll", "accept"},
           local' = [local EXCEPT ![p] = l],
           UNCHANGED <<mailbox, accepted, control>>,
           checkpoint' \in CheckpointType,
           checkpoint'.cursor = checkpoint.cursor,
           checkpoint'.version = checkpoint.version,
           faults' \in 0..MaxFaults
    PROVE  IndInv'
<1>1. checkpoint.version \in Nat
    BY DEF IndInv, Types, CheckpointType
<1>2. Later
    BY <1>1 DEF Later
<1>3. Passed(accepted', checkpoint'.cursor) /\ accepted' \subseteq Mails
    BY DEF IndInv, Types
<1> QED BY <1>2, <1>3, Quiet, OnePoller

LEMMA EmptyTypes ==
    /\ Down \in LocalType /\ Idle \in LocalType
    /\ Down.pc = "down" /\ Idle.pc = "idle"
    /\ \A pc \in {"release", "pause", "degrade", "healthy"} :
          [Idle EXCEPT !.pc = pc] \in LocalType /\ [Idle EXCEPT !.pc = pc].pc = pc
BY DEF Down, Idle, LocalType, Cursors

LEMMA Typed ==
    ASSUME IndInv
    PROVE  /\ mailbox \in Mailboxes /\ checkpoint \in CheckpointType
           /\ accepted \subseteq Mails /\ faults \in 0..MaxFaults
           /\ \A p \in Pollers : local[p] \in LocalType
BY DEF IndInv, Types

\* The initial state satisfies it.
LEMMA InitInv == Init => IndInv
<1> SUFFICES ASSUME Init PROVE IndInv
    OBVIOUS
<1>1. mailbox \in Mailboxes /\ faults \in 0..MaxFaults
    BY PollingAssumption DEF Init, Mailboxes, Epochs
<1>2. checkpoint \in CheckpointType /\ instance \in InstanceType
    BY DEF Init, CheckpointType, InstanceType, Cursors
<1>3. Types
    BY <1>1, <1>2, EmptyTypes DEF Init, Types
<1>4. CommandsInOrder
    <2>1. \A c \in Commands : commands[c] = None
        BY DEF Init
    <2>2. 1..instance.revision = {}
        BY DEF Init
    <2> QED BY <2>1, <2>2 DEF CommandsInOrder
<1>5. Passed(accepted, checkpoint.cursor)
    BY DEF Init, Passed
<1>6. \A p \in Pollers : PollerOK(accepted, checkpoint, local[p])
    BY EmptyTypes, Quiet DEF Init
<1> QED BY <1>3, <1>4, <1>5, <1>6 DEF IndInv

-----------------------------------------------------------------------------
(* One lemma per action of a poller *)

LEMMA FaultBound ==
    ASSUME IndInv, Fault
    PROVE  faults' \in 0..MaxFaults
BY PollingAssumption DEF IndInv, Types, Fault

\* _ensure_initial_checkpoint may set a cursor; what it starts behind is Skipped.
LEMMA StartStep ==
    ASSUME IndInv, NEW p \in Pollers, Start(p)
    PROVE  IndInv'
<1>1. /\ local' = [local EXCEPT ![p] = Idle]
      /\ UNCHANGED <<mailbox, accepted, control>> /\ faults' = faults
    BY DEF Start
<1>2. CASE UNCHANGED checkpoint
    BY <1>1, <1>2, Typed, EmptyTypes, CursorSame
<1>3. CASE /\ Initial # None /\ checkpoint.cursor = None
           /\ checkpoint' = [checkpoint EXCEPT !.cursor = Initial, !.version = @ + 1]
    <2> DEFINE n == checkpoint.version + 1
    <2>1. checkpoint.version \in Nat /\ n \in Nat /\ n > checkpoint.version
        BY Typed DEF CheckpointType
    <2>2. checkpoint' = [checkpoint EXCEPT !.cursor = Initial, !.version = n]
        BY <1>3
    <2> HIDE DEF n
    <2>3. /\ checkpoint' \in CheckpointType
          /\ checkpoint'.cursor = Initial /\ checkpoint'.version = n
        BY <2>1, <2>2, Typed, PollingAssumption DEF CheckpointType
    <2>4. Later
        BY <1>1, <2>1, <2>3 DEF Later
    <2>5. Passed(accepted', Initial)
        <3> SUFFICES ASSUME NEW u \in Uids, u <= Initial[2]
                     PROVE  <<Initial[1], u>> \in Skipped
            BY DEF Passed, Done
        <3>1. Initial \in Epochs \X (0..LastUid)
            BY <1>3, PollingAssumption DEF Cursors
        <3>2. <<Initial[1], u>> \in Mails
            BY <3>1 DEF Mails
        <3> QED BY <1>3, <3>2 DEF Skipped
    <2> QED BY <1>1, <2>3, <2>4, <2>5, Typed, EmptyTypes, Quiet, OnePoller
<1> QED BY <1>2, <1>3 DEF Start, Configured

LEMMA LookStep ==
    ASSUME IndInv, NEW p \in Pollers, Look(p)
    PROVE  IndInv'
<1> DEFINE l == [local[p] EXCEPT !.pc = "acquire"]
<1>1. local' = [local EXCEPT ![p] = l]
    BY DEF Look, Goto
<1>2. l \in LocalType /\ l.pc = "acquire"
    BY Typed DEF LocalType
<1> HIDE DEF l
<1> QED BY <1>1, <1>2, Typed, CursorSame DEF Look

LEMMA AcquireStep ==
    ASSUME IndInv, NEW p \in Pollers, Acquire(p)
    PROVE  IndInv'
<1> DEFINE pc == IF Free(p) THEN "leased" ELSE "idle"
           l == [local[p] EXCEPT !.pc = pc]
<1>1. local' = [local EXCEPT ![p] = l]
    BY DEF Acquire, Goto
<1>2. l \in LocalType /\ l.pc \in {"leased", "idle"}
    BY Typed DEF LocalType
<1>3. /\ checkpoint' \in CheckpointType /\ checkpoint'.cursor = checkpoint.cursor
      /\ checkpoint'.version = checkpoint.version
    <2>1. CASE Free(p)
        BY <2>1, Typed DEF Acquire, CheckpointType
    <2>2. CASE ~Free(p)
        BY <2>2, Typed DEF Acquire, CheckpointType
    <2> QED BY <2>1, <2>2
<1> HIDE DEF l
<1> QED BY <1>1, <1>2, <1>3, Typed, CursorSame DEF Acquire

\* A run that ends, whatever it was doing.
LEMMA EndStep ==
    ASSUME IndInv, NEW p \in Pollers, NEW pc \in {"release", "pause", "degrade", "healthy"},
           End(p, pc), UNCHANGED <<mailbox, accepted, checkpoint, control>>,
           faults' \in 0..MaxFaults
    PROVE  IndInv'
BY Typed, EmptyTypes, CursorSame DEF End

LEMMA LoadStep ==
    ASSUME IndInv, NEW p \in Pollers, Load(p)
    PROVE  IndInv'
<1>1. CASE Paused
    BY <1>1, Typed, EndStep DEF Load
<1>2. CASE ~Paused
    <2> DEFINE l == [local[p] EXCEPT !.pc = "poll", !.cursor = checkpoint.cursor,
                                     !.version = checkpoint.version]
    <2>1. local' = [local EXCEPT ![p] = l]
        BY <1>2 DEF Load
    <2>2. checkpoint.cursor \in Cursors /\ checkpoint.version \in Nat
        BY Typed DEF CheckpointType
    <2>3. /\ l \in LocalType /\ l.pc = "poll" /\ l.cursor = checkpoint.cursor
          /\ l.version = checkpoint.version
        BY <2>2, Typed DEF LocalType
    <2> HIDE DEF l
    <2>4. Later /\ checkpoint' = checkpoint /\ accepted' = accepted
        BY <2>2 DEF Load, Later
    <2>5. Passed(accepted', checkpoint'.cursor)
        BY <2>4 DEF IndInv
    <2>6. PollerOK(accepted', checkpoint', l)
        BY <2>2, <2>3, <2>4, <2>5 DEF PollerOK
    <2> QED BY <2>1, <2>3, <2>4, <2>5, <2>6, Typed, OnePoller DEF Load
<1> QED BY <1>1, <1>2

\* The position a poll starts from has nothing left behind it.
LEMMA BaseRight ==
    ASSUME IndInv, NEW p \in Pollers, local[p].pc = "poll"
    PROVE  /\ Base(p) \in Positions /\ Passed(accepted, Base(p))
           /\ Ahead(local[p].cursor, Base(p))
           /\ Base(p)[1] \in Epochs /\ Base(p)[2] \in 0..LastUid
<1>1. local[p].cursor \in Cursors /\ Passed(accepted, local[p].cursor)
    BY Typed DEF LocalType, IndInv, PollerOK
<1>2. mailbox.epoch \in Epochs /\ 0 \in 0..LastUid
    BY Typed, PollingAssumption DEF Mailboxes
<1>3. CASE local[p].cursor = None
    <2>1. Base(p) = <<mailbox.epoch, 0>>
        BY <1>3 DEF Base
    <2>2. Base(p) \in Positions /\ Base(p)[1] = mailbox.epoch /\ Base(p)[2] = 0
        BY <1>2, <2>1 DEF Positions
    <2>3. Passed(accepted, Base(p))
        BY <2>2 DEF Passed, Uids
    <2> QED BY <1>2, <1>3, <2>2, <2>3 DEF Ahead
<1>4. CASE local[p].cursor # None
    <2>1. Base(p) = local[p].cursor /\ Base(p) \in Positions
        BY <1>1, <1>4 DEF Base, Cursors, Positions
    <2>2. Base(p)[1] \in Epochs /\ Base(p)[2] \in 0..LastUid
        BY <2>1 DEF Positions
    <2> QED BY <1>1, <2>1, <2>2 DEF Ahead
<1> QED BY <1>3, <1>4

\* _search_uids finds every mail after the position, and pages come in order:
\* with a mail of the page, all mails before it are in the page.
LEMMA PageRight ==
    ASSUME IndInv, NEW p \in Pollers, local[p].pc = "poll"
    PROVE  /\ Found(p) \subseteq Uids /\ Page(p) \subseteq Found(p)
           /\ \A u \in Uids : Base(p)[2] < u /\ u <= mailbox.last => u \in Found(p)
           /\ \A u \in Found(p) : u <= mailbox.last
           /\ \A u \in Found(p), v \in Page(p) : u <= v => u \in Page(p)
<1> DEFINE from == Base(p)[2]
           new == {u \in Uids : from < u /\ u <= mailbox.last}
<1>1. from \in Nat /\ mailbox.last \in 0..LastUid /\ LastUid \in Nat
    BY BaseRight, Typed, PollingAssumption DEF Mailboxes
<1>2. Found(p) = IF from > 0 /\ new = {} /\ mailbox.last > 0 THEN {mailbox.last} ELSE new
    BY DEF Found
<1>3. mailbox.last > 0 => mailbox.last \in Uids /\ mailbox.last <= mailbox.last
    BY <1>1 DEF Uids
<1> HIDE DEF from
<1>4. new \subseteq Uids /\ \A u \in new : u <= mailbox.last
    OBVIOUS
<1>5. Found(p) \subseteq Uids /\ \A u \in Found(p) : u <= mailbox.last
    BY <1>2, <1>3, <1>4
<1>6. \A u \in Uids : from < u /\ u <= mailbox.last => u \in Found(p)
    BY <1>2
<1>7. Page(p) \subseteq Found(p)
    BY DEF Page
<1>8. ASSUME NEW u \in Found(p), NEW v \in Page(p), u <= v
      PROVE  u \in Page(p)
    <2> DEFINE A == {x \in Found(p) : x < u}
               B == {x \in Found(p) : x < v}
    <2>1. u \in Nat /\ v \in Nat /\ Found(p) \subseteq Nat
        BY <1>5, <1>7 DEF Uids
    <2>2. A \subseteq B
        BY <1>8, <2>1
    <2>3. IsFiniteSet(B)
        <3>1. B \in SUBSET Nat /\ \A x \in B : x <= v
            BY <2>1
        <3> QED BY <3>1, <2>1, FS_BoundedSetOfNaturals
    <2>4. /\ IsFiniteSet(A) /\ Cardinality(A) <= Cardinality(B)
          /\ Cardinality(A) \in Nat /\ Cardinality(B) \in Nat
        BY <2>2, <2>3, FS_Subset, FS_CardinalityType
    <2>5. Cardinality(B) < Limit
        BY DEF Page
    <2>6. Cardinality(A) < Limit
        BY <2>4, <2>5, PollingAssumption
    <2> QED BY <2>6 DEF Page
<1> QED BY <1>5, <1>6, <1>7, <1>8 DEF from

\* What a whole page leaves to do.
LEMMA FetchStep ==
    ASSUME IndInv, NEW p \in Pollers, Fetch(p)
    PROVE  IndInv'
<1> DEFINE base == Base(p)
           next == IF Page(p) = {} THEN Base(p) ELSE <<mailbox.epoch, Max(Page(p))>>
           l == [local[p] EXCEPT !.pc = "accept", !.todo = Kept(p), !.next = next]
<1>1. /\ local[p].pc = "poll" /\ Base(p)[1] = mailbox.epoch /\ ~Odd(p)
      /\ local' = [local EXCEPT ![p] = l]
      /\ UNCHANGED <<mailbox, accepted, checkpoint, control, faults>>
    BY DEF Fetch
<1>2. /\ Base(p) \in Positions /\ Passed(accepted, Base(p))
      /\ Ahead(local[p].cursor, Base(p)) /\ Base(p)[2] \in 0..LastUid
    BY <1>1, BaseRight
<1>3. /\ Found(p) \subseteq Uids /\ Page(p) \subseteq Found(p)
      /\ \A u \in Uids : Base(p)[2] < u /\ u <= mailbox.last => u \in Found(p)
      /\ \A u \in Found(p) : u <= mailbox.last
      /\ \A u \in Found(p), v \in Page(p) : u <= v => u \in Page(p)
    BY <1>1, PageRight
<1>4. mailbox.epoch \in Epochs /\ mailbox.last \in Nat /\ mailbox.last <= LastUid
    BY Typed, PollingAssumption DEF Mailboxes
<1>5. Kept(p) \subseteq Uids
    BY <1>3 DEF Kept
<1>6. /\ next \in Positions /\ next[1] = Base(p)[1] /\ next[2] >= Base(p)[2]
      /\ \A u \in Uids : u <= next[2] => u \in Kept(p) \/ Done(accepted, next[1], u)
    <2>1. CASE Page(p) = {}
        <3>1. next = Base(p)
            BY <2>1
        <3> HIDE DEF next
        <3>2. Base(p) # None
            BY <1>2, PollingAssumption DEF Positions
        <3>3. \A u \in Uids : u <= Base(p)[2] => Done(accepted, Base(p)[1], u)
            BY <1>2, <3>2 DEF Passed
        <3>4. Base(p)[2] >= Base(p)[2]
            BY <1>2
        <3> QED BY <1>2, <3>1, <3>3, <3>4
    <2>2. CASE Page(p) # {}
        <3> DEFINE m == Max(Page(p))
        <3>1. Page(p) \in SUBSET Nat /\ \A y \in Page(p) : y <= mailbox.last
            BY <1>3 DEF Uids
        <3>2. m \in Page(p) /\ \A y \in Page(p) : y <= m
            BY <1>4, <2>2, <3>1, MaxNat
        <3>3. next = <<mailbox.epoch, m>>
            BY <2>2
        <3> HIDE DEF m, next
        <3>4. m \in Uids /\ m <= mailbox.last /\ m \in 0..LastUid
            BY <1>3, <3>2 DEF Uids
        <3>5. next \in Positions /\ next[1] = Base(p)[1] /\ next[2] = m
            BY <1>1, <1>4, <3>3, <3>4 DEF Positions
        <3>6. m > Base(p)[2]
            <4>1. ~(m <= Base(p)[2])
                BY <1>1, <1>3, <3>2 DEF Odd
            <4> QED BY <4>1, <1>2, <3>4
        <3>7. ASSUME NEW u \in Uids, u <= m
              PROVE  u \in Kept(p) \/ Done(accepted, Base(p)[1], u)
            <4>1. CASE u <= Base(p)[2]
                <5>1. Base(p) # None
                    BY <1>2, PollingAssumption DEF Positions
                <5> QED BY <1>2, <4>1, <5>1 DEF Passed
            <4>2. CASE ~(u <= Base(p)[2])
                <5>1. Base(p)[2] < u /\ u <= mailbox.last
                    BY <1>2, <1>4, <3>4, <3>7, <4>2 DEF Uids
                <5>2. u \in Page(p)
                    BY <1>3, <3>2, <3>7, <5>1
                <5> QED BY <5>2 DEF Kept, Done
            <4> QED BY <4>1, <4>2
        <3>8. m >= Base(p)[2]
            BY <1>2, <3>4, <3>6
        <3> QED BY <3>5, <3>7, <3>8
    <2> QED BY <2>1, <2>2
<1> HIDE DEF next
<1>7. next \in Cursors
    BY <1>6 DEF Cursors, Positions
<1>8. /\ l \in LocalType /\ l.pc = "accept" /\ l.todo = Kept(p) /\ l.next = next
      /\ l.cursor = local[p].cursor /\ l.version = local[p].version
    BY <1>5, <1>7, Typed DEF LocalType
<1> HIDE DEF l
<1>9. Later
    BY <1>1, Typed DEF Later, CheckpointType
<1>10. Ahead(local[p].cursor, next)
    <2>1. local[p].cursor # None => Base(p) = local[p].cursor
        BY DEF Base
    <2> QED BY <1>6, <2>1 DEF Ahead
<1>11. PollerOK(accepted, checkpoint, l)
    <2>1. /\ Passed(accepted, local[p].cursor)
          /\ local[p].version <= checkpoint.version
          /\ local[p].version = checkpoint.version => local[p].cursor = checkpoint.cursor
        BY <1>1 DEF IndInv, PollerOK
    <2> QED BY <1>6, <1>8, <1>10, <2>1 DEF PollerOK
<1>12. PollerOK(accepted', checkpoint', l) /\ Passed(accepted', checkpoint'.cursor)
    BY <1>1, <1>11 DEF IndInv
<1> QED BY <1>1, <1>8, <1>9, <1>12, Typed, OnePoller

LEMMA FetchPausesStep ==
    ASSUME IndInv, NEW p \in Pollers, FetchPauses(p)
    PROVE  IndInv'
BY Typed, EndStep DEF FetchPauses

LEMMA FetchOddStep ==
    ASSUME IndInv, NEW p \in Pollers, FetchOdd(p)
    PROVE  IndInv'
BY Typed, EndStep DEF FetchOdd

LEMMA FailsStep ==
    ASSUME IndInv, NEW p \in Pollers, Fails(p)
    PROVE  IndInv'
BY FaultBound, EndStep DEF Fails

\* accept_delivery: what leaves the list is in the inbox.
LEMMA AcceptStep ==
    ASSUME IndInv, NEW p \in Pollers, Accept(p)
    PROVE  IndInv'
<1> DEFINE u == Min(local[p].todo)
           e == local[p].next[1]
           rest == local[p].todo \ {u}
           l == [local[p] EXCEPT !.todo = rest]
<1>1. /\ local[p].pc = "accept" /\ local[p].todo # {}
      /\ accepted' = accepted \cup {<<e, u>>}
      /\ local' = [local EXCEPT ![p] = l]
      /\ UNCHANGED <<mailbox, checkpoint, control, faults>>
    BY DEF Accept
<1>2. local[p] \in LocalType /\ PollerOK(accepted, checkpoint, local[p])
    BY Typed DEF IndInv
<1>3. local[p].todo \subseteq Uids /\ local[p].todo \in SUBSET Nat
    BY <1>2 DEF LocalType, Uids
<1>4. u \in local[p].todo
    BY <1>1, <1>3, MinNat
<1>5. local[p].next \in Positions /\ e \in Epochs
    BY <1>1, <1>2 DEF PollerOK, Positions
<1> HIDE DEF u, e
<1>6. <<e, u>> \in Mails /\ accepted' \subseteq Mails
    BY <1>1, <1>3, <1>4, <1>5, Typed DEF Mails
<1>7. /\ l \in LocalType /\ l.pc = "accept" /\ l.todo = rest
      /\ l.next = local[p].next /\ l.cursor = local[p].cursor
      /\ l.version = local[p].version
    BY <1>1, <1>2, <1>3 DEF LocalType
<1> HIDE DEF l
<1>8. Later
    BY <1>1, Typed DEF Later, CheckpointType
<1>9. PollerOK(accepted', checkpoint', local[p])
    BY <1>8, PollerKept
<1>10. \A v \in Uids : v <= l.next[2] => v \in rest \/ Done(accepted', l.next[1], v)
    <2> SUFFICES ASSUME NEW v \in Uids, v <= l.next[2], v \notin rest
                 PROVE  Done(accepted', l.next[1], v)
        OBVIOUS
    <2>1. CASE v = u
        BY <1>1, <1>7, <2>1 DEF Done, e
    <2>2. CASE v # u
        <3>1. v \notin local[p].todo
            BY <2>2
        <3> QED BY <1>1, <1>7, <1>9, <3>1 DEF PollerOK
    <2> QED BY <2>1, <2>2
<1>11. PollerOK(accepted', checkpoint', l)
    BY <1>1, <1>7, <1>9, <1>10 DEF PollerOK
<1>12. Passed(accepted', checkpoint'.cursor)
    BY <1>1, PassedKept DEF IndInv
<1> QED BY <1>1, <1>6, <1>7, <1>8, <1>11, <1>12, Typed, OnePoller

\* The condition under which compare_and_swap_checkpoint moves the cursor.
Swaps(p) == local[p].next # local[p].cursor /\ checkpoint.version = local[p].version

\* The cursor is moved from where the poll began to where it ended, with
\* everything in between accepted.
LEMMA Swapped ==
    ASSUME IndInv, NEW p \in Pollers, Advance(p), Swaps(p)
    PROVE  /\ checkpoint' = [checkpoint EXCEPT !.cursor = local[p].next,
                                               !.version = checkpoint.version + 1]
           /\ local[p].next \in Positions /\ Passed(accepted, local[p].next)
           /\ Ahead(checkpoint.cursor, local[p].next)
<1>1. /\ local[p].pc = "accept" /\ local[p].todo = {}
      /\ checkpoint' = [checkpoint EXCEPT !.cursor = local[p].next,
                                          !.version = checkpoint.version + 1]
    BY DEF Advance, Swaps
<1>2. PollerOK(accepted, checkpoint, local[p])
    BY DEF IndInv
<1>3. /\ local[p].next \in Positions /\ Ahead(local[p].cursor, local[p].next)
      /\ local[p].cursor = checkpoint.cursor
    BY <1>1, <1>2 DEF PollerOK, Swaps
<1>4. Passed(accepted, local[p].next)
    BY <1>1, <1>2 DEF PollerOK, Passed
<1> QED BY <1>1, <1>3, <1>4

LEMMA AdvanceStep ==
    ASSUME IndInv, NEW p \in Pollers, Advance(p)
    PROVE  IndInv'
<1>1. CASE ~Swaps(p)
    <2>1. /\ UNCHANGED <<mailbox, accepted, checkpoint, control, faults>>
          /\ End(p, "healthy") \/ End(p, "degrade")
        BY <1>1 DEF Advance, Swaps
    <2> QED BY <2>1, Typed, EndStep
<1>2. CASE Swaps(p)
    <2> DEFINE n == checkpoint.version + 1
               l == [Idle EXCEPT !.pc = "healthy"]
    <2>1. /\ checkpoint' = [checkpoint EXCEPT !.cursor = local[p].next, !.version = n]
          /\ local[p].next \in Positions /\ Passed(accepted, local[p].next)
        BY <1>2, Swapped
    <2>2. checkpoint.version \in Nat /\ n \in Nat /\ n > checkpoint.version
        BY Typed DEF CheckpointType
    <2> HIDE DEF n
    <2>3. /\ checkpoint' \in CheckpointType
          /\ checkpoint'.cursor = local[p].next /\ checkpoint'.version = n
        <3>1. local[p].next \in Cursors
            BY <2>1 DEF Cursors, Positions
        <3> QED BY <2>1, <2>2, <3>1, Typed DEF CheckpointType
    <2>4. /\ UNCHANGED <<mailbox, accepted, control, faults>>
          /\ local' = [local EXCEPT ![p] = l]
        BY <1>2 DEF Advance, Swaps, End
    <2>5. l \in LocalType /\ l.pc = "healthy"
        BY EmptyTypes
    <2> HIDE DEF l
    <2>6. Later
        BY <2>2, <2>3, <2>4 DEF Later
    <2> QED BY <2>1, <2>3, <2>4, <2>5, <2>6, Typed, Quiet, OnePoller
<1> QED BY <1>1, <1>2

LEMMA ReportStep ==
    ASSUME IndInv, NEW p \in Pollers, Report(p)
    PROVE  IndInv'
<1>1. Health[local[p].pc] \in {"healthy", "degraded", "paused"}
    BY DEF Report, Health
<1>2. /\ checkpoint' \in CheckpointType /\ checkpoint'.cursor = checkpoint.cursor
      /\ checkpoint'.version = checkpoint.version
    BY <1>1, Typed DEF Report, CheckpointType
<1> QED BY <1>2, Typed, EmptyTypes, CursorSame DEF Report, End

LEMMA ReleaseStep ==
    ASSUME IndInv, NEW p \in Pollers, Release(p)
    PROVE  IndInv'
<1>1. /\ checkpoint' \in CheckpointType /\ checkpoint'.cursor = checkpoint.cursor
      /\ checkpoint'.version = checkpoint.version
    <2>1. CASE checkpoint.owner = p
        BY <2>1, Typed DEF Release, CheckpointType
    <2>2. CASE checkpoint.owner # p
        BY <2>2, Typed DEF Release, CheckpointType
    <2> QED BY <2>1, <2>2
<1>2. local' = [local EXCEPT ![p] = Idle] \/ local' = [local EXCEPT ![p] = Down]
    BY DEF Release
<1> QED BY <1>1, <1>2, Typed, EmptyTypes, CursorSame DEF Release

LEMMA CrashStep ==
    ASSUME IndInv, NEW p \in Pollers, Crash(p)
    PROVE  IndInv'
BY FaultBound, Typed, EmptyTypes, CursorSame DEF Crash

-----------------------------------------------------------------------------
(* Steps of others *)

\* A step that moves no poller and neither the inbox nor the cursor.
LEMMA OthersStep ==
    ASSUME IndInv, UNCHANGED <<accepted, local, faults>>,
           mailbox' \in Mailboxes, checkpoint' \in CheckpointType,
           checkpoint'.cursor = checkpoint.cursor,
           checkpoint'.version = checkpoint.version,
           instance' \in InstanceType,
           commands' \in [Commands -> {None} \cup (Nat \ {0})],
           CommandsInOrder'
    PROVE  IndInv'
<1>1. checkpoint.version \in Nat
    BY Typed DEF CheckpointType
<1>2. Later
    BY <1>1 DEF Later
<1>3. \A p \in Pollers : PollerOK(accepted', checkpoint', local'[p])
    BY <1>2, PollerKept
<1>4. Types' /\ Passed(accepted', checkpoint'.cursor)
    BY DEF IndInv, Types
<1> QED BY <1>3, <1>4 DEF IndInv

LEMMA ControlTyped ==
    ASSUME IndInv, UNCHANGED control
    PROVE  /\ instance' \in InstanceType
           /\ commands' \in [Commands -> {None} \cup (Nat \ {0})] /\ CommandsInOrder'
BY DEF IndInv, Types, control, CommandsInOrder

LEMMA LapseStep ==
    ASSUME IndInv, Lapse
    PROVE  IndInv'
<1>1. /\ checkpoint' \in CheckpointType /\ checkpoint'.cursor = checkpoint.cursor
      /\ checkpoint'.version = checkpoint.version
    BY Typed DEF Lapse, CheckpointType
<1> QED BY <1>1, Typed, ControlTyped, OthersStep DEF Lapse

LEMMA MailboxStep ==
    ASSUME IndInv, Arrive \/ Renumber
    PROVE  IndInv'
<1>1. mailbox.last \in 0..LastUid /\ mailbox.epoch \in Epochs
    BY Typed DEF Mailboxes
<1>2. mailbox' \in Mailboxes
    <2>1. CASE Arrive
        <3> DEFINE n == mailbox.last + 1
        <3>1. n \in 0..LastUid
            BY <1>1, <2>1, PollingAssumption DEF Arrive
        <3>2. mailbox' = [mailbox EXCEPT !.last = n]
            BY <2>1 DEF Arrive
        <3> HIDE DEF n
        <3> QED BY <3>1, <3>2, Typed DEF Mailboxes
    <2>2. CASE Renumber
        <3> DEFINE n == mailbox.epoch + 1
        <3>1. n \in Epochs /\ 0 \in 0..LastUid
            BY <1>1, <2>2, PollingAssumption DEF Renumber, Epochs
        <3>2. mailbox' = [epoch |-> n, last |-> 0]
            BY <2>2 DEF Renumber
        <3> HIDE DEF n
        <3> QED BY <3>1, <3>2 DEF Mailboxes
    <2> QED BY <2>1, <2>2
<1> QED BY <1>2, Typed, ControlTyped, OthersStep DEF Arrive, Renumber

\* A command that applies takes the next revision, which no other one has.
LEMMA MutateStep ==
    ASSUME IndInv, NEW c \in Commands, Mutate(c)
    PROVE  IndInv'
<1> DEFINE n == instance.revision + 1
<1>1. /\ commands[c] = None /\ Expected[c] = instance.revision
      /\ instance' = [status |-> StatusOf(Operation[c]), revision |-> n]
      /\ checkpoint' = [checkpoint EXCEPT !.status = StatusOf(Operation[c])]
      /\ commands' = [commands EXCEPT ![c] = n]
      /\ UNCHANGED <<mailbox, accepted, local, faults>>
    BY DEF Mutate, Applies, Recorded
<1>2. /\ instance \in InstanceType /\ commands \in [Commands -> {None} \cup (Nat \ {0})]
      /\ CommandsInOrder
    BY DEF IndInv, Types
<1>3. /\ instance.revision \in Nat /\ n \in Nat /\ n # 0
      /\ 1..n = (1..instance.revision) \cup {n} /\ n = Expected[c] + 1
    BY <1>1, <1>2 DEF InstanceType
<1> HIDE DEF n
<1>5. StatusOf(Operation[c]) \in {"healthy", "paused"}
    BY DEF StatusOf
<1>6. instance' \in InstanceType /\ instance'.revision = n
    BY <1>1, <1>3, <1>5 DEF InstanceType
<1>7. /\ checkpoint' \in CheckpointType /\ checkpoint'.cursor = checkpoint.cursor
      /\ checkpoint'.version = checkpoint.version
    BY <1>1, <1>5, Typed DEF CheckpointType
<1>8. commands' \in [Commands -> {None} \cup (Nat \ {0})]
    BY <1>1, <1>2, <1>3
<1>9. CommandsInOrder'
    <2>1. commands'[c] = n /\ \A d \in Commands : d # c => commands'[d] = commands[d]
        BY <1>1, <1>2
    <2>2. {commands[d] : d \in Commands} \ {None} = 1..instance.revision
        BY <1>2 DEF CommandsInOrder
    <2>3. {commands'[d] : d \in Commands} \ {None}
             = ({commands[d] : d \in Commands} \ {None}) \cup ({n} \ {None})
        BY <1>1, <2>1
    <2>4. n # None
        BY <1>3, PollingAssumption
    <2>5. \A d \in Commands : commands'[d] # None => commands'[d] = Expected[d] + 1
        BY <1>2, <1>3, <2>1 DEF CommandsInOrder
    <2> QED BY <1>3, <1>6, <2>2, <2>3, <2>4, <2>5 DEF CommandsInOrder
<1> QED BY <1>1, <1>6, <1>7, <1>8, <1>9, Typed, OthersStep

\* Every step keeps the invariant.
LEMMA StepInv == IndInv /\ [Next]_vars => IndInv'
<1> SUFFICES ASSUME IndInv, [Next]_vars PROVE IndInv'
    OBVIOUS
<1>1. ASSUME NEW p \in Pollers, Run(p)
      PROVE  IndInv'
    BY <1>1, StartStep, LookStep, AcquireStep, LoadStep, FetchStep, FetchPausesStep,
       FetchOddStep, AcceptStep, AdvanceStep, ReportStep, ReleaseStep
    DEF Run
<1>2. ASSUME NEW p \in Pollers, Fails(p) \/ Crash(p)
      PROVE  IndInv'
    BY <1>2, FailsStep, CrashStep
<1>3. CASE UNCHANGED vars
    <2>1. /\ UNCHANGED <<mailbox, accepted, checkpoint, local, faults>>
          /\ UNCHANGED control
        BY <1>3 DEF vars, control
    <2> QED BY <2>1, Typed, ControlTyped, OthersStep
<1> QED BY <1>1, <1>2, <1>3, MutateStep, LapseStep, MailboxStep DEF Next

LEMMA Invariance == Spec => []IndInv
BY InitInv, StepInv, PTL DEF Spec

-----------------------------------------------------------------------------
(* The theorems *)

\* Each applied command has a revision of its own.
LEMMA RevisionBound ==
    ASSUME IndInv
    PROVE  instance.revision \in 0..Cardinality(Commands)
<1> DEFINE n == instance.revision
           S == {c \in Commands : commands[c] # None}
           f == [c \in S |-> commands[c]]
<1>1. n \in Nat /\ IsFiniteSet(Commands)
    BY PollingAssumption DEF IndInv, Types, InstanceType
<1>2. {commands[c] : c \in Commands} \ {None} = 1..n
    BY DEF IndInv, CommandsInOrder
<1>3. IsFiniteSet(S) /\ Cardinality(S) <= Cardinality(Commands)
    BY <1>1, FS_Subset
<1>4. f \in Surjection(S, 1..n)
    <2>1. f \in [S -> 1..n]
        BY <1>2
    <2>2. \A y \in 1..n : \E c \in S : f[c] = y
        BY <1>2
    <2> QED BY <2>1, <2>2 DEF Surjection
<1>5. Cardinality(1..n) <= Cardinality(S)
    BY <1>3, <1>4, FS_Surjection
<1>6. Cardinality(1..n) = n
    <2>1. 1 \in Int /\ n \in Int
        BY <1>1
    <2>2. Cardinality(1..n) = IF 1 > n THEN 0 ELSE n - 1 + 1
        BY <2>1, FS_Interval
    <2> QED BY <1>1, <2>2
<1>7. Cardinality(S) \in Nat /\ Cardinality(Commands) \in Nat
    BY <1>1, <1>3, FS_CardinalityType
<1> HIDE DEF n, S
<1>8. n \in 0..Cardinality(Commands)
    BY <1>1, <1>3, <1>5, <1>6, <1>7
<1> QED BY <1>8 DEF n

\* The tables, the mailbox and the pollers keep their types, and a control
\* revision is never higher than the number of commands.
THEOREM TypeCorrect == Spec => []TypeOK
<1>1. IndInv => TypeOK
    <2> SUFFICES ASSUME IndInv PROVE TypeOK
        OBVIOUS
    <2>1. instance.revision \in 0..Cardinality(Commands)
        BY RevisionBound
    <2>2. instance \in [status : {"healthy", "paused"}, revision : 0..Cardinality(Commands)]
        BY <2>1 DEF IndInv, Types, InstanceType
    <2>3. commands \in [Commands -> {None} \cup 1..Cardinality(Commands)]
        <3> SUFFICES ASSUME NEW c \in Commands, commands[c] # None
                     PROVE  commands[c] \in 1..Cardinality(Commands)
            BY DEF IndInv, Types
        <3>1. commands[c] \in 1..instance.revision
            BY DEF IndInv, CommandsInOrder
        <3>2. Cardinality(Commands) \in Nat
            BY FS_CardinalityType, PollingAssumption
        <3> QED BY <2>1, <3>1, <3>2
    <2> QED BY <2>2, <2>3 DEF IndInv, Types, TypeOK, Mailboxes, CheckpointType, LocalType
<1> QED BY <1>1, Invariance, PTL

\* mutate_status applies a command once, under the revision its sender saw, and
\* the revisions it reports are consecutive.
THEOREM CommandsOrdered == Spec => []CommandsInOrder
<1>1. IndInv => CommandsInOrder
    BY DEF IndInv
<1> QED BY <1>1, Invariance, PTL

\* One step never moves the cursor back.
LEMMA StepForward ==
    ASSUME IndInv, [Next]_vars, checkpoint.cursor # None
    PROVE  /\ checkpoint'.cursor # None
           /\ checkpoint'.cursor[1] = checkpoint.cursor[1]
           /\ checkpoint'.cursor[2] >= checkpoint.cursor[2]
<1>1. checkpoint.cursor \in Positions /\ checkpoint.cursor[2] \in Nat
    BY Typed DEF CheckpointType, Cursors, Positions
<1>2. checkpoint'.cursor = checkpoint.cursor => checkpoint'.cursor[2] >= checkpoint.cursor[2]
    BY <1>1
<1>3. ASSUME NEW p \in Pollers, Advance(p), Swaps(p)
      PROVE  /\ checkpoint'.cursor # None
             /\ checkpoint'.cursor[1] = checkpoint.cursor[1]
             /\ checkpoint'.cursor[2] >= checkpoint.cursor[2]
    <2>1. /\ checkpoint' = [checkpoint EXCEPT !.cursor = local[p].next,
                                              !.version = checkpoint.version + 1]
          /\ local[p].next \in Positions /\ Ahead(checkpoint.cursor, local[p].next)
        BY <1>3, Swapped
    <2>2. checkpoint'.cursor = local[p].next
        BY <2>1, Typed DEF CheckpointType
    <2>3. local[p].next # None
        BY <2>1, PollingAssumption DEF Positions
    <2> QED BY <2>1, <2>2, <2>3 DEF Ahead
<1>4. ASSUME NEW p \in Pollers, Run(p) \/ Fails(p) \/ Crash(p), ~(Advance(p) /\ Swaps(p))
      PROVE  checkpoint'.cursor = checkpoint.cursor
    <2>1. checkpoint \in CheckpointType
        BY Typed
    <2>2. CASE Start(p) \/ Look(p) \/ Acquire(p) \/ Load(p)
        BY <2>1, <2>2 DEF CheckpointType, Start, Configured, Look, Acquire, Load
    <2>3. CASE Fetch(p) \/ FetchPauses(p) \/ FetchOdd(p) \/ Accept(p) \/ Fails(p) \/ Crash(p)
        BY <2>3 DEF Fetch, FetchPauses, FetchOdd, Accept, Fails, Crash
    <2>4. CASE Advance(p)
        BY <1>4, <2>4 DEF Advance, Swaps
    <2>5. CASE Report(p) \/ Release(p)
        BY <2>1, <2>5 DEF CheckpointType, Report, Release
    <2> QED BY <1>4, <2>2, <2>3, <2>4, <2>5 DEF Run
<1>5. ASSUME NEW c \in Commands, Mutate(c)
      PROVE  checkpoint'.cursor = checkpoint.cursor
    BY <1>5, Typed DEF Mutate, CheckpointType
<1>6. Lapse \/ Arrive \/ Renumber \/ UNCHANGED vars =>
         checkpoint'.cursor = checkpoint.cursor
    BY Typed DEF Lapse, Arrive, Renumber, vars, CheckpointType
<1> QED BY <1>2, <1>3, <1>4, <1>5, <1>6 DEF Next

\* The cursor can be trusted, though acceptance, cursor and health ignore the
\* lease and any number of pollers may work at once: it never moves back and
\* never passes a mail that the inbox does not have.
THEOREM CursorIsSound == Spec => CursorSound
<1>1. IndInv => CursorCovered
    BY DEF IndInv, Passed, Done, CursorCovered
<1>2. IndInv /\ [Next]_vars =>
         [checkpoint.cursor # None =>
             /\ checkpoint'.cursor # None
             /\ checkpoint'.cursor[1] = checkpoint.cursor[1]
             /\ checkpoint'.cursor[2] >= checkpoint.cursor[2]]_vars
    BY StepForward
<1>3. Spec => CursorForward
    BY <1>2, Invariance, PTL DEF Spec, CursorForward
<1>4. Spec => []CursorCovered
    BY <1>1, Invariance, PTL
<1> QED BY <1>3, <1>4, PTL DEF CursorSound

-----------------------------------------------------------------------------
(***************************************************************************)
(* The deliveries.                                                         *)
(*                                                                         *)
(* The argument counts.  Every job but the last of a delivery is a dead    *)
(* letter, so the jobs that exist are the generations below one number n,  *)
(* the delivery shows the status of job n - 1, and replay_delivery, which  *)
(* counts the jobs, names the next one.  A worker that is not the owner any*)
(* more can only store events, and those only for the job it was given; the*)
(* fence of attempt and lease keeps it from the rows.                      *)
(***************************************************************************)

JobRows == [status : JobStatus, attempt : Attempts, timeup : BOOLEAN]

DeliveryRows == [status : {"absent", "queued", "processing", "succeeded", "failed", "quarantined"},
                 body : Bodies \cup {Null}]

WorkRows == [pc : {"idle", "claimed", "decode", "persisted", "retry", "reject"},
             job : Jobs \cup {Null}, attempt : Attempts]

\* The status of a delivery whose last job has the status s.
DeliveryStatus(s) ==
    CASE s = "queued"      -> "queued"
      [] s = "dead_letter" -> "failed"
      [] s = "retry_wait"  -> "processing"
      [] OTHER             -> s

\* The first n generations of d have a job, all but the last are dead letters,
\* and row, the delivery, says what the last one says.
Generations(d, row, rows, n) ==
    /\ \A g \in Gens(d) : (rows[<<d, g>>].status # "absent") <=> g < n
    /\ \A g \in Gens(d) : g + 1 < n => rows[<<d, g>>].status = "dead_letter"
    /\ n <= LastGen[d] + 1
    /\ (row.status = "absent") <=> (n = 0)
    /\ n # 0 => row.body \in Contents[d]
    /\ \A g \in Gens(d) : g + 1 = n => row.status = DeliveryStatus(rows[<<d, g>>].status)

\* The dead letters and the quarantine that go with the jobs.
LettersOf(rows) == {<<j, MaxAttempts[j[1]]>> : j \in {i \in Jobs : rows[i].status = "dead_letter"}}
HeldOf(rows) == {<<j, rows[j].attempt>> : j \in {i \in Jobs : rows[i].status = "quarantined"}}

AckOK(p, ds, rows) == ds[p[1]].body = p[2] /\ rows[<<p[1], 0>>].status # "absent"

\* Every event the delivery row d carries is stored and linked.
CompleteOK(d, row, ev, ln) ==
    \A x \in Items(d, row.body) : ev[x] # Null /\ ev[x][1] = d /\ ln[x] = d

LinkOK(x, ev, ln) == ln[x] # Null => ev[x] # Null /\ ev[x][1] = ln[x]

\* A worker has a job that exists; one that has stored its batch finds all of
\* its events there, whoever holds the job by now.
WorkerOK(l, ds, rows, ev) ==
    l.pc # "idle" =>
        /\ l.job \in Jobs /\ rows[l.job].status # "absent"
        /\ l.pc = "persisted" => \A x \in Items(l.job[1], ds[l.job[1]].body) : ev[x] = l.job

\* The inductive invariant of the deliveries.
DeliveryInv ==
    /\ DeliveryTypeOK
    /\ \A d \in Deliveries : \E n \in Nat : Generations(d, deliveries[d], jobs, n)
    /\ letters = LettersOf(jobs) /\ held = HeldOf(jobs)
    /\ \A p \in acked : AckOK(p, deliveries, jobs)
    /\ \A d \in Deliveries :
          deliveries[d].status = "succeeded" => CompleteOK(d, deliveries[d], events, links)
    /\ \A x \in Events : LinkOK(x, events, links)
    /\ \A w \in Workers : WorkerOK(working[w], deliveries, jobs, events)

-----------------------------------------------------------------------------
(* Jobs, generations and attempts *)

LEMMA JobParts ==
    ASSUME NEW j \in Jobs
    PROVE  j[1] \in Deliveries /\ j[2] \in Gens(j[1]) /\ j = <<j[1], j[2]>>
BY DEF Jobs

LEMMA JobOf ==
    ASSUME NEW d \in Deliveries, NEW g \in Gens(d)
    PROVE  <<d, g>> \in Jobs
BY DEF Jobs

LEMMA GenType ==
    ASSUME NEW d \in Deliveries
    PROVE  /\ LastGen[d] \in Nat /\ 0 \in Gens(d) /\ MaxAttempts[d] \in Nat
           /\ \A g : g \in Gens(d) <=> g \in Nat /\ g <= LastGen[d]
BY DeliveryAssumption DEF Gens

LEMMA SameSuccessor == \A a, b \in Nat : a + 1 = b + 1 => a = b
OBVIOUS

LEMMA NoneBelowZero == \A a \in Nat : ~(a < 0) /\ ~(a + 1 < 0) /\ a + 1 # 0
OBVIOUS

LEMMA AttemptType ==
    /\ Attempts \subseteq Nat /\ 0 \in Attempts
    /\ \A d \in Deliveries : \A a \in Nat : a <= MaxAttempts[d] => a \in Attempts
<1>1. ASSUME NEW d \in Deliveries, NEW a \in Nat, a <= MaxAttempts[d] PROVE a \in Attempts
  <2>1. a \in 0..MaxAttempts[d]
    BY <1>1, GenType
  <2> QED BY <2>1 DEF Attempts
<1>2. Attempts \subseteq Nat /\ 0 \in Attempts
  BY DEF Attempts
<1> QED BY <1>1, <1>2

\* replay_delivery counts the jobs: that is the number of the next one.
LEMMA NextGenIs ==
    ASSUME NEW d \in Deliveries, NEW row, NEW n \in Nat, Generations(d, row, jobs, n)
    PROVE  NextGen(d) = n
<1>1. {g \in Gens(d) : jobs[<<d, g>>].status # "absent"} = 0..(n - 1)
  <2>1. ASSUME NEW g \in Gens(d), jobs[<<d, g>>].status # "absent" PROVE g \in 0..(n - 1)
    BY <2>1, GenType DEF Generations
  <2>2. ASSUME NEW g \in 0..(n - 1) PROVE g \in Gens(d) /\ jobs[<<d, g>>].status # "absent"
    <3>1. g \in Gens(d) /\ g < n
      BY GenType DEF Generations
    <3> QED BY <3>1 DEF Generations
  <2> QED BY <2>1, <2>2
<1>2. Cardinality(0..(n - 1)) = n
  BY FS_Interval
<1> QED BY <1>1, <1>2 DEF NextGen

\* A job that is queued, waits or is worked on is the last of its delivery.
LEMMA LiveIsLast ==
    ASSUME DeliveryInv, NEW j \in Jobs,
           jobs[j].status \in {"queued", "retry_wait", "processing"}
    PROVE  /\ Generations(j[1], deliveries[j[1]], jobs, j[2] + 1)
           /\ deliveries[j[1]].status = DeliveryStatus(jobs[j].status)
<1>1. j[1] \in Deliveries /\ j[2] \in Gens(j[1]) /\ j = <<j[1], j[2]>>
  BY JobParts
<1>2. PICK n \in Nat : Generations(j[1], deliveries[j[1]], jobs, n)
  BY <1>1 DEF DeliveryInv
<1>3. j[2] \in Nat /\ j[2] < n /\ ~(j[2] + 1 < n)
  BY <1>1, <1>2, GenType DEF Generations
<1>4. n = j[2] + 1
  BY <1>3
<1>5. deliveries[j[1]].status = DeliveryStatus(jobs[j].status)
  BY <1>1, <1>2, <1>4 DEF Generations
<1> QED BY <1>2, <1>4, <1>5

\* A delivery is stored with its first job.
LEMMA StoredHasJob ==
    ASSUME DeliveryInv, NEW d \in Deliveries
    PROVE  /\ Stored(d) => deliveries[d].body \in Contents[d] /\ jobs[<<d, 0>>].status # "absent"
           /\ \A g \in Gens(d) : jobs[<<d, g>>].status # "absent" => Stored(d)
<1>1. PICK n \in Nat : Generations(d, deliveries[d], jobs, n)
  BY DEF DeliveryInv
<1>2. Stored(d) <=> n # 0
  BY <1>1 DEF Generations, Stored
<1>3. 0 \in Gens(d) /\ \A g \in Gens(d) : g \in Nat
  BY GenType
<1>4. n # 0 => 0 < n
  OBVIOUS
<1> QED BY <1>1, <1>2, <1>3, <1>4 DEF Generations

-----------------------------------------------------------------------------
(* What a step may do *)

\* Rows are never taken back: a job stays, a body stays, an event stays.
RowsStay ==
    /\ \A j \in Jobs : jobs[j].status # "absent" => jobs'[j].status # "absent"
    /\ \A d \in Deliveries : Stored(d) => deliveries'[d].body = deliveries[d].body
    /\ \A x \in Events : events[x] # Null => events'[x] = events[x]
    /\ \A x \in Events : links[x] # Null => links'[x] = links[x]

LEMMA ItemsAreEvents ==
    ASSUME NEW d \in Deliveries, NEW b \in Contents[d]
    PROVE  Items(d, b) \subseteq Events
BY DEF Events

LEMMA KnownStays ==
    ASSUME DeliveryInv, RowsStay
    PROVE  /\ \A p \in acked : AckOK(p, deliveries', jobs')
           /\ \A w \in Workers : WorkerOK(working[w], deliveries', jobs', events')
<1>1. ASSUME NEW p \in acked PROVE AckOK(p, deliveries', jobs')
  <2>1. p[1] \in Deliveries /\ AckOK(p, deliveries, jobs)
    BY DEF DeliveryInv, DeliveryTypeOK
  <2>2. 0 \in Gens(p[1]) /\ <<p[1], 0>> \in Jobs
    BY <2>1, GenType, JobOf
  <2>3. Stored(p[1])
    BY <2>1, <2>2, StoredHasJob DEF AckOK
  <2> QED BY <2>1, <2>2, <2>3 DEF AckOK, RowsStay
<1>2. ASSUME NEW w \in Workers PROVE WorkerOK(working[w], deliveries', jobs', events')
  <2> DEFINE l == working[w]
  <2>1. WorkerOK(l, deliveries, jobs, events)
    BY DEF DeliveryInv
  <2> HIDE DEF l
  <2>2. CASE l.pc = "idle"
    BY <2>2 DEF WorkerOK, l
  <2>3. CASE l.pc # "idle"
    <3>1. l.job \in Jobs /\ jobs[l.job].status # "absent" /\ jobs'[l.job].status # "absent"
      BY <2>1, <2>3 DEF WorkerOK, RowsStay
    <3>2. l.job[1] \in Deliveries /\ Stored(l.job[1])
      BY <3>1, JobParts, StoredHasJob
    <3>3. deliveries[l.job[1]].body \in Contents[l.job[1]]
          /\ deliveries'[l.job[1]].body = deliveries[l.job[1]].body
      BY <3>2, StoredHasJob DEF RowsStay
    <3>4. ASSUME l.pc = "persisted", NEW x \in Items(l.job[1], deliveries'[l.job[1]].body)
          PROVE  events'[x] = l.job
      <4>1. x \in Events /\ events[x] = l.job
        BY <2>1, <2>3, <3>2, <3>3, <3>4, ItemsAreEvents DEF WorkerOK
      <4>2. l.job # Null
        BY <3>1, DeliveryAssumption
      <4> QED BY <4>1, <4>2 DEF RowsStay
    <3> QED BY <3>1, <3>4 DEF WorkerOK, l
  <2> QED BY <2>2, <2>3
<1> QED BY <1>1, <1>2

\* A step keeps the invariant if it takes no row back and what it adds is right.
LEMMA StepKeeps ==
    ASSUME DeliveryInv, DeliveryTypeOK', RowsStay,
           \A d \in Deliveries : \E n \in Nat : Generations(d, deliveries'[d], jobs', n),
           letters' = LettersOf(jobs'), held' = HeldOf(jobs'),
           \A p \in acked' : p \in acked \/ AckOK(p, deliveries', jobs'),
           \A d \in Deliveries : deliveries'[d].status = "succeeded" =>
               \/ deliveries[d].status = "succeeded"
               \/ CompleteOK(d, deliveries'[d], events', links'),
           \A x \in Events : links'[x] = links[x] \/ LinkOK(x, events', links'),
           \A w \in Workers : \/ working'[w] = working[w]
                              \/ WorkerOK(working'[w], deliveries', jobs', events')
    PROVE  DeliveryInv'
<1>1. \A p \in acked' : AckOK(p, deliveries', jobs')
  BY KnownStays
<1>2. \A w \in Workers : WorkerOK(working'[w], deliveries', jobs', events')
  BY KnownStays
<1>3. \A x \in Events : LinkOK(x, events', links')
  <2> TAKE x \in Events
  <2>1. CASE links'[x] = links[x]
    <3>1. LinkOK(x, events, links)
      BY DEF DeliveryInv
    <3> QED BY <2>1, <3>1 DEF LinkOK, RowsStay
  <2> QED BY <2>1
<1>4. \A d \in Deliveries :
          deliveries'[d].status = "succeeded" => CompleteOK(d, deliveries'[d], events', links')
  <2> SUFFICES ASSUME NEW d \in Deliveries, deliveries[d].status = "succeeded"
               PROVE  CompleteOK(d, deliveries'[d], events', links')
    OBVIOUS
  <2>1. Stored(d) /\ CompleteOK(d, deliveries[d], events, links)
    BY DEF DeliveryInv, Stored
  <2>2. deliveries'[d].body = deliveries[d].body /\ deliveries[d].body \in Contents[d]
    BY <2>1, StoredHasJob DEF RowsStay
  <2>3. ASSUME NEW x \in Items(d, deliveries[d].body)
        PROVE  events'[x] # Null /\ events'[x][1] = d /\ links'[x] = d
    <3>1. x \in Events
      BY <2>2, ItemsAreEvents
    <3>2. events[x] # Null /\ events[x][1] = d /\ links[x] = d /\ d # Null
      BY <2>1, DeliveryAssumption DEF CompleteOK
    <3> QED BY <3>1, <3>2 DEF RowsStay
  <2> QED BY <2>2, <2>3 DEF CompleteOK
<1> QED BY <1>1, <1>2, <1>3, <1>4 DEF DeliveryInv

\* The same when the step changes nothing but what one worker remembers.
LEMMA OnlyWorkerMoves ==
    ASSUME DeliveryInv, NEW w \in Workers, NEW l \in WorkRows,
           working' = [working EXCEPT ![w] = l], WorkerOK(l, deliveries, jobs, events),
           UNCHANGED <<deliveries, nonces, jobs, tables, paused, acked>>
    PROVE  DeliveryInv'
<1>1. UNCHANGED <<deliveries, nonces, jobs, events, links, letters, held, paused, acked>>
  BY DEF tables
<1>2. working \in [Workers -> WorkRows] /\ DeliveryTypeOK
  BY DEF DeliveryInv, DeliveryTypeOK, WorkRows
<1>3. working' \in [Workers -> WorkRows]
  BY <1>2
<1>4. DeliveryTypeOK'
  BY <1>1, <1>2, <1>3 DEF DeliveryTypeOK, WorkRows
<1>5. RowsStay
  BY <1>1 DEF RowsStay
<1>6. \A v \in Workers : \/ working'[v] = working[v]
                         \/ WorkerOK(working'[v], deliveries', jobs', events')
  BY <1>1, <1>2
<1>7. \A d \in Deliveries : \E n \in Nat : Generations(d, deliveries'[d], jobs', n)
  BY <1>1 DEF DeliveryInv
<1>8. letters' = LettersOf(jobs') /\ held' = HeldOf(jobs')
  BY <1>1 DEF DeliveryInv
<1> QED BY <1>1, <1>4, <1>5, <1>6, <1>7, <1>8, StepKeeps

LEMMA NoWorkType ==
    ASSUME NEW ds, NEW rows, NEW ev
    PROVE  NoWork \in WorkRows /\ WorkerOK(NoWork, ds, rows, ev)
BY AttemptType DEF NoWork, WorkRows, WorkerOK

\* Heartbeat, failures and the death of a worker.
LEMMA DeliveryMemorySteps ==
    ASSUME DeliveryInv, NEW w \in Workers,
           Heartbeat(w) \/ Reject(w) \/ Stumble(w) \/ PersistConflict(w) \/ WorkerDies(w)
    PROVE  DeliveryInv'
<1> DEFINE k == working[w]
<1>1. working \in [Workers -> WorkRows] /\ k \in WorkRows /\ WorkerOK(k, deliveries, jobs, events)
  BY DEF DeliveryInv, DeliveryTypeOK, WorkRows
<1>2. UNCHANGED <<deliveries, nonces, jobs, tables, paused, acked>>
  BY DEF Heartbeat, Reject, Stumble, PersistConflict, WorkerDies
<1>3. CASE WorkerDies(w)
  BY <1>2, <1>3, NoWorkType, OnlyWorkerMoves DEF WorkerDies
<1>4. CASE Heartbeat(w) \/ Reject(w) \/ Stumble(w) \/ PersistConflict(w)
  <2>1. PICK pc \in {"decode", "reject", "retry"} : k.pc # "idle" /\ GoOn(w, pc)
    BY <1>4 DEF Heartbeat, Reject, Stumble, PersistConflict, Ready
  <2> DEFINE l == [k EXCEPT !.pc = pc]
  <2>2. l \in WorkRows /\ l.job = k.job /\ l.pc = pc
    BY <1>1 DEF WorkRows
  <2>3. WorkerOK(l, deliveries, jobs, events)
    BY <1>1, <2>1, <2>2 DEF WorkerOK
  <2>4. working' = [working EXCEPT ![w] = l]
    BY <1>1, <2>1 DEF GoOn
  <2> HIDE DEF l
  <2> QED BY <1>2, <2>2, <2>3, <2>4, OnlyWorkerMoves
<1> QED BY <1>3, <1>4

\* persist_normalized_batch.
LEMMA PersistStep ==
    ASSUME DeliveryInv, NEW w \in Workers, Persist(w)
    PROVE  DeliveryInv'
<1> DEFINE k == working[w]
           l == [k EXCEPT !.pc = "persisted"]
<1>1. working \in [Workers -> WorkRows] /\ k \in WorkRows /\ WorkerOK(k, deliveries, jobs, events)
      /\ events \in [Events -> Jobs \cup {Null}] /\ DeliveryTypeOK
  BY DEF DeliveryInv, DeliveryTypeOK, WorkRows
<1>2. k.pc = "decode" /\ ~Conflicts(w) /\ events' = Inserted(w)
      /\ UNCHANGED <<deliveries, nonces, jobs, links, letters, held, paused, acked>>
  BY DEF Persist, Ready
<1>3. working' = [working EXCEPT ![w] = l]
  BY <1>1 DEF Persist, GoOn
<1>4. l \in WorkRows /\ l.job = k.job /\ l.pc = "persisted"
  BY <1>1 DEF WorkRows
<1>5. k.job \in Jobs /\ jobs[k.job].status # "absent"
  BY <1>1, <1>2 DEF WorkerOK
<1>6. WorkerItems(w) = Items(k.job[1], deliveries[k.job[1]].body) /\ WorkerItems(w) \subseteq Events
  <2>1. k.job[1] \in Deliveries /\ Stored(k.job[1])
    BY <1>5, JobParts, StoredHasJob
  <2>2. deliveries[k.job[1]].body \in Contents[k.job[1]]
    BY <2>1, StoredHasJob
  <2> QED BY <2>1, <2>2, ItemsAreEvents DEF WorkerItems, Body
<1>7. \A x \in Events : events'[x] = IF x \in WorkerItems(w) THEN k.job ELSE events[x]
  BY <1>2 DEF Inserted
<1>8. \A x \in WorkerItems(w) : events[x] \in {Null, k.job}
  BY <1>2 DEF Conflicts
<1> HIDE DEF l
<1>9. events' \in [Events -> Jobs \cup {Null}]
  BY <1>1, <1>2, <1>5 DEF Inserted
<1>10. working' \in [Workers -> WorkRows]
  BY <1>1, <1>3, <1>4
<1>11. DeliveryTypeOK'
  BY <1>1, <1>2, <1>9, <1>10 DEF DeliveryTypeOK, WorkRows
<1>12. RowsStay
  BY <1>2, <1>7, <1>8 DEF RowsStay
<1>13. WorkerOK(l, deliveries', jobs', events')
  BY <1>2, <1>4, <1>5, <1>6, <1>7 DEF WorkerOK
<1>14. \A v \in Workers : \/ working'[v] = working[v]
                          \/ WorkerOK(working'[v], deliveries', jobs', events')
  BY <1>1, <1>3, <1>13
<1>15. \A d \in Deliveries : \E n \in Nat : Generations(d, deliveries'[d], jobs', n)
  BY <1>2 DEF DeliveryInv
<1>16. letters' = LettersOf(jobs') /\ held' = HeldOf(jobs')
  BY <1>2 DEF DeliveryInv
<1> QED BY <1>2, <1>11, <1>12, <1>14, <1>15, <1>16, StepKeeps

-----------------------------------------------------------------------------
(* A job changes, and its delivery with it *)

\* The last job j of a delivery becomes row and the delivery follows.
LEMMA JobChanges ==
    ASSUME DeliveryInv, NEW j \in Jobs, NEW row \in JobRows,
           jobs[j].status \in {"queued", "retry_wait", "processing"},
           row.status # "absent", row.attempt <= MaxAttempts[j[1]],
           jobs' = [jobs EXCEPT ![j] = row],
           deliveries' = [deliveries EXCEPT ![j[1]].status = DeliveryStatus(row.status)]
    PROVE  /\ jobs' \in [Jobs -> JobRows] /\ deliveries' \in [Deliveries -> DeliveryRows]
           /\ \A i \in Jobs : jobs'[i].attempt <= MaxAttempts[i[1]]
           /\ \A i \in Jobs : jobs[i].status # "absent" => jobs'[i].status # "absent"
           /\ \A d \in Deliveries : deliveries'[d].body = deliveries[d].body
           /\ \A d \in Deliveries : d # j[1] => deliveries'[d] = deliveries[d]
           /\ deliveries'[j[1]].status = DeliveryStatus(row.status)
           /\ \A d \in Deliveries : \E n \in Nat : Generations(d, deliveries'[d], jobs', n)
<1> DEFINE e == j[1]
           m == j[2] + 1
           del == [deliveries[e] EXCEPT !.status = DeliveryStatus(row.status)]
<1>1. jobs \in [Jobs -> JobRows] /\ deliveries \in [Deliveries -> DeliveryRows]
      /\ \A i \in Jobs : jobs[i].attempt <= MaxAttempts[i[1]]
  BY DEF DeliveryInv, DeliveryTypeOK, JobRows, DeliveryRows
<1>2. e \in Deliveries /\ j[2] \in Gens(e) /\ j = <<e, j[2]>> /\ j[2] \in Nat
  BY JobParts, GenType
<1>3. Generations(e, deliveries[e], jobs, m)
  BY LiveIsLast
<1>4. DeliveryStatus(row.status) \in {"queued", "processing", "succeeded", "failed", "quarantined"}
  BY DEF JobRows, JobStatus, DeliveryStatus
<1>5. deliveries' = [deliveries EXCEPT ![e] = del]
  BY <1>1, <1>2
<1>6. del \in DeliveryRows /\ del.body = deliveries[e].body /\ del.status = DeliveryStatus(row.status)
  BY <1>1, <1>2, <1>4 DEF DeliveryRows
<1> HIDE DEF del
<1>7. Generations(e, del, jobs', m)
  <2>1. \A g \in Gens(e) : <<e, g>> \in Jobs /\ g \in Nat
    BY <1>2, JobOf, GenType
  <2>2. \A g \in Gens(e) : g # j[2] => jobs'[<<e, g>>] = jobs[<<e, g>>]
    BY <1>1, <1>2, <2>1
  <2>3. jobs'[<<e, j[2]>>] = row
    BY <1>1, <1>2
  <2>4. j[2] < m /\ ~(j[2] + 1 < m) /\ m # 0
    BY <1>2
  <2>5. del.status # "absent"
    BY <1>4, <1>6
  <2>6. \A g \in Gens(e) : g + 1 = m => g = j[2]
    BY <1>2, <2>1, SameSuccessor
  <2>7. \A g \in Gens(e) : (jobs'[<<e, g>>].status # "absent") <=> g < m
    BY <1>3, <2>2, <2>3, <2>4 DEF Generations
  <2>8. \A g \in Gens(e) : g + 1 < m => jobs'[<<e, g>>].status = "dead_letter"
    BY <1>3, <2>2, <2>4 DEF Generations
  <2>9. m <= LastGen[e] + 1 /\ del.body \in Contents[e]
    BY <1>3, <1>6, <2>4 DEF Generations
  <2>10. \A g \in Gens(e) : g + 1 = m => del.status = DeliveryStatus(jobs'[<<e, g>>].status)
    BY <1>6, <2>3, <2>6
  <2> QED BY <2>4, <2>5, <2>7, <2>8, <2>9, <2>10 DEF Generations
<1>8. \A d \in Deliveries : \E n \in Nat : Generations(d, deliveries'[d], jobs', n)
  <2> TAKE d \in Deliveries
  <2>1. CASE d = e
    <3>1. deliveries'[d] = del
      BY <1>1, <1>5, <2>1
    <3>2. m \in Nat
      BY <1>2
    <3> QED BY <1>7, <2>1, <3>1, <3>2
  <2>2. CASE d # e
    <3>1. PICK n \in Nat : Generations(d, deliveries[d], jobs, n)
      BY DEF DeliveryInv
    <3>2. deliveries'[d] = deliveries[d]
      BY <1>1, <1>5, <2>2
    <3>3. \A g \in Gens(d) : jobs'[<<d, g>>] = jobs[<<d, g>>]
      BY <1>1, <1>2, <2>2, JobOf
    <3>4. Generations(d, deliveries'[d], jobs', n)
      BY <3>1, <3>2, <3>3 DEF Generations
    <3> QED BY <3>4
  <2> QED BY <2>1, <2>2
<1>9. jobs' \in [Jobs -> JobRows] /\ deliveries' \in [Deliveries -> DeliveryRows]
  BY <1>1, <1>5, <1>6
<1>10. \A i \in Jobs : jobs'[i].attempt <= MaxAttempts[i[1]]
  BY <1>1
<1>11. \A i \in Jobs : jobs[i].status # "absent" => jobs'[i].status # "absent"
  BY <1>1
<1>12. \A d \in Deliveries : deliveries'[d].body = deliveries[d].body
                             /\ (d # e => deliveries'[d] = deliveries[d])
  BY <1>1, <1>5, <1>6
<1>13. deliveries'[e].status = DeliveryStatus(row.status)
  BY <1>1, <1>2, <1>5, <1>6
<1> QED BY <1>8, <1>9, <1>10, <1>11, <1>12, <1>13

\* The job j of rows has become row; it was not ended before.
BecomesIn(rows, j, row) ==
    /\ jobs[j].status \in {"queued", "retry_wait", "processing"}
    /\ rows = [jobs EXCEPT ![j] = row]

\* The dead letters and the quarantine when one row changes.
LEMMA LedgersFollow ==
    ASSUME DeliveryInv, NEW j \in Jobs, NEW row, NEW rows, BecomesIn(rows, j, row)
    PROVE  /\ row.status = "dead_letter" =>
                  LettersOf(rows) = letters \cup {<<j, MaxAttempts[j[1]]>>}
           /\ row.status # "dead_letter" => LettersOf(rows) = letters
           /\ row.status = "quarantined" => HeldOf(rows) = held \cup {<<j, row.attempt>>}
           /\ row.status # "quarantined" => HeldOf(rows) = held
<1>1. /\ rows[j] = row /\ \A i \in Jobs : i # j => rows[i] = jobs[i]
      /\ jobs[j].status \in {"queued", "retry_wait", "processing"}
  BY DEF DeliveryInv, DeliveryTypeOK, BecomesIn
<1>2. {i \in Jobs : rows[i].status = "dead_letter"} =
          IF row.status = "dead_letter"
          THEN {i \in Jobs : jobs[i].status = "dead_letter"} \cup {j}
          ELSE {i \in Jobs : jobs[i].status = "dead_letter"}
  BY <1>1
<1>3. {i \in Jobs : rows[i].status = "quarantined"} =
          IF row.status = "quarantined"
          THEN {i \in Jobs : jobs[i].status = "quarantined"} \cup {j}
          ELSE {i \in Jobs : jobs[i].status = "quarantined"}
  BY <1>1
<1>4. letters = LettersOf(jobs) /\ held = HeldOf(jobs)
  BY DEF DeliveryInv
<1>5. LettersOf(rows) = IF row.status = "dead_letter"
                         THEN letters \cup {<<j, MaxAttempts[j[1]]>>} ELSE letters
  <2> DEFINE S == {i \in Jobs : jobs[i].status = "dead_letter"}
             T == {i \in Jobs : rows[i].status = "dead_letter"}
  <2>1. LettersOf(rows) = {<<i, MaxAttempts[i[1]]>> : i \in T}
        /\ letters = {<<i, MaxAttempts[i[1]]>> : i \in S}
    BY <1>4 DEF LettersOf
  <2>2. T = IF row.status = "dead_letter" THEN S \cup {j} ELSE S
    BY <1>2
  <2> HIDE DEF S, T
  <2> QED BY <2>1, <2>2
<1>6. HeldOf(rows) = IF row.status = "quarantined" THEN held \cup {<<j, row.attempt>>} ELSE held
  <2> DEFINE S == {i \in Jobs : jobs[i].status = "quarantined"}
             T == {i \in Jobs : rows[i].status = "quarantined"}
  <2>1. HeldOf(rows) = {<<i, rows[i].attempt>> : i \in T}
        /\ held = {<<i, jobs[i].attempt>> : i \in S}
    BY <1>4 DEF HeldOf
  <2>2. T = IF row.status = "quarantined" THEN S \cup {j} ELSE S
    BY <1>3
  <2>3. \A i \in S : i \in Jobs /\ i # j
    BY <1>1
  <2>4. \A i \in S : rows[i] = jobs[i]
    BY <1>1, <2>3
  <2> HIDE DEF S, T
  <2>5. held = {<<i, rows[i].attempt>> : i \in S}
    BY <2>1, <2>4
  <2>6. CASE row.status = "quarantined"
    <3> DEFINE F(i) == <<i, rows[i].attempt>>
    <3>1. T = S \cup {j} /\ F(j) = <<j, row.attempt>>
      BY <1>1, <2>2, <2>6
    <3>2. HeldOf(rows) = {F(i) : i \in T} /\ held = {F(i) : i \in S}
      BY <2>1, <2>5
    <3> HIDE DEF F
    <3>3. HeldOf(rows) = held \cup {F(j)}
      BY <3>1, <3>2
    <3> QED BY <2>6, <3>1, <3>3
  <2>7. CASE row.status # "quarantined"
    BY <2>1, <2>2, <2>5, <2>7
  <2> QED BY <2>6, <2>7
<1> QED BY <1>5, <1>6

\* One transaction on the last job of a delivery.
LEMMA JobStep ==
    ASSUME DeliveryInv, NEW j \in Jobs, NEW row \in JobRows,
           jobs[j].status \in {"queued", "retry_wait", "processing"},
           row.status # "absent", row.attempt <= MaxAttempts[j[1]],
           jobs' = [jobs EXCEPT ![j] = row],
           deliveries' = [deliveries EXCEPT ![j[1]].status = DeliveryStatus(row.status)],
           letters' = IF row.status = "dead_letter"
                      THEN letters \cup {<<j, MaxAttempts[j[1]]>>} ELSE letters,
           held' = IF row.status = "quarantined" THEN held \cup {<<j, row.attempt>>} ELSE held,
           UNCHANGED <<nonces, events, paused, acked>>,
           links' \in [Events -> Deliveries \cup {Null}],
           \A x \in Events : \/ links'[x] = links[x]
                             \/ links[x] = Null /\ LinkOK(x, events, links'),
           row.status = "succeeded" => CompleteOK(j[1], deliveries[j[1]], events, links'),
           working' \in [Workers -> WorkRows],
           \A w \in Workers : \/ working'[w] = working[w]
                              \/ WorkerOK(working'[w], deliveries', jobs', events')
    PROVE  DeliveryInv'
<1>1. /\ jobs' \in [Jobs -> JobRows] /\ deliveries' \in [Deliveries -> DeliveryRows]
      /\ \A i \in Jobs : jobs'[i].attempt <= MaxAttempts[i[1]]
      /\ \A i \in Jobs : jobs[i].status # "absent" => jobs'[i].status # "absent"
      /\ \A d \in Deliveries : deliveries'[d].body = deliveries[d].body
      /\ \A d \in Deliveries : d # j[1] => deliveries'[d] = deliveries[d]
      /\ deliveries'[j[1]].status = DeliveryStatus(row.status)
      /\ \A d \in Deliveries : \E n \in Nat : Generations(d, deliveries'[d], jobs', n)
  BY JobChanges
<1>2. letters' = LettersOf(jobs') /\ held' = HeldOf(jobs')
  <2>1. /\ row.status = "dead_letter" =>
               LettersOf(jobs') = letters \cup {<<j, MaxAttempts[j[1]]>>}
        /\ row.status # "dead_letter" => LettersOf(jobs') = letters
        /\ row.status = "quarantined" => HeldOf(jobs') = held \cup {<<j, row.attempt>>}
        /\ row.status # "quarantined" => HeldOf(jobs') = held
    <3>1. BecomesIn(jobs', j, row)
      BY DEF BecomesIn
    <3> QED BY <3>1, LedgersFollow
  <2> QED BY <2>1
<1>3. j[1] \in Deliveries
  BY JobParts
<1>4. letters' \subseteq Jobs \X Attempts /\ held' \subseteq Jobs \X Attempts
  <2>1. letters \subseteq Jobs \X Attempts /\ held \subseteq Jobs \X Attempts
    BY DEF DeliveryInv, DeliveryTypeOK
  <2>2. MaxAttempts[j[1]] \in Attempts
    BY <1>3, GenType, AttemptType
  <2>3. row.attempt \in Attempts
    BY DEF JobRows
  <2>4. <<j, MaxAttempts[j[1]]>> \in Jobs \X Attempts /\ <<j, row.attempt>> \in Jobs \X Attempts
    BY <2>2, <2>3
  <2> QED BY <2>1, <2>4
<1>5. DeliveryTypeOK'
  BY <1>1, <1>4 DEF DeliveryInv, DeliveryTypeOK, WorkRows, JobRows, DeliveryRows
<1>6. RowsStay
  BY <1>1 DEF RowsStay
<1>7. ASSUME NEW d \in Deliveries, deliveries'[d].status = "succeeded",
             deliveries[d].status # "succeeded"
      PROVE  CompleteOK(d, deliveries'[d], events', links')
  <2>1. d = j[1]
    BY <1>1, <1>7
  <2>2. row.status = "succeeded"
    BY <1>1, <1>7, <2>1 DEF DeliveryStatus
  <2> QED BY <1>1, <1>3, <2>1, <2>2 DEF CompleteOK
<1>8. \A x \in Events : links'[x] = links[x] \/ LinkOK(x, events', links')
  OBVIOUS
<1>9. \A p \in acked' : p \in acked
  OBVIOUS
<1> QED BY <1>1, <1>2, <1>5, <1>6, <1>7, <1>8, <1>9, StepKeeps

LEMMA LinksUnchanged ==
    ASSUME DeliveryInv, links' = links
    PROVE  /\ links' \in [Events -> Deliveries \cup {Null}]
           /\ \A x \in Events : links'[x] = links[x]
BY DEF DeliveryInv, DeliveryTypeOK

\* claim_processing_job.
LEMMA DeliveryClaimStep ==
    ASSUME DeliveryInv, NEW w \in Workers, NEW j \in Jobs, Claim(w, j)
    PROVE  DeliveryInv'
<1> DEFINE n == jobs[j].attempt + 1
           row == [status |-> "processing", attempt |-> n, timeup |-> FALSE]
           pc == IF Channel[j[1]] = "unsupported" THEN "reject" ELSE "claimed"
           l == [pc |-> pc, job |-> j, attempt |-> n]
<1>1. jobs \in [Jobs -> JobRows] /\ deliveries \in [Deliveries -> DeliveryRows]
      /\ working \in [Workers -> WorkRows]
  BY DEF DeliveryInv, DeliveryTypeOK, JobRows, DeliveryRows, WorkRows
<1>2. jobs[j].status \in {"queued", "retry_wait", "processing"}
      /\ jobs[j].attempt < MaxAttempts[j[1]]
  BY DEF Claim, Claimable
<1>3. j[1] \in Deliveries /\ jobs[j].attempt \in Nat /\ MaxAttempts[j[1]] \in Nat
  BY <1>1, JobParts, AttemptType, GenType DEF JobRows
<1>4. n \in Nat /\ n <= MaxAttempts[j[1]]
  BY <1>2, <1>3
<1>5. n \in Attempts
  BY <1>3, <1>4, AttemptType
<1>6. jobs' = [jobs EXCEPT ![j] = row] /\ working' = [working EXCEPT ![w] = l]
      /\ UNCHANGED <<nonces, events, links, letters, held, paused, acked>>
  BY DEF Claim, tables
<1> HIDE DEF n
<1>7. row \in JobRows /\ row.status = "processing" /\ row.attempt = n
  BY <1>5 DEF JobRows, JobStatus
<1>8. l \in WorkRows /\ l.job = j /\ l.pc # "persisted"
  BY <1>5 DEF WorkRows
<1> HIDE DEF row, l
<1>9. deliveries' = [deliveries EXCEPT ![j[1]].status = DeliveryStatus(row.status)]
  <2>1. deliveries[j[1]].status = DeliveryStatus(jobs[j].status)
    BY <1>2, LiveIsLast
  <2>2. DeliveryStatus(jobs[j].status) \in {"queued", "processing"}
    BY <1>2 DEF DeliveryStatus
  <2>3. DeliveryStatus(row.status) = "processing"
    BY <1>7 DEF DeliveryStatus
  <2> QED BY <2>1, <2>2, <2>3 DEF Claim, StartDelivery
<1>10. working' \in [Workers -> WorkRows]
  BY <1>1, <1>6, <1>8
<1>11. jobs'[j].status # "absent"
  BY <1>1, <1>6, <1>7
<1>12. WorkerOK(l, deliveries', jobs', events')
  BY <1>8, <1>11 DEF WorkerOK
<1>13. \A v \in Workers : \/ working'[v] = working[v]
                          \/ WorkerOK(working'[v], deliveries', jobs', events')
  BY <1>1, <1>6, <1>12
<1> QED BY <1>2, <1>4, <1>6, <1>7, <1>9, <1>10, <1>13, LinksUnchanged, JobStep

\* What a worker that holds its job knows of it.
LEMMA HolderKnows ==
    ASSUME DeliveryInv, NEW w \in Workers, working[w].pc # "idle", Holds(w)
    PROVE  /\ working[w].job \in Jobs /\ working[w].job[1] \in Deliveries
           /\ jobs[working[w].job].status = "processing"
           /\ jobs[working[w].job].attempt = working[w].attempt
           /\ deliveries[working[w].job[1]].status = "processing"
           /\ deliveries[working[w].job[1]].body \in Contents[working[w].job[1]]
           /\ working[w].attempt <= MaxAttempts[working[w].job[1]]
           /\ working[w].attempt \in Nat /\ MaxAttempts[working[w].job[1]] \in Nat
<1> DEFINE j == working[w].job
<1>1. j \in Jobs
  BY DEF DeliveryInv, WorkerOK
<1>2. jobs[j].status = "processing" /\ jobs[j].attempt = working[w].attempt
  BY DEF Holds, Owns
<1>3. j[1] \in Deliveries /\ j[2] \in Gens(j[1]) /\ j = <<j[1], j[2]>>
  BY <1>1, JobParts
<1>4. deliveries[j[1]].status = "processing"
  BY <1>1, <1>2, LiveIsLast DEF DeliveryStatus
<1>5. deliveries[j[1]].body \in Contents[j[1]]
  BY <1>3, <1>4, StoredHasJob DEF Stored
<1>6. jobs[j].attempt <= MaxAttempts[j[1]] /\ working[w].attempt \in Nat
  BY <1>1, AttemptType DEF DeliveryInv, DeliveryTypeOK
<1> QED BY <1>1, <1>2, <1>3, <1>4, <1>5, <1>6, GenType

\* The job of a worker that holds it ends, and the worker forgets it.
LEMMA HolderEnds ==
    ASSUME DeliveryInv, NEW w \in Workers, working[w].pc # "idle", Holds(w),
           NEW status \in {"retry_wait", "succeeded", "dead_letter", "quarantined"},
           EndJob(w, status),
           deliveries' = [deliveries EXCEPT ![working[w].job[1]].status = DeliveryStatus(status)],
           letters' = IF status = "dead_letter"
                      THEN letters \cup {<<working[w].job, MaxAttempts[working[w].job[1]]>>}
                      ELSE letters,
           held' = IF status = "quarantined"
                   THEN held \cup {<<working[w].job, working[w].attempt>>} ELSE held,
           working' = [working EXCEPT ![w] = NoWork],
           UNCHANGED <<nonces, events, paused, acked>>,
           links' \in [Events -> Deliveries \cup {Null}],
           \A x \in Events : \/ links'[x] = links[x]
                             \/ links[x] = Null /\ LinkOK(x, events, links'),
           status = "succeeded" => CompleteOK(working[w].job[1], deliveries[working[w].job[1]],
                                              events, links')
    PROVE  DeliveryInv'
<1> DEFINE j == working[w].job
           row == [jobs[j] EXCEPT !.status = status, !.timeup = FALSE]
<1>1. jobs \in [Jobs -> JobRows] /\ working \in [Workers -> WorkRows]
  BY DEF DeliveryInv, DeliveryTypeOK, JobRows, WorkRows
<1>2. j \in Jobs /\ jobs[j].status = "processing" /\ jobs[j].attempt = working[w].attempt
      /\ working[w].attempt <= MaxAttempts[j[1]]
  BY HolderKnows
<1>3. row \in JobRows /\ row.status = status /\ row.attempt = working[w].attempt
  BY <1>1, <1>2 DEF JobRows, JobStatus
<1>4. jobs' = [jobs EXCEPT ![j] = row]
  BY <1>1, <1>2 DEF EndJob, JobRows
<1> HIDE DEF row
<1>5. working' \in [Workers -> WorkRows]
  BY <1>1, NoWorkType
<1>6. \A v \in Workers : \/ working'[v] = working[v]
                         \/ WorkerOK(working'[v], deliveries', jobs', events')
  BY <1>1, NoWorkType
<1>7. row.status # "absent" /\ jobs[j].status \in {"queued", "retry_wait", "processing"}
  BY <1>2, <1>3
<1> QED BY <1>2, <1>3, <1>4, <1>5, <1>6, <1>7, JobStep

\* retry_processing_job and quarantine_processing_job.
LEMMA FailureSteps ==
    ASSUME DeliveryInv, NEW w \in Workers, Retry(w) \/ Quarantine(w)
    PROVE  DeliveryInv'
<1> DEFINE j == working[w].job
<1>1. working[w].pc # "idle" /\ Holds(w) /\ working' = [working EXCEPT ![w] = NoWork]
      /\ UNCHANGED <<nonces, events, links, paused, acked>>
  BY DEF Retry, Quarantine
<1>2. j \in Jobs /\ j[1] \in Deliveries /\ deliveries[j[1]].status = "processing"
      /\ working[w].attempt <= MaxAttempts[j[1]]
      /\ working[w].attempt \in Nat /\ MaxAttempts[j[1]] \in Nat
  BY <1>1, HolderKnows
<1>3. deliveries \in [Deliveries -> DeliveryRows]
  BY DEF DeliveryInv, DeliveryTypeOK, DeliveryRows
<1>4. CASE Quarantine(w)
  <2>1. EndJob(w, "quarantined") /\ letters' = letters
        /\ held' = held \cup {<<j, working[w].attempt>>}
    BY <1>4 DEF Quarantine
  <2>2. deliveries' = [deliveries EXCEPT ![j[1]].status = DeliveryStatus("quarantined")]
    BY <1>2, <1>4 DEF Quarantine, EndDelivery, DeliveryStatus
  <2> QED BY <1>1, <2>1, <2>2, LinksUnchanged, HolderEnds
<1>5. CASE Retry(w) /\ Exhausted(w)
  <2>1. working[w].attempt = MaxAttempts[j[1]]
    BY <1>2, <1>5 DEF Exhausted
  <2>2. EndJob(w, "dead_letter") /\ held' = held
        /\ letters' = letters \cup {<<j, MaxAttempts[j[1]]>>}
    BY <1>5, <2>1 DEF Retry, RecordDeadLetter
  <2>3. deliveries' = [deliveries EXCEPT ![j[1]].status = DeliveryStatus("dead_letter")]
    BY <1>2, <1>5 DEF Retry, EndDelivery, DeliveryStatus
  <2> QED BY <1>1, <2>2, <2>3, LinksUnchanged, HolderEnds
<1>6. CASE Retry(w) /\ ~Exhausted(w)
  <2>1. EndJob(w, "retry_wait") /\ held' = held /\ letters' = letters /\ deliveries' = deliveries
    BY <1>6 DEF Retry
  <2>2. deliveries' = [deliveries EXCEPT ![j[1]].status = DeliveryStatus("retry_wait")]
    BY <1>2, <1>3, <2>1 DEF DeliveryStatus, DeliveryRows
  <2> QED BY <1>1, <2>1, <2>2, LinksUnchanged, HolderEnds
<1> QED BY <1>4, <1>5, <1>6

\* complete_processing_job.
LEMMA CompleteStep ==
    ASSUME DeliveryInv, NEW w \in Workers, Complete(w)
    PROVE  DeliveryInv'
<1> DEFINE j == working[w].job
           d == j[1]
<1>1. working[w].pc = "persisted" /\ Holds(w) /\ working' = [working EXCEPT ![w] = NoWork]
      /\ UNCHANGED <<nonces, events, letters, held, paused, acked>> /\ EndJob(w, "succeeded")
  BY DEF Complete
<1>2. j \in Jobs /\ d \in Deliveries /\ deliveries[d].status = "processing"
      /\ deliveries[d].body \in Contents[d]
  BY <1>1, HolderKnows
<1>3. WorkerItems(w) = Items(d, deliveries[d].body) /\ WorkerItems(w) \subseteq Events
  BY <1>2, ItemsAreEvents DEF WorkerItems, Body
<1>4. \A x \in WorkerItems(w) : events[x] = j
  BY <1>1, <1>3 DEF DeliveryInv, WorkerOK
<1>5. j # Null /\ d # Null
  BY <1>2, DeliveryAssumption
<1>6. links \in [Events -> Deliveries \cup {Null}] /\ \A x \in Events : LinkOK(x, events, links)
  BY DEF DeliveryInv, DeliveryTypeOK
<1>7. links' = [x \in Events |-> IF x \in WorkerItems(w) /\ links[x] = Null THEN d ELSE links[x]]
  BY DEF Complete
<1>8. deliveries' = [deliveries EXCEPT ![d].status = DeliveryStatus("succeeded")]
  BY <1>2 DEF Complete, EndDelivery, DeliveryStatus
<1> HIDE DEF d
<1>9. links' \in [Events -> Deliveries \cup {Null}]
  BY <1>2, <1>6, <1>7
<1>10. ASSUME NEW x \in Events
       PROVE  \/ links'[x] = links[x]
              \/ links[x] = Null /\ LinkOK(x, events, links')
  <2>1. CASE x \in WorkerItems(w) /\ links[x] = Null
    <3>1. links'[x] = d /\ events[x] = j
      BY <1>4, <1>7, <2>1
    <3> QED BY <1>5, <2>1, <3>1 DEF LinkOK, d
  <2>2. CASE ~(x \in WorkerItems(w) /\ links[x] = Null)
    <3>1. links'[x] = links[x]
      BY <1>7, <2>2
    <3> QED BY <3>1
  <2> QED BY <2>1, <2>2
<1>11. ASSUME NEW x \in WorkerItems(w)
       PROVE  events[x] # Null /\ events[x][1] = d /\ links'[x] = d
  <2>1. x \in Events /\ events[x] = j
    BY <1>3, <1>4
  <2>2. links[x] = Null => links'[x] = d
    BY <1>7, <2>1
  <2>3. links[x] # Null => links'[x] = links[x] /\ links[x] = events[x][1]
    BY <1>6, <1>7, <2>1 DEF LinkOK
  <2> QED BY <1>5, <2>1, <2>2, <2>3 DEF d
<1>12. CompleteOK(d, deliveries[d], events, links')
  BY <1>3, <1>11 DEF CompleteOK
<1> QED BY <1>1, <1>8, <1>9, <1>10, <1>12, HolderEnds DEF d

\* A lease or a wait runs out.
LEMMA DeliveryTimeStep ==
    ASSUME DeliveryInv, NEW j \in Jobs, TimeUp(j)
    PROVE  DeliveryInv'
<1> DEFINE row == [jobs[j] EXCEPT !.timeup = TRUE]
<1>1. jobs \in [Jobs -> JobRows] /\ deliveries \in [Deliveries -> DeliveryRows]
      /\ working \in [Workers -> WorkRows] /\ jobs[j].attempt <= MaxAttempts[j[1]]
  BY DEF DeliveryInv, DeliveryTypeOK, JobRows, DeliveryRows, WorkRows
<1>2. jobs[j].status \in {"processing", "retry_wait"}
      /\ UNCHANGED <<deliveries, nonces, events, links, letters, held, paused, working, acked>>
  BY DEF TimeUp, tables
<1>3. row \in JobRows /\ row.status = jobs[j].status /\ row.attempt = jobs[j].attempt
  BY <1>1 DEF JobRows
<1>4. jobs' = [jobs EXCEPT ![j] = row]
  BY <1>1 DEF TimeUp, JobRows
<1> HIDE DEF row
<1>5. j[1] \in Deliveries /\ deliveries[j[1]].status = DeliveryStatus(row.status)
  BY <1>2, <1>3, JobParts, LiveIsLast
<1>6. deliveries' = [deliveries EXCEPT ![j[1]].status = DeliveryStatus(row.status)]
  BY <1>1, <1>2, <1>5 DEF DeliveryRows
<1>7. row.status # "absent" /\ row.status # "dead_letter" /\ row.status # "quarantined"
      /\ row.status # "succeeded" /\ jobs[j].status \in {"queued", "retry_wait", "processing"}
      /\ row.attempt <= MaxAttempts[j[1]]
  BY <1>1, <1>2, <1>3
<1>8. working' \in [Workers -> WorkRows] /\ \A v \in Workers : working'[v] = working[v]
  BY <1>1, <1>2
<1> QED BY <1>2, <1>3, <1>4, <1>6, <1>7, <1>8, LinksUnchanged, JobStep

-----------------------------------------------------------------------------
(* A job is queued *)

\* The end of the nonce and the pause of the instance touch no row.
LEMMA NothingQueued ==
    ASSUME DeliveryInv, UNCHANGED <<deliveries, jobs, tables, working, acked>>,
           nonces' \in [Deliveries -> {"unused", "live", "expired"}], paused' \in BOOLEAN
    PROVE  DeliveryInv'
<1>1. UNCHANGED <<events, links, letters, held>>
  BY DEF tables
<1>2. DeliveryTypeOK'
  BY <1>1 DEF DeliveryInv, DeliveryTypeOK
<1>3. RowsStay
  BY <1>1 DEF RowsStay
<1>4. \A d \in Deliveries : \E n \in Nat : Generations(d, deliveries'[d], jobs', n)
  BY DEF DeliveryInv
<1>5. letters' = LettersOf(jobs') /\ held' = HeldOf(jobs')
  BY <1>1 DEF DeliveryInv
<1> QED BY <1>1, <1>2, <1>3, <1>4, <1>5, StepKeeps

\* Job n of d, the next one, is queued, and d with it.
LEMMA NextGeneration ==
    ASSUME DeliveryInv, NEW d \in Deliveries, NEW n \in Gens(d),
           Generations(d, deliveries[d], jobs, n),
           n # 0 => deliveries[d].status = "failed",
           jobs'[<<d, n>>].status = "queued",
           \A g \in Gens(d) : g # n => jobs'[<<d, g>>] = jobs[<<d, g>>],
           deliveries'[d].status = "queued", deliveries'[d].body \in Contents[d]
    PROVE  /\ jobs[<<d, n>>].status = "absent"
           /\ n + 1 \in Nat /\ Generations(d, deliveries'[d], jobs', n + 1)
<1>1. n \in Nat /\ n <= LastGen[d] /\ \A g \in Gens(d) : g \in Nat /\ <<d, g>> \in Jobs
  BY GenType, JobOf
<1>2. jobs[<<d, n>>].status = "absent"
  BY <1>1 DEF Generations
<1>3. \A g \in Gens(d) : (jobs'[<<d, g>>].status # "absent") <=> g < n + 1
  <2> TAKE g \in Gens(d)
  <2>1. CASE g = n
    BY <1>1, <2>1
  <2>2. CASE g # n
    <3>1. g < n <=> g < n + 1
      BY <1>1, <2>2
    <3> QED BY <2>2, <3>1 DEF Generations
  <2> QED BY <2>1, <2>2
<1>4. \A g \in Gens(d) : g + 1 < n + 1 => jobs'[<<d, g>>].status = "dead_letter"
  <2> SUFFICES ASSUME NEW g \in Gens(d), g + 1 < n + 1
               PROVE  jobs[<<d, g>>].status = "dead_letter"
    BY <1>1
  <2>1. CASE g + 1 < n
    BY <2>1 DEF Generations
  <2>2. CASE g + 1 = n
    <3>1. "failed" = DeliveryStatus(jobs[<<d, g>>].status)
      BY <1>1, <2>2 DEF Generations
    <3>2. jobs[<<d, g>>].status \in JobStatus
      BY <1>1 DEF DeliveryInv, DeliveryTypeOK
    <3> QED BY <3>1, <3>2 DEF DeliveryStatus, JobStatus
  <2>3. g \in Nat /\ n \in Nat
    BY <1>1
  <2>4. g + 1 < n \/ g + 1 = n
    BY <2>3
  <2> QED BY <2>1, <2>2, <2>4
<1>5. \A g \in Gens(d) : g + 1 = n + 1 =>
          deliveries'[d].status = DeliveryStatus(jobs'[<<d, g>>].status)
  <2> SUFFICES ASSUME NEW g \in Gens(d), g + 1 = n + 1
               PROVE  deliveries'[d].status = DeliveryStatus(jobs'[<<d, g>>].status)
    OBVIOUS
  <2>1. g = n
    BY <1>1
  <2> QED BY <2>1 DEF DeliveryStatus
<1>6. n + 1 # 0 /\ n + 1 <= LastGen[d] + 1 /\ deliveries'[d].status # "absent"
  BY <1>1, GenType
<1> QED BY <1>1, <1>2, <1>3, <1>4, <1>5, <1>6 DEF Generations

\* A job that is queued is in no ledger.
LEMMA LedgersStay ==
    ASSUME DeliveryInv, letters' = letters, held' = held,
           \A j \in Jobs : \/ jobs'[j] = jobs[j]
                           \/ jobs[j].status = "absent" /\ jobs'[j].status = "queued"
    PROVE  letters' = LettersOf(jobs') /\ held' = HeldOf(jobs')
<1>1. letters = LettersOf(jobs) /\ held = HeldOf(jobs)
  BY DEF DeliveryInv
<1>2. {i \in Jobs : jobs'[i].status = "dead_letter"} = {i \in Jobs : jobs[i].status = "dead_letter"}
  OBVIOUS
<1>3. LettersOf(jobs') = LettersOf(jobs)
  BY <1>2 DEF LettersOf
<1> DEFINE S == {i \in Jobs : jobs[i].status = "quarantined"}
           T == {i \in Jobs : jobs'[i].status = "quarantined"}
<1>4. S = T /\ \A i \in S : jobs'[i].attempt = jobs[i].attempt
  OBVIOUS
<1>5. HeldOf(jobs) = {<<i, jobs[i].attempt>> : i \in S}
      /\ HeldOf(jobs') = {<<i, jobs'[i].attempt>> : i \in T}
  BY DEF HeldOf
<1> HIDE DEF S, T
<1>6. HeldOf(jobs) = HeldOf(jobs')
  BY <1>4, <1>5
<1> QED BY <1>1, <1>3, <1>6

\* The delivery d is queued, with its next job.
Queues(d) == LET n == NextGen(d) IN
    /\ n \in Gens(d) /\ (n # 0 => deliveries[d].status = "failed")
    /\ jobs'[<<d, n>>] = [NoJob EXCEPT !.status = "queued"]
    /\ \A g \in Gens(d) : g # n => jobs'[<<d, g>>] = jobs[<<d, g>>]
    /\ deliveries'[d].status = "queued" /\ deliveries'[d].body \in Contents[d]
    /\ Stored(d) => deliveries'[d].body = deliveries[d].body

LEMMA QueuesNext ==
    ASSUME DeliveryInv, NEW d \in Deliveries, Queues(d)
    PROVE  /\ \E n \in Nat : Generations(d, deliveries'[d], jobs', n)
           /\ \A g \in Gens(d) :
                 \/ jobs'[<<d, g>>] = jobs[<<d, g>>]
                 \/ jobs[<<d, g>>].status = "absent" /\ jobs'[<<d, g>>].status = "queued"
<1>1. PICK n \in Nat : Generations(d, deliveries[d], jobs, n)
  BY DEF DeliveryInv
<1>2. NextGen(d) = n
  BY <1>1, NextGenIs
<1>3. /\ n \in Gens(d) /\ (n # 0 => deliveries[d].status = "failed")
      /\ jobs'[<<d, n>>].status = "queued"
      /\ \A g \in Gens(d) : g # n => jobs'[<<d, g>>] = jobs[<<d, g>>]
      /\ deliveries'[d].status = "queued" /\ deliveries'[d].body \in Contents[d]
  BY <1>2 DEF Queues, NoJob
<1>4. /\ jobs[<<d, n>>].status = "absent"
      /\ n + 1 \in Nat /\ Generations(d, deliveries'[d], jobs', n + 1)
  BY <1>1, <1>3, NextGeneration
<1> QED BY <1>3, <1>4

\* Acceptance and replay: some deliveries are queued, the others stay.
LEMMA DeliveryQueueStep ==
    ASSUME DeliveryInv, jobs' \in [Jobs -> JobRows], deliveries' \in [Deliveries -> DeliveryRows],
           \A d \in Deliveries :
               \/ Queues(d)
               \/ /\ deliveries'[d] = deliveries[d]
                  /\ \A g \in Gens(d) : jobs'[<<d, g>>] = jobs[<<d, g>>],
           nonces' \in [Deliveries -> {"unused", "live", "expired"}],
           UNCHANGED <<tables, paused, working>>,
           acked' \subseteq Deliveries \X Bodies,
           \A p \in acked' : p \in acked \/ AckOK(p, deliveries', jobs')
    PROVE  DeliveryInv'
<1>1. UNCHANGED <<events, links, letters, held>>
  BY DEF tables
<1>2. \A j \in Jobs : \/ jobs'[j] = jobs[j]
                      \/ jobs[j].status = "absent" /\ jobs'[j].status = "queued"
  <2> TAKE j \in Jobs
  <2>1. j[1] \in Deliveries /\ j[2] \in Gens(j[1]) /\ j = <<j[1], j[2]>>
    BY JobParts
  <2>2. CASE Queues(j[1])
    <3>1. \/ jobs'[<<j[1], j[2]>>] = jobs[<<j[1], j[2]>>]
          \/ jobs[<<j[1], j[2]>>].status = "absent" /\ jobs'[<<j[1], j[2]>>].status = "queued"
      BY <2>1, <2>2, QueuesNext
    <3> QED BY <2>1, <3>1
  <2>3. CASE ~Queues(j[1])
    <3>1. jobs'[<<j[1], j[2]>>] = jobs[<<j[1], j[2]>>]
      BY <2>1, <2>3
    <3> QED BY <2>1, <3>1
  <2> QED BY <2>2, <2>3
<1>3. \A j \in Jobs : jobs'[j].attempt <= MaxAttempts[j[1]]
  <2> TAKE j \in Jobs
  <2>1. j[1] \in Deliveries /\ j[2] \in Gens(j[1]) /\ j = <<j[1], j[2]>>
    BY JobParts
  <2>2. jobs[j].attempt <= MaxAttempts[j[1]] /\ MaxAttempts[j[1]] \in Nat
    BY <2>1, GenType DEF DeliveryInv, DeliveryTypeOK
  <2>3. CASE jobs'[j] = jobs[j]
    BY <2>2, <2>3
  <2>4. CASE jobs'[j] # jobs[j]
    <3>1. Queues(j[1]) /\ j[2] = NextGen(j[1])
      BY <2>1, <2>4 DEF Queues
    <3>2. jobs'[j] = [NoJob EXCEPT !.status = "queued"]
      BY <2>1, <3>1 DEF Queues
    <3>3. jobs'[j].attempt = 0
      BY <3>2 DEF NoJob
    <3> QED BY <2>2, <3>3
  <2> QED BY <2>3, <2>4
<1>4. DeliveryTypeOK'
  BY <1>1, <1>3 DEF DeliveryInv, DeliveryTypeOK, JobRows, DeliveryRows
<1>5. RowsStay
  <2>1. \A d \in Deliveries : Stored(d) => deliveries'[d].body = deliveries[d].body
    BY DEF Queues
  <2>2. \A j \in Jobs : jobs[j].status # "absent" => jobs'[j].status # "absent"
    BY <1>2
  <2> QED BY <1>1, <2>1, <2>2 DEF RowsStay
<1>6. \A d \in Deliveries : \E n \in Nat : Generations(d, deliveries'[d], jobs', n)
  <2> TAKE d \in Deliveries
  <2>1. CASE Queues(d)
    BY <2>1, QueuesNext
  <2>2. CASE ~Queues(d)
    <3>1. PICK n \in Nat : Generations(d, deliveries[d], jobs, n)
      BY DEF DeliveryInv
    <3>2. deliveries'[d] = deliveries[d] /\ \A g \in Gens(d) : jobs'[<<d, g>>] = jobs[<<d, g>>]
      BY <2>2
    <3>3. Generations(d, deliveries'[d], jobs', n)
      BY <3>1, <3>2 DEF Generations
    <3> QED BY <3>3
  <2> QED BY <2>1, <2>2
<1>7. letters' = LettersOf(jobs') /\ held' = HeldOf(jobs')
  BY <1>1, <1>2, LedgersStay
<1>8. ASSUME NEW d \in Deliveries, deliveries'[d].status = "succeeded"
      PROVE  deliveries[d].status = "succeeded"
  BY <1>8 DEF Queues
<1> QED BY <1>1, <1>4, <1>5, <1>6, <1>7, <1>8, StepKeeps

LEMMA QueuedRow ==
    /\ [NoJob EXCEPT !.status = "queued"] \in JobRows
    /\ [NoJob EXCEPT !.status = "queued"].status = "queued"
    /\ \A d \in Deliveries : \A b \in Contents[d] : [status |-> "queued", body |-> b] \in DeliveryRows
<1>1. NoJob \in JobRows
  BY AttemptType DEF NoJob, JobRows, JobStatus
<1>2. \A d \in Deliveries : \A b \in Contents[d] : b \in Bodies
  BY DEF Bodies
<1>3. /\ [NoJob EXCEPT !.status = "queued"] \in JobRows
      /\ [NoJob EXCEPT !.status = "queued"].status = "queued"
  BY <1>1 DEF JobRows, JobStatus
<1> QED BY <1>2, <1>3 DEF DeliveryRows

\* DurableDeliveryInbox.accept, of a known delivery or of a new one.
LEMMA InboxStep ==
    ASSUME DeliveryInv, NEW d \in Deliveries, NEW b \in Contents[d], Inbox(d, b),
           nonces' \in [Deliveries -> {"unused", "live", "expired"}],
           UNCHANGED <<tables, paused, working>>
    PROVE  DeliveryInv'
<1> DEFINE row == [status |-> "queued", body |-> b]
           job == [NoJob EXCEPT !.status = "queued"]
<1>1. jobs \in [Jobs -> JobRows] /\ deliveries \in [Deliveries -> DeliveryRows]
      /\ acked \subseteq Deliveries \X Bodies /\ paused \in BOOLEAN
  BY DEF DeliveryInv, DeliveryTypeOK, JobRows, DeliveryRows
<1>2. <<d, 0>> \in Jobs /\ 0 \in Gens(d) /\ <<d, b>> \in Deliveries \X Bodies
  BY GenType, JobOf DEF Bodies
<1>3. acked' = acked \cup {<<d, b>>}
      /\ deliveries' = [deliveries EXCEPT ![d] = IF Stored(d) THEN @ ELSE row]
      /\ jobs' = [jobs EXCEPT ![<<d, 0>>] = IF @.status = "absent" THEN job ELSE @]
  BY DEF Inbox, Acknowledge, AcceptDelivery, EnqueueJob
<1>4. row \in DeliveryRows /\ job \in JobRows /\ job.status = "queued"
      /\ row.status = "queued" /\ row.body = b
  BY QueuedRow
<1>5. job = [NoJob EXCEPT !.status = "queued"]
  OBVIOUS
<1> HIDE DEF row, job
<1>6. jobs' \in [Jobs -> JobRows] /\ deliveries' \in [Deliveries -> DeliveryRows]
      /\ acked' \subseteq Deliveries \X Bodies
  BY <1>1, <1>2, <1>3, <1>4
<1>7. \A e \in Deliveries : e # d =>
          deliveries'[e] = deliveries[e] /\ \A g \in Gens(e) : jobs'[<<e, g>>] = jobs[<<e, g>>]
  BY <1>1, <1>3, JobOf
<1>8. CASE Stored(d)
  <2>1. jobs[<<d, 0>>].status # "absent" /\ deliveries[d].body = b
    BY <1>8, StoredHasJob DEF Inbox, SameBody
  <2>2. deliveries'[d] = deliveries[d] /\ jobs' = jobs
    BY <1>1, <1>2, <1>3, <1>8, <2>1
  <2>3. AckOK(<<d, b>>, deliveries', jobs')
    BY <2>1, <2>2 DEF AckOK
  <2>4. \A e \in Deliveries : deliveries'[e] = deliveries[e]
                              /\ \A g \in Gens(e) : jobs'[<<e, g>>] = jobs[<<e, g>>]
    BY <1>7, <2>2
  <2> QED BY <1>1, <1>3, <1>6, <2>3, <2>4, DeliveryQueueStep
<1>9. CASE ~Stored(d)
  <2>1. PICK n \in Nat : Generations(d, deliveries[d], jobs, n)
    BY DEF DeliveryInv
  <2>2. n = 0
    BY <1>9, <2>1 DEF Generations, Stored
  <2>3. NextGen(d) = 0
    BY <2>1, <2>2, NextGenIs
  <2>4. jobs[<<d, 0>>].status = "absent"
    BY <1>2, <1>9, StoredHasJob
  <2>5. jobs'[<<d, 0>>] = job /\ deliveries'[d] = row
        /\ \A g \in Gens(d) : g # 0 => jobs'[<<d, g>>] = jobs[<<d, g>>]
    BY <1>1, <1>2, <1>3, <1>9, <2>4, JobOf
  <2>6. Queues(d)
    BY <1>2, <1>4, <1>5, <1>9, <2>3, <2>5 DEF Queues
  <2>7. AckOK(<<d, b>>, deliveries', jobs')
    BY <1>4, <2>5 DEF AckOK
  <2> QED BY <1>1, <1>3, <1>6, <1>7, <2>6, <2>7, DeliveryQueueStep
<1> QED BY <1>8, <1>9

\* The provider and the nonce.
LEMMA ReceiveSteps ==
    ASSUME DeliveryInv, NEW d \in Deliveries, Receive(d)
    PROVE  DeliveryInv'
<1>1. nonces \in [Deliveries -> {"unused", "live", "expired"}] /\ paused \in BOOLEAN
      /\ jobs \in [Jobs -> JobRows]
  BY DEF DeliveryInv, DeliveryTypeOK, JobRows
<1>2. ASSUME NEW b \in Contents[d], AcceptPolled(d, b)
      PROVE  DeliveryInv'
  <2>1. Inbox(d, b) /\ UNCHANGED <<tables, paused, working>> /\ nonces' = nonces
    BY <1>2 DEF AcceptPolled
  <2> QED BY <1>1, <2>1, InboxStep
<1>3. ASSUME NEW b \in Contents[d], AcceptFirst(d, b)
      PROVE  DeliveryInv'
  <2>1. Inbox(d, b) /\ UNCHANGED <<tables, paused, working>>
        /\ nonces' = [nonces EXCEPT ![d] = "live"]
    BY <1>3 DEF AcceptFirst
  <2>2. nonces' \in [Deliveries -> {"unused", "live", "expired"}]
    BY <1>1, <2>1
  <2> QED BY <2>1, <2>2, InboxStep
<1>4. ASSUME NEW b \in Contents[d], AcceptDuplicate(d, b)
      PROVE  DeliveryInv'
  <2>1. SameBody(d, b) /\ AcceptDelivery(d, b) /\ Acknowledge(d, b)
        /\ jobs[<<d, 0>>].status # "absent" /\ jobs' = jobs
        /\ nonces' = nonces /\ UNCHANGED <<tables, paused, working>>
    BY <1>4 DEF AcceptDuplicate
  <2>2. EnqueueJob(<<d, 0>>)
    BY <1>1, <2>1 DEF EnqueueJob
  <2>3. Inbox(d, b)
    BY <2>1, <2>2 DEF Inbox
  <2> QED BY <1>1, <2>1, <2>3, InboxStep
<1>5. CASE NonceExpires(d)
  <2>1. nonces' \in [Deliveries -> {"unused", "live", "expired"}] /\ paused' = paused
    BY <1>1, <1>5 DEF NonceExpires
  <2> QED BY <1>1, <1>5, <2>1, NothingQueued DEF NonceExpires
<1> QED BY <1>2, <1>3, <1>4, <1>5 DEF Receive, AcceptAuthenticated

\* replay_failed.
LEMMA ReplayStep ==
    ASSUME DeliveryInv, NEW c, ReplayFailed(c)
    PROVE  DeliveryInv'
<1> DEFINE job == [NoJob EXCEPT !.status = "queued"]
<1>1. jobs \in [Jobs -> JobRows] /\ deliveries \in [Deliveries -> DeliveryRows]
      /\ acked \subseteq Deliveries \X Bodies
      /\ nonces \in [Deliveries -> {"unused", "live", "expired"}]
  BY DEF DeliveryInv, DeliveryTypeOK, JobRows, DeliveryRows
<1>2. PICK S \in Selected(c) :
          /\ deliveries' = [d \in Deliveries |->
                 IF d \in S THEN [deliveries[d] EXCEPT !.status = "queued"] ELSE deliveries[d]]
          /\ jobs' = [j \in Jobs |->
                 IF j[1] \in S /\ j[2] = NextGen(j[1]) THEN job ELSE jobs[j]]
  BY DEF ReplayFailed
<1>3. UNCHANGED <<nonces, tables, paused, working, acked>>
  BY DEF ReplayFailed
<1>4. job \in JobRows /\ job = [NoJob EXCEPT !.status = "queued"]
  BY QueuedRow
<1>5. \A d \in S : d \in Deliveries /\ deliveries[d].status = "failed" /\ NextGen(d) \in Gens(d)
  BY DEF Selected, Replayable
<1> HIDE DEF job
<1>6. jobs' \in [Jobs -> JobRows]
  BY <1>1, <1>2, <1>4
<1>7. deliveries' \in [Deliveries -> DeliveryRows]
  BY <1>1, <1>2 DEF DeliveryRows
<1>8. ASSUME NEW d \in Deliveries
      PROVE  \A g \in Gens(d) : jobs'[<<d, g>>] =
                 IF d \in S /\ g = NextGen(d) THEN job ELSE jobs[<<d, g>>]
  BY <1>2, JobOf
<1>9. ASSUME NEW d \in S PROVE Queues(d)
  <2>1. d \in Deliveries /\ Stored(d) /\ deliveries[d].status = "failed" /\ NextGen(d) \in Gens(d)
    BY <1>5 DEF Stored
  <2>2. deliveries'[d] = [deliveries[d] EXCEPT !.status = "queued"]
    BY <1>2, <2>1
  <2>3. deliveries'[d].status = "queued" /\ deliveries'[d].body = deliveries[d].body
    BY <1>1, <2>1, <2>2 DEF DeliveryRows
  <2>4. deliveries[d].body \in Contents[d]
    BY <2>1, StoredHasJob
  <2> QED BY <1>4, <1>8, <2>1, <2>3, <2>4 DEF Queues
<1>10. \A d \in Deliveries : d \notin S =>
           deliveries'[d] = deliveries[d] /\ \A g \in Gens(d) : jobs'[<<d, g>>] = jobs[<<d, g>>]
  BY <1>2, <1>8
<1> QED BY <1>1, <1>3, <1>6, <1>7, <1>9, <1>10, DeliveryQueueStep

-----------------------------------------------------------------------------
(* The theorems *)

LEMMA DeliveryStarts == DeliveryInit => DeliveryInv
<1> SUFFICES ASSUME DeliveryInit PROVE DeliveryInv
  OBVIOUS
<1> USE DEF DeliveryInit
<1>1. \A d \in Deliveries : deliveries[d].status = "absent" /\ deliveries[d].body = Null
  BY DEF NoDelivery
<1>2. \A j \in Jobs : jobs[j].status = "absent" /\ jobs[j].attempt = 0
  BY DEF NoJob
<1>3. DeliveryTypeOK
  <2>1. \A j \in Jobs : jobs[j].attempt <= MaxAttempts[j[1]]
    BY <1>2, JobParts, GenType
  <2>2. jobs \in [Jobs -> JobRows]
    BY AttemptType DEF NoJob, JobRows, JobStatus
  <2>3. working \in [Workers -> WorkRows]
    BY NoWorkType
  <2>4. deliveries \in [Deliveries -> DeliveryRows]
    BY DEF NoDelivery, DeliveryRows
  <2> QED BY <2>1, <2>2, <2>3, <2>4 DEF DeliveryTypeOK, JobRows, WorkRows, DeliveryRows
<1>4. ASSUME NEW d \in Deliveries
      PROVE  \E n \in Nat : Generations(d, deliveries[d], jobs, n)
  <2>1. \A g \in Gens(d) : g \in Nat /\ jobs[<<d, g>>].status = "absent"
    BY <1>2, JobOf, GenType
  <2>2. \A g \in Gens(d) : ~(g < 0) /\ ~(g + 1 < 0) /\ g + 1 # 0
    BY <2>1, NoneBelowZero
  <2>3. 0 <= LastGen[d] + 1
    BY GenType
  <2>4. Generations(d, deliveries[d], jobs, 0)
    BY <1>1, <2>1, <2>2, <2>3 DEF Generations
  <2> QED BY <2>4
<1>5. letters = LettersOf(jobs) /\ held = HeldOf(jobs)
  <2>1. {i \in Jobs : jobs[i].status = "dead_letter"} = {}
        /\ {i \in Jobs : jobs[i].status = "quarantined"} = {}
    BY <1>2
  <2> QED BY <2>1 DEF LettersOf, HeldOf
<1>6. \A x \in Events : LinkOK(x, events, links)
  BY DEF LinkOK
<1>7. \A w \in Workers : WorkerOK(working[w], deliveries, jobs, events)
  BY NoWorkType
<1> QED BY <1>1, <1>3, <1>4, <1>5, <1>6, <1>7 DEF DeliveryInv

LEMMA DeliverySteps == DeliveryInv /\ [DeliveryNext]_deliveryVars => DeliveryInv'
<1> SUFFICES ASSUME DeliveryInv, [DeliveryNext]_deliveryVars PROVE DeliveryInv'
  OBVIOUS
<1>1. nonces \in [Deliveries -> {"unused", "live", "expired"}] /\ paused \in BOOLEAN
  BY DEF DeliveryInv, DeliveryTypeOK
<1>2. ASSUME NEW d \in Deliveries, Receive(d) PROVE DeliveryInv'
  BY <1>2, ReceiveSteps
<1>3. ASSUME NEW c \in {Channel[d] : d \in Deliveries}, ReplayFailed(c) PROVE DeliveryInv'
  BY <1>3, ReplayStep
<1>4. ASSUME NEW w \in Workers, Work(w) \/ WorkerDies(w) PROVE DeliveryInv'
  BY <1>4, DeliveryClaimStep, DeliveryMemorySteps, PersistStep, CompleteStep, FailureSteps DEF Work
<1>5. ASSUME NEW j \in Jobs, TimeUp(j) PROVE DeliveryInv'
  BY <1>5, DeliveryTimeStep
<1>6. CASE SetPaused
  <2>1. paused' \in BOOLEAN /\ nonces' = nonces
    BY <1>1, <1>6 DEF SetPaused
  <2> QED BY <1>1, <1>6, <2>1, NothingQueued DEF SetPaused
<1>7. CASE UNCHANGED deliveryVars
  BY <1>1, <1>7, NothingQueued DEF deliveryVars, tables
<1> QED BY <1>2, <1>3, <1>4, <1>5, <1>6, <1>7 DEF DeliveryNext

\* Inductive invariant of the processing jobs: every generation but the last of
\* a delivery is a dead letter, the delivery shows the status of its last job,
\* dead letters and quarantine hold exactly the jobs that ended so, and a worker
\* that stored its batch finds the events there, even when it lost the lease.
THEOREM DeliveryInvariant == DeliverySpec => []DeliveryInv
<1> QED BY DeliveryStarts, DeliverySteps, PTL DEF DeliverySpec

\* The rows have their types and no job is claimed more often than its
\* max_attempts allows (claim_processing_job).
THEOREM DeliveryTypeCorrect == DeliverySpec => []DeliveryTypeOK
<1>1. DeliveryInv => DeliveryTypeOK
  BY DEF DeliveryInv
<1> QED BY <1>1, DeliveryInvariant, PTL

LEMMA DeliveryInvLosesNothing == DeliveryInv => NothingLost
<1> SUFFICES ASSUME DeliveryInv PROVE NothingLost
  OBVIOUS
<1>1. AckedIsStored
  BY DEF DeliveryInv, AckOK, AckedIsStored
<1>2. SucceededIsComplete
  BY DEF DeliveryInv, CompleteOK, LinkOK, SucceededIsComplete
<1>3. letters = {<<j, MaxAttempts[j[1]]>> : j \in {i \in Jobs : jobs[i].status = "dead_letter"}}
      /\ held = {<<j, jobs[j].attempt>> : j \in {i \in Jobs : jobs[i].status = "quarantined"}}
  BY DEF DeliveryInv, LettersOf, HeldOf
<1>4. ASSUME NEW d \in Deliveries, Stored(d)
      PROVE  /\ NextGen(d) > 0
             /\ \A g \in 0..(NextGen(d) - 2) : jobs[<<d, g>>].status = "dead_letter"
             /\ deliveries[d].status = DeliveryStatus(jobs[<<d, NextGen(d) - 1>>].status)
  <2>1. PICK n \in Nat : Generations(d, deliveries[d], jobs, n)
    BY DEF DeliveryInv
  <2>2. NextGen(d) = n
    BY <2>1, NextGenIs
  <2>3. n # 0 /\ n <= LastGen[d] + 1
    BY <1>4, <2>1 DEF Generations, Stored
  <2>4. n - 1 \in Gens(d) /\ (n - 1) + 1 = n
    BY <2>3, GenType
  <2>5. deliveries[d].status = DeliveryStatus(jobs[<<d, n - 1>>].status)
    BY <2>1, <2>4 DEF Generations
  <2>6. ASSUME NEW g \in 0..(n - 2) PROVE jobs[<<d, g>>].status = "dead_letter"
    <3>1. g \in Gens(d) /\ g + 1 < n
      BY <2>3, GenType
    <3> QED BY <2>1, <3>1 DEF Generations
  <2> QED BY <2>2, <2>3, <2>5, <2>6
<1>5. StatusAgrees
  BY <1>3, <1>4 DEF StatusAgrees, DeliveryStatus
<1> QED BY <1>1, <1>2, <1>5 DEF NothingLost

\* What a sender was told is accepted is stored and has a job; the status of a
\* delivery is that of its last job, failures are in the dead letters or in
\* quarantine, and a succeeded delivery has all of its events, whichever worker
\* dies, outlives its lease or comes back late, and however often it is replayed.
THEOREM DeliveryLosesNothing == DeliverySpec => []NothingLost
<1> QED BY DeliveryInvLosesNothing, DeliveryInvariant, PTL

-----------------------------------------------------------------------------
(* Nothing stored is taken back *)

\* A job that succeeded, failed for good or was quarantined is not touched.
EndedStays ==
    \A j \in Jobs :
        jobs[j].status \in {"succeeded", "dead_letter", "quarantined"} => jobs'[j] = jobs[j]

LEMMA RowTypes ==
    ASSUME DeliveryInv
    PROVE  /\ jobs \in [Jobs -> JobRows] /\ deliveries \in [Deliveries -> DeliveryRows]
           /\ events \in [Events -> Jobs \cup {Null}] /\ links \in [Events -> Deliveries \cup {Null}]
BY DEF DeliveryInv, DeliveryTypeOK, JobRows, DeliveryRows

\* Acceptance finds the rows that are there.
LEMMA ReceiveKeepsRows ==
    ASSUME DeliveryInv, NEW d \in Deliveries, Receive(d)
    PROVE  RowsStay /\ EndedStays
<1>1. UNCHANGED <<events, links>>
  BY DEF Receive, AcceptPolled, AcceptAuthenticated, AcceptFirst, AcceptDuplicate, NonceExpires, tables
<1>2. \/ deliveries' = deliveries
      \/ \E b \in Contents[d] : AcceptDelivery(d, b)
  BY DEF Receive, AcceptPolled, AcceptAuthenticated, AcceptFirst, AcceptDuplicate, NonceExpires, Inbox
<1>3. jobs' = jobs \/ EnqueueJob(<<d, 0>>)
  BY DEF Receive, AcceptPolled, AcceptAuthenticated, AcceptFirst, AcceptDuplicate, NonceExpires, Inbox
<1>4. \A e \in Deliveries : Stored(e) => deliveries'[e] = deliveries[e]
  BY <1>2, RowTypes DEF AcceptDelivery
<1>5. \A j \in Jobs : jobs[j].status # "absent" => jobs'[j] = jobs[j]
  BY <1>3, RowTypes DEF EnqueueJob
<1> QED BY <1>1, <1>4, <1>5 DEF RowsStay, EndedStays

\* A replay adds the next job; the dead letters before it stay.
LEMMA ReplayKeepsRows ==
    ASSUME DeliveryInv, NEW c, ReplayFailed(c)
    PROVE  RowsStay /\ EndedStays
<1>1. PICK S \in Selected(c) :
          /\ deliveries' = [d \in Deliveries |->
                 IF d \in S THEN [deliveries[d] EXCEPT !.status = "queued"] ELSE deliveries[d]]
          /\ jobs' = [j \in Jobs |->
                 IF j[1] \in S /\ j[2] = NextGen(j[1])
                 THEN [NoJob EXCEPT !.status = "queued"] ELSE jobs[j]]
  BY DEF ReplayFailed
<1>2. UNCHANGED <<events, links>>
  BY DEF ReplayFailed, tables
<1>3. \A d \in Deliveries : deliveries'[d].body = deliveries[d].body
  BY <1>1, RowTypes DEF DeliveryRows
<1>4. ASSUME NEW j \in Jobs, jobs[j].status # "absent" PROVE jobs'[j] = jobs[j]
  <2>1. j[1] \in Deliveries /\ j[2] \in Gens(j[1]) /\ j = <<j[1], j[2]>>
    BY JobParts
  <2>2. PICK n \in Nat : Generations(j[1], deliveries[j[1]], jobs, n)
    BY <2>1 DEF DeliveryInv
  <2>3. NextGen(j[1]) = n
    BY <2>1, <2>2, NextGenIs
  <2>4. j[2] < n
    BY <1>4, <2>1, <2>2 DEF Generations
  <2>5. j[2] # n
    BY <2>1, <2>4, GenType
  <2> QED BY <1>1, <2>3, <2>5
<1> QED BY <1>2, <1>3, <1>4 DEF RowsStay, EndedStays

\* A worker changes no job but a live one, stores no event that is there and
\* links none that is linked.
LEMMA WorkKeepsRows ==
    ASSUME DeliveryInv, NEW w \in Workers, Work(w) \/ WorkerDies(w)
    PROVE  RowsStay /\ EndedStays
<1> DEFINE k == working[w].job
<1>1. ASSUME NEW j \in Jobs, Claim(w, j) PROVE RowsStay /\ EndedStays
  <2>1. jobs[j].status \in {"queued", "retry_wait", "processing"}
    BY <1>1 DEF Claim, Claimable
  <2>2. jobs' = [jobs EXCEPT ![j] =
            [status |-> "processing", attempt |-> @.attempt + 1, timeup |-> FALSE]]
        /\ UNCHANGED <<events, links>> /\ StartDelivery(j[1])
    BY <1>1 DEF Claim, tables
  <2>3. \A i \in Jobs : i # j => jobs'[i] = jobs[i]
    BY <2>2, RowTypes
  <2>4. jobs'[j].status = "processing"
    BY <2>2, RowTypes
  <2>5. \A d \in Deliveries : deliveries'[d].body = deliveries[d].body
    BY <2>2, RowTypes DEF StartDelivery, DeliveryRows
  <2>6. EndedStays
    BY <2>1, <2>3 DEF EndedStays
  <2> QED BY <2>2, <2>3, <2>4, <2>5, <2>6 DEF RowsStay
<1>2. CASE Heartbeat(w) \/ Reject(w) \/ Stumble(w) \/ PersistConflict(w) \/ WorkerDies(w)
  <2>1. UNCHANGED <<deliveries, jobs, events, links>>
    BY <1>2 DEF Heartbeat, Reject, Stumble, PersistConflict, WorkerDies, tables
  <2> QED BY <2>1 DEF RowsStay, EndedStays
<1>3. CASE Persist(w)
  <2>1. UNCHANGED <<deliveries, jobs, links>> /\ ~Conflicts(w) /\ events' = Inserted(w)
    BY <1>3 DEF Persist
  <2>2. \A x \in Events : events[x] # Null => events'[x] = events[x]
    BY <2>1 DEF Inserted, Conflicts
  <2> QED BY <2>1, <2>2 DEF RowsStay, EndedStays
<1>4. CASE Complete(w) \/ Retry(w) \/ Quarantine(w)
  <2>1. working[w].pc # "idle" /\ Holds(w) /\ events' = events
    BY <1>4 DEF Complete, Retry, Quarantine
  <2>2. k \in Jobs /\ jobs[k].status = "processing"
    BY <2>1, HolderKnows
  <2>3. PICK s \in {"succeeded", "dead_letter", "retry_wait", "quarantined"} : EndJob(w, s)
    BY <1>4 DEF Complete, Retry, Quarantine
  <2>4. \A i \in Jobs : i # k => jobs'[i] = jobs[i]
    BY <2>2, <2>3, RowTypes DEF EndJob
  <2>5. jobs'[k].status = s
    BY <2>2, <2>3, RowTypes DEF EndJob, JobRows
  <2>6. \/ deliveries' = deliveries
        \/ \E s2 \in {"succeeded", "failed", "quarantined"} : EndDelivery(k[1], s2)
    BY <1>4 DEF Complete, Retry, Quarantine
  <2>7. \A d \in Deliveries : deliveries'[d].body = deliveries[d].body
    BY <2>6, RowTypes DEF EndDelivery, DeliveryRows
  <2>8. \A x \in Events : links[x] # Null => links'[x] = links[x]
    BY <1>4 DEF Complete, Retry, Quarantine
  <2>9. EndedStays
    BY <2>2, <2>4 DEF EndedStays
  <2> QED BY <2>1, <2>3, <2>4, <2>5, <2>7, <2>8, <2>9 DEF RowsStay
<1> QED BY <1>1, <1>2, <1>3, <1>4 DEF Work

LEMMA DeliveryKeepsRows == DeliveryInv /\ [DeliveryNext]_deliveryVars => RowsStay /\ EndedStays
<1> SUFFICES ASSUME DeliveryInv, [DeliveryNext]_deliveryVars PROVE RowsStay /\ EndedStays
  OBVIOUS
<1>1. ASSUME NEW j \in Jobs, TimeUp(j) PROVE RowsStay /\ EndedStays
  <2>1. UNCHANGED <<deliveries, events, links>>
        /\ jobs[j].status \in {"processing", "retry_wait"}
        /\ jobs' = [jobs EXCEPT ![j].timeup = TRUE]
    BY <1>1 DEF TimeUp, tables
  <2>2. \A i \in Jobs : jobs'[i].status = jobs[i].status /\ (i # j => jobs'[i] = jobs[i])
    BY <2>1, RowTypes DEF JobRows
  <2> QED BY <2>1, <2>2 DEF RowsStay, EndedStays
<1>2. CASE SetPaused \/ UNCHANGED deliveryVars
  <2>1. UNCHANGED <<deliveries, jobs, events, links>>
    BY <1>2 DEF SetPaused, deliveryVars, tables
  <2> QED BY <2>1 DEF RowsStay, EndedStays
<1> QED BY <1>1, <1>2, ReceiveKeepsRows, ReplayKeepsRows, WorkKeepsRows DEF DeliveryNext

\* No step takes back what is stored: a delivery keeps its body, an event the job
\* that stored it and its link, and a job that has ended is never changed again,
\* whichever late worker, retry or replay comes (the owner, attempt and status
\* fences of the Observer's storage).
THEOREM DeliveryTakesNothingBack == DeliverySpec => [][RowsStay /\ EndedStays]_deliveryVars
<1> QED BY DeliveryInvariant, DeliveryKeepsRows, PTL DEF DeliverySpec
=============================================================================
