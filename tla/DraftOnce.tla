------------------------------ MODULE DraftOnce ------------------------------
(***************************************************************************)
(* What the materialization of proposals promises, whatever is retried,    *)
(* lost or repeated: a materialization changes the business system at most *)
(* once, and it is reported as succeeded only if it did.  A request that   *)
(* was given up may still take effect afterwards.                          *)
(***************************************************************************)
CONSTANTS Mats

VARIABLES
    effects,   \* the changes made in the business system; each has a field mat
    outcome    \* what the outbox says of each materialization

Init ==
    /\ effects = {}
    /\ outcome = [m \in Mats |-> "none"]

Made(m) == \E e \in effects : e.mat = m

Accept(m) ==
    /\ outcome[m] = "none"
    /\ outcome' = [outcome EXCEPT ![m] = "open"]
    /\ UNCHANGED effects

Make(m) ==
    /\ outcome[m] # "none"
    /\ ~Made(m)
    /\ \E e \in effects' : e.mat = m /\ effects' = effects \cup {e}
    /\ UNCHANGED outcome

Finish(m) ==
    /\ outcome[m] = "open"
    /\ Made(m)
    /\ outcome' = [outcome EXCEPT ![m] = "succeeded"]
    /\ UNCHANGED effects

\* One claim may give up several materializations that ran out of attempts.
GiveUp(S) ==
    /\ \A m \in S : outcome[m] = "open"
    /\ outcome' = [m \in Mats |-> IF m \in S THEN "dead_letter" ELSE outcome[m]]
    /\ UNCHANGED effects

Next ==
    \/ \E m \in Mats : Accept(m) \/ Make(m) \/ Finish(m)
    \/ \E S \in SUBSET Mats : GiveUp(S)

Spec == Init /\ [][Next]_<<effects, outcome>>
=============================================================================
