--------------------------- MODULE MCContextFacts ---------------------------
(* Two contents, each with its evidence and a proposal about the same      *)
(* subject; c2 happened earlier, so it is stored only when it comes first.  *)
(* k2 is used for both: for c1 it repeats the import of k1, and after a     *)
(* restart it may be misused for the other content.                         *)
EXTENDS ContextFacts, TLC

CONSTANTS k1, k2, c1, c2, e1, e2, p1, p2, p3, n1, s1, s2

MCRequests == {[key |-> k1, content |-> c1], [key |-> k2, content |-> c1],
               [key |-> k2, content |-> c2]}
MCOccurredAt == c1 :> 2 @@ c2 :> 0
MCDedupKey == c1 :> "a" @@ c2 :> "b"
MCEvidenceOf == c1 :> <<e1>> @@ c2 :> <<e2>>
MCFactsOf == c1 :> <<p1, p3>> @@ c2 :> <<p2>>
MCEntitiesOf == c1 :> <<>> @@ c2 :> <<n1>>
MCUses == p1 :> {e1} @@ p2 :> {e2} @@ p3 :> {e1}
MCSubject == p1 :> s1 @@ p2 :> s1 @@ p3 :> s2
MCSymmetry == Permutations(Handlers) \cup Permutations(Operators)
                  \cup Permutations(DecisionIds) \cup Permutations(FactIds)
=============================================================================
