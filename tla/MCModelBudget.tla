---------------------------- MODULE MCModelBudget ----------------------------
(* Small instances of ModelBudget for TLC. *)
EXTENDS ModelBudget, TLC

CONSTANTS r1, r2

\* One month with earlier spending, one whose cost is unknown.
SomePrior == (1 :> 1) @@ (2 :> Unknown)


Alike == Permutations(Requests)
=============================================================================
