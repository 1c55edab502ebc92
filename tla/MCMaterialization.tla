-------------------------- MODULE MCMaterialization --------------------------
(* Small instances of Materialization for TLC. *)
EXTENDS Materialization, TLC

CONSTANTS w1, w2, c1, c2, d1, t1, t2

AllObservations == [m \in Mats |-> "observation"]

AllSubmissions == [m \in Mats |-> "submit"]

MCTeam == c1 :> t1 @@ c2 :> t2

OneTeam == c1 :> t1

SameTarget == [m \in Mats |-> d1]

WorkersAlike == Permutations(Workers)

\* Every process runs under the worker_id of the shared configuration.
SharedId == [p \in Workers |-> "worker"]
=============================================================================
