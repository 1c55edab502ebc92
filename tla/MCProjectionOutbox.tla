------------------------- MODULE MCProjectionOutbox --------------------------
(* Small instances of ProjectionOutbox for TLC. *)
EXTENDS ProjectionOutbox

CONSTANTS w1, w2, x1, x2

\* Every process runs under the worker_id of the shared configuration.
SharedId == [p \in Workers |-> "worker"]

=============================================================================
