----------------------------- MODULE MCMediaJobs -----------------------------
(* The instance of MediaJobs for TLC. *)
EXTENDS MediaJobs, TLC

CONSTANTS u1, r1, b1, b2, b3, w1, w2

MCRequest  == u1 :> r1
MCChunks   == b1 :> 1 @@ b2 :> 2 @@ b3 :> 2
MCDeclared == b1 :> 1 @@ b2 :> 2 @@ b3 :> 1
MCWorkerId == w1 :> "worker" @@ w2 :> "worker"
=============================================================================
