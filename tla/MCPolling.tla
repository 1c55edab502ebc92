------------------------------ MODULE MCPolling ------------------------------
(* Instances of Polling for TLC. *)
EXTENDS Polling, TLC

CONSTANTS p1, p2, c1, c2

MCInitial == <<1, 0>>

MCOperation == c1 :> "pause" @@ c2 :> "resume"
MCExpected  == c1 :> 0 @@ c2 :> 1
=============================================================================
