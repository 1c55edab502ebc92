---------------------------- MODULE MCDraftQueue -----------------------------
(* An instance of DraftQueue for TLC. *)
EXTENDS DraftQueue

CONSTANTS d1, d2, w1, w2
=============================================================================
