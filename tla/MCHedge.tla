------------------------------- MODULE MCHedge -------------------------------
(* An instance of Hedge for TLC. *)
EXTENDS Hedge

CONSTANTS r1, r2
=============================================================================
