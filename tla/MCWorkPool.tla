----------------------------- MODULE MCWorkPool -----------------------------
(* An instance of WorkPool for TLC. *)
EXTENDS WorkPool

CONSTANTS s1, s2, s3, w1
=============================================================================
