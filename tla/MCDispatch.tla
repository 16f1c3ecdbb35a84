----------------------------- MODULE MCDispatch -----------------------------
(* Instances of Dispatch for TLC. *)
EXTENDS Dispatch, TLC

CONSTANTS a, b, t1, w1, w2, p1, p2, p3

Chain == (a :> {}) @@ (b :> {a})
ChainOrder == <<a, b>>
Single == a :> {}
SingleOrder == <<a>>
Interchangeable == Permutations({w1, w2}) \cup Permutations({p1, p2})
=============================================================================
