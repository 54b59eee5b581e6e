----------------------------- MODULE MCDispatch -----------------------------
(* Instances of Dispatch for TLC. *)
EXTENDS Dispatch, TLC

(* Requests differ only in what they do, and items and runs are opaque. *)
Symmetry == Permutations(Item) \cup Permutations(Handler) \cup Permutations(Run)
=============================================================================
