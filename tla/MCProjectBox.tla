---------------------------- MODULE MCProjectBox ----------------------------
(* Instances of ProjectBox for TLC. *)
EXTENDS ProjectBox, TLC

(* The requests are alike, and so are the file names not yet given. *)
Symmetry == Permutations(Handler) \cup Permutations(Task \ {First})
=============================================================================
