--------------------------- MODULE MCProjectRegistry ---------------------------
(* Instances of ProjectRegistry for TLC. *)
EXTENDS ProjectRegistry, TLC

Symmetry == Permutations(Ids) \cup Permutations(Names) \cup Permutations(Requests)
=============================================================================
