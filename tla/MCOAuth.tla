------------------------------- MODULE MCOAuth -------------------------------
(* Instances of OAuth for TLC. *)
EXTENDS OAuth, TLC

Symmetry == Permutations(Procs) \cup Permutations(Clients)
            \cup Permutations(Codes) \cup Permutations(Requests)
=============================================================================
