---------------------------- MODULE MCTaskPipeline ----------------------------
(* Instances of TaskPipeline for TLC. *)
EXTENDS TaskPipeline, TLC

\* One skill per class of handler that takes a path of its own.
MCHandler == [s \in Skills |->
                CASE s = "kpi-report"    -> "native"
                  [] s = "lead-scan"     -> "cowork"
                  [] s = "cc-run"        -> "cc"
                  [] OTHER               -> "bad"]

Symmetry == Permutations(Requests) \cup Permutations(Workers)
=============================================================================
