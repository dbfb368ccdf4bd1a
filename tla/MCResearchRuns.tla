--------------------------- MODULE MCResearchRuns ---------------------------
(* Instances of ResearchRuns: what decisions come to is interchangeable. *)
EXTENDS ResearchRuns, TLC

Symmetry == Permutations(Values)
=============================================================================
