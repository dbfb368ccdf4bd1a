--------------------------- MODULE MCOosValidation --------------------------
(* Instances of OosValidation: executions and agents are interchangeable. *)
EXTENDS OosValidation, TLC

Symmetry == Permutations(Runs) \cup Permutations(Agents)
=============================================================================
