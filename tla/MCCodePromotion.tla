-------------------------- MODULE MCCodePromotion ---------------------------
(* Instances of CodePromotion: executions, agents and callers are interchangeable, and so
   are the versions the experiment does not name. *)
EXTENDS CodePromotion, TLC

Symmetry ==
  Permutations(Runs) \cup Permutations(Agents) \cup Permutations(Callers)
    \cup Permutations(Artifacts \ {Bound})
=============================================================================
