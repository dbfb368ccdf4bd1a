---- MODULE MCRiskGate ----
(* RiskGate with callers and rows that may be exchanged. *)
EXTENDS RiskGate, TLC

Symmetry == Permutations(Clients) \cup Permutations(Rows)
====
