--------------------------- MODULE MCOrderKernel ---------------------------
(* Model values and symmetry for checking OrderKernel.                     *)
EXTENDS OrderKernel, TLC

Symmetry == Permutations(Orders)
============================================================================
