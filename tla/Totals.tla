------------------------------- MODULE Totals -------------------------------
(***************************************************************************)
(* The sum of the amounts a function gives to finitely many things, counted *)
(* unit by unit: each thing contributes as many pairs as it has units.  A   *)
(* sum that is a count obeys the laws of finite sets, without recursion.    *)
(***************************************************************************)
EXTENDS Naturals, FiniteSets

Units(f) == UNION {{i} \X (1..f[i]) : i \in DOMAIN f}
Total(f) == Cardinality(Units(f))

\* What f gives to i: nothing, if it knows nothing of it.
Of(f, i) == IF i \in DOMAIN f THEN f[i] ELSE 0
=============================================================================
