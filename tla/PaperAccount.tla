---------------------------- MODULE PaperAccount ----------------------------
(***************************************************************************)
(* What finboard's paper trading promises of an account, stated without    *)
(* orders, reservations, margin or settlement: a balance and a holding that *)
(* change together, by trades.  A trade of n units (n < 0 sells) at price p *)
(* moves the holding by n and the balance by -p*n less the fee; nothing     *)
(* else moves either (docs/simulation_trading.md:104, "holdings, P&L, fees  *)
(* and taxes change only in the handling of a SimulationFill").  A short    *)
(* book counts its contracts in the other direction.                        *)
(***************************************************************************)
EXTENDS Integers

CONSTANTS Capital, Fee, Prices

VARIABLES kind, balance, held

Direction == IF kind = "short" THEN -1 ELSE 1

Init == balance = Capital /\ held = 0

Trade ==
  /\ held' # held
  /\ \E p \in Prices : balance' = balance - Direction * p * (held' - held) - Fee
  /\ UNCHANGED kind

Spec == Init /\ [][Trade]_<<kind, balance, held>>
============================================================================
