---------------------------- MODULE OrderStates ----------------------------
(***************************************************************************)
(* The order status machine of finboard_core.state_machine: one table of   *)
(* legal moves that every change of an Order's status is checked against.  *)
(* The module has no state of its own; OrderKernel is built from it.       *)
(***************************************************************************)

Terminal == {"FILLED", "CANCELLED", "REJECTED"}

Active == {"CREATED", "RISK_CHECKED", "SUBMITTING", "SUBMITTED",
           "ACKNOWLEDGED", "PARTIALLY_FILLED", "CANCEL_PENDING", "UNKNOWN"}

OrderStatus == Active \cup Terminal

\* _TRANSITIONS: the statuses an order may move to from a given one.
Transitions ==
  [s \in OrderStatus |->
     CASE s = "CREATED"          -> {"RISK_CHECKED", "REJECTED"}
       [] s = "RISK_CHECKED"     -> {"SUBMITTING", "REJECTED"}
       [] s = "SUBMITTING"       -> {"SUBMITTED", "ACKNOWLEDGED", "REJECTED",
                                     "UNKNOWN"}
       [] s = "SUBMITTED"        -> {"ACKNOWLEDGED", "PARTIALLY_FILLED", "FILLED",
                                     "CANCEL_PENDING", "REJECTED", "UNKNOWN"}
       [] s = "ACKNOWLEDGED"     -> {"PARTIALLY_FILLED", "FILLED",
                                     "CANCEL_PENDING", "REJECTED"}
       [] s = "PARTIALLY_FILLED" -> {"PARTIALLY_FILLED", "FILLED",
                                     "CANCEL_PENDING"}
       [] s = "CANCEL_PENDING"   -> {"CANCELLED"}
       [] s = "UNKNOWN"          -> {"ACKNOWLEDGED", "PARTIALLY_FILLED", "FILLED",
                                     "CANCELLED", "REJECTED"}
       [] OTHER                  -> {}]

\* can_transition: staying in the same status is always allowed.
CanTransition(from, to) == from = to \/ to \in Transitions[from]
============================================================================
