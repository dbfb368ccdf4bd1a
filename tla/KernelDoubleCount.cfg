\* Recovery overwrites filled, then the fill event arrives.
SPECIFICATION Spec
CONSTANTS
  Orders = {o1}
  Qty = 2
  MaxStarts = 2
  MaxReplays = 0
  FaithfulQueries = TRUE
INVARIANT ReadyCountsTruly
CHECK_DEADLOCK FALSE
