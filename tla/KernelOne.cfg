\* One order in two units, restarted twice, two events sent again.
SPECIFICATION LiveSpec
CONSTANTS
  Orders = {o1}
  Qty = 2
  MaxStarts = 3
  MaxReplays = 2
  FaithfulQueries = TRUE
INVARIANTS
  RejectedMeansDead
  CancelledMeansDead
  StatusMeansArrived
  NoOrphanWhileReady
  FillCountedOnce
  PositionAppliedOnce
CHECK_DEADLOCK FALSE
PROPERTIES
  SubmissionSettles
  CancelReported
  
