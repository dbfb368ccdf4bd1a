\* One job in two attempts; w1 never leaves, w2 may.
SPECIFICATION LiveSpec
CONSTANTS
  Jobs = {j1}
  Loner = j1
  Workers = {w1, w2}
  NoWorker = NoWorker
  KindOf <- OneKind
  KeyOf <- OwnKey
  KindLimit <- OneAtATime
  MaxConcurrent = 2
  MaxAttempts = 2
  Managed = {j1}
  Lasting = {w1}
  LockRereads = TRUE

INVARIANTS ExecutedOnce
PROPERTIES JobSettles  
