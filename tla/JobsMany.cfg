\* Three jobs of a kind, two of them under one key, nobody cancels or archives.
SPECIFICATION Spec
CONSTANTS
  Jobs = {j1, j2, j3}
  Loner = j3
  Workers = {w1}
  NoWorker = NoWorker
  KindOf <- OneKind
  KeyOf <- SharedKey
  KindLimit <- OneAtATime
  MaxConcurrent = 2
  MaxAttempts = 1
  Managed = {}
  Lasting = {}
  LockRereads = TRUE
INVARIANTS KindLimitHolds OneLiveRowPerKey
\* Every worker may be gone and every job settled.
CHECK_DEADLOCK FALSE
