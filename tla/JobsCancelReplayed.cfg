SPECIFICATION Spec
CONSTANTS
  Jobs = {j1}
  Loner = j1
  Workers = {w1}
  NoWorker = NoWorker
  KindOf <- OneKind
  KeyOf <- OwnKey
  KindLimit <- OneAtATime
  MaxConcurrent = 2
  MaxAttempts = 2
  Managed = {j1}
  Lasting = {}
  LockRereads = TRUE
PROPERTIES CancelSticks
