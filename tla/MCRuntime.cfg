CONSTANTS
  c1 = c1
  c2 = c2
  r1 = r1
  r2 = r2
  Requests = {r1, r2}
  Mortal = {r1}
  Clients = {c1, c2}
  stop_calls = 2
  Schedulers = {"fifo", "workload"}
  worker_count = 2
  Fits <- FitsSome
  capacity = 1
  queue_capacity = 1
  Calls <- SubmitCalls
  None = None
SPECIFICATION FairSpec
CHECK_DEADLOCK FALSE
INVARIANTS
  HeldOnce
  StopDrains
  NoneTurnedAwayByStop
PROPERTIES
  AdmittedEnds
  StopEnds
