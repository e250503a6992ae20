CONSTANTS
  a1 = a1
  a2 = a2
  a3 = a3
  a4 = a4
  b1 = b1
  A = A
  B = B
  None = None
  Requests <- MCRequests
  Mortal = {a1}
  Models <- MCModels
  model_id <- MCModelId
  capacity = 3
  max_bypass = 1
SPECIFICATION FairSpec
CHECK_DEADLOCK FALSE
INVARIANTS
  SizeCountsEntries
  NoLiveRequestLost
  BypassBound
PROPERTY
  FifoWithinModel
  LiveIsDispatched
