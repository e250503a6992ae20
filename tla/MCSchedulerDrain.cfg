CONSTANTS
  a1 = a1
  a2 = a2
  a3 = a3
  a4 = a4
  b1 = b1
  A = A
  B = B
  None = None
  Requests <- MCFewRequests
  Mortal = {a1, a2, b1}
  Models <- MCModels
  model_id <- MCFewModelId
  capacity = 2
  max_bypass = 1
SPECIFICATION Spec
CHECK_DEADLOCK FALSE
INVARIANT CloseDrain
