CONSTANTS
  INT64_MAX = 7
  kMaxOutputTokensMin = 1
  kMaxOutputTokensMax = 3
  kMaxOutputTokensDefault = 2
  kTimeoutMsMin = 1
  kTimeoutMsMax = 4
  kTimeoutMsDefault = 3
  Bodies <- SomeBodies
SPECIFICATION Spec
CHECK_DEADLOCK FALSE
INVARIANTS
  NeverDroppedSilently
