CONSTANTS
  INT64_MAX = 7
  kMaxOutputTokensMin = 1
  kMaxOutputTokensMax = 3
  kMaxOutputTokensDefault = 2
  kTimeoutMsMin = 1
  kTimeoutMsMax = 4
  kTimeoutMsDefault = 3
  Bodies <- SomeBodies
  Models = {1, 2, 3, 4, 5, 6, 7, 8}
  Registered = {1, 2, 3, 4, 5, 7, 8}
  estimated_memory_bytes <- MemoryBytes
  estimated_load_cost <- LoadCost
  budget = 5
  batch_size = 2
  Profiles = {1, 2, 3, 4, 5, 6, 8}
  fail_load = {8}
  fail_infer = {2}
  Policies = {"Lru", "CostAware"}
  MaxCalls = 5
SPECIFICATION PartsSpec
CHECK_DEADLOCK FALSE
INVARIANTS
  OneAnswer
  NoWorkLeftBehind
  SilentClientKept
  StatusTellsEnd
  LimitsKept
  MemoryAccounted
  BudgetRespected
  RoomCanBeMade
  InfersOnResident
PROPERTIES
  WatchedIsAnswered
