CONSTANTS
  Threads = {t1, t2, t3}
  Values = {v1, v2, v3}
  Ops = {"wait_push", "wait_push_until", "wait_pop"}
  capacity = 1
  NoValue = NoValue
SPECIFICATION QueueFairSpec
PROPERTIES BlocksWhileFull
CHECK_DEADLOCK FALSE
