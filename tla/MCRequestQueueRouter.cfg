CONSTANTS
  Callers = {1, 2, 3}
  Observers = {o1}
  Waiters = {w1}
  TimedWaiters = {w1}
  NoResult = NoResult
  Threads = {t1, t2, t3}
  Values = {1, 2, 3, 4}
  Ops = {"try_push", "wait_push", "wait_push_until", "wait_pop", "wait_pop_until"}
  capacity = 2
  NoValue = NoValue
  WorkerIds <- Ids
  Snapshots <- SnapshotsOf
  Sizes = {1, 2}
  SizeModulus = 8
SPECIFICATION PartsSpec
CHECK_DEADLOCK FALSE
INVARIANTS
  OneWinner
  EndHeardOnce
  NoObserverForgotten
  PoppersWoken
  PushersWoken
  NobodyPassedOver
  SelectsBest
PROPERTIES
  EndIsAnnounced
  ImplementsFifo
  CloseReleasesAll
