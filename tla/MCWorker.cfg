CONSTANTS
  a1 = a1
  a2 = a2
  a3 = a3
  b1 = b1
  Requests = {a1, a2, b1}
  Mortal = {a1, b1}
  model_id <- ModelOf
  Callers = {c1}
  Kinds = {"try_enqueue", "enqueue_until"}
  queue_capacity = 2
  max_batch_size = 2
  SizeModulus = 16
  None = None
SPECIFICATION FairSpec
CHECK_DEADLOCK FALSE
INVARIANTS
  LiveHeldOnce
  InferredInOrder
  CountExact
PROPERTIES
  PushedEnds
  CloseEndsThread
