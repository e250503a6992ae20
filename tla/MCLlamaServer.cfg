CONSTANTS
  r1 = r1  r2 = r2  r3 = r3  r4 = r4
  m = m  n = n
  Requests = {r1, r2, r3, r4}
  Models = {m, n}
  model_id <- MCModelId
  Tokens = {0, 1, 2}
  prompt <- MCPrompt
  max_output_tokens <- MCMaxOutput
  deadline <- MCDeadline
  Greedy <- MCGreedy
  eog = 0
  U32 = 16
  LLAMA_MAX_SEQ = 3
  DefaultBatch = 2
  MaxWait = 8
  LastTick = 1
  CommandLines <- MCCommandLines
  DefaultCtx = 4
  None = None
SPECIFICATION Spec
INVARIANTS AlwaysDecodable SamplesItsOwn HeldWithinDeadlines HoldBounded
PROPERTY ImplementsGeneration
CHECK_DEADLOCK FALSE
