SPECIFICATION RunningSpec
CONSTANTS
  a = a
  b = b
  w1 = w1
  w2 = w2
  m1 = m1
  m2 = m2
  NoJob = NoJob
  Job = {a}
  Worker = {w1}
  Client = {m1}
  Deps <- ChainDeps
  Priority <- Normal
  Calls = {"Submit", "Cancel"}
  Buffered = TRUE
  CounterSize = 4
  MaxStarts = 1
INVARIANT TasksEndFirst
CHECK_DEADLOCK FALSE
