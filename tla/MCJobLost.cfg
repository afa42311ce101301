SPECIFICATION RunningSpec
CONSTANTS
  a = a
  b = b
  w1 = w1
  w2 = w2
  m1 = m1
  m2 = m2
  NoJob = NoJob
  Job = {a, b}
  Worker = {w1}
  Client = {m1}
  Deps <- ChainDeps
  Priority <- Normal
  Calls = {"Submit"}
  Buffered = FALSE
  CounterSize = 4
  MaxStarts = 1
PROPERTY AllFinish
CHECK_DEADLOCK FALSE
