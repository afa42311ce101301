SPECIFICATION LifecycleSpec
CONSTANTS
  a = a
  b = b
  w1 = w1
  w2 = w2
  m1 = m1
  m2 = m2
  NoJob = NoJob
  Job = {a, b}
  Worker = {w1, w2}
  Client = {m1, m2}
  Deps <- ChainDeps
  Priority <- Mixed
  Calls = {"Submit", "Reset", "Cancel", "WaitFor", "Initialize", "Shutdown", "WaitForAll"}
  Buffered = TRUE
  CounterSize = 4
  MaxStarts = 2
PROPERTY RunsOnce
PROPERTY WaitersWoken
PROPERTY ShutdownReturns
PROPERTY QueueServed
CHECK_DEADLOCK FALSE
