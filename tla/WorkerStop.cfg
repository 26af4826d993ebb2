CONSTANTS
  Clients = {c1, c2}
  Nil = Nil
  FastLimit = 1
  MaxRun = 4
  MaxOwed = 1
  MayStop = TRUE
SPECIFICATION WorkerFairSpec
PROPERTIES
  StopsWhenIdle
CHECK_DEADLOCK FALSE
