SPECIFICATION ThreadsSpec
CONSTANTS
  Clients = {c1, c2, c3}
  Nil = Nil
  FastLimit = 1
  MaxRun = 2
  MaxOwed = 1
  MayStop = TRUE
  LogSlots = {0, 1}
  Writers = {w1, w2}
  Priorities = {1, 2}
  Level = 1
  Trigger = 1
  Found = 2
  Batch = 50
  MaxLines = 3
  MaxMoves = 1
  Keys = {1, 2, 3}
  MaxEqual = 2
  AvlNodes = {a1, a2, a3, a4, a5, a6}
  Root = Root
  Null = Null
INVARIANTS ListsKept NoLostWakeup LogsSound TreesRight
SYMMETRY Alike
CHECK_DEADLOCK FALSE
