SPECIFICATION TurnsSpec
CONSTANTS
  l1 = l1
  c1 = c1
  Workers = {w1, w2}
  Handlers = {h1, h2}
  Listeners = {l1, l2, l3}
  Events = {}
  None = None
  PendingLimit = 0
  SkipIfSlow = TRUE
  MaxLeaks = 1
  Clients = {c1, c2}
  Nil = Nil
  FastLimit = 1
  MaxRun = 3
  MaxOwed = 1
  MayStop = FALSE
INVARIANTS HeldWhileUsed NobodyIdles NewcomersBounded
PROPERTIES RequestEnds TurnTaken
CHECK_DEADLOCK FALSE
