INIT Init
NEXT Next
CONSTANTS
  Mounts = {m1, st}
  Values = {v}
  Watchers = {w1}
  Entries = {e1, e2}
  NoEntry = NoEntry
  OffWorker = FALSE
  Statics = {st}
  StaticSources = TRUE
  Yp = yp
  NoValue = NoValue
  Absent = Absent
  Keep = Keep
  New = New
INVARIANT StaticStaysVisible
CHECK_DEADLOCK FALSE
