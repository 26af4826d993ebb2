SPECIFICATION ServicesSpec
CONSTANTS
  Relays = {r1, r2, r3}
  RelayClients = {c1, c2, c3}
  RelaySources = {s1}
  Nil = Nil
  StartSlots = 0
  SwitchSlots = 2
  MaxHeard = 1
  MaxChanges = 2
  Races = FALSE
  Files = {a, b}
  Fallbacks = {a}
  Nodes = {n1, n2, n3}
  Hearers = {h1, h2}
  NoNode = NoNode
  MaxOnFile = 2
  MaxCounted = 4
  Patient = TRUE
  Mounts = {m1, st}
  Values = {v}
  Watchers = {w1}
  Entries = {e1, e2}
  NoEntry = NoEntry
  OffWorker = FALSE
  Statics = {st}
  StaticSources = FALSE
  Yp = yp
  NoValue = NoValue
  Absent = Absent
  Keep = Keep
  New = New
  Names = {"a", "ab"}
  Reader = Reader
  Streams = {"a", "b"}
  Guests = {1, 2}
  Users = {u}
  None = None
  MaxListeners = 2
  MaxLoop = 3
  MaxRefs = 1
  Handlers = {t1}
  Listeners = {q1, q2}
  Sources = {k1}
  Setups <- Backends
  Leftovers = FALSE
  Wait = 1
  MaxLines = 4
  MaxTime = 3
INVARIANTS  FilesSound StatsSound SettingsSound ListeningSound 
CHECK_DEADLOCK FALSE
