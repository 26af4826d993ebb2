SPECIFICATION Spec
CONSTANTS
  Ports = {"p80", "p8000"}
  LowPorts = {"p80"}
  Conns = {c1, c2}
  ListenSocks = {l1, l2, l3, l4}
  Nobody = Nobody
  ClientLimit = 1
  MaxReloads = 1
  SocketsFail = FALSE
  Addresses = {1, 2}
  Nodes = {n1, n2}
  Twice = FALSE
  MaxNoted = 1
  MaxDepth = 2
  MaxTime = 4
  Recheck = 1
  Lag = 1
  Extend = 2
  Duration = 1
  Streams = {"m1"}
  Servers = {"s1", "s2"}
  Listings = {e1, e2}
  MaxQueued = 2
  MaxTurns = 3
  Handlers = {h}
  Admins = {a}
  Users = {"u1", "u2"}
  Others = {"x"}
  Apart = TRUE
  Alone = TRUE
  MaxWrites = 4
  MaxFaults = 1
INVARIANTS DoorsRight RunInTime 
PROPERTIES BansKept 
CHECK_DEADLOCK FALSE
