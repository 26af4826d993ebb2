SPECIFICATION Spec
CONSTANTS
  Mounts = {"a", "b"}
  Listeners = {1}
  Users = {u}
  None = None
  Setups <- OneWithRate
  MaxListeners = 1
  MaxLoop = 3
  MaxRefs = 2
PROPERTIES RefusedWhenFull
CHECK_DEADLOCK FALSE
