SPECIFICATION Spec
CONSTANTS
  u1 = u1
  u2 = u2
  u3 = u3
  u4 = u4
  u5 = u5
  Nil = Nil
  Clients = {u1, u2, u3, u4, u5}
  Setups <- OnlyTwo
PROPERTY RetrySame
CHECK_DEADLOCK FALSE
