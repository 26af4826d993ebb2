CONSTANTS
  a = a
  b = b
  s1 = s1
  s2 = s2
  l1 = l1
  l2 = l2
  NoMount = NoMount
  NoSource = NoSource
  File = File
  Mounts <- TwoMounts
  Sources <- TwoSources
  Mount <- NameOfTwo
  Fallback <- FallBack
  Overrides = {a}
  Reserving = {a, b}
  Listeners = {l1, l2}
  Prompt = FALSE
SPECIFICATION Spec
INVARIANTS
  TypeOK
  CheckCovers
  EndedIsEmpty
  TotalIsRight
CHECK_DEADLOCK FALSE
SYMMETRY Alike
