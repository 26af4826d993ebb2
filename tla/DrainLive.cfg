CONSTANTS
  a = a
  b = b
  s1 = s1
  s2 = s2
  l1 = l1
  l2 = l2
  NoMount = NoMount
  NoSource = NoSource
  File = File
  Mounts <- TwoMounts
  Sources <- TwoSources
  Mount <- NameOfTwo
  Fallback <- FallBack
  Overrides = {a}
  Reserving = {b}
  Listeners = {l1}
  Prompt = TRUE
SPECIFICATION FairSpec
PROPERTIES
  ImplementsService
  AllEnd
CHECK_DEADLOCK FALSE
