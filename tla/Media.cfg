CONSTANTS
  l1 = l1
  l2 = l2
  Listeners <- OneListener
  MaxLen = 2
  MaxPos = 6
  Sizings <- Mixed
  Slack = 2
  MaxTrim = 2
  ShrinkEvery = 2
  Rate = 1
  Bursts = {0, 2}
  Setups <- MCSetups
  InsertSizes <- MCInserts
  BlockSizes = {6, 7}
  Least = 3
  CheckFrames = 2
  LastByte = 40
  Blocks = {b1, b2, b3}
  NoMeta = NoMeta
  Titles = {t1}
  Blank = t0
  Same = Same
  Kinds = {"icy", "iceblocks"}
  Interval = 3
  BlockLen = 2
  InsertLen = 2
  MaxQueue = 3
  MaxBlocks = 4
  MaxTags = 2
  Recycled = FALSE
  Links <- MCLinks
  MaxLinks = 2
  MaxData = 1
  PageLen = 2
  Windows = {1, 2}
  Trigger = 3
  AdminOnly = FALSE
  Own = own
  NewTitles = {n1, n2}
  MaxPackets = 4
  MaxUpdates = 2
  Overlap = FALSE
  Streams <- MCStreams
  Reads = {1, 2, 4, 5, 7}
  StreamEnd = 18
  m1 = m1
  m2 = m2
  f1 = f1
  fitting = fitting
  unfit = unfit
  log = log
  None = None
  Mounts = {m1, m2}
  Relays = {m2}
  Tables <- MCTables
  Files = {f1}
  Fits = {fitting}
  Default = 1
  Announced = {1}
  Overtakes = FALSE
  Hops = 10
SPECIFICATION MediaSpec
INVARIANTS
  TypeOK
  StartPointOnQueue
  PassedListenerSafe
  FramesSound
  TitlesSound
  HeadersSound
  
  ClustersSound
  MountsSound

  
  
CHECK_DEADLOCK FALSE
