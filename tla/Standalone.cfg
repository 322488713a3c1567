\* The components that share no state: one of them runs, chosen at the start.
SPECIFICATION MCSpec
CONSTANTS
  Parts = {"sync", "ring", "string", "chain", "install", "vector", "links", "items", "tlsf", "linear", "registry", "defrag"}
  Semaphores = {s1, s2, s3}
  Fences = {f1, f2, f3}
  Elements = {e1, e2}
  Raw = Raw
  MaxCap = 6
  MaxIndex = 7
  IndexEmpty = FALSE
  Chars = {x, y}
  Nul = Nul
  Garbage = Garbage
  Names = {v, w}
  BlockSize = 2
  MaxText = 2
  STypes = {"A", "B"}
  Unknown = "Unknown"
  Places = {p1, p2, p3, p4, p5}
  Null = Null
  MaxChain = 3
  LongAppends = FALSE
  Absent = Absent
  MaxEdits = 2
  Numbers = {1, 2}
  Default = 1
  Vectors = {v, w}
  Arrays = {a, b}
  NoArray = NoArray
  Threshold = 3
  MaxVectorCap = 4
  MaxVectorLength = 3
  LinkedLists = {v, w}
  LinkedItems = {1, 2, 3, 4}
  PopsLast = FALSE
  Objects = {o1, o2, o3, o4}
  NoItem = NoItem
  FirstCapacity = 2
  MaxItemBlocks = 2
  Total = 20
  Requests <- MCRequests
  Granularities = {2, 4}
  MaxAllocs = 4
  WithinPage = FALSE
  Shift = 2
  SecondLevel = 2
  MaxLow = 2
  LinearSize = 10
  Asked <- MCAsked
  Pages = {1, 4}
  CompactAbove = 3
  MaxItems = 4
  UpperOnPages = FALSE
  Whole = Whole
  Registries <- MCRegistries
  MinApi = 3
  None = None
  Movables <- MCMovables
  MaxBlocks = 3
  MaxClients = 3
  PassLimits <- MCPassLimits
  IgnoreLimit = 2
  Algorithms = {"balanced", "extensive"}
SYMMETRY NamesAndChars
INVARIANTS
  StacksSafe
  RingSound
  InstallSound
  TlsfSound
  LinearSound
  StatisticsExact
  DependenciesComplete
  TablesFound
  PassesSound
PROPERTIES
  StacksArePools
  RingIsQueue
  StringsHold
  ChainsHold
  ContainersHold
  TlsfIsHeap
  LinearIsHeap
  ClientsKept
