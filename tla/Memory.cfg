SPECIFICATION MemorySpec
CONSTANTS
  Elems = {a, b}
  Default = default
  Freed = freed
  INITIAL_CAPACITY = 2
  GROWTH_FACTOR = 2
  MaxSize = 5
  MaxReserve = 5
  META = 6
  RequestSizes = {0, 2, 3, 12}
  Counts = {11}
  SIZE_MAX = 31
  HeapLimit = 45
  MaxHeapCalls = 7
  Addrs = {1, 2, 3}
  CheckedSizes = {0, 1, 3, 6}
  MODULUS = 16
  MaxRequested = 12
  MaxInvalid = 1
  Pids = {0, 1}
  NUM_PHYSICAL_PAGES = 6
  NUM_ENTRIES = 16
  Segment <- Segments
  TlbSize = 2
  MaxCalls = 9
  Values = {x}
  ZERO = ZERO
  NULL = NULL
  Unused = Unused
  Pinned = Pinned
  Paths = {f, g, h}
  block_size = 2
  NUM_DIRECT_BLOCKS = 2
  NumIndirect = 1
  DataBlocks = 6
  InodeCount = 3
  DirEntries = 2
  Transfers <- TransferSet
  Bytes = {1, 2}
  Modes = {1}
  Ids = {1}
  KEEP = KEEP
  MaxFsCalls = 4
CHECK_DEADLOCK FALSE
INVARIANTS   Accounted ReadsLastWrite FramesOwned FilesReadBack
PROPERTIES CallsRight
