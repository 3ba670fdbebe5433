SPECIFICATION Spec
CONSTANTS
  MaxU64 = 7
  Root = {0, 1}
  NSub = 2
  b1 = b1
  b2 = b2
  b3 = b3
  Block = {b1, b2}
  NoBlock = NoBlock
  GenSize = 1
  KThread = k
  PThread = pma
  NoThread = NoThread
  NoChunk = NoChunk
  NoRoot = NoRoot
  Decisions <- AnyPolicy
  Faults = {"split", "tracker", "batch", "elevated"}
  BatchSize = 2
  MaxChunks = 2
  MaxKernel = 0
  MaxPages = 0
  BlockSizes = {"root", "sub"}
  KernelSizes = {"root"}
  EvictRanges = {}
  PageRanges = {}
SYMMETRY Symmetry
INVARIANT TypeOK
INVARIANT RootListsConsistent
INVARIANT SuballocCounters
INVARIANT ChunksExclusive
INVARIANT ReverseMap
INVARIANT NoLeaks
PROPERTY Ownership
