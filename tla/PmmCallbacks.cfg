SPECIFICATION Spec
CONSTANTS
  MaxU64 = 7
  Root = {0, 1}
  NSub = 2
  b1 = b1
  b2 = b2
  b3 = b3
  Block = {b1}
  NoBlock = NoBlock
  GenSize = 1
  KThread = k
  PThread = pma
  NoThread = NoThread
  NoChunk = NoChunk
  NoRoot = NoRoot
  Decisions <- NoPolicy
  Faults = {}
  BatchSize = 2
  MaxChunks = 2
  MaxKernel = 1
  MaxPages = 2
  BlockSizes = {"root", "sub"}
  KernelSizes = {"root", "sub"}
  EvictRanges <- AllMemory
  PageRanges <- AllMemory
INVARIANT PmaAgreement
INVARIANT EvictionOwned
INVARIANT RangeOnlyUser
INVARIANT PickSafe
PROPERTY Ownership
