SPECIFICATION Spec
CONSTANTS
  t1 = t1
  t2 = t2
  Thread = {t1, t2}
  NoThread = NoThread
  NoPush = NoPush
  NumChunks = 1
  ChunkSize = 4
  MaxPushSize = 2
  NumChannels = 2
  Pool <- OnePool
  NumEntries = 3
  MaxToComplete = 1
  SemMod = 3
  CountMod = 16
  MaxQueued = 3
  PushSizes = {1}
  Operations = {"push", "drain"}
  Faults = {"rc"}
SYMMETRY Symmetry
INVARIANT TypeOK
INVARIANT SemaphoreTracks
INVARIANT PushesApart
INVARIANT EntriesAccounted
