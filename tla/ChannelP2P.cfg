SPECIFICATION FairSpec
CONSTANTS
  t1 = t1
  t2 = t2
  Thread = {t1, t2}
  NoThread = NoThread
  NoPush = NoPush
  NumChunks = 1
  ChunkSize = 4
  MaxPushSize = 2
  NumChannels = 1
  Pool <- OnePool
  NumEntries = 4
  MaxToComplete = 1
  SemMod = 4
  CountMod = 16
  MaxQueued = 2
  PushSizes = {2}
  Operations = {"p2p", "ctrl", "suspend", "wait"}
  Faults = {}
INVARIANT RetiredAfterExecution
INVARIANT P2PQuiesced
PROPERTY OperationsEnd
