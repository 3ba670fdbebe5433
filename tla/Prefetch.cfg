SPECIFICATION Spec
CONSTANTS
  MaxU64 = 15
  BlockPages = 8
  TypeOuter = 15
  BigPages = 2
  Misalignment = 1
  Threshold = 51
  MinFaults = 2
  CounterSize = 4
  cpu = cpu
  gpu = gpu
  Processors = {cpu, gpu}
  NoProcessor = none
  Inputs <- AllInputs
  RangeGroups <- Halves
  Endpoints = {0, 1, 4, 7, 8}
  Actions = {0, 1, 2, 3}
INVARIANT RegionContained
INVARIANT UnanimousRequest
INVARIANT RegionAroundFault
INVARIANT EnabledByFaults
