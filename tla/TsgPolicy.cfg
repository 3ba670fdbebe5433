SPECIFICATION Spec
CONSTANTS
  t1 = t1
  t2 = t2
  NoTsg = NoTsg
  Tsg = {t1}
  MaxU64 = 2000000
  MaxGroups = 2
  MinTimeslice = 2
  DefaultTimeslice = 3
  Timeslices <- FourTimeslices
  Interleaves <- Levels
  Faults <- AllFaults
INVARIANT TypeOK
INVARIANT PolicyReachesGsp
INVARIANT PolicyWithinDomain
