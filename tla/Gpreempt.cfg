SPECIFICATION Spec
CONSTANTS
  p1 = p1
  p2 = p2
  k1 = k1
  Process = {p1, p2}
  NoProcess = NoProcess
  Pid <- SameNumber
  Tid = {1}
  Client = {1, 2}
  Object = {1}
  Thread = {k1}
  MaxChannels = 2
  MaxGroups = 2
  Values = {1, 2}
  Allowed = {1}
  Faults <- AllFaults
INVARIANT TypeOK
INVARIANT SetByHolder
INVARIANT OnlyTwoTimeslices
INVARIANT QueryWhole
SYMMETRY Symmetry
