SPECIFICATION FairSpec
CONSTANTS
  a = a
  b = b
  t1 = t1
  t2 = t2
  Instance = {a, b}
  NoOps = NoOps
  Implements <- FullAndPartial
  Thread = {t1, t2}
  Faults <- AllSteps
INVARIANT CalledPolicyExists
INVARIANT OneRegistered
INVARIANT ModuleGone
PROPERTY TakenAway
