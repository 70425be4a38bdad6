SPECIFICATION SigningSpec
CONSTANTS
  k1 = k1
  k2 = k2
  h1 = h1
  NoLock = NoLock
  NoSig = NoSig
  NoOverride = NoOverride
  NoPreimage = NoPreimage
  NoOrder = NoOrder
  NoSession = NoSession
  NoAsk = NoAsk
  Pkhs <- MCPkhs
  Digests <- MCDigests
  Locks <- MCLocks
  HashedLocks = {}
  LockDataWords <- MCLockDataWords
  PreimageWords <- MCPreimageWords
  CostPerWord = 1
  WitnessWordDiv = 1
  MinFee = 1
  EnginePatch = 0
  Names = {1, 2, 3}
  V0Names = {}
  SimpleSpends <- MCOrders
  Includes = {FALSE}
  FeeTargets = {70, 150}
  AdjustFees = {FALSE}
  Additions <- MCAdditions
  Sessions = {s1, s2}
  MaxCalls = 3
  MaxStarts = 2
INVARIANTS
  SigningTypes
PROPERTIES
  ReturnMeansSigned
  ValidMeansSpendable
  SessionsEnd
CHECK_DEADLOCK FALSE
