SPECIFICATION Spec
CONSTANTS
  k1 = k1
  k2 = k2
  h1 = h1
  NoLock = NoLock
  NoSig = NoSig
  NoOverride = NoOverride
  NoPreimage = NoPreimage
  NoOrder = NoOrder
  Pkhs <- MCPkhs
  Digests <- MCDigests
  Locks <- MCLocks
  HashedLocks <- MCHashedLocks
  LockDataWords <- MCLockDataWords
  PreimageWords <- MCPreimageWords
  CostPerWord = 1
  WitnessWordDiv = 1
  MinFee = 1
  EnginePatch = 0
  Names = {1, 2, 3, 4, 5, 6, 7}
  V0Names = {5}
  SimpleSpends <- ClaimOrders
  Includes = {FALSE}
  FeeTargets = {}
  AdjustFees = {}
  Additions = {}
  MaxCalls = 1
PROPERTIES
  PreimagesAttached
CHECK_DEADLOCK FALSE
