SPECIFICATION Spec
CONSTANTS
  k1 = k1
  k2 = k2
  h1 = h1
  NoLock = NoLock
  NoSig = NoSig
  NoOverride = NoOverride
  NoPreimage = NoPreimage
  NoOrder = NoOrder
  Pkhs <- MCPkhs
  Digests <- MCDigests
  Locks <- MCLocks
  HashedLocks <- MCHashedLocks
  LockDataWords <- MCLockDataWords
  PreimageWords <- MCPreimageWords
  CostPerWord = 4
  WitnessWordDiv = 4
  MinFee = 1
  EnginePatch = 1
  Names = {1, 2, 3, 4, 5, 6, 7, 8, 9}
  V0Names = {5}
  SimpleSpends <- CallOrders
  Includes = {TRUE, FALSE}
  FeeTargets = {0, 60, 200}
  AdjustFees = {TRUE, FALSE}
  Additions <- CallAdditions
  MaxCalls = 5
INVARIANTS
  SpendsBalanced
  NoteHeldOnce
PROPERTIES
  NotesKept
  SigningKeepsFee
  FeeChargesForOutputs
CHECK_DEADLOCK FALSE
