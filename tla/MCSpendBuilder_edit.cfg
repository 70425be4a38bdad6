SPECIFICATION Spec
CONSTANTS
  k1 = k1
  k2 = k2
  h1 = h1
  c1 = c1
  c2 = c2
  NoLock = NoLock
  NoSig = NoSig
  NoCall = NoCall
  Digests <- MCDigests
  Locks <- MCLocks
  HashedLocks <- MCHashedLocks
  LockDataWords <- MCLockDataWords
  PreimageWords <- MCPreimageWords
  CostPerWord = 1
  WitnessWordDiv = 1
  MinFee = 1
  EnginePatch = 0
  Calls = {c1}
  Pkhs <- EditPkhs
  MaxSeeds = 3
  NewSeeds <- EditSeeds
  FeePortions = {0, 2, 5}
  NewWitnesses <- EditWitnesses
  ForeignContents <- EditForeign
  FirstSpends <- EditFirst
INVARIANTS
  TypeInvariant
PROPERTIES
  RefundSettles
  GiftsToOthersKept
CHECK_DEADLOCK FALSE
