SPECIFICATION Spec
CONSTANTS
  k1 = k1
  k2 = k2
  h1 = h1
  NoLock = NoLock
  NoSig = NoSig
  Pkhs <- MCPkhs
  Digests <- MCDigests
  Locks <- MCLocks
  HashedLocks = {}
  LockDataWords <- MCLockDataWords
  PreimageWords <- MCPreimageWords
  CostPerWord = 1
  WitnessWordDiv = 1
  MinFee = 0
  EnginePatch = 0
  Names <- MCNames
  FirstBuilders <- MCFirstBuilders
  MaxSeeds = 4
  MaxEdits = 2
  NewSeeds <- MCNewSeeds
  FeePortions <- MCFeePortions
INVARIANTS
  TypeInvariant
  SignaturesAccumulate
  RebuildIsSame
  IdCoversWhatIsSent
CHECK_DEADLOCK FALSE
