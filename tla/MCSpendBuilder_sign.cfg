SPECIFICATION Spec
CONSTANTS
  k1 = k1
  k2 = k2
  h1 = h1
  c1 = c1
  c2 = c2
  NoLock = NoLock
  NoSig = NoSig
  NoCall = NoCall
  Digests <- MCDigests
  Locks <- MCLocks
  HashedLocks <- MCHashedLocks
  LockDataWords <- MCLockDataWords
  PreimageWords <- MCPreimageWords
  CostPerWord = 1
  WitnessWordDiv = 1
  MinFee = 1
  EnginePatch = 0
  Calls = {c1, c2}
  Pkhs <- SignPkhs
  MaxSeeds = 1
  NewSeeds <- SignSeeds
  FeePortions = {0, 2}
  NewWitnesses <- SignWitnesses
  ForeignContents = {}
  FirstSpends <- SignFirst
INVARIANTS
  SignerSignaturesUsable
PROPERTIES
  ContentChangeDropsSigs
SYMMETRY CallSymmetry
CHECK_DEADLOCK FALSE
