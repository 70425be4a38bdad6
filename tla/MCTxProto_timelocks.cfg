SPECIFICATION Spec
CONSTANTS
  ByteBase = 16
  Unbased = 9
  MaxTrips = 1
  Transactions <- SampleTransactions
INVARIANT TimelocksKept
CHECK_DEADLOCK FALSE
