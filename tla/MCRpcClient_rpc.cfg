SPECIFICATION Spec
CONSTANTS
  ByteBase = 16
  Unbased = 9
  Asks <- MCAsks
  Ledger <- MCLedger
  PageSize = 2
  Cuts <- MCCuts
  MaxAttempts = 2
  MaxBlocks = 3
INVARIANTS
  TypeInvariant
  AcknowledgedIsHeld
  AnswersWereTrue
CHECK_DEADLOCK FALSE
