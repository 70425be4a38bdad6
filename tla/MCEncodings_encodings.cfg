SPECIFICATION Spec
CONSTANTS
  old = old
  new = new
  HalfBits = 4
  W = 16
INVARIANTS
  EncodingTypes
  ShapeOfTheSet
  ProofLeadsToRoot
  CallsAppend
  CueInvertsJam
  LossShows
  WireRoundTrip
  CutShows
  FormsAgree
  PbRoundTrip
  NodeSeesTheTransaction
  PushedIsRead
  NoPartIsRead
  ArithmeticModuloPrime
  KeysAgree
SYMMETRY MCSymmetry
CHECK_DEADLOCK FALSE
