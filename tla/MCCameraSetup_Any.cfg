SPECIFICATION Spec
CONSTANTS
  Payloads = 3
  EventHeaders = 2
  MayFail <- Anything
INVARIANTS
  CallbackContext
  PayloadsPin
  CleanedUp
  PointersGood
