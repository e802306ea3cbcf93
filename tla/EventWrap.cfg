\* A read of more packets than the event counter counts, on a bus that loses none.
CONSTANTS
  EpNum       = {0}
  Unit        <- MCUnit
  CrcUnit     <- MCCrcUnit
  IgnoreRxErr = TRUE
  EvtMod      = 16
  PktLen      = 1
  Request     <- MCRequest
  NoReq       <- MCNoReq
  MaxLen      = 17
  MaxLoss     = 0
  MaxOther    = 0
  MaxXfer     = 1
  Reads       = {17}
  Writes      = {0}
SPECIFICATION Spec
CHECK_DEADLOCK FALSE
INVARIANTS
  ActivityPending
