\* A SETUP packet that is lost, default build.
CONSTANTS
  EpNum       = {0}
  Unit        <- MCUnit
  CrcUnit     <- MCCrcUnit
  IgnoreRxErr = FALSE
  EvtMod      = 16
  PktLen      = 2
  Request     <- MCRequest
  NoReq       <- MCNoReq
  MaxLen      = 3
  MaxLoss     = 1
  MaxOther    = 0
  MaxXfer     = 2
  Reads       = {3}
  Writes      = {3}
SPECIFICATION Spec
CHECK_DEADLOCK FALSE
INVARIANTS
  SetupStored
