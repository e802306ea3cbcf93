\* The SETUP packet against a packet for another device.
CONSTANTS
  EpNum       = {0}
  Unit        <- MCUnit
  CrcUnit     <- MCCrcUnit
  IgnoreRxErr = TRUE
  EvtMod      = 16
  PktLen      = 2
  Request     <- MCRequest
  NoReq       <- MCNoReq
  MaxLen      = 3
  MaxLoss     = 0
  MaxOther    = 1
  MaxXfer     = 2
  Reads       = {3}
  Writes      = {3}
SPECIFICATION Spec
CHECK_DEADLOCK FALSE
PROPERTIES
  SetupKept
