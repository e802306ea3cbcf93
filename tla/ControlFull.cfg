\* The default build: how the core and the firmware share the registers.
CONSTANTS
  EpNum       = {0}
  Unit        <- MCUnit
  CrcUnit     <- MCCrcUnit
  IgnoreRxErr = FALSE
  EvtMod      = 16
  PktLen      = 2
  Request     <- MCRequest
  NoReq       <- MCNoReq
  MaxLen      = 3
  MaxLoss     = 1
  MaxOther    = 0
  MaxXfer     = 2
  Reads       = {0, 3}
  Writes      = {0, 3}
SPECIFICATION Spec
CHECK_DEADLOCK FALSE
INVARIANTS
  LockoutCoversHandling
  NoBufferRace
PROPERTIES
  SetupKept
