\* The mini build: what transfers deliver when a packet is lost, and that they end.
CONSTANTS
  EpNum       = {0}
  Unit        <- MCUnit
  CrcUnit     <- MCCrcUnit
  IgnoreRxErr = TRUE
  EvtMod      = 16
  PktLen      = 2
  Request     <- MCRequest
  NoReq       <- MCNoReq
  MaxLen      = 3
  MaxLoss     = 1
  MaxOther    = 0
  MaxXfer     = 2
  Reads       = {2, 3}
  Writes      = {0, 3}
SPECIFICATION FairSpec
CHECK_DEADLOCK FALSE
INVARIANTS
  TypeOK
  NoStaleData
  ReadComplete
  WriteIntact
  NoFalseSuccess
  CallbackSound
  NoLostWakeup
PROPERTIES
  TransferEnds
