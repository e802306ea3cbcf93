\* As BulkXfer.cfg.
CONSTANTS
  EpNum       = {1}
  Unit        <- MCUnit
  CrcUnit     <- MCCrcUnit
  IgnoreRxErr = TRUE
  EvtMod      = 16
  Depth       = 2
  Entry       = {this, other}
  ThisEp      = this
  Mps         = 4
  XferLen     = {0, 5}
  PktLen      = {4}
  MaxPkt      = 4
  MaxLoss     = 1
  MaxOther    = 2
SPECIFICATION Spec
CHECK_DEADLOCK FALSE
PROPERTIES
  DataIgnored
