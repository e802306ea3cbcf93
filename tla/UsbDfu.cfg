\* Sessions of a host tool that is restarted at any time.
CONSTANTS
  Zone     <- MCZone
  Sector   = 4
  Page     = 2
  BlockLen = {3, 4}
  MaxImage = 2
SPECIFICATION FairSpec
CHECK_DEADLOCK FALSE
INVARIANTS
  TypeOK
  Delivered
  ErasedFirst
PROPERTIES
  InZone
  BlockEnds
