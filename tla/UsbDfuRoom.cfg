\* Blocks smaller than a sector, up to the end of the zone.
CONSTANTS
  Zone     <- MCZone
  Sector   = 4
  Page     = 2
  BlockLen = {2}
  MaxImage = 1
SPECIFICATION Spec
CHECK_DEADLOCK FALSE
PROPERTIES
  RefusesOnlyOverflow
