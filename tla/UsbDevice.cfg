\* Enumeration, settings, halts, suspend and bus resets at any point.
CONSTANTS
  Ep = {129, 130}
  DualEp = {129}
  Desc <- MCDesc
  Descriptor = {256}
  RtIntf = 1
  Address = {5}
  BadConf = 9
  MaxConf = 2
SPECIFICATION FairSpec
INVARIANTS
  TypeOK
  SessionClean
  AddressAgrees
  EndPointsAgree
  AnswersTrue
  BuffersApart
  RoomForPackets
PROPERTIES
  DriversCalledInOrder
  KeepsUp
