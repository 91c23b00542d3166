SPECIFICATION FairGenerationSpec
CONSTANTS
  Collections <- MCCollections
  Generators = {"none", "custom", "example"}
  StartTime = 2
  EndTime = 9
  Speed = 2
  ClimbRate = 2
INVARIANTS
  PiecesCoverLine
  VolumesFitTheFlight
PROPERTIES
  Generated
CHECK_DEADLOCK FALSE
