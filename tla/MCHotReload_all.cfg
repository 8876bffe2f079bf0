SPECIFICATION FairSpec
CONSTANTS
  MaxEdits = 2
  Broken <- FirstBroken
CHECK_DEADLOCK FALSE
INVARIANTS
  TypeOK
  LastEditIsBuilt
  OnlyNewestServes
PROPERTIES
  EditsGetBuilt
