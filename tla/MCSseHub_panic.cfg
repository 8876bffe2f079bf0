SPECIFICATION HubSpec
CONSTANTS
  s1 = s1
  s2 = s2
  s3 = s3
  Stream <- OneStream
  MaxSends = 1
CHECK_DEADLOCK FALSE
INVARIANTS
  LeavingIsHarmless
