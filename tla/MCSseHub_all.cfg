SPECIFICATION HubFairSpec
CONSTANTS
  s1 = s1
  s2 = s2
  s3 = s3
  Stream <- ThreeStreams
  MaxSends = 3
CHECK_DEADLOCK FALSE
INVARIANTS
  HubTypeOK
  DeliveredOnce
PROPERTIES
  SendsEnd
