SPECIFICATION CacheSpec
CONSTANTS
  q1 = q1
  q2 = q2
  cut = cut
  none = none
  garbled = garbled
  Cut = cut
  None = none
  Garbled = garbled
  Request <- TwoRequests
  Route <- StaticAndIsr
  MaxVersion = 1
  App <- Apps
  MaxTime = 2
  Compressed = TRUE
  MayRestart = TRUE
SYMMETRY Interchangeable
INVARIANTS
  CacheTypeOK
  ExpiryNotForgotten
PROPERTIES
  KeepsPromise
