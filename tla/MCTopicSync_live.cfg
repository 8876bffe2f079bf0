SPECIFICATION FairSpec
CONSTANTS
  c1 = c1
  c2 = c2
  m1 = m1
  m2 = m2
  zero = zero
  high = high
  noone = noone
  garbled = garbled
  None = noone
  Garbled = garbled
  Zero = zero
  Value <- TwoValues
  NonText <- NoNonText
  Manager <- TwoManagers
  Consumer <- TwoConsumers
  NumFields = 1
  MaxQueue = 2
PROPERTIES
  EventuallyOnline
  PendingIsFlushed
