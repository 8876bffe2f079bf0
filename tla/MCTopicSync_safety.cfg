SPECIFICATION Spec
CONSTANTS
  c1 = c1
  c2 = c2
  m1 = m1
  m2 = m2
  zero = zero
  high = high
  noone = noone
  garbled = garbled
  None = noone
  Garbled = garbled
  Zero = zero
  Value <- TwoValues
  NonText <- HighIsNonText
  Manager <- OneManager
  Consumer <- TwoConsumers
  NumFields = 2
  MaxQueue = 2
SYMMETRY Swap
INVARIANTS
  TypeOK
  Converged
  CleanMeansFresh
  LastRequestApplied
