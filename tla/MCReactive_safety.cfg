SPECIFICATION Spec
CONSTANTS
  a = a
  b = b
  s1 = s1
  s2 = s2
  nosub = nosub
  NoSub = nosub
  Value <- Bits
  Observable <- TwoObservables
  Subscription <- TwoSubscriptions
  Cleaning <- SecondCleans
  MaxStack = 5
  MaxBatch = 2
SYMMETRY SwapObservables
INVARIANTS
  TypeOK
  EffectsSeeLatest
  SubscribedExactly
PROPERTIES
  StopIsFinal
