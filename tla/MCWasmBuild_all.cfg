SPECIFICATION Spec
CONSTANTS
  p1 = p1
  p2 = p2
  t1 = t1
  dir = dir
  none = none
  torn = torn
  Page <- TwoPages
  Topic <- OneTopic
  TopicDir = dir
  Qualified <- Named
  Text <- TwoTexts
  FirstText = 1
  Brotli <- SecondText
  Cpus = 1
  MaxEdits = 2
  None = none
  Torn = torn
INVARIANTS
  TypeOK
  BuiltIsCurrent
  QualifiedUseCurrentTopics
PROPERTIES
  CommandEnds
