SPECIFICATION Spec
CONSTANTS
  p1 = p1
  p2 = p2
  compiler = compiler
  library = library
  Proc <- TwoProcesses
  Entry <- TwoEntries
  Bin = compiler
  MaxRetries = 2
  None = None
INVARIANTS
  TypeOK
  TailwindNeverTorn
  ReadyMeansComplete
PROPERTIES
  EnsureEnds
