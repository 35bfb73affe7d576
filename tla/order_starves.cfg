SPECIFICATION FairSpec
CONSTANTS
  NumThreads = 3
  Quantum <- EqualQuantum
  MayYield <- AllThreads
PROPERTY NoStarvation
