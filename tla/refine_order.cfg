SPECIFICATION Spec
CONSTANTS
  NumSlots = 3
  NumThreads = 3
  Priority <- RisingPriority
  BootPriority = 1
  Yielding <- AllThreads
  Word = 12
  TickHorizon = 11
PROPERTY ImplementsOrder
