SPECIFICATION Spec
CONSTANTS
  NumSlots = 4
  NumThreads = 3
  Priority <- EqualPriority
  BootPriority = 0
  Yielding <- AllThreads
  Word = 6
  TickHorizon = 6
INVARIANT PrintsOwnText
