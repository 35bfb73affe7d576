SPECIFICATION Spec
CONSTANTS
  NumThreads = 2
  Irq <- MCIrq
  Exceptions <- MCExceptions
  Calls <- MCCalls
  CheckClobbers = {}
INVARIANT RegistersIntact CalleeSavedKept HandlersInformed NothingLeftInService
CHECK_DEADLOCK FALSE
