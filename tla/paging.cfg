SPECIFICATION Spec
CONSTANTS
  Entries = 4
  DirFrame = 1
  Tables <- MCTables
  SpareTables <- MCSpareTables
  NumFrames = 12
  Leftovers <- MCLeftovers
  Wanted <- MCWanted
  Busy <- MCBusy
INVARIANT CachedAgrees WindowReachesTables KernelStaysMapped
PROPERTY ImplementsAddressSpace
