SPECIFICATION Spec
CONSTANTS
  Addr <- MCAddr
  Kind <- MCMasterKinds
  Freed <- MCMasterKinds
  MaxEntries = 2
  Free = Free
  Done = Done
INVARIANTS EverythingQueuedIsDispatched
CHECK_DEADLOCK FALSE
