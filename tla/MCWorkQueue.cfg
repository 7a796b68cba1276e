SPECIFICATION FairSpec
CONSTANTS
  Addr <- MCAddr
  Kind <- MCDeviceKinds
  Freed <- MCDeviceFreed
  MaxEntries = 2
  Free = Free
  Done = Done
INVARIANTS TypeOK ExactlyOnce EntriesAreItems
PROPERTIES HighestServed
CHECK_DEADLOCK FALSE
