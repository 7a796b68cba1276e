SPECIFICATION FairSpec
CONSTANTS
  App = {a1, a2}
  Name <- MCName
  SubType <- MCSubType
  None = None
  Gone = Gone
  Frame = Frame
  MaxOdd = 1
INVARIANTS TypeOK CrashExplained RegisteredAreGranted QueriesAlive
PROPERTIES WaitingStarts
CHECK_DEADLOCK FALSE

