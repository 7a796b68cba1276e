SPECIFICATION FairSpec
CONSTANTS
  Channel = {cd, md}
  None = None
  MaxReady = 1
INVARIANTS TypeOK DiesOfOverlap BusyIsInside OneDeaf
PROPERTIES StreamsGoOn
CHECK_DEADLOCK FALSE
