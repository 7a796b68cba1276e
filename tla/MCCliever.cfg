SPECIFICATION FairSpec
CONSTANTS
  Handle = {h1, h2}
  None = None
  Stray = Stray
  MaxWaits = 2
INVARIANTS TypeOK BeatIsHeard FaultsExplained
PROPERTIES Born ShutdownQuiets OwesNoMore
CHECK_DEADLOCK FALSE
