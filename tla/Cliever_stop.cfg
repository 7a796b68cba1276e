SPECIFICATION FairSpec
CONSTANTS
  Handle = {h1, h2}
  None = None
  Stray = Stray
  MaxWaits = 2
PROPERTIES TerminateEnds
CHECK_DEADLOCK FALSE
