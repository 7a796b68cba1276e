SPECIFICATION FairSpec
CONSTANTS
  App = {a1}
  Name <- MCName
  SubType <- MCSubType
  None = None
  Gone = Gone
  Frame = Frame
  MaxOdd = 1

PROPERTIES DataLayerStarts
CHECK_DEADLOCK FALSE
