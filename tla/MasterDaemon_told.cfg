SPECIFICATION FairSpec
CONSTANTS
  cd1 = cd1
  m1 = m1
  i1 = i1
  Client = {cd1, m1, i1}
  KindOf <- MCKindOf
  Handle = {h1, h2, h3}
  MaxCliever = 4
  MaxInstruments = 2
  Name = {"RST", "_device"}
  Known = {"RST", "_device"}
  SubType <- MCSubType
  Memory = {None}
  MaxQueued = 2
  MaxOvertaken = 0
  None = None
  Stray = Stray
PROPERTIES ToldTheTruth
CHECK_DEADLOCK FALSE
