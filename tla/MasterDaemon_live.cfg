SPECIFICATION FairSpec
CONSTANTS
  cd1 = cd1
  m1 = m1
  i1 = i1
  Client = {cd1, m1}
  KindOf <- MCKindOf
  Handle = {h1, h2}
  MaxCliever = 4
  MaxInstruments = 2
  Name = {"RST", "bogus"}
  Known = {"RST"}
  SubType <- MCSubType
  Memory = {None}
  MaxQueued = 2
  MaxOvertaken = 1
  None = None
  Stray = Stray
PROPERTIES GrantsSent KeepsPromise
CHECK_DEADLOCK FALSE
