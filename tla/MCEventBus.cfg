SPECIFICATION FairSpec
CONSTANTS
  incoming = incoming
  birth = birth
  l1 = l1
  l2 = l2
  m1 = m1
  EvType = {incoming, birth}
  Listener = {l1, l2, m1}
  Hears <- MCHears
  None = None
  Other = Other
INVARIANTS
  TypeOK
  AssertionsHold
  RegisteredTellsTheTruth
  IgnoredIsExact
PROPERTIES
  RegistryFrozenWhileSending
  KeepsPromise
  EverySendEnds
