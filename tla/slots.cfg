\* Three aircraft for two entries; the state space has no bound.
SPECIFICATION FairSpec
CONSTANTS
  A1 = A1
  A2 = A2
  A3 = A3
  Aircraft = {A1, A2, A3}
  null = null
  NumNames = 2
  Limit = 3
INVARIANTS
  TypeOK
  Counted
  OneEntryEach
  ListedInside
PROPERTIES
  RefusedOnlyIfFull
  EventuallyShown
