\* The ring of the code, with ten entries.
SPECIFICATION Spec
CONSTANTS
  waitingTime = 10
  NumFields = 7
  Ground = 4
  MaxUpdates = 12
INVARIANTS
  TenSecondsAgo
