\* A ring of six entries, which the updates go round more than twice; four fields.
SPECIFICATION Spec
CONSTANTS
  waitingTime = 6
  NumFields = 4
  Ground = 3
  MaxUpdates = 15
INVARIANTS
  DelayIsExact
  WholeTurnsNewer
  DelayInv
