\* A hub and an aerodrome that receives up to two generated flights; progress with the fairness of FairSpec.
SPECIFICATION FairSpec
CONSTANTS
  ZSSS = ZSSS
  ZUUU = ZUUU
  Aerodrome = {ZSSS, ZUUU}
  Hub = {ZSSS}
  APLType = {"L", "H"}
  Pattern <- MCPattern
  Minute = 1
  MaxJitter = 1
  Intervals = {1}
  MaxPlan = 2
  MaxTime = 4
  MaxStep = 2
  NoFlight = NoFlight
INVARIANTS
  QueueOwnership
  FilingOrder
PROPERTIES
  OverdueIsReleased
  ExecuteStarts
