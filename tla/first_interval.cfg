\* The interval is edited between the test and the record.
SPECIFICATION Spec
CONSTANTS
  ZSSS = ZSSS
  ZUUU = ZUUU
  Aerodrome = {ZSSS}
  Hub = {ZSSS}
  APLType = {"L"}
  Pattern <- MCPattern
  Minute = 1
  MaxJitter = 1
  Intervals = {1, 3}
  MaxPlan = 0
  MaxTime = 4
  MaxStep = 2
  NoFlight = NoFlight
INVARIANT
  FirstIntervalKept
