\* A released flight stays on the board as waiting.
SPECIFICATION Spec
CONSTANTS
  ZSSS = ZSSS
  ZUUU = ZUUU
  Aerodrome = {ZSSS}
  Hub = {ZSSS}
  APLType = {"L"}
  Pattern <- ZSSSPattern
  Minute = 1
  MaxJitter = 0
  Intervals = {1}
  MaxPlan = 0
  MaxTime = 15
  MaxStep = 5
  NoFlight = NoFlight
INVARIANT
  BoardShowsWaiting
