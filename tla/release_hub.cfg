\* A hub alone: time for four releases and a refill, and intervals below and between the wake-turbulence minima, a negative one among them.
SPECIFICATION Spec
CONSTANTS
  ZSSS = ZSSS
  ZUUU = ZUUU
  Aerodrome = {ZSSS}
  Hub = {ZSSS}
  APLType = {"L"}
  Pattern <- MCPattern
  Minute = 1
  MaxJitter = 1
  Intervals <- TypedIntervals
  MaxPlan = 0
  MaxTime = 9
  MaxStep = 2
  NoFlight = NoFlight
INVARIANTS
  LineInv
  Separation
  IInv
  HubCycle
  BoardShowsReleases
PROPERTY
  ReleaseSequence
