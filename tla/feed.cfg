\* Two flights, two commands, a removal of an entry at any moment.  The system
\* may stop: the simulation thread can die, and the other two wait for input.
SPECIFICATION Spec
CONSTANTS
  CA101 = CA101
  MU202 = MU202
  Flight = {CA101, MU202}
  TargetTypes = {"CDTI", "PFD"}
  CmdTypes = {"REROUTE"}
  MaxAdds = 2
  MaxCommands = 2
  MaxRemovals = 1
  MaxChanges = 4
INVARIANTS
  FeedInv
  UniqueTargets
  CommandForFlight
  LatestEverywhere
  PointNotOlder
  PortNotNewer
SYMMETRY Symmetry
CHECK_DEADLOCK FALSE
