\* One target, and two commands as the script inter_test alternates them.
SPECIFICATION Spec
CONSTANTS
  CA101 = CA101
  MU202 = MU202
  Flight = {CA101}
  TargetTypes = {"CDTI"}
  CmdTypes = {"WAIT", "REROUTE"}
  MaxAdds = 1
  MaxCommands = 2
  MaxRemovals = 0
  MaxChanges = 2
INVARIANTS
  OwnTextDecided
CHECK_DEADLOCK FALSE
