\* Two targets, an aircraft that stays and one that comes and goes.
SPECIFICATION FairSpec
CONSTANTS
  CA101 = CA101
  MU202 = MU202
  Flight = {CA101, MU202}
  TargetTypes = {"CDTI", "PFD"}
  CmdTypes = {"WAIT"}
  MaxAdds = 2
  MaxCommands = 1
  MaxRemovals = 1
  MaxChanges = 3
PROPERTIES
  SteadilyServed
CHECK_DEADLOCK FALSE
