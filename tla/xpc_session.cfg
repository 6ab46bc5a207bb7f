SPECIFICATION SessionSpec
CONSTANTS
  Plane <- MCPlane
  WAYPOINT_MAX = 16
  IdRange = 256
  Client = {}
  Request = {}
  OPS_PER_CYCLE = 3
  MaxInbox = 3
  MaxSends = 1000
  Scenario <- MCScenario
  MaxFaults <- MCMaxFaults
CONSTRAINT FaultBound
INVARIANTS FaultsStayLocal AnswersInOrder SceneryAgrees CleanAfterTests
PROPERTIES ProgramsEnd

