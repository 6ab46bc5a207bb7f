SPECIFICATION FairSpec
CONSTANTS
  Plane <- MCPlane
  WAYPOINT_MAX = 2
  IdRange = 256
  Client <- MCClient
  Request <- MCRequest
  OPS_PER_CYCLE = 2
  MaxInbox = 1
  MaxSends = 2
INVARIANTS TypeOK ConnKeyed SocketUse LogWrittenWhileOpen ScreenFollows
PROPERTIES RepliesToRequester OverrunByRepetition FrameEnds DisableTerminates
