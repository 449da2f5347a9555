SPECIFICATION Spec
CONSTANTS
  App = {}
  Worker = worker
  Limit = 2
  CmdBudget = 3
  Cap = 2
  Sizes = {1, 2}
  Unsendable = {}
  Datagram = TRUE
  ReceiveLimit = TRUE
  Echo = TRUE
  MaxRx = 2
  MaxPackets = 3
  MaxQueue = 2
  None = None
INVARIANT SendReachesRemote
CHECK_DEADLOCK FALSE
