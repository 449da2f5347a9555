SPECIFICATION FairSpec
CONSTANTS
  App = {}
  Worker = worker
  Limit = 2
  CmdBudget = 3
  Cap = 2
  Sizes = {1, 2}
  Unsendable = {2}
  Datagram = TRUE
  ReceiveLimit = FALSE
  Echo = TRUE
  MaxRx = 1
  MaxPackets = 3
  MaxQueue = 2
  None = None
PROPERTY PassedBack
CHECK_DEADLOCK FALSE
