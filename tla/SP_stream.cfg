SPECIFICATION Spec
CONSTANTS
  App = {t1}
  t1 = t1
  Worker = worker
  Limit = 2
  CmdBudget = 2
  Cap = 2
  Sizes = {0, 2}
  Unsendable = {}
  Datagram = TRUE
  ReceiveLimit = TRUE
  Echo = TRUE
  MaxRx = 1
  MaxPackets = 3
  MaxQueue = 1
  None = None
INVARIANT TypeOK
PROPERTY OutputIsStream
CHECK_DEADLOCK FALSE
