SPECIFICATION FairSpec
CONSTANTS
  App = {t1}
  t1 = t1
  Worker = worker
  Limit = 2
  CmdBudget = 3
  Cap = 2
  Sizes = {1, 3}
  Unsendable = {}
  Datagram = FALSE
  ReceiveLimit = FALSE
  Echo = FALSE
  MaxRx = 1
  MaxPackets = 2
  MaxQueue = 2
  None = None
INVARIANT NoStrandedPacket
PROPERTY OutputIsStream
PROPERTY Delivered
CHECK_DEADLOCK FALSE
