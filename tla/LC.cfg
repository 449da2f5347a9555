CONSTANTS
  Client = {c1}
  Port = {a, b}
  Nil = Nil
  CmdBudget = 2
  Ending = {a}
  Sending = {c1}
  NumFds = 13
SPECIFICATION FairSpec
INVARIANT TypeOK
INVARIANT StoppedIsClean
INVARIANT ClosesItsOwn
INVARIANT EveryoneTold
PROPERTY NoCallbackAfterStop
PROPERTY StopReturns
CHECK_DEADLOCK FALSE
