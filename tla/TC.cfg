CONSTANTS
  Fd = {f1}
  Addr = {a1}
  Conn = {c1, c2}
  App = {t1}
  CmdEvt = cmd_evt
  TimerEvt = timer_evt
  Nil = Nil
  KeepAlive = 2
  SilentAge = 3
  CmdBudget = 2
  MaxBeats = 1
  MaxRx = 1
  MaxQueue = 1
SPECIFICATION FairSpec
INVARIANT TypeOK
INVARIANT TablesAgree
INVARIANT NoStrandedConnect
PROPERTY LostOnlyInRemoval
PROPERTY CallbackOrder
PROPERTY PrematureConnectCauses
PROPERTY KeepAliveWorks
CHECK_DEADLOCK FALSE
