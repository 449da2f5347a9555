CONSTANTS
  Fd = {f1, f2}
  Addr = {a1, a2}
  Conn = {c1, c2}
  App = {t1}
  Worker = worker
  CmdEvt = cmd_evt
  ListenEvt = listen_evt
  Nil = Nil
  MaxEvents = 6
  CmdBudget = 5
  CallbackOps = {"disconnect"}
  MaxRx = 1
  MaxQueue = 1
SPECIFICATION Spec
SYMMETRY Symmetry
INVARIANT TypeOK
INVARIANT TableConsistent
INVARIANT NoLostWakeup
PROPERTY CallbackOrder
CHECK_DEADLOCK FALSE
