CONSTANTS
  Fd = {f1, f2}
  Addr = {a1, a2}
  Conn = {c1, c2}
  App = {}
  Worker = worker
  CmdEvt = cmd_evt
  ListenEvt = listen_evt
  Nil = Nil
  MaxEvents = 6
  CmdBudget = 2
  CallbackOps = {"send", "disconnect"}
  MaxRx = 2
  MaxQueue = 4
SPECIFICATION Spec
SYMMETRY Symmetry
INVARIANT NoLostWakeup
CHECK_DEADLOCK FALSE
