CONSTANTS
  Fd = {f1, f2}
  Addr = {a1, a2}
  Conn = {c1, c2}
  App = {t1}
  Worker = worker
  CmdEvt = cmd_evt
  ListenEvt = listen_evt
  Nil = Nil
  MaxEvents = 6
  CmdBudget = 20
  CallbackOps = {"send", "disconnect"}
  MaxRx = 1
  MaxQueue = 2
SPECIFICATION Spec
SYMMETRY Symmetry
INVARIANT DispatchedObjectIsValid
CHECK_DEADLOCK FALSE
