SPECIFICATION Spec
CONSTANTS
  Requests = {r1, r2}
  Tasks = {t1, t2}
  Conns = {c1, c2, c3, c4, c5}
  None = None
  Heartbeat = FALSE
PROPERTIES SignalResetOnDisconnect
CHECK_DEADLOCK FALSE
