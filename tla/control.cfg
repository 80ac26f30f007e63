SPECIFICATION Spec
CONSTANTS
  p1 = p1
  p2 = p2
  p3 = p3
  Process = {p1, p2, p3}
  Pid = {1, 2}
  Name = {"app","long"}
  LongNames = {"long"}
  Level = {4, 5}
  FirstLevel = 4
  QueueSize = 2
  MaxSockets = 2
  SocketMayFail = FALSE
INVARIANTS TypeOK OwnIsReachable
PROPERTY ImplementsRemoteLevels
VIEW BarHistory
SYMMETRY Interchangeable
CHECK_DEADLOCK FALSE
