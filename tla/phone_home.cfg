\* One subject, a server and another one that never answers.
CONSTANTS
  Server = s1
  Unreachable = {s2}
  Subject = me
  Thread = {t1, t2}
  Command = {boot, ping}
  Recursive = {}
  NoCmd = NoCmd
  Absent = Absent
  ServerOrders = {boot}
  SubjectOrders = {ping}
  MaxReportsPerHostName = 1
  Retention = 0
  Expiry = 1
  CallLimit = 1
  MaxTime = 1
\* The daemon may end: a system that is stopped stays stopped.
CHECK_DEADLOCK FALSE
SPECIFICATION Spec
PROPERTIES
  OrderRemembered
  OrderedCommandReported
  RequestedCommandAnswered
  StopHonoured
