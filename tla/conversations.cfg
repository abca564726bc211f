SPECIFICATION Spec
CONSTANTS
  Mails = {1, 2, 3}
  Written = 1
  Bodies <- MCBodies
  MaxAttempts = 2
  MaxOutstanding = 1
  Devices = {"a", "b"}
  Conversations = {1, 2}
  MaxPortions = 3
  MaxWriteAttempts = 3
  MaxVisits = 2
  MaxRestarts = 1
\* Mails are sent, devices and peers gone, the program unlocked: a part may end.
CHECK_DEADLOCK FALSE
INVARIANTS
  NoMailLoop
  OneReaderPerDevice
  StreamHasNoHole
PROPERTIES
  OutstandingDrains
  StopDisconnects
  BothSidesEnd
  EventuallyUnlocked
