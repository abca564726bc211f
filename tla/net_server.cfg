SPECIFICATION Spec
CONSTANTS
  Port = {"tcp", "udp"}
  Direct = FALSE
  Slot = {1, 2, 3}
  Fault = {"resolve", "listen", "accept"}
  MaxFaults = 2
  MaxStops = 1
  MaxDelay = 1
CHECK_DEADLOCK FALSE
INVARIANT
  ListenersInOrder
PROPERTY
  SelfHealing
