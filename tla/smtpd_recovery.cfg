SPECIFICATION Spec
CONSTANTS
  Port = {"tcp"}
  Direct = TRUE
  Slot = {1}
  Fault = {"accept"}
  MaxFaults = 1
  MaxStops = 0
  MaxDelay = 1
CHECK_DEADLOCK FALSE
PROPERTY
  SelfHealing
