SPECIFICATION Spec
CONSTANTS
  PreConfiguredCommands <- PreConfigured
  Transient = {"ls"}
  MaxResults = 1
  MaxTransient = 1
CHECK_DEADLOCK FALSE
PROPERTY
  StopReturns
