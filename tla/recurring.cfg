SPECIFICATION Spec
CONSTANTS
  PreConfiguredCommands <- PreConfigured
  Transient = {"ls"}
  MaxResults = 2
  MaxTransient = 1
\* The loop may have been stopped, and Stop may wait for ever.
CHECK_DEADLOCK FALSE
INVARIANT
  ResultsInOrder
PROPERTY
  HandedOutOnce
