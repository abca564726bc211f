SPECIFICATION Spec
CONSTANTS
  CommandLine <- CommandLines
  DaemonSet <- DaemonSets
  Culprits <- CulpritSets
  MaxMishaps = 2
CHECK_DEADLOCK FALSE
INVARIANT
  ConfigKept
