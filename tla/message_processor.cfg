\* Overlapping reports of two subjects: nothing keeps a subject from
\* sending its next report before the previous one was handled.
CONSTANTS
  Host = {h1, h2}
  Command = {run, loop}
  Ordered = {run}
  Recursive = {loop}
  Response = {none}
  Worker = {w1, w2}
  NoCmd = NoCmd
  Absent = Absent
  MaxReportsPerHostName = 2
  Retention = 0
  Expiry = 1
  CallLimit = 1
  MaxTime = 2
SPECIFICATION Spec
INVARIANTS
  PendingHasRunner
  NoOrphanedCommand
  HistoryCoversCommands
  AnswerIsAboutRequest
PROPERTY
  ExpirySparesActive
SYMMETRY Symmetry
