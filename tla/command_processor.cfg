SPECIFICATION Spec
CONSTANTS
  Requests = {1, 2}
  Inputs <- MCInputs
  ShortcutBody <- MCShortcut
  Sequences2 <- MCSequences
  Features = {"joke", "shell", "env"}
  MaxLength = 2
  EmptyOutputLen = 4
  ErrLen = 2
  Divisions = 2
\* Every command is answered in the end.
CHECK_DEADLOCK FALSE
INVARIANT
  AnswersAreShaped
PROPERTY
  ImplementsService
