SPECIFICATION Spec
CONSTANTS
  HasTLS = TRUE
  MaxConversationLength = 10
  MaxUnrecognised = 2
  MaxNumRecipients = 2
  MaxMails = 2
CHECK_DEADLOCK FALSE
INVARIANT
  ConversationInOrder
PROPERTY
  ConversationEnds
