SPECIFICATION Spec
CONSTANTS
  Topics = {"people", "banking"}
  Unclassified = "unclassified"
  Configured = {"people", "banking", "unclassified"}
  IdOf <- GmailIds
  Messages = {1, 2}
  Views <- MCViews
  MaxMoves = 2
PROPERTY MovedMessagesAreSkipped
