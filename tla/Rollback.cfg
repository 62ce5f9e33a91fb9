SPECIFICATION Spec
CONSTANTS
  Topics = {"people", "banking"}
  Unclassified = "unclassified"
  Configured = {"people", "banking", "unclassified"}
  IdOf <- NamesAsIds
  Messages = {1, 2}
  Views <- MCViews
  MaxMoves = 2
INVARIANTS EveryRecordIsCounted UntouchedIsExact
PROPERTIES OnlyTheRunIsUndone MovedBeforePlanIsLeftAlone
