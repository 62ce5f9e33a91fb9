SPECIFICATION Spec
CONSTANTS
  Spellings = {"A", "a", "B"}
  Norm <- MCNorm
  Commands = {"list", "tune", "run"}
  Limits = {0, 1, 2}
  Found = {0, 1, 2, 3}
  maxPageSize = 2
  SpanishWords = {"para", "de", "a.de"}
  SpanishHosts = {"tienda.mx", "b.mx.com", "a.mx"}
  SpanishDomains = {"a.mx"}
  Beginnings <- MCBeginnings
  ShortBudget = 2
  LongBudget = 4
  Parts <- MCParts
  Payloads <- MCPayloads
  Inputs <- MCInputs
  Labels <- MCLabels
  JunkThresholds = {45, 50, 55, 60, 65}
  TopicThresholds = {55, 60, 65}
INVARIANTS ListingIsExact FirstPlainPartWins VisibleTextOnly BodyIsTheNewText
  SpanishIsSentAsSpanish RowsAddUp RowsAreMonotone TrashColumnIsThePolicy
\* The program prints the table and stops.
CHECK_DEADLOCK FALSE
