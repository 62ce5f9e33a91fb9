SPECIFICATION Spec
CONSTANTS
  w1 = w1
  w2 = w2
  Topics = {"people"}
  Unclassified = "unclassified"
  Configured = {"people", "unclassified"}
  IdOf <- MCIdOf
  Messages = {1, 2}
  Workers = {w1, w2}
  Limit = 0
  Attempts = 2
  Threshold = 2
  Ids429 = {2}
  InitialViews <- MCViews
  MaxMoves = 1
  NoMessage = NoMessage
SYMMETRY Alike
INVARIANTS LogTellsTheTruth NextRunResumes
PROPERTIES OnlyTrashLeavesTheInbox KeepsItsPromise
