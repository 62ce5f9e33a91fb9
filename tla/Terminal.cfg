SPECIFICATION FairSpec
CONSTANTS
  w1 = w1
  w2 = w2
  Topics = {}
  Unclassified = "unclassified"
  Configured = {"unclassified"}
  IdOf <- MCIdOf
  Messages = {1, 2}
  Workers = {w1, w2}
  Limit = 0
  Attempts = 1
  Threshold = 1
  Ids429 = {}
  InitialViews <- Fresh
  MaxMoves = 0
  MaxTyped = 2
  NoMessage = NoMessage
PROPERTIES QueueDrainsAroundPauses AttendedRunEnds
