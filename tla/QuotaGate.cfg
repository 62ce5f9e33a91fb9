SPECIFICATION FairSpec
CONSTANTS
  Workers = {w1, w2}
  Window = 3
  MaxTime = 9
INVARIANTS TypeOK PausesDoNotStack
PROPERTIES OnlyARacingTripIsMissed WaitersLeave
\* The clock stops at MaxTime and every worker may have been cancelled.
CHECK_DEADLOCK FALSE
