\* One turn; the model may never answer; it stops after the turn.
SPECIFICATION FairSpec
CONSTANTS
  CallIds <- MCCallIds
  KnownTools <- MCKnownTools
  ParallelTools <- MCParallelTools
  Replies <- MCReplies
  MaxStrikes = 2
  MaxIterations = 2
  MaxAttempts = 2
  MaxTurns = 1
PROPERTIES
  TurnEnds
  StopEndsLoop
CHECK_DEADLOCK FALSE
