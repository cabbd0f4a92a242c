\* Two turns of two iterations with every kind of reply; it stops after the last turn.
SPECIFICATION Spec
CONSTANTS
  CallIds <- MCCallIds
  KnownTools <- MCKnownTools
  ParallelTools <- MCParallelTools
  Replies <- MCReplies
  MaxStrikes = 2
  MaxIterations = 2
  MaxAttempts = 2
  MaxTurns = 2
INVARIANTS
  TypeOK
  RequestsAreReplayable
  HistoryIsClosed
  BudgetMatchesCalls
  RequestsAreBounded
  ResultIsConsistent
  NoticeIsHonest
PROPERTIES
  HistoryOnlyGrows
  StoppedTurnAsksNoMore
CHECK_DEADLOCK FALSE
