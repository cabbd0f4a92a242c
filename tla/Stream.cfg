\* Five replies, two streams on one client; it stops after the last stream.
SPECIFICATION Spec
CONSTANTS
  Plans <- MCPlans
  MaxStreams = 2
INVARIANTS
  NothingIsMisfiled
  AnswersAreWhole
  ShownIsABeginning
CHECK_DEADLOCK FALSE
