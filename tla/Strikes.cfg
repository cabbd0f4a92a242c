\* Six replies, twice the strikes of the code; it stops when the turn ends.
SPECIFICATION Spec
CONSTANTS
  KnownTools <- MCKnownTools
  ParallelTools <- MCParallelTools
  Batches <- MCBatches
  MaxStrikes = 3
  MaxReplies = 6
INVARIANTS
  StrikesAreConsecutive
  RepeatsAreBounded
  CutCallsNeverRun
CHECK_DEADLOCK FALSE
