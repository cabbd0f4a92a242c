\* Batches of up to four calls, two workers, handlers that may hang; it stops after the batch.
SPECIFICATION FairSpec
CONSTANTS
  KnownTools <- MCKnownTools
  ParallelTools <- MCParallelTools
  Batches <- MCBatches
  MaxWorkers = 2
INVARIANTS
  AnswersMatchCalls
  BarriersHold
  NoWorkerLeftBehind
  PlanIsMaximal
PROPERTIES
  KeepsPromise
  BatchEnds
  StopEndsSegment
CHECK_DEADLOCK FALSE
