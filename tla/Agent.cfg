\* Two tasks and a thread, two turns; it stops after the last turn.
SPECIFICATION Spec
CONSTANTS
  c1 = c1
  c2 = c2
  t1 = t1
  Tasks <- MCTasks
  Threads <- OneThread
  MaxTurns = 2
INVARIANTS
  TypeOK
  OneTurnAtATime
  ReportsAreTrue
  InTimeStopDies
CHECK_DEADLOCK FALSE
