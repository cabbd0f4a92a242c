\* Two tasks and a thread, two turns.
SPECIFICATION Spec
CONSTANTS
  c1 = c1
  c2 = c2
  t1 = t1
  Tasks <- MCTasks
  Threads <- OneThread
  MaxTurns = 2
PROPERTIES
  StopStaysInItsTurn
CHECK_DEADLOCK FALSE
