\* Two tasks, two waits each, one thread that may always set the signal once more.
SPECIFICATION FairSpec
CONSTANTS
  w1 = w1
  w2 = w2
  t1 = t1
  NoThread = NoThread
  Tasks <- MCTasks
  Threads <- OneThread
  MaxWaits = 2
INVARIANTS
  TypeOK
  WaitersAreExact
  NoLostWakeUp
PROPERTIES
  KeepsPromise
  StopEndsWaits
