\* One reply of text and two calls, one stream; it stops after it.
SPECIFICATION Spec
CONSTANTS
  Plans <- MCTwoCalls
  MaxStreams = 1
INVARIANT DroppedIsNoAnswer
CHECK_DEADLOCK FALSE
