\* One search; stops and withdrawals may follow it for ever.
SPECIFICATION FairSpec
INVARIANTS
  AnswersAreTrue
  NoOrphanRemains
PROPERTIES
  SearchEnds
