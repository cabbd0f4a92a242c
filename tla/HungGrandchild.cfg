\* One search.
SPECIFICATION Spec
INVARIANTS
  GrandchildIsReached
