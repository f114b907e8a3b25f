\* Two workers over two intents of different tuples.
SPECIFICATION FairSpec
CONSTANTS
  Workers = {w1, w2}
  Intents = {1, 2}
  TupleOf <- OwnTuple
  NoOne = NoOne
  Broken = {}
INVARIANTS
  OldCopyOnlyOverrun
PROPERTIES
  DueIsServed
CHECK_DEADLOCK FALSE
