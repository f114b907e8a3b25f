\* The oldest intent raises in every pass.
SPECIFICATION FairSpec
CONSTANTS
  Workers = {w1}
  Intents = {1, 2}
  TupleOf <- OwnTuple
  NoOne = NoOne
  Broken = {1}
PROPERTIES
  DueIsServed
CHECK_DEADLOCK FALSE
