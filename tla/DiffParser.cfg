SPECIFICATION Spec
CONSTANTS
  MaxLines = 5
  MaxFiles = 2
INVARIANTS SnippetsInOrder LossIsKnown NumbersFromAbove UniqueIDs
CHECK_DEADLOCK FALSE
