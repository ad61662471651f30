SPECIFICATION Spec
CONSTANTS
  Capacity = 2
  Workers = {w1, w2}
  Width = 4
  Lengths <- MCLengths
  MaxReceived = 3
INVARIANTS TypeOK EachTaskInOnePlace OnlyWorkersAreOvertaken
PROPERTIES OnlyWrappingPanics FirstResultsAreSaved
CHECK_DEADLOCK FALSE
