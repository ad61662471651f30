SPECIFICATION FairSpec
CONSTANTS
  Readers = {r1, r2}
  Writers = {w1}
  Values = {v1}
  NoProc = NoProc
PROPERTIES ReadersKeepReading
CHECK_DEADLOCK FALSE
