SPECIFICATION StartSpec
CONSTANTS
  Readers = {r1}
  Writers = {w1, w2}
  Values = {v1}
  NoProc = NoProc
INVARIANTS NoReadBeforeInit IdleInitHarmless
PROPERTIES ReadsUnlessDisturbed
CHECK_DEADLOCK FALSE
