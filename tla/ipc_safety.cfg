SPECIFICATION Spec
CONSTANTS
  Readers = {r1, r2}
  Writers = {w1, w2}
  Values = {v1, v2}
  NoProc = NoProc
SYMMETRY Symmetry
INVARIANTS TypeOK Exclusive WritersShutReadersOut
CHECK_DEADLOCK FALSE
