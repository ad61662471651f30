SPECIFICATION MCSpec
CONSTANTS
  Pages = {p0, p1, p2, p3, p4, p5}
  Illegal = {p9}
  contain = 3
  Top = Top
  NULL = NULL
  MaxTotal = 3
  PipeSize = 2
  jump = 2
  MaxMem = 5
  MaxPages = 4
  TRYTIMES = 2
INVARIANTS OnlyIllegalVisitsDie RingIsLRU SwitchTypeOK AverageIsHonest EachPageOnce EveryOrderOnce
PROPERTIES BothEnd
CHECK_DEADLOCK FALSE
