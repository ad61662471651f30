SPECIFICATION Spec
CONSTANTS
  CPUs = {c0, c1}
  t1 = t1
  t2 = t2
  t3 = t3
  Threads = {t1, t2, t3}
  PidOf <- MCPidOf
  MaxEntries = 2
  RingSize = 2
  ShowMax = 2
  Results = {0, 3}
  MaxCalls = 2
  NoThread = NoThread
INVARIANTS CountsAreExact PassIsComplete
PROPERTIES EventsInTurn SignalEnds
CHECK_DEADLOCK FALSE
