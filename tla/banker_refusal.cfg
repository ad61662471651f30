SPECIFICATION Spec
CONSTANTS
  PIDs = {t1, t2}
  total_src = 3
  MaxRequests = {2, 3}
  Amounts = {1, 2}
  DupBound = 0
  NoPid = NoPid
INVARIANTS RefusalsAreUnsafe
