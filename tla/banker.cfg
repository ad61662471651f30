SPECIFICATION Spec
CONSTANTS
  PIDs = {t1, t2, t3}
  total_src = 3
  MaxRequests = {1, 2, 4}
  Amounts = {0, 1, 2}
  DupBound = 1
  NoPid = NoPid
SYMMETRY Symmetry
INVARIANTS TypeOK ListMatchesMap BooksBalance GrantsAreSafe
