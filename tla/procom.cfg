SPECIFICATION FairSpec
CONSTANTS
  Producers = {a, b, c}
  Consumers = {c1, c2}
  bufsize = 2
  NoProc = NoProc
  NoItem = NoItem
INVARIANTS TypeOK BufferExclusive NoLostUpdate Accounting
PROPERTIES ImplementsBoundedBuffer KeepsEating
