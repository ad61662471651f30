SPECIFICATION RestartSpec
CONSTANTS
  Producers = {a, b}
  Consumers = {c1, c2}
  SecondRun = {b, c2}
  bufsize = 2
  NoProc = NoProc
  NoItem = NoItem
INVARIANTS QuietRestartSound
