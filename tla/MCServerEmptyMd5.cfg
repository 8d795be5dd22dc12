SPECIFICATION Spec
CONSTANTS
  Files <- OneFile
  NFiles = 1
  MaxChunks = 1
  Threads = {t1}
  MaxFileNum = 1
  MaxTry = 2
  MaxRuns = 1
  MaxLost = 0
  MaxRestarts = 0
  NoFile = NoFile
  Empty = Empty
  Closed = Closed
INVARIANTS
  CheckedIsInstalled
