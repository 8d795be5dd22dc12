SPECIFICATION Spec
CONSTANTS
  Files <- OneFile
  NFiles = 1
  MaxChunks = 2
  Threads = {t1, t2}
  MaxFileNum = 2
  MaxTry = 2
  MaxRuns = 2
  MaxLost = 2
  MaxRestarts = 1
  NoFile = NoFile
  Empty = Empty
  Closed = Closed
INVARIANTS
  OneOwner
  InstalledIsWhole
  RejectsOnlyDamaged
