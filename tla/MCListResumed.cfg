SPECIFICATION Spec
CONSTANTS
  f1 = f1
  f2 = f2
  l1 = l1
  Files = {f1, f2}
  Lists <- OneList
  Programs = {}
  Pids = {}
  Threads = {}
  NoFile = NoFile
  Empty = Empty
  Garbage = Garbage
  Closed = Closed
  Gone = Gone
  NoProcess = NoProcess
  Lines <- TwoFiles
  GroupList = l1
  MaxTry = 2
  Missing <- NoneOrOne
  Scenes <- OneScene
  MaxLost = 1
INVARIANTS
  ResumedIsInstalled
CHECK_DEADLOCK FALSE
