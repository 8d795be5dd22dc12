SPECIFICATION Spec
CONSTANTS
  Lists <- OneList
  Layout <- OneListAll2
  QueSize = 2
  MemCap = 1
  MaxGroups = 1
  MaxServers = 2
  NFiles = 1
  MaxChunks = 1
  MaxTry = 2
  MaxFail = 1
  BatchMax = 1
INVARIANTS
  NothingLost
