SPECIFICATION FairSpec
CONSTANTS
  Lists <- TwoLists
  Layout <- TwoListsMixed
  QueSize = 2
  MemCap = 1
  MaxGroups = 1
  MaxServers = 2
  NFiles = 1
  MaxChunks = 1
  MaxTry = 2
  MaxFail = 1
  BatchMax = 1
INVARIANTS
  FreeFieldsUnused
  RefCountExact
  VerifyAfterData
PROPERTIES
  InOrder
  ListsFinish
