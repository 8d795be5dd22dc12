SPECIFICATION Spec
CONSTANTS
  Lists <- OneList
  Layout <- OneListMod2
  QueSize = 3
  MemCap = 3
  MaxGroups = 1
  MaxServers = 2
  NFiles = 1
  MaxChunks = 3
  MaxTry = 2
  MaxFail = 2
  BatchMax = 1
INVARIANTS
  TypeOK
  FieldsKeptUnlessReread
PROPERTIES
  OrderedUnlessReread
CHECK_DEADLOCK FALSE
