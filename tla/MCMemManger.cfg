CONSTANTS
  Threads = {t1, t2}
  FieldNum = 6
  Sizes = {1, 2, 3}
  Null = Null
  NoThread = NoThread
SPECIFICATION FairSpec
INVARIANTS TypeOK LabelsMatch
PROPERTIES FirstFit ScanReturns
