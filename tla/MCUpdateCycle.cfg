SPECIFICATION FairSpec
CONSTANTS
  b1 = b1
  is1 = is1
  br1 = br1
  l1 = l1
  AllUpdate = AllUpdate
  UpdateService = UpdateService
  TransmitEnd = TransmitEnd
  Files = {AllUpdate, UpdateService, TransmitEnd}
  Lists = {l1}
  List = l1
  Programs = {}
  Pids = {}
  Threads = {}
  NoFile = NoFile
  Empty = Empty
  Garbage = Garbage
  Closed = Closed
  Gone = Gone
  NoProcess = NoProcess
  Bases <- OneBase
  Collected <- OneGroup
  Brokers <- OneBroker
  Exporters = 2
  MaxRounds = 1
  MaxLost = 1
INVARIANTS
  TypeOK
  ServiceHeld
  TakenOnce
  ServiceLeftAlarmed
PROPERTIES
  EndAfterAll
  UpdaterEnds
  MonitorEnds
CHECK_DEADLOCK FALSE
