CONSTANTS
  Threads = {t1, t2, t3}
  Values = {v1, v2}
  lSize = 2
  None = None
SPECIFICATION Spec
INVARIANTS TypeOK RingShape
PROPERTY FifoSpec
CHECK_DEADLOCK FALSE
