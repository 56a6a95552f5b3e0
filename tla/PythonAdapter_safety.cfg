SPECIFICATION Spec
CONSTANTS
  t1 = t1
  t2 = t2
  b1 = b1
  b2 = b2
  Threads <- MCThreads
  Bufs <- MCBufs
  Worker = worker
  NoOne = none
  Monitors = {"KERNEL", "HCCL"}
  BufferSizes = {1, 2}
  DefaultBufferSize = 1
  MaxBufferSize = 2
  MaxCalls = 5
  MaxRecords = 3
  MaxFaults = 1
SYMMETRY Sym
CHECK_DEADLOCK FALSE
INVARIANTS
  TypeOK
  InUseIsAlive
  UsersAreServed
  
