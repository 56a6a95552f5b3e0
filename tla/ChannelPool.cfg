\* Two channels, one of which may be removed and added again, whose readers
\* share a worker or not, and queues of one place.
CONSTANTS
  Chans = {c1, c2}
  PoolSize = 2
  Capacity = 1
  RecLen = 2
  BufLen = 3
  MaxRecords = 2
  MaxReaders = 2
  MaxFaults = 1
SPECIFICATION FairSpec
INVARIANTS TypeOK OneExecutor RecordsIntact
PROPERTIES AllParsed StopReturns
