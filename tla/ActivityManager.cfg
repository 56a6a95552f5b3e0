\* Two producers, a flusher, the consumer, its workers and the destructor under
\* the fairness of the scheduler; a buffer of five units takes one record of
\* four or a few of one, so that it fills, rotates, and drops a record.
CONSTANTS
  Producers = {p1, p2}
  Flushers = {f1}
  NoOne = NoOne
  BufSizes = {5}
  RecSizes = {1, 4}
  MaxBufs = 3
  MaxCalls = 3
  MaxFlushes = 1
SPECIFICATION FairSpec
INVARIANTS TypeOK OneHolder FlushDelivers QuietAfterDestroy
PROPERTIES DeliveryImplemented FullBufferServed CallsReturn
