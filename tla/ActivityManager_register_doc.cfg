\* One producer whose first buffer is full at once, and the registration.
CONSTANTS
  Producers = {p1}
  Flushers = {f1}
  NoOne = NoOne
  BufSizes = {1}
  RecSizes = {1}
  MaxBufs = 2
  MaxCalls = 2
  MaxFlushes = 1
SPECIFICATION FairSpec
PROPERTY RegisteredIsServed
