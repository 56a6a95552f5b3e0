\* One task id that three launches of two threads use again while earlier ones
\* still wait, and one captured task that is replayed.
CONSTANTS
  Threads = {t1, t2}
  NumIds = 1
  GraphKeys = {g}
  MaxCalls = 3
  MaxReplays = 2
  MaxFaults = 1
SYMMETRY Symmetry
SPECIFICATION Spec
INVARIANTS TypeOK RecordsOfKernels ApiOfItsKernel TaskIdsAgree
\* Nothing is left to do when the calls and the replays are used up.
CHECK_DEADLOCK FALSE
