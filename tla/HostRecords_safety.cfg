\* Two threads allocate, release, copy, set and launch with one address and two sizes,
\* and push and pop ids of a kind; the arithmetic with words of eight bits.
CONSTANTS
  Threads = {t1, t2}
  Addrs = {1}
  Sizes = {1, 2}
  Fns = {"aclrtMalloc", "aclrtFree", "aclrtMemcpyAsync", "aclrtMemset", "aclrtLaunchKernel"}
  CopyKinds = {"HOST_TO_BUF_TO_DEVICE"}
  ExtKinds = {"CUSTOM0"}
  ExtIds = {1, 2}
  MaxCalls = 4
  MaxPushes = 4
  MaxFaults = 1
  MaxWork = 5
  WordBits = 8
  NsPerTick = 2
  Freqs = {1, 3, 7}
SYMMETRY Symmetry
SPECIFICATION Spec
INVARIANTS TypeOK  ExternalIds
PROPERTY TimesExact
\* Nothing is left to do when the calls, pushes and faults are used up.
CHECK_DEADLOCK FALSE
