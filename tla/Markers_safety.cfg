\* Up to three calls of two threads, synchronisations before and between them; a
\* domain whose name begins with another's, created, disabled or destroyed meanwhile.
CONSTANTS
  a = a
  ab = ab
  Threads = {t1, t2}
  Default = default
  Names = {a, ab}
  StartsWith <- NamePrefixes
  Ops = {"HcclAllGather"}
  MaxCalls = 3
  MaxDomains = 2
  MaxSyncs = 1
  MaxFaults = 1
  MaxWork = 4
SYMMETRY Symmetry
SPECIFICATION Spec
INVARIANTS TypeOK RangeExact HcclExact 
\* Nothing is left to do when the calls, synchronisations and faults are used up.
CHECK_DEADLOCK FALSE
