\* Two threads subscribe at once.
CONSTANTS
  Owners = {o1, o2}
  Askers = {a1}
  Callers = {t1}
  Addrs = {s1, s2}
  Null = Null
  Runtime = Runtime
  Hccl = Hccl
  Domains <- MCDomains
  Pairs <- MCPairs
  Listed <- MCListed
SYMMETRY Symmetry
SPECIFICATION Spec
INVARIANTS OneSubscriber
CHECK_DEADLOCK FALSE
