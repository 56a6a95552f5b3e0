\* One thread subscribes and unsubscribes, one enables; a traced thread only
\* reads, so one stands for many.
\* A crash of the process ends the run.
CONSTANTS
  Owners = {o1}
  Askers = {a1}
  Callers = {t1}
  Addrs = {s1, s2}
  Null = Null
  Runtime = Runtime
  Hccl = Hccl
  Domains <- MCDomains
  Pairs <- MCPairs
  Listed <- MCListed
SYMMETRY Symmetry
SPECIFICATION Spec
INVARIANTS TypeOK NoDanglingCall SubscribedIsServed EnabledIsAsked
CHECK_DEADLOCK FALSE
