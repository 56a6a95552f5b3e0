\* Two threads run operators of one or two tasks under two ids, or capture one;
\* launches, replays and faults add up to 4, so that an id is used a second time.
CONSTANTS
  Threads = {t1, t2}
  NumIds = 2
  GraphKeys = {g}
  Shapes <- MixedShapes
  MaxOps = 2
  MaxWork = 4
  MaxFaults = 1
SYMMETRY Symmetry
SPECIFICATION Spec
INVARIANTS TypeOK CommunicationExact CleanLeavesNothing
\* Nothing is left to do when the operators and the work are used up.
CHECK_DEADLOCK FALSE
