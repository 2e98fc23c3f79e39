\* Four states, at most two arcs between two of them; a counter of paths that
\* overflows at 6.  A sorted machine is not sorted again: the system may stop.
CONSTANTS
  State <- MCState
  Nets <- MCNets
  InvLimit = 65536
  PathLimit = 6
SPECIFICATION Spec
INVARIANTS
  LoopFreeExact
  TopologicalOrder
  PathcountExact
CHECK_DEADLOCK FALSE
