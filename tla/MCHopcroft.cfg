\* The abstract worklist refinement, over all deterministic machines of a size.
CONSTANTS
  State = {0, 1, 2}
  Symbol = {1, 2}
  NoArc = NoArc
  First = 1
  Nets <- MCNets
SPECIFICATION Spec
INVARIANTS
  TypeOK
  NeverSeparatesEquivalent
  WorkCovers
  Minimal
\* The refinement stops when it owes nothing.
CHECK_DEADLOCK FALSE
