\* e_closure called several times on the graphs of three states.
CONSTANTS
  State = {0, 1, 2}
  MaxArcs = 4
  MaxCalls = 3
  Graphs <- MCGraphs
SPECIFICATION Spec
INVARIANTS
  ReturnsClosure
  BufferSuffices
PROPERTY Returns
\* The bounded calls are over.
CHECK_DEADLOCK FALSE
