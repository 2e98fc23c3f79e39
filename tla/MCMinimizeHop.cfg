\* fsm_minimize_hop on machines of five states over two symbols.
CONSTANTS
  N = 5
  Symbol = {1, 2}
  NoArc = NoArc
  Finals = {{4}, {3, 4}, {1, 2}, {0, 1, 2, 3, 4}}
  Nets <- MCNets
SPECIFICATION Spec
INVARIANTS
  CountersAgree
  ArenasSuffice
  MinimalResult
PROPERTIES
  ImplementsHopcroft
  Terminates
\* The function returns.
CHECK_DEADLOCK FALSE
