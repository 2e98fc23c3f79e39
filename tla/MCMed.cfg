SPECIFICATION Spec
CONSTANTS
  Nets <- MCNets
  Matrices <- MCMatrices
  NoMatrix = NoMatrix
  Inputs <- MCInputs
  Limits = {4}
  Cutoffs = {2}
  AgendaSize = 8
  HeapMax = 128
  MaxCalls = 2
INVARIANTS
  LettersExact
  CheapestFirst
  NothingMissed
CHECK_DEADLOCK FALSE
