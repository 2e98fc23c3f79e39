\* fsm_determinize and fsm_epsilon_remove on machines of three states.
CONSTANTS
  State = {0, 1, 2}
  Symbol = {1, 2}
  Epsilon = 0
  MaxArcs = 3
  EpsilonArcs <- SomeEpsilonArcs
  Finals = {{2}, {0, 1}}
  Starts = {{0}, {1}, {0, 1}}
  MaxWord = 3
  Nets <- MCNets
  Words <- MCWords
SPECIFICATION Spec
INVARIANTS
  ExpandedExactly
  FlagIsRight
  LanguageKept
PROPERTY Terminates
\* The function returns.
CHECK_DEADLOCK FALSE
