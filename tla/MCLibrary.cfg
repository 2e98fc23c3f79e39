SPECIFICATION Spec
CONSTANTS
  Start <- MCStart
  Operands <- MCOperands
  Sym <- MCSym
  Others <- MCOthers
  Flag <- MCFlag
  PairLength = 2
  WordLength = 3
  MaxCalls = 2
  MaxStates = 2
INVARIANTS
  LanguageRight
  FlagsEliminated
  FlagsTruthful
  AlphabetSound
  VerdictsRight
CHECK_DEADLOCK FALSE
