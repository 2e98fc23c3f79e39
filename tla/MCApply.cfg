CONSTANTS
  x1 = x1
  x2 = x2
  Flag <- MCFlag
  Nets <- MCNets
  Words <- MCWords
  Modes = {"down", "up", "words"}
  MaxWords = 3
SPECIFICATION Spec
CHECK_DEADLOCK FALSE
INVARIANTS
  FlagsFollowPath
  OutputIsPath
  MarksOnPath
  AtMostTwice
  EveryPathOnce
PROPERTY
  Returns
