SPECIFICATION Spec
CONSTANTS
  Multichar = {50}
  Spelling <- MCSpelling
  Lexicons = {"Root", "Stem"}
  Lines <- MCLines
  MaxLines = 3
  Align = {TRUE, FALSE}
  Alpha = {50, 100, 101, 200}
  WordLength = 3
INVARIANTS
  LexiconRight
  MergesKeepEnds
CHECK_DEADLOCK FALSE
