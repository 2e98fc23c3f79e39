\* Every machine of up to four states and six lines, in the order in which
\* the constructions write them.  The call may end, so the system may stop.
CONSTANTS
  MaxStates = 4
  MaxLines = 6
SPECIFICATION Spec
INVARIANTS
  ReadsIntact
  TrimResult
CHECK_DEADLOCK FALSE
