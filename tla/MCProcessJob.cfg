CONSTANTS
  MaxCmds = 3
  MaxSegments = 4
  Segments <- MCSegments
SPECIFICATION Spec
INVARIANTS
  TypeOK
  RunsTheExpansion
