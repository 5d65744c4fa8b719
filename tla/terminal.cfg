\* Every kind of writer, lines of one and two pieces, a buffer that cuts lines.
SPECIFICATION FairSpec
CONSTANTS
  Kinds = {"terminal", "patient", "script", "pieces"}
  BufSize = 3
  MaxLines = 4
\* The writer may stop for ever, and nothing runs after the end.
CHECK_DEADLOCK FALSE
INVARIANT NoBlockingRead
PROPERTY LinesOfPatientUsers
