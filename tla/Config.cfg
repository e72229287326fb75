SPECIFICATION MCSpec
CONSTANTS
  Services = 4
  Unparsed = Unparsed
  None = None
  MaxNameLength = 3
  Kilo = 4
  SignedMax = 127
  UnsignedMax = 255
INVARIANTS AcceptedIsUsable ReadAsWritten RefusedForAReason AnswerIsRight
\* The reading ends.
CHECK_DEADLOCK FALSE
