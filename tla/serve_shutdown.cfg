CONSTANTS
  Remote = {r1}
  InProcess = {s1}
  MaxLines = 2
  MaxWriteFailures = 2
SPECIFICATION Spec
CHECK_DEADLOCK FALSE
INVARIANTS NoHandlerAfterClose JournalWhole
PROPERTY ShutdownEnds
