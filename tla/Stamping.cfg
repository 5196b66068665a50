\* Four seconds and four writes, in every order with the steps of stamp().
SPECIFICATION Spec
CONSTANTS
  Gone = Gone
  MaxClock = 3
  MaxWrites = 4
INVARIANTS TypeOK NoteIsDated
PROPERTIES CreatedIsKept ClientStampIsKept OverwrittenIsPending
CHECK_DEADLOCK FALSE
