\* Two settings off their defaults, and a vault that changes twice.
SPECIFICATION Spec
CONSTANTS
  MaxEdits = 2
  MaxChanges = 2
INVARIANTS TypeOK RunningBackupWorks RefusalIsDeserved WholeListServed
CHECK_DEADLOCK FALSE
