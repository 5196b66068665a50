\* One file that devices write and delete and a peer pushes too: commands are killed
\* and the process crashes, on top of every other fault.
SPECIFICATION Spec
CONSTANTS
  note = note
  clip = clip
  NoFile = NoFile
  Paths = {note}
  Hunks = {"front"}
  Notes = {note}
  Seeded = {}
  Sources = {"device", "peer"}
  Stamping = FALSE
  HasRemote = TRUE
  Pinned = FALSE
  Elsewhere = FALSE
  Faults = {"offline", "lock", "rc", "timeout", "raise", "crash"}
  MaxWrites = 4
  MaxFaults = 2
  MaxQueue = 1
INVARIANTS RefsAgree
PROPERTIES HeartbeatMeansDelivered RebaseKeepsWrites ImplementsBackup
