\* VAULT_GIT_BRANCH pins a branch other than the one checked out; nothing fails.
SPECIFICATION Spec
CONSTANTS
  note = note
  clip = clip
  NoFile = NoFile
  Paths = {note, clip}
  Hunks = {"front"}
  Notes = {note}
  Seeded = {note}
  Sources = {"mcp", "device"}
  Stamping = FALSE
  HasRemote = TRUE
  Pinned = TRUE
  Elsewhere = TRUE
  Faults = {}
  MaxWrites = 1
  MaxFaults = 0
  MaxQueue = 1
PROPERTIES HeartbeatMeansDelivered
