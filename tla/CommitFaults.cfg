\* No peers: stamping, staging and committing under failing and hanging commands.
SPECIFICATION Spec
CONSTANTS
  note = note
  clip = clip
  NoFile = NoFile
  Paths = {note, clip}
  Hunks = {"front"}
  Notes = {note}
  Seeded = {note}
  Sources = {"mcp", "device"}
  Stamping = TRUE
  HasRemote = TRUE
  Pinned = TRUE
  Elsewhere = FALSE
  Faults = {"lock", "rc", "timeout"}
  MaxWrites = 2
  MaxFaults = 2
  MaxQueue = 2
INVARIANTS TypeOK CleanMeansCommitted
PROPERTIES LeftoversAreRecorded
