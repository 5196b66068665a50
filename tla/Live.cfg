\* Faults stop in the end; the timer, the worker and the clock keep going.
SPECIFICATION LiveSpec
CONSTANTS
  note = note
  clip = clip
  NoFile = NoFile
  Paths = {note, clip}
  Hunks = {"front"}
  Notes = {note}
  Seeded = {note}
  Sources = {"mcp", "device", "peer"}
  Stamping = FALSE
  HasRemote = TRUE
  Pinned = FALSE
  Elsewhere = FALSE
  Faults = {"offline", "lock", "rc", "raise"}
  MaxWrites = 2
  MaxFaults = 1
  MaxQueue = 1
INVARIANTS UnpushedCovers
PROPERTIES EventuallyCommitted EventuallyPushed EventuallyHealthy
