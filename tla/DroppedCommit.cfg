\* What is committed while a killed rebase is open.
SPECIFICATION Spec
CONSTANTS
  note = note
  clip = clip
  NoFile = NoFile
  Paths = {note, clip}
  Hunks = {"front"}
  Notes = {note}
  Seeded = {note}
  Sources = {"device", "peer"}
  Stamping = FALSE
  HasRemote = TRUE
  Pinned = FALSE
  Elsewhere = FALSE
  Faults = {"timeout"}
  MaxWrites = 3
  MaxFaults = 1
  MaxQueue = 1
PROPERTIES NoCommitDropped
