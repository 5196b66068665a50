\* MCP tools and peers write at any moment, also while commits are picked; neither the
\* network nor git fails.
SPECIFICATION Spec
CONSTANTS
  note = note
  clip = clip
  NoFile = NoFile
  Paths = {note, clip}
  Hunks = {"front", "body"}
  Notes = {note}
  Seeded = {note}
  Sources = {"mcp", "peer"}
  Stamping = FALSE
  HasRemote = TRUE
  Pinned = FALSE
  Elsewhere = FALSE
  Faults = {}
  MaxWrites = 3
  MaxFaults = 0
  MaxQueue = 1
INVARIANTS NoRebaseLeftOpen
PROPERTIES NoCommitDropped LocalWins McpCommitTight
