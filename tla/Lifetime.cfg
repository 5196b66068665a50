\* Start, work and shutdown, with any command slow or hanging.
SPECIFICATION LiveSpec
CONSTANTS
  Timeout = 2
  Grace = 1
  Debounce = 1
  PingLimit = 1
  Pinned = FALSE
  MaxEvents = 2
INVARIANTS TypeOK OneGitUserUnlessExpired StopIsHeeded ShutdownBounded
PROPERTIES FlushLosesNothing EventuallyExits
