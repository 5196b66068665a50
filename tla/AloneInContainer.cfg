\* The server is PID 1 and alone in its container.
SPECIFICATION Spec
CONSTANTS
  index_lock = index_lock
  ref_lock = ref_lock
  git1 = git1
  git2 = git2
  Names = {index_lock, ref_lock}
  Procs = {git1, git2}
  Foreign = {}
INVARIANTS OrphansAreCleared
\* The sweep is over and no other git may be left to run.
CHECK_DEADLOCK FALSE
