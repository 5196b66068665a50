\* The sweep beside other git processes, one of them not ours to read
\* (no symmetry: liveness).
SPECIFICATION LiveSpec
CONSTANTS
  index_lock = index_lock
  ref_lock = ref_lock
  git1 = git1
  git2 = git2
  Names = {index_lock, ref_lock}
  Procs = {git1, git2}
  Foreign = {git2}
INVARIANTS TypeOK OrphansFate
PROPERTIES ListedOwnersKeepLocks StartupProceeds
\* The sweep is over and no other git may be left to run.
CHECK_DEADLOCK FALSE
