---------------------------- MODULE MC_LockSweep ----------------------------
(* LockSweep with two lock files and two other git processes.               *)
EXTENDS LockSweep
CONSTANTS index_lock, ref_lock, git1, git2
=============================================================================
