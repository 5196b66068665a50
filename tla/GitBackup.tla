----------------------------- MODULE GitBackup -----------------------------
(***************************************************************************)
(* GitWorker implements VaultBackup: the branch is what is saved (not HEAD, *)
(* which leaves it while a rebase is open), the remote is the backup, and   *)
(* _unpushed is the record of what is owed.                                 *)
(***************************************************************************)
EXTENDS GitWorkerProps

Backup == INSTANCE VaultBackup WITH
            First  <- Root,
            Parts  <- Hunks,
            Absent <- NoFile,
            saved  <- branch,
            backup <- remote,
            owed   <- unpushed,
            up     <- pc # "down"

\* Whatever fails, is killed or crashes: the branch only gains commits or has all
\* of its own redone, changes and all, on top of what the remote had; the remote
\* only gains; and while the server lives, _unpushed is cleared by nothing but a
\* push of the whole branch (worker.py _stage_and_commit, _push_once).
ImplementsBackup == Backup!Spec
=============================================================================
