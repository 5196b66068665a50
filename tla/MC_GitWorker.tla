---------------------------- MODULE MC_GitWorker ----------------------------
(* GitWorker on small vaults: one note and one attachment.                  *)
EXTENDS GitBackup
CONSTANTS note, clip
=============================================================================
