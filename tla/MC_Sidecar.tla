----------------------------- MODULE MC_Sidecar -----------------------------
(* The sidecar and two Obsidian accounts.                                   *)
EXTENDS Sidecar
CONSTANTS a, b
=============================================================================
