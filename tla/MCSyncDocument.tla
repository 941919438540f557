--------------------------- MODULE MCSyncDocument ---------------------------
(* Instances of SyncDocument for TLC: see README.md for what each shows.      *)
EXTENDS SyncSafety
=============================================================================
