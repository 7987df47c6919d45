--------------------------- MODULE MCDebugMonitor ---------------------------
(* Small instances of DebugMonitor for TLC. *)
EXTENDS DebugMonitor
=============================================================================
