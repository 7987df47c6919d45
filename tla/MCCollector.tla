---------------------------- MODULE MCCollector ----------------------------
(* Small instances of Collector for TLC. *)
EXTENDS Collector

MCModules == {"staking"}
MCSteps == {1, 2}
=============================================================================
