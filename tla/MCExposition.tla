--------------------------- MODULE MCExposition ---------------------------
(* Small instances of ExpositionScrape for TLC. *)
EXTENDS ExpositionScrape

MCModules == {"staking"}
=============================================================================
