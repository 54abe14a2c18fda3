---------------------------- MODULE MC_ProfileAPI ----------------------------
(* Small instances of ProfileAPI: two segments (paths 1, 2, 1/1 ... 2/2),  *)
(* the cas values -1 and 0, and pages of one key or of all keys.          *)
EXTENDS ProfileAPI

MCSegs == {1, 2}
MCCasValues == {-1, 0}
MCLimits == {0, 1}
=============================================================================
