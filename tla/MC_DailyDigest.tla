--------------------------- MODULE MC_DailyDigest ---------------------------
(* Instances of DailyDigest for TLC.                                         *)
EXTENDS DailyDigest, TLC
=============================================================================
