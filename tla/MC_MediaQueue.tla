--------------------------- MODULE MC_MediaQueue ----------------------------
(* Instances of MediaQueue for TLC: asset 1 belongs to a message, asset 2 is *)
(* an avatar that may be inserted after it.                                  *)
EXTENDS MediaQueue, TLC
=============================================================================
