--------------------------- MODULE DefaultLoaderMC ---------------------------
(* Small instances of DefaultLoader for TLC. *)
EXTENDS DefaultLoader

CONSTANTS g1, g2, b1

TwoGen   == {g1, g2}
OneBatch == {b1}
NoGaps   == {0}
==============================================================================
