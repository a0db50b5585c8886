---------------------------- MODULE SegmentBufferMC ----------------------------
(* Small instances of SegmentBuffer for TLC. *)
EXTENDS SegmentBuffer

CONSTANTS g1, g2, b1

OneGap    == {1}
TwoGen    == {g1, g2}
OneBatch  == {b1}
================================================================================
