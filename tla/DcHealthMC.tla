------------------------------- MODULE DcHealthMC -------------------------------
(* Small instances of DcHealth for TLC. *)
EXTENDS DcHealth

CONSTANTS p1, p2, d1, d2

TwoLoads == {p1, p2}
TwoDcs == {d1, d2}
================================================================================
