------------------------------ MODULE SnowflakeMC ------------------------------
(* Small instances of Snowflake for TLC. *)
EXTENDS Snowflake, TLC

CONSTANTS c1, c2, c3

ThreeCalls == {c1, c2, c3}
TwoSingles == {c2, c3}
Batch3     == [c \in ThreeCalls |-> IF c = c1 THEN 3 ELSE 1]
SameKind   == Permutations(TwoSingles)
================================================================================
