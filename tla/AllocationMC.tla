------------------------------ MODULE AllocationMC ------------------------------
(* What the instances of the allocation modules have in common. *)
EXTENDS Integers

CONSTANTS r1, r2, r3, r4

Two   == {r1, r2}
Three == {r1, r2, r3}
Four  == {r1, r2, r3, r4}

(* By data centre; by both methods. *)
TwoDcs4 == [r \in Four |-> IF r \in {r1, r2} THEN 0 ELSE 1]
TwoDcs  == [r \in Three |-> IF r = r3 THEN 1 ELSE 0]
Mixed   == [r \in Two |-> IF r = r1 THEN -1 ELSE 0]

Steps  == [r \in Four |-> IF r \in {r1, r4} THEN 2 ELSE 3]
Steps3 == [r \in Three |-> IF r = r1 THEN 2 ELSE 3]
Steps2 == [r \in Two |-> IF r = r1 THEN 2 ELSE 3]
=================================================================================
