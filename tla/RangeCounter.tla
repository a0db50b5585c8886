------------------------------ MODULE RangeCounter ------------------------------
(***************************************************************************)
(* Segment allocation as if its SELECT and its UPDATE were one step: every *)
(* row is a counter, and a request takes the next ids off it at once.      *)
(***************************************************************************)
EXTENDS Integers

CONSTANTS
  Requests,
  CounterOf,  \* the counter each request is for
  StepOf,     \* how many ids it takes
  FirstOf     \* where each counter starts

VARIABLES
  next,       \* the id each counter stands at
  taken       \* the ids each request took, {} before

Init == next = FirstOf /\ taken = [r \in Requests |-> {}]

Take(r) ==
  LET first == next[CounterOf[r]] IN
  /\ taken[r] = {}
  /\ taken' = [taken EXCEPT ![r] = first..((first + StepOf[r]) - 1)]
  /\ next' = [next EXCEPT ![CounterOf[r]] = first + StepOf[r]]

Next == \E r \in Requests : Take(r)

Spec == Init /\ [][Next]_<<next, taken>>
=================================================================================
