------------------------------- MODULE IdIssuer -------------------------------
(***************************************************************************)
(* What the segment algorithm promises its callers: each call is answered  *)
(* at most once, with a non-empty set of ids, and no id of that answer is  *)
(* in the answer of any other call.                                        *)
(***************************************************************************)
CONSTANT Calls      \* the calls of generate and batch_generate on one key

VARIABLE got        \* the ids each call was answered with, {} before

Init == got = [c \in Calls |-> {}]

(* A call is answered: nothing of what others hold, nothing else changes. *)
Issue(c) ==
  /\ got[c] = {}
  /\ got' = [got EXCEPT ![c] = got'[c]]
  /\ got'[c] # {}
  /\ \A d \in Calls \ {c} : got'[c] \cap got[d] = {}

Next == \E c \in Calls : Issue(c)

Spec == Init /\ [][Next]_got
===============================================================================
