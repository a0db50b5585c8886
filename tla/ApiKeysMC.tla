-------------------------------- MODULE ApiKeysMC --------------------------------
(* Small instances of ApiKeys for TLC. *)
EXTENDS ApiKeys, TLC

CONSTANTS c1, c2, w1

TwoClients == {c1, c2}
OneWorkspace == {w1}
AnyClients == Permutations(TwoClients)
================================================================================
