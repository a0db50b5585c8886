----------------------------- MODULE SharedConfigMC -----------------------------
(* Small instances of SharedConfig for TLC. *)
EXTENDS SharedConfig

CONSTANTS c1, c2

TwoClients == {c1, c2}
TwoValues == {1, 2}
OneContent == {[rate |-> 2, level |-> 2]}
StartConfig == [rate |-> 1, level |-> 1]
================================================================================
