---------------------------- MODULE WorkerAllocationMC ----------------------------
(* Small instances of WorkerAllocation for TLC. *)
EXTENDS WorkerAllocation

CONSTANTS s1, s2

TwoServers == {s1, s2}
================================================================================
