---------------------------- MODULE LocalAllocationMC ----------------------------
(* Small instances of LocalAllocation for TLC. *)
EXTENDS LocalAllocation, AllocationMC
==================================================================================
