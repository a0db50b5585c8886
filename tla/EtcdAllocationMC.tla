---------------------------- MODULE EtcdAllocationMC ----------------------------
(* Small instances of EtcdAllocation for TLC. *)
EXTENDS EtcdAllocation, AllocationMC
=================================================================================
