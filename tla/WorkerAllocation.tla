----------------------------- MODULE WorkerAllocation -----------------------------
(***************************************************************************)
(* EtcdWorkerAllocator (core/coordinator/etcd.rs): servers of one data     *)
(* centre take worker ids by keys in etcd, each under a lease that nothing *)
(* renews or revokes.  One action per request to etcd; a request may fail, *)
(* before or after etcd has carried it out.                                *)
(***************************************************************************)
EXTENDS Integers, FiniteSets

CONSTANTS
  Servers,
  MaxWorkerId,  \* MAX_WORKER_ID
  MaxGrants,    \* bound: the leases granted to one server
  MaxFaults     \* bound: the requests that fail and the crashes

ASSUME WorkerAssumption ==
  /\ MaxWorkerId \in Nat \ {0} /\ MaxGrants \in Nat /\ MaxFaults \in Nat

VARIABLES
  keys,       \* etcd: the lease that the key of each worker id is put with
  live,       \* etcd: the leases that have not run out
  allocated,  \* allocated_id of each server, 0 for none
  lease_id,   \* of each server, NoLease for 0
  pc,         \* where each server stands
  cursor,     \* the worker id its scan is at
  granted,    \* the leases granted to it
  faults,     \* requests that failed and crashes
  under,      \* history: the lease that allocated_id was taken with
  deleted,    \* history: a release deleted the key of an id that is in use
  disturbed   \* history: something other than a shortage of ids can end a scan

etcd    == <<keys, live>>
locals  == <<allocated, lease_id, pc, cursor, granted>>
history == <<under, deleted, disturbed>>
vars    == <<etcd, locals, faults, history>>

Ids     == 1..MaxWorkerId
Leases  == Servers \X (1..MaxGrants)
NoLease == <<>>

Fault ==
  /\ faults < MaxFaults
  /\ faults' = faults + 1
  /\ disturbed' = TRUE

(* do_allocate goes on to the next id; after the last it gives up. *)
Advance(s) ==
  /\ pc' = [pc EXCEPT ![s] = IF cursor[s] = MaxWorkerId THEN "idle" ELSE "get"]
  /\ cursor' = [cursor EXCEPT ![s] = IF @ = MaxWorkerId THEN 1 ELSE @ + 1]

--------------------------------------------------------------------------------
(* grant_lease; a scan that begins while an id is held leaves its key. *)
Allocate(s) ==
  /\ pc[s] = "idle" /\ granted[s] < MaxGrants
  /\ LET lease == <<s, granted[s] + 1>> IN
       /\ live' = live \cup {lease}
       /\ lease_id' = [lease_id EXCEPT ![s] = lease]
  /\ granted' = [granted EXCEPT ![s] = @ + 1]
  /\ pc' = [pc EXCEPT ![s] = "get"]
  /\ disturbed' = (disturbed \/ allocated[s] # 0)
  /\ UNCHANGED <<keys, allocated, cursor, faults, under, deleted>>

(* try_allocate_id: a key that exists, or a kv_get that fails, is skipped. *)
Get(s) ==
  /\ pc[s] = "get"
  /\ \/ /\ keys[cursor[s]] = NoLease
        /\ pc' = [pc EXCEPT ![s] = "put"]
        /\ UNCHANGED <<cursor, faults, disturbed>>
     \/ /\ keys[cursor[s]] # NoLease
        /\ Advance(s)
        /\ UNCHANGED <<faults, disturbed>>
     \/ Fault /\ Advance(s)
  /\ UNCHANGED <<etcd, allocated, lease_id, granted, under, deleted>>

(* Mutant: a put where the transaction checks create_revision. *)
PutAlways(s) ==
  /\ pc[s] = "put" /\ lease_id[s] \in live
  /\ keys' = [keys EXCEPT ![cursor[s]] = lease_id[s]]
  /\ allocated' = [allocated EXCEPT ![s] = cursor[s]]
  /\ under' = [under EXCEPT ![s] = lease_id[s]]
  /\ pc' = [pc EXCEPT ![s] = "idle"]
  /\ cursor' = [cursor EXCEPT ![s] = 1]
  /\ UNCHANGED <<live, lease_id, granted, faults, deleted, disturbed>>

(* txn_check_create_rev_and_put puts the key if it does not exist. *)
Put(s) ==
  /\ pc[s] = "put" /\ lease_id[s] \in live /\ keys[cursor[s]] = NoLease
  /\ keys' = [keys EXCEPT ![cursor[s]] = lease_id[s]]
  /\ allocated' = [allocated EXCEPT ![s] = cursor[s]]
  /\ under' = [under EXCEPT ![s] = lease_id[s]]
  /\ pc' = [pc EXCEPT ![s] = "idle"]
  /\ cursor' = [cursor EXCEPT ![s] = 1]
  /\ UNCHANGED <<live, lease_id, granted, faults, deleted, disturbed>>

(* Otherwise it answers false or, if the lease has run out, with an error, *)
(* as it may at any time, before or after the put: on to the next id.      *)
PutFails(s) ==
  /\ pc[s] = "put"
  /\ \/ /\ lease_id[s] \in live /\ keys[cursor[s]] # NoLease
        /\ UNCHANGED <<keys, faults, disturbed>>
     \/ /\ lease_id[s] \notin live
        /\ disturbed' = TRUE
        /\ UNCHANGED <<keys, faults>>
     \/ Fault /\ UNCHANGED keys
     \/ /\ Fault
        /\ lease_id[s] \in live /\ keys[cursor[s]] = NoLease
        /\ keys' = [keys EXCEPT ![cursor[s]] = lease_id[s]]
  /\ Advance(s)
  /\ UNCHANGED <<live, allocated, lease_id, granted, under, deleted>>

(* Mutant: the key is left to its lease. *)
ReleaseKeepsKey(s) ==
  /\ pc[s] = "idle" /\ allocated[s] # 0
  /\ pc' = [pc EXCEPT ![s] = "clear"]
  /\ UNCHANGED <<etcd, allocated, lease_id, cursor, granted, faults, history>>

(* release: kv_delete of the key, whoever put it ... *)
InUse(id) == \E t \in Servers : allocated[t] = id /\ under[t] = keys[id]

Release(s) ==
  LET id == allocated[s] IN
  /\ pc[s] = "idle" /\ id # 0
  /\ \/ /\ keys' = [keys EXCEPT ![id] = NoLease]
        /\ pc' = [pc EXCEPT ![s] = "clear"]
        /\ deleted' = (deleted \/ (InUse(id) /\ keys[id] # under[s]))
        /\ UNCHANGED <<faults, disturbed>>
     \/ Fault /\ UNCHANGED <<keys, pc, deleted>>
     \/ /\ Fault
        /\ keys' = [keys EXCEPT ![id] = NoLease]
        /\ deleted' = (deleted \/ InUse(id))
        /\ UNCHANGED pc
  /\ UNCHANGED <<live, allocated, lease_id, cursor, granted, under>>

(* ... and then its own record, which an error of etcd leaves. *)
Clear(s) ==
  /\ pc[s] = "clear"
  /\ pc' = [pc EXCEPT ![s] = "idle"]
  /\ allocated' = [allocated EXCEPT ![s] = 0]
  /\ lease_id' = [lease_id EXCEPT ![s] = NoLease]
  /\ under' = [under EXCEPT ![s] = NoLease]
  /\ UNCHANGED <<etcd, cursor, granted, faults, deleted, disturbed>>

(* The server restarts: its leases and keys stay in etcd. *)
Crash(s) ==
  /\ Fault
  /\ pc' = [pc EXCEPT ![s] = "idle"]
  /\ allocated' = [allocated EXCEPT ![s] = 0]
  /\ lease_id' = [lease_id EXCEPT ![s] = NoLease]
  /\ cursor' = [cursor EXCEPT ![s] = 1]
  /\ under' = [under EXCEPT ![s] = NoLease]
  /\ UNCHANGED <<etcd, granted, deleted>>

(* Mutant: keys outlive the lease, as if put without it. *)
ExpireLease(lease) ==
  /\ lease \in live
  /\ live' = live \ {lease}
  /\ UNCHANGED <<keys, locals, faults, history>>

(* 30 seconds after lease_grant etcd deletes the lease and its keys. *)
Expire(lease) ==
  /\ lease \in live
  /\ live' = live \ {lease}
  /\ keys' = [id \in Ids |-> IF keys[id] = lease THEN NoLease ELSE keys[id]]
  /\ UNCHANGED <<locals, faults, history>>

--------------------------------------------------------------------------------
Init ==
  /\ keys = [id \in Ids |-> NoLease] /\ live = {}
  /\ allocated = [s \in Servers |-> 0]
  /\ lease_id = [s \in Servers |-> NoLease]
  /\ pc = [s \in Servers |-> "idle"]
  /\ cursor = [s \in Servers |-> 1]
  /\ granted = [s \in Servers |-> 0]
  /\ faults = 0
  /\ under = [s \in Servers |-> NoLease]
  /\ deleted = FALSE /\ disturbed = FALSE

Step(s) ==
  \/ Allocate(s) \/ Get(s) \/ Put(s) \/ PutFails(s) \/ Release(s) \/ Clear(s) \/ Crash(s)

(* The leases of the bound have been granted. *)
Rest ==
  /\ live = {} /\ \A s \in Servers : pc[s] = "idle" /\ granted[s] = MaxGrants
  /\ UNCHANGED vars

Next == (\E s \in Servers : Step(s)) \/ (\E lease \in live : Expire(lease)) \/ Rest

(* A lease runs out in the end: nothing in the program keeps it alive. *)
Spec == Init /\ [][Next]_vars /\ \A lease \in Leases : WF_vars(Expire(lease))

--------------------------------------------------------------------------------
(* Properties *)

(* The range of each variable. *)
TypeOK ==
  /\ keys \in [Ids -> Leases \cup {NoLease}] /\ live \subseteq Leases
  /\ allocated \in [Servers -> 0..MaxWorkerId]
  /\ lease_id \in [Servers -> Leases \cup {NoLease}]
  /\ under \in [Servers -> Leases \cup {NoLease}]
  /\ pc \in [Servers -> {"idle", "get", "put", "clear"}]
  /\ cursor \in [Servers -> Ids] /\ granted \in [Servers -> 0..MaxGrants]
  /\ faults \in 0..MaxFaults /\ deleted \in BOOLEAN /\ disturbed \in BOOLEAN

(* do_allocate gives no id to two servers while the leases under which they *)
(* took it last, unless a release deleted the key of an id in use: one that *)
(* failed after etcd had deleted it, or one by a server whose lease had run *)
(* out and whose id another server had taken by then.  (A server that is    *)
(* about to clear its record after the release no longer counts.)           *)
Holds(s, id) == allocated[s] = id /\ pc[s] # "clear" /\ under[s] \in live

Exclusive ==
  ~deleted => \A id \in Ids, s, t \in Servers : Holds(s, id) /\ Holds(t, id) => s = t

(* Servers that are no more than the worker ids, that release an id before *)
(* they allocate another and whose scans meet neither an error nor the end *)
(* of their lease, are not refused with NoAvailableId, though keys come    *)
(* and go behind a scan.                                                   *)
GivesUp(s) == pc[s] \in {"get", "put"} /\ pc'[s] = "idle" /\ allocated'[s] = 0

NoShortage ==
  [][Cardinality(Servers) <= MaxWorkerId => \A s \in Servers : GivesUp(s) => disturbed']_vars

(* The id of a server that has crashed, or whose put lost its answer, is   *)
(* free again in the end.                                                  *)
KeyLapses == \A id \in Ids : \A lease \in Leases : keys[id] = lease ~> keys[id] # lease
================================================================================
