---------------------------- MODULE EtcdAllocation ----------------------------
(***************************************************************************)
(* Segment allocation under EtcdDistributedLock (core/coordinator/etcd.rs).*)
(* The lock on a key is a key-value pair in etcd that lives as long as the *)
(* lease of the request that put it there.                                 *)
(***************************************************************************)
EXTENDS SegmentAllocation

CONSTANTS
  Free,         \* no owner
  MaxRetries    \* attempts of acquire: 3

ASSUME FreeAssumption == Free \notin Requests
ASSUME RetriesAssumption == MaxRetries \in Nat \ {0}

VARIABLES
  owner,      \* the request whose lease a lock key hangs on, or Free
  tries,      \* attempts of acquire that found the key taken
  revoking,   \* requests whose guard's drop spawned a lease_revoke
  outlived    \* history: requests between acquire and release whose lease is over

lockVars == <<owner, tries, revoking>>
histVars == <<outlived, slipped>>
vars == <<dbVars, pc, got, lockVars, histVars>>

(* Mutant: the key is deleted, whoever's lease it hangs on by now. *)
EndLeaseBlind(r) == owner' = [owner EXCEPT ![LockKey(r)] = Free]

(* The lease of r ends, and with it the key, if it is r's. *)
EndLease(r) ==
  owner' = [k \in LockKeys |-> IF owner[k] = r THEN Free ELSE owner[k]]

--------------------------------------------------------------------------------
(* Mutant: put without comparing the create revision. *)
TryAcquireBlind(r) ==
  /\ pc[r] = "start"
  /\ owner' = [owner EXCEPT ![LockKey(r)] = r]
  /\ Goto(r, "locked")
  /\ UNCHANGED <<tries, dbVars, got, revoking, histVars>>

(* Mutant: one attempt too many, for _ in 0..=MAX_RETRIES. *)
TryAcquireOnceMore(r) ==
  /\ pc[r] = "start"
  /\ \/ /\ owner[LockKey(r)] = Free
        /\ owner' = [owner EXCEPT ![LockKey(r)] = r]
        /\ Goto(r, "locked")
        /\ UNCHANGED tries
     \/ /\ owner[LockKey(r)] # Free
        /\ tries' = [tries EXCEPT ![r] = @ + 1]
        /\ IF tries[r] = MaxRetries THEN Goto(r, "busy") ELSE UNCHANGED pc
        /\ UNCHANGED owner
  /\ UNCHANGED <<dbVars, got, revoking, histVars>>

(* try_acquire_lock: the compare of the key's create revision succeeds only *)
(* if there is no key; after MaxRetries attempts acquire gives up.          *)
TryAcquire(r) ==
  /\ pc[r] = "start"
  /\ \/ /\ owner[LockKey(r)] = Free
        /\ owner' = [owner EXCEPT ![LockKey(r)] = r]
        /\ Goto(r, "locked")
        /\ UNCHANGED tries
     \/ /\ owner[LockKey(r)] # Free
        /\ tries' = [tries EXCEPT ![r] = @ + 1]
        /\ IF tries'[r] = MaxRetries THEN Goto(r, "busy") ELSE UNCHANGED pc
        /\ UNCHANGED owner
  /\ UNCHANGED <<dbVars, got, revoking, histVars>>

(* acquire ends with an error of etcd: the put may have happened all the   *)
(* same, under a lease that nobody will revoke.                            *)
AcquireFails(r) ==
  /\ MayFail
  /\ pc[r] = "start"
  /\ Goto(r, "failed")
  /\ \/ UNCHANGED owner
     \/ owner[LockKey(r)] = Free /\ owner' = [owner EXCEPT ![LockKey(r)] = r]
  /\ UNCHANGED <<dbVars, got, tries, revoking, histVars>>

(* release(): the lease is revoked; an error is ignored, and then the drop  *)
(* of the guard tries again.                                                *)
Release(r) ==
  /\ Answer(r)
  /\ \/ EndLease(r) /\ UNCHANGED revoking
     \/ MayFail /\ revoking' = revoking \cup {r} /\ UNCHANGED owner
  /\ outlived' = outlived \ {r}
  /\ UNCHANGED <<tries, slipped>>

(* An early return or a dropped future: EtcdLockGuard::drop spawns a revoke. *)
EndEarly(r) ==
  /\ MayFail
  /\ Fail(r) \/ Cancel(r)
  /\ revoking' = revoking \cup {r}
  /\ outlived' = outlived \ {r}
  /\ UNCHANGED <<owner, tries, slipped>>

(* The spawned task runs; a failure is logged and the lease left to its TTL. *)
Revoke(r) ==
  /\ r \in revoking
  /\ revoking' = revoking \ {r}
  /\ EndLease(r) \/ UNCHANGED owner
  /\ UNCHANGED <<dbVars, pc, got, tries, histVars>>

(* The server process dies: no guard is dropped, no task survives.          *)
Crash(r) ==
  /\ MayFail
  /\ \/ pc[r] \in Within /\ Goto(r, "dropped")
     \/ r \in revoking /\ UNCHANGED pc
  /\ revoking' = revoking \ {r} /\ outlived' = outlived \ {r}
  /\ UNCHANGED <<dbVars, got, owner, tries, slipped>>

(* Mutant: the key is put without the lease and nothing but a revoke ends it. *)
ExpireNot(r) == r \notin Requests /\ UNCHANGED vars

(* The TTL passes; nothing renews a lease, of a request under way either. *)
Expire(r) ==
  /\ \E k \in LockKeys : owner[k] = r
  /\ EndLease(r)
  /\ outlived' = IF pc[r] \in Within THEN outlived \cup {r} ELSE outlived
  /\ UNCHANGED <<dbVars, pc, got, tries, revoking, slipped>>

--------------------------------------------------------------------------------
Init ==
  /\ InitCore
  /\ owner = [k \in LockKeys |-> Free]
  /\ tries = [r \in Requests |-> 0]
  /\ revoking = {} /\ outlived = {}

(* Nothing stops a transaction whose lease is over; slipped records one    *)
(* that wrote then.                                                        *)
Database(r) ==
  /\ \/ Find(r) /\ UNCHANGED slipped
     \/ Write(r) /\ slipped' = (slipped \/ r \in outlived)
  /\ UNCHANGED <<lockVars, outlived>>

Quiescent == (\A r \in Requests : pc[r] \in Ended) /\ UNCHANGED vars

Next ==
  \/ \E r \in Requests :
       \/ TryAcquire(r) \/ AcquireFails(r) \/ Database(r) \/ Release(r)
       \/ EndEarly(r) \/ Revoke(r) \/ Crash(r) \/ Expire(r)
  \/ Quiescent

Spec == Init /\ [][Next]_vars

(* The runtime runs requests and spawned tasks, and a lease that nobody    *)
(* renews ends.                                                            *)
Fairness ==
  \A r \in Requests :
    /\ WF_vars(TryAcquire(r)) /\ WF_vars(Database(r)) /\ WF_vars(Release(r))
    /\ WF_vars(Revoke(r)) /\ WF_vars(Expire(r))

FairSpec == Spec /\ Fairness

--------------------------------------------------------------------------------
EtcdTypeOK ==
  /\ TypeOK
  /\ owner \in [LockKeys -> Requests \cup {Free}]
  /\ tries \in [Requests -> 0..MaxRetries]
  /\ revoking \subseteq Requests /\ outlived \subseteq Requests

(* Who is between acquire and release owns the key unless its own lease    *)
(* ran out: no late release, revoke of a dropped guard or expiry of one    *)
(* that had the key before takes it away.                                  *)
HolderOwns ==
  \A r \in Requests : pc[r] \in Within /\ r \notin outlived => owner[LockKey(r)] = r

(* A key is never lost for good, whoever fails, crashes or is cancelled.   *)
KeyFreed ==
  \A k \in LockKeys : owner[k] # Free ~> owner[k] = Free

(* Every request ends. *)
Termination == \A r \in Requests : <>(pc[r] \in Ended)
===============================================================================
