---------------------------- MODULE LocalAllocation ----------------------------
(***************************************************************************)
(* Segment allocation under LocalDistributedLock (core/coordinator/local.rs) *)
(* in one process.  acquire looks the key up and marks it in two separate  *)
(* sections of the map's mutex; the guard has no Drop.                     *)
(***************************************************************************)
EXTENDS SegmentAllocation

CONSTANT Threads   \* worker threads of the runtime

ASSUME ThreadsAssumption == Threads \in Nat \ {0}

VARIABLE marked    \* the keys whose entry in the map is true

localVars == <<dbVars, pc, got, marked, slipped>>

(* A request between is_locked and acquire_lock occupies a thread; another *)
(* runs only on one that is left.                                          *)
ThreadFree == Cardinality({r \in Requests : pc[r] = "checked"}) < Threads

--------------------------------------------------------------------------------
(* acquire: is_locked ... *)
IsLocked(r) ==
  /\ pc[r] = "start"
  /\ ThreadFree
  /\ IF LockKey(r) \in marked THEN Goto(r, "busy") ELSE Goto(r, "checked")
  /\ UNCHANGED <<dbVars, got, marked>>

(* Mutant: acquire_lock leaves the entry as is_locked found it. *)
AcquireLockNot(r) ==
  /\ pc[r] = "checked"
  /\ Goto(r, "locked")
  /\ UNCHANGED <<dbVars, got, marked>>

(* ... acquire_lock: insert, whatever the entry is by now. *)
AcquireLock(r) ==
  /\ pc[r] = "checked"
  /\ Goto(r, "locked")
  /\ marked' = marked \cup {LockKey(r)}
  /\ UNCHANGED <<dbVars, got>>

LocalDatabase(r) == ThreadFree /\ (Find(r) \/ Write(r)) /\ UNCHANGED marked

(* Mutant: release_lock is left out. *)
ReleaseLockNot(r) == ThreadFree /\ Answer(r) /\ UNCHANGED marked

(* release_lock removes the entry, whoever made it. *)
ReleaseLock(r) == ThreadFree /\ Answer(r) /\ marked' = marked \ {LockKey(r)}

(* An early return or a dropped future: the guard goes, the mark stays. *)
LoseGuard(r) == MayFail /\ ThreadFree /\ (Fail(r) \/ Cancel(r)) /\ UNCHANGED marked

--------------------------------------------------------------------------------
LocalInit == InitCore /\ marked = {}

LocalQuiescent == (\A r \in Requests : pc[r] \in Ended) /\ UNCHANGED localVars

(* Two requests found one key unmarked, and neither has marked it yet. *)
BothChecked ==
  \E r, q \in Requests :
    r # q /\ LockKey(r) = LockKey(q) /\ pc[r] = "checked" /\ pc[q] = "checked"

LocalNext ==
  \/ /\ \E r \in Requests :
          IsLocked(r) \/ AcquireLock(r) \/ LocalDatabase(r) \/ ReleaseLock(r) \/ LoseGuard(r)
     /\ slipped' = (slipped \/ BothChecked')
  \/ LocalQuiescent

LocalSpec == LocalInit /\ [][LocalNext]_localVars

--------------------------------------------------------------------------------
(* Until two requests find one key unmarked together, the lock excludes:   *)
(* two requests on one key are not both between acquire and release.       *)
Exclusion ==
  ~slipped => \A r, q \in Requests :
    r # q /\ LockKey(r) = LockKey(q) => ~(pc[r] \in Within /\ pc[q] \in Within)

(* A key is marked only on behalf of a request between acquire and release *)
(* or of one that ended early: its guard has no Drop, and the mark stays   *)
(* until another request, if one was already past is_locked, releases it.  *)
MarksOwned ==
  marked \subseteq
    {LockKey(r) : r \in {q \in Requests : pc[q] \in Within \cup {"failed", "dropped"}}}
================================================================================
