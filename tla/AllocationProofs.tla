---------------------------- MODULE AllocationProofs ----------------------------
(***************************************************************************)
(* Theorems about segment allocation, for every number of requests, rows,  *)
(* data centres and retries.  First, what each lock gives: with            *)
(* EtcdDistributedLock a request owns its key until its lease is over,     *)
(* with LocalDistributedLock requests on one key are kept apart until two  *)
(* find it unmarked together.  Then, what that makes of select-then-update *)
(* until a request gets past its lock.                                     *)
(***************************************************************************)
EXTENDS EtcdAllocation, LocalAllocation, SequenceTheorems, FiniteSetTheorems, TLAPS

(* What the proof needs of the types: requests stand somewhere, keys are   *)
(* owned by somebody.                                                      *)
LockTyped ==
  /\ pc \in [Requests -> {"start"} \cup Within \cup Ended]
  /\ owner \in [LockKeys -> Requests \cup {Free}]

(* A guard that was dropped belongs to a request that has ended. *)
RevokingEnded == \A r \in revoking : r \in Requests => pc[r] \in Ended

LockInv == LockTyped /\ RevokingEnded /\ HolderOwns

LEMMA KeyIsKey == \A r \in Requests : LockKey(r) \in LockKeys
  BY DEF LockKeys

(* A step that ends r, or leaves it where it is once ended, and at most    *)
(* ends its lease keeps the others' locks.                                 *)
LEMMA EndingKeeps ==
  ASSUME LockInv, NEW r \in Requests,
         pc'[r] \in Ended,
         pc' = [pc EXCEPT ![r] = pc'[r]],
         EndLease(r) \/ UNCHANGED owner,
         revoking' \subseteq revoking \cup {r},
         outlived \subseteq outlived' \cup {r}
  PROVE  LockInv'
<1>1. LockTyped'
  BY DEF LockInv, LockTyped, EndLease
<1>2. RevokingEnded'
  BY DEF LockInv, LockTyped, RevokingEnded
<1>3. HolderOwns'
  <2> SUFFICES ASSUME NEW q \in Requests, pc'[q] \in Within, q \notin outlived'
               PROVE  owner'[LockKey(q)] = q
    BY DEF HolderOwns, LockKey
  <2>1. q # r
    BY DEF Within, Ended
  <2>2. pc[q] \in Within /\ owner[LockKey(q)] = q
    BY <2>1 DEF LockInv, LockTyped, HolderOwns
  <2> QED
    BY <2>1, <2>2, KeyIsKey DEF EndLease
<1> QED
  BY <1>1, <1>2, <1>3 DEF LockInv

LEMMA TryAcquireKeeps ==
  ASSUME LockInv, NEW r \in Requests, TryAcquire(r) PROVE LockInv'
<1>1. CASE /\ owner[LockKey(r)] = Free
           /\ owner' = [owner EXCEPT ![LockKey(r)] = r]
           /\ Goto(r, "locked")
  <2>1. revoking' = revoking /\ pc[r] = "start" /\ outlived' = outlived
    BY DEF TryAcquire, histVars
  <2>2. pc' = [pc EXCEPT ![r] = "locked"]
    BY <1>1 DEF Goto
  <2>3. LockTyped'
    BY <1>1, <2>2 DEF LockInv, LockTyped, Within
  <2>4. RevokingEnded'
    BY <2>1, <2>2 DEF LockInv, LockTyped, RevokingEnded, Ended
  <2>5. HolderOwns'
    <3> SUFFICES ASSUME NEW q \in Requests, pc'[q] \in Within, q \notin outlived'
                 PROVE  owner'[LockKey(q)] = q
      BY DEF HolderOwns, LockKey
    <3>1. CASE q = r
      BY <1>1, <3>1, KeyIsKey DEF LockInv, LockTyped
    <3>2. CASE q # r
      <4>1. owner[LockKey(q)] = q
        BY <2>1, <2>2, <3>2 DEF LockInv, LockTyped, HolderOwns
      <4>2. LockKey(q) # LockKey(r)
        BY <1>1, <4>1, FreeAssumption DEF FreeAssumption
      <4> QED
        BY <1>1, <4>1, <4>2, KeyIsKey DEF LockInv, LockTyped
    <3> QED
      BY <3>1, <3>2
  <2> QED
    BY <2>3, <2>4, <2>5 DEF LockInv
<1>2. CASE UNCHANGED <<owner, pc>>
  BY <1>2 DEF TryAcquire, LockInv, LockTyped, RevokingEnded, HolderOwns, LockKey, histVars
<1>3. CASE Goto(r, "busy") /\ UNCHANGED owner
  <2>1. /\ pc'[r] = "busy" /\ pc' = [pc EXCEPT ![r] = pc'[r]] /\ revoking' = revoking
        /\ outlived' = outlived
    BY <1>3 DEF TryAcquire, Goto, LockInv, LockTyped, histVars
  <2> QED
    BY <1>3, <2>1, EndingKeeps DEF Ended
<1> QED
  BY <1>1, <1>2, <1>3 DEF TryAcquire

(* The database steps stay between acquire and release. *)
LEMMA DatabaseKeeps ==
  ASSUME LockInv, NEW r \in Requests, Database(r) PROVE LockInv'
<1>1. /\ pc[r] \in Within /\ UNCHANGED <<owner, revoking, outlived>>
      /\ \E l \in Within : pc' = [pc EXCEPT ![r] = l]
  BY DEF Database, Find, Write, Goto, Within, lockVars
<1>2. \A q \in Requests : /\ pc'[q] \in Within <=> pc[q] \in Within
                          /\ pc[q] \in Ended => pc'[q] = pc[q]
  BY <1>1 DEF LockInv, LockTyped, Within, Ended
<1>3. LockTyped'
  BY <1>1 DEF LockInv, LockTyped
<1> QED
  BY <1>1, <1>2, <1>3 DEF LockInv, RevokingEnded, HolderOwns, LockKey

(* A lease that runs out takes the key with it, and the request, if it was *)
(* between acquire and release, is known to have outlived it.              *)
LEMMA ExpireKeeps ==
  ASSUME LockInv, NEW r \in Requests, Expire(r) PROVE LockInv'
<1>1. /\ EndLease(r) /\ UNCHANGED <<pc, revoking>> /\ outlived \subseteq outlived'
      /\ pc[r] \in Within => r \in outlived'
  BY DEF Expire
<1>2. LockTyped' /\ RevokingEnded'
  BY <1>1 DEF LockInv, LockTyped, RevokingEnded, EndLease
<1>3. HolderOwns'
  BY <1>1, KeyIsKey DEF LockInv, LockTyped, HolderOwns, EndLease, LockKey
<1> QED
  BY <1>2, <1>3 DEF LockInv

LEMMA LockStep ==
  ASSUME LockInv, [Next]_vars PROVE LockInv'
<1>1. CASE UNCHANGED vars
  BY <1>1 DEF vars, lockVars, histVars, LockInv, LockTyped, RevokingEnded, HolderOwns, LockKey
<1>2. ASSUME NEW r \in Requests, AcquireFails(r) PROVE LockInv'
  <2>1. /\ pc' = [pc EXCEPT ![r] = "failed"] /\ revoking' = revoking /\ pc[r] = "start"
        /\ outlived' = outlived
    BY <1>2 DEF AcquireFails, Goto, histVars
  <2>2. CASE UNCHANGED owner
    <3>1. pc'[r] = "failed"
      BY <2>1 DEF LockInv, LockTyped
    <3> QED
      BY <2>1, <2>2, <3>1, EndingKeeps DEF Ended
  <2>3. CASE owner[LockKey(r)] = Free /\ owner' = [owner EXCEPT ![LockKey(r)] = r]
    <3>1. LockTyped' /\ RevokingEnded'
      BY <2>1, <2>3 DEF LockInv, LockTyped, RevokingEnded, Ended
    <3>2. \A q \in Requests : pc'[q] \in Within => q # r /\ pc[q] \in Within
      BY <2>1 DEF LockInv, LockTyped, Within
    <3>3. \A q \in Requests :
            pc[q] \in Within /\ q \notin outlived => LockKey(q) # LockKey(r)
      BY <2>3, FreeAssumption DEF LockInv, HolderOwns, FreeAssumption
    <3>4. HolderOwns'
      BY <2>1, <2>3, <3>2, <3>3, KeyIsKey DEF LockInv, LockTyped, HolderOwns, LockKey
    <3> QED
      BY <3>1, <3>4 DEF LockInv
  <2> QED
    BY <1>2, <2>2, <2>3 DEF AcquireFails
<1>3. ASSUME NEW r \in Requests, Release(r) PROVE LockInv'
  <2>1. pc'[r] = "done" /\ pc' = [pc EXCEPT ![r] = pc'[r]]
    BY <1>3 DEF Release, Answer, Goto, LockInv, LockTyped
  <2>2. /\ EndLease(r) \/ UNCHANGED owner
        /\ revoking' \subseteq revoking \cup {r} /\ outlived \subseteq outlived' \cup {r}
    BY <1>3 DEF Release
  <2> QED
    BY <2>1, <2>2, EndingKeeps DEF Ended
<1>4. ASSUME NEW r \in Requests, EndEarly(r) PROVE LockInv'
  <2>1. pc'[r] \in {"failed", "dropped"} /\ pc' = [pc EXCEPT ![r] = pc'[r]]
    BY <1>4 DEF EndEarly, Fail, Cancel, Goto, LockInv, LockTyped
  <2>2. /\ UNCHANGED owner
        /\ revoking' \subseteq revoking \cup {r} /\ outlived \subseteq outlived' \cup {r}
    BY <1>4 DEF EndEarly
  <2> QED
    BY <2>1, <2>2, EndingKeeps DEF Ended
<1>5. ASSUME NEW r \in Requests, Revoke(r) PROVE LockInv'
  <2>1. pc'[r] \in Ended /\ pc' = [pc EXCEPT ![r] = pc'[r]]
    BY <1>5 DEF Revoke, LockInv, LockTyped, RevokingEnded
  <2>2. /\ EndLease(r) \/ UNCHANGED owner
        /\ revoking' \subseteq revoking \cup {r} /\ outlived \subseteq outlived' \cup {r}
    BY <1>5 DEF Revoke, histVars
  <2> QED
    BY <2>1, <2>2, EndingKeeps
<1>6. ASSUME NEW r \in Requests, Crash(r) PROVE LockInv'
  <2>1. pc'[r] \in Ended /\ pc' = [pc EXCEPT ![r] = pc'[r]]
    BY <1>6 DEF Crash, Goto, LockInv, LockTyped, RevokingEnded, Ended
  <2>2. /\ UNCHANGED owner
        /\ revoking' \subseteq revoking \cup {r} /\ outlived \subseteq outlived' \cup {r}
    BY <1>6 DEF Crash
  <2> QED
    BY <2>1, <2>2, EndingKeeps
<1> QED
  BY <1>1, <1>2, <1>3, <1>4, <1>5, <1>6, ExpireKeeps, TryAcquireKeeps, DatabaseKeeps
     DEF Next, Quiescent

LEMMA LockInit == Init => LockInv
  BY DEF Init, InitCore, LockInv, LockTyped, RevokingEnded, HolderOwns, Within

(* Whoever is between acquire and release owns its key in etcd unless its  *)
(* own lease ran out: failed and lost calls, dropped futures and crashed   *)
(* servers of others, however late their revokes, never take it away.      *)
THEOREM LeaseKeeps == Spec => []HolderOwns
<1>1. LockInv => HolderOwns
  BY DEF LockInv
<1> QED
  BY <1>1, LockInit, LockStep, PTL DEF Spec

--------------------------------------------------------------------------------
PcTyped == pc \in [Requests -> {"start", "checked"} \cup Within \cup Ended]

(* The marks of LocalDistributedLock, whatever the number of threads. *)
MarkInv == PcTyped /\ MarksOwned

(* A request that stays within the lock, or leaves it early, accounts for  *)
(* its mark; others do not move.                                           *)
LEMMA MarkKeeps ==
  ASSUME MarkInv, NEW r \in Requests,
         NEW l \in {"start", "checked"} \cup Within \cup Ended, Goto(r, l),
         \/ l \in Within \cup {"failed", "dropped"}
         \/ LockKey(r) \notin marked'
         \/ pc[r] \notin Within \cup {"failed", "dropped"},
         \/ marked' \subseteq marked
         \/ l = "locked" /\ marked' \subseteq marked \cup {LockKey(r)}
  PROVE  MarkInv'
<1>1. /\ PcTyped' /\ pc'[r] = l
      /\ \A q \in Requests \ {r} : pc'[q] = pc[q]
  BY DEF MarkInv, PcTyped, Goto
<1>2. ASSUME NEW k \in marked'
      PROVE  \E q \in Requests : pc'[q] \in Within \cup {"failed", "dropped"} /\ k = LockKey(q)
  <2>1. CASE k \notin marked
    BY <1>1, <1>2, <2>1 DEF Within
  <2>2. CASE k \in marked
    <3>1. PICK q \in Requests : pc[q] \in Within \cup {"failed", "dropped"} /\ k = LockKey(q)
      BY <2>2 DEF MarkInv, MarksOwned
    <3> QED
      BY <1>1, <1>2, <3>1
  <2> QED
    BY <2>1, <2>2
<1>3. MarksOwned'
  BY <1>2 DEF MarksOwned, LockKey
<1> QED
  BY <1>1, <1>3 DEF MarkInv

LEMMA MarkStep == MarkInv /\ [LocalNext]_localVars => MarkInv'
<1> SUFFICES ASSUME MarkInv, [LocalNext]_localVars PROVE MarkInv'
  OBVIOUS
<1>1. CASE UNCHANGED localVars
  BY <1>1 DEF localVars, MarkInv, PcTyped, MarksOwned, LockKey
<1>2. ASSUME NEW r \in Requests, IsLocked(r) PROVE MarkInv'
  <2>1. pc[r] = "start" /\ marked' = marked /\ (Goto(r, "busy") \/ Goto(r, "checked"))
    BY <1>2 DEF IsLocked
  <2> QED
    BY <2>1, MarkKeeps DEF Within, Ended
<1>3. ASSUME NEW r \in Requests, AcquireLock(r) PROVE MarkInv'
  BY <1>3, MarkKeeps DEF AcquireLock, Within
<1>4. ASSUME NEW r \in Requests, LocalDatabase(r) PROVE MarkInv'
  <2>1. \E l \in Within : Goto(r, l) /\ marked' = marked
    BY <1>4 DEF LocalDatabase, Find, Write, Within
  <2> QED
    BY <2>1, MarkKeeps
<1>5. ASSUME NEW r \in Requests, ReleaseLock(r) PROVE MarkInv'
  BY <1>5, MarkKeeps DEF ReleaseLock, Answer, Ended
<1>6. ASSUME NEW r \in Requests, LoseGuard(r) PROVE MarkInv'
  <2>1. \E l \in {"failed", "dropped"} : Goto(r, l) /\ marked' = marked
    BY <1>6 DEF LoseGuard, Fail, Cancel
  <2> QED
    BY <2>1, MarkKeeps DEF Ended
<1> QED
  BY <1>1, <1>2, <1>3, <1>4, <1>5, <1>6 DEF LocalNext, LocalQuiescent

(* A key stays marked for nobody only because a request that had marked it *)
(* ended early, on any number of worker threads.                           *)
THEOREM MarksAccounted == LocalSpec => []MarksOwned
<1>1. LocalInit => MarkInv
  BY DEF LocalInit, InitCore, MarkInv, PcTyped, MarksOwned
<1>2. MarkInv => MarksOwned
  BY DEF MarkInv
<1> QED
  BY <1>1, <1>2, MarkStep, PTL DEF LocalSpec

(* Until two requests find one key unmarked together: who is within has    *)
(* its key marked and to itself, and so has who has found it unmarked.     *)
Alone(r) ==
  \A q \in Requests : q # r /\ LockKey(q) = LockKey(r) => pc[q] \notin Within \cup {"checked"}

LocalInv ==
  ~slipped =>
    /\ \A r \in Requests : pc[r] \in Within => LockKey(r) \in marked /\ Alone(r)
    /\ \A r \in Requests : pc[r] = "checked" => LockKey(r) \notin marked /\ Alone(r)

LEMMA LocalExclusion == LocalInv => Exclusion
  BY DEF LocalInv, Alone, Exclusion

LEMMA LocalStep ==
  ASSUME PcTyped, LocalInv, [LocalNext]_localVars PROVE LocalInv'
<1>0. \A r : LockKey(r)' = LockKey(r)
  BY DEF LockKey
<1>00. slipped => slipped'
  BY DEF LocalNext, LocalQuiescent, localVars
<1> SUFFICES ASSUME ~slipped' PROVE LocalInv'
  BY DEF LocalInv
<1>01. ~slipped
  BY <1>00
<1> USE <1>01
<1> USE DEF LocalInv, Alone, PcTyped
<1>1. CASE UNCHANGED localVars
  BY <1>0, <1>1 DEF localVars
<1>2. ASSUME NEW r \in Requests, IsLocked(r), ~BothChecked' PROVE LocalInv'
  <2>1. pc[r] = "start" /\ marked' = marked /\ (\A q \in Requests \ {r} : pc'[q] = pc[q])
    BY <1>2 DEF IsLocked, Goto
  <2>2. CASE LockKey(r) \in marked
    <3>1. pc'[r] = "busy"
      BY <1>2, <2>2 DEF IsLocked, Goto
    <3> QED
      BY <1>0, <2>1, <3>1 DEF Within
  <2>3. CASE LockKey(r) \notin marked
    <3>1. pc'[r] = "checked"
      BY <1>2, <2>3 DEF IsLocked, Goto
    <3>2. \A q \in Requests \ {r} : LockKey(q) = LockKey(r) => pc[q] \notin Within \cup {"checked"}
      BY <1>0, <1>2, <2>1, <2>3, <3>1 DEF BothChecked
    <3> QED
      BY <1>0, <2>1, <2>3, <3>1, <3>2 DEF Within
  <2> QED
    BY <2>2, <2>3
<1>3. ASSUME NEW r \in Requests, AcquireLock(r) PROVE LocalInv'
  <2>1. /\ pc[r] = "checked" /\ pc'[r] = "locked" /\ marked' = marked \cup {LockKey(r)}
        /\ \A q \in Requests \ {r} : pc'[q] = pc[q]
    BY <1>3 DEF AcquireLock, Goto
  <2> QED
    BY <1>0, <2>1 DEF Within
\* The database steps and the early ends do not enter the lock.
<1>4. ASSUME NEW r \in Requests, LocalDatabase(r) \/ LoseGuard(r) PROVE LocalInv'
  <2>1. /\ pc[r] \in Within /\ marked' = marked
        /\ \E l \in Within \cup Ended : Goto(r, l)
    BY <1>4 DEF LocalDatabase, LoseGuard, Find, Write, Fail, Cancel, Within, Ended
  <2>2. pc'[r] \in Within \cup Ended /\ \A q \in Requests \ {r} : pc'[q] = pc[q]
    BY <2>1 DEF Goto
  <2> QED
    BY <1>0, <2>1, <2>2 DEF Within, Ended
<1>5. ASSUME NEW r \in Requests, ReleaseLock(r) PROVE LocalInv'
  <2>1. /\ pc[r] \in Within /\ pc'[r] = "done" /\ marked' = marked \ {LockKey(r)}
        /\ \A q \in Requests \ {r} : pc'[q] = pc[q]
    BY <1>5 DEF ReleaseLock, Answer, Goto, Within
  <2> QED
    BY <1>0, <2>1 DEF Within
<1> QED
  BY <1>1, <1>2, <1>3, <1>4, <1>5 DEF LocalNext, LocalQuiescent

LEMMA PcStep == PcTyped /\ [LocalNext]_localVars => PcTyped'
  BY DEF PcTyped, LocalNext, LocalQuiescent, localVars, IsLocked, AcquireLock, LocalDatabase,
         Find, Write, ReleaseLock, Answer, LoseGuard, Fail, Cancel, Goto, Within, Ended

LEMMA LocalLockInit == LocalInit => PcTyped /\ LocalInv
  BY DEF LocalInit, InitCore, LocalInv, PcTyped, Within

(* The local lock excludes, on any number of worker threads, through       *)
(* errors and dropped futures, until two requests find one key unmarked    *)
(* together, which one thread never lets them.                             *)
THEOREM LocalExcludes == LocalSpec => []Exclusion
<1> QED
  BY LocalLockInit, LocalStep, PcStep, LocalExclusion, PTL DEF LocalSpec

--------------------------------------------------------------------------------
(* One method: allocate_segment alone, or allocate_segment_with_dc alone,  *)
(* for any number of data centres.  (The two take different lock keys for  *)
(* the row of data centre 0.)                                              *)
OneMethod == (\A r \in Requests : DcOf[r] = NoDc) \/ (\A r \in Requests : DcOf[r] # NoDc)

(* A data centre has not used up the ids before those of the next one. *)
InSpan ==
  \A i \in DOMAIN rows : rows[i].current_id <= (rows[i].dc_id + 1) * DcSpan + 1

Row == [dc_id : Nat, current_id : Nat]

DataTyped ==
  /\ rows \in Seq(Row)
  /\ found \in [Requests -> Nat]
  /\ seen \in [Requests -> Nat]
  /\ taken \in [Requests -> SUBSET Nat]
  /\ got \in [Requests -> SUBSET Nat]

(* The rows of a request's data centre: one at most. *)
RowOf(r) == {i \in DOMAIN rows : rows[i].dc_id = RowDc(r)}

(* There is no row but for some request's data centre, beyond its first id. *)
RowsAsked ==
  /\ \A i \in DOMAIN rows : \E r \in Requests : i \in RowOf(r)
  /\ \A r \in Requests : \A i \in RowOf(r) : FirstId(r) <= rows[i].current_id

SingleRow == \A i, j \in DOMAIN rows : rows[i].dc_id = rows[j].dc_id => i = j

(* What a request has read is what the table holds. *)
Current(r) ==
  \/ RowOf(r) = {} /\ found[r] = 0 /\ seen[r] = FirstId(r)
  \/ found[r] \in RowOf(r) /\ seen[r] = rows[found[r]].current_id

(* The row is ahead of every range that was taken. *)
RowAhead ==
  \A r \in Requests : \A id \in taken[r] :
    FirstId(r) <= id /\ \E i \in RowOf(r) : id < rows[i].current_id

TakenDisjoint ==
  \A r, q \in Requests : r # q /\ RowDc(r) = RowDc(q) => taken[r] \cap taken[q] = {}

TakenSome == \A r \in Requests : pc[r] = "committed" => taken[r] # {}

GotTaken == \A r \in Requests : got[r] \subseteq taken[r]

RangeInv ==
  /\ DataTyped /\ SingleRow /\ RowsAsked /\ RowAhead
  /\ TakenDisjoint /\ TakenSome /\ GotTaken

(* Before the commit. *)
Early == {"start", "checked", "locked", "found"}

(* A step of allocation as the database and the callers see it. *)
Aside ==
  /\ UNCHANGED <<dbVars, got>>
  /\ \A q \in Requests : pc'[q] \in {"found", "committed"} => pc'[q] = pc[q]
  /\ \A q \in Requests : pc[q] = "done" => pc'[q] = "done"
  /\ \A q \in Requests : pc'[q] \in Early => pc[q] \in Early

AllocationStep ==
  Aside \/ \E r \in Requests : Find(r) \/ (Write(r) /\ Current(r)) \/ Answer(r)

(* Under each lock: until somebody gets past it, who writes holds it. *)
EtcdAllocationStep ==
  \/ Aside
  \/ \E r \in Requests : Find(r) \/ (Write(r) /\ (r \in outlived => slipped')) \/ Answer(r)

LEMMA EtcdSteps == LockInv /\ [Next]_vars => EtcdAllocationStep
<1> SUFFICES ASSUME LockInv, [Next]_vars PROVE EtcdAllocationStep
  OBVIOUS
<1>1. CASE UNCHANGED vars
  BY <1>1 DEF vars, Aside, EtcdAllocationStep
<1>2. ASSUME NEW r \in Requests, TryAcquire(r) \/ AcquireFails(r) PROVE Aside
  BY <1>2 DEF TryAcquire, AcquireFails, Goto, LockInv, LockTyped, Aside,
              Early, Within, Ended
<1>3. ASSUME NEW r \in Requests, EndEarly(r) \/ Revoke(r) \/ Crash(r) \/ Expire(r) PROVE Aside
  BY <1>3 DEF EndEarly, Fail, Cancel, Revoke, Crash, Expire, Goto, LockInv, LockTyped, Aside,
              Early, Within, Ended
<1>4. ASSUME NEW r \in Requests, Database(r) \/ Release(r)
      PROVE  Find(r) \/ (Write(r) /\ (r \in outlived => slipped')) \/ Answer(r)
  BY <1>4 DEF Database, Release
<1> QED
  BY <1>1, <1>2, <1>3, <1>4 DEF Next, Quiescent, EtcdAllocationStep

LocalAllocationStep == Aside \/ \E r \in Requests : Find(r) \/ Write(r) \/ Answer(r)

LEMMA LocalSteps == PcTyped /\ [LocalNext]_localVars => LocalAllocationStep
<1> SUFFICES ASSUME PcTyped, [LocalNext]_localVars PROVE LocalAllocationStep
  OBVIOUS
<1>1. CASE UNCHANGED localVars
  BY <1>1 DEF localVars, Aside, LocalAllocationStep
<1>2. ASSUME NEW r \in Requests, IsLocked(r) \/ AcquireLock(r) \/ LoseGuard(r) PROVE Aside
  BY <1>2 DEF IsLocked, AcquireLock, LoseGuard, Fail, Cancel, Goto, PcTyped, Aside, Early,
              Within, Ended
<1>3. ASSUME NEW r \in Requests, LocalDatabase(r) \/ ReleaseLock(r)
      PROVE  Find(r) \/ Write(r) \/ Answer(r)
  BY <1>3 DEF LocalDatabase, ReleaseLock
<1> QED
  BY <1>1, <1>2, <1>3 DEF LocalNext, LocalQuiescent, LocalAllocationStep

LEMMA AsideKeeps ==
  ASSUME RangeInv, UNCHANGED <<dbVars, got>>,
         \A q \in Requests : pc'[q] \in {"found", "committed"} => pc'[q] = pc[q]
  PROVE  RangeInv'
<1>1. \A r : RowOf(r)' = RowOf(r)
  BY DEF RowOf, RowDc, dbVars
<1>2. SingleRow' /\ RowsAsked' /\ RowAhead'
  BY <1>1 DEF RangeInv, SingleRow, RowsAsked, RowAhead, FirstId, dbVars
<1>4. DataTyped' /\ TakenDisjoint' /\ TakenSome' /\ GotTaken'
  BY DEF RangeInv, DataTyped, TakenDisjoint, TakenSome, GotTaken, RowDc, dbVars
<1> QED
  BY <1>2, <1>4 DEF RangeInv

(* The first id follows from the data centre of the row. *)
LEMMA FirstIdOfRow ==
  \A r \in Requests : RowDc(r) \in Nat /\ FirstId(r) = RowDc(r) * DcSpan + 1 /\ FirstId(r) \in Nat
<1> SUFFICES ASSUME NEW r \in Requests
             PROVE  RowDc(r) \in Nat /\ FirstId(r) = RowDc(r) * DcSpan + 1 /\ FirstId(r) \in Nat
  OBVIOUS
<1>1. DcSpan \in Nat
  BY RequestsAssumption DEF RequestsAssumption
<1>2. CASE DcOf[r] = NoDc
  <2>1. RowDc(r) = 0 /\ FirstId(r) = 1
    BY <1>2 DEF FirstId, RowDc
  <2>2. 0 * DcSpan = 0
    BY <1>1
  <2> QED
    BY <2>1, <2>2
<1>3. CASE DcOf[r] # NoDc
  <2>1. DcOf[r] \in Nat
    BY <1>3, RequestsAssumption DEF RequestsAssumption
  <2>2. DcOf[r] * DcSpan \in Nat
    BY <1>1, <2>1
  <2> QED
    BY <1>3, <2>1, <2>2 DEF FirstId, RowDc
<1> QED
  BY <1>2, <1>3

(* With one method, what the SELECT of a request can return are the rows   *)
(* of its data centre, and their key is that of the lock.                  *)
LEMMA MatchingRows ==
  ASSUME OneMethod, RangeInv, NEW r \in Requests PROVE Matching(r) = RowOf(r)
  BY DEF OneMethod, RangeInv, RowsAsked, RowOf, Matching, RowDc

LEMMA KeyOfRow ==
  ASSUME OneMethod, NEW r \in Requests, NEW q \in Requests, RowDc(r) = RowDc(q)
  PROVE  LockKey(r) = LockKey(q)
  BY DEF OneMethod, RowDc, LockKey

LEMMA RowTyped ==
  ASSUME RangeInv, NEW i \in DOMAIN rows
  PROVE  rows[i] \in Row /\ rows[i].dc_id \in Nat /\ rows[i].current_id \in Nat
<1>1. rows \in Seq(Row) /\ i \in 1..Len(rows)
  BY DEF RangeInv, DataTyped
<1>2. rows[i] \in Row
  BY <1>1, ElementOfSeq
<1> QED
  BY <1>2 DEF Row

LEMMA FindKeeps ==
  ASSUME OneMethod, PcTyped, RangeInv, NEW r \in Requests, Find(r) PROVE RangeInv' /\ Current(r)'
<1>1. /\ UNCHANGED <<rows, taken, got>> /\ pc' = [pc EXCEPT ![r] = "found"]
      /\ \A q \in Requests : q # r => pc'[q] = pc[q]
  BY DEF Find, Goto, PcTyped
<1>2. pc'[r] = "found"
  BY <1>1 DEF PcTyped
<1>3. \A q : RowOf(q)' = RowOf(q)
  BY <1>1 DEF RowOf, RowDc
<1>4. PICK i, n : /\ found' = [found EXCEPT ![r] = i] /\ seen' = [seen EXCEPT ![r] = n]
                  /\ \/ i \in RowOf(r) /\ n = rows[i].current_id
                     \/ RowOf(r) = {} /\ i = 0 /\ n = FirstId(r)
  BY MatchingRows DEF Find
<1>5. i \in Nat /\ n \in Nat
  <2>1. RowOf(r) \subseteq DOMAIN rows /\ DOMAIN rows \subseteq Nat
    BY DEF RangeInv, DataTyped, RowOf
  <2> QED
    BY <1>4, <2>1, RowTyped, FirstIdOfRow
<1>6. DataTyped'
  BY <1>1, <1>4, <1>5 DEF RangeInv, DataTyped
<1>7. Current(r)'
  <2>1. found'[r] = i /\ seen'[r] = n
    BY <1>4 DEF RangeInv, DataTyped
  <2> QED
    BY <1>1, <1>3, <1>4, <2>1 DEF Current, FirstId
<1>8. SingleRow' /\ RowsAsked' /\ RowAhead'
  BY <1>1, <1>3 DEF RangeInv, SingleRow, RowsAsked, RowAhead, FirstId
<1>9. TakenDisjoint' /\ TakenSome' /\ GotTaken'
  BY <1>1, <1>2 DEF RangeInv, TakenDisjoint, TakenSome, GotTaken, RowDc
<1> QED
  BY <1>6, <1>7, <1>8, <1>9 DEF RangeInv

(* What Write does to the table: the row of its data centre goes from what *)
(* the request has read to the end of its range, or is made.               *)
WritesRow(r, i, end) ==
  /\ seen[r] \in Nat /\ end \in Nat /\ FirstId(r) <= seen[r] /\ seen[r] < end
  /\ rows' \in Seq(Row) /\ DOMAIN rows' = DOMAIN rows \cup {i}
  /\ rows'[i] = [dc_id |-> RowDc(r), current_id |-> end]
  /\ \A j \in DOMAIN rows \ {i} : rows'[j] = rows[j]
  /\ RowOf(r) \subseteq {i}
  /\ i \in DOMAIN rows => rows[i].dc_id = RowDc(r) /\ rows[i].current_id = seen[r]

LEMMA WriteEffect ==
  ASSUME RangeInv, NEW r \in Requests, Write(r), Current(r)
  PROVE  \E i \in Nat : WritesRow(r, i, seen[r] + StepOf[r])
<1> DEFINE end == seen[r] + StepOf[r]
<1>1. seen[r] \in Nat /\ end \in Nat /\ seen[r] < end
  BY RequestsAssumption DEF RangeInv, DataTyped, RequestsAssumption
<1>2. rows \in Seq(Row) /\ DOMAIN rows = 1..Len(rows) /\ Len(rows) \in Nat /\ pc[r] = "found"
  BY DEF RangeInv, DataTyped, Write
<1>3. CASE found[r] \in RowOf(r) /\ seen[r] = rows[found[r]].current_id
  <2> DEFINE i == found[r]
             new == [rows[i] EXCEPT !.current_id = end]
  <2>1. i \in 1..Len(rows) /\ i # 0 /\ rows[i].dc_id = RowDc(r)
    BY <1>2, <1>3 DEF RowOf
  <2>2. rows' = [rows EXCEPT ![i] = new]
    BY <2>1 DEF Write
  <2>3. new \in Row /\ new = [dc_id |-> RowDc(r), current_id |-> end]
    <3>1. rows[i] \in Row
      BY <1>2, <2>1, ElementOfSeq
    <3> QED
      BY <1>1, <2>1, <3>1 DEF Row
  <2> HIDE DEF new
  <2>4. /\ rows' \in Seq(Row) /\ Len(rows') = Len(rows)
        /\ \A j \in 1..Len(rows) : rows'[j] = IF j = i THEN new ELSE rows[j]
    BY <1>2, <2>1, <2>2, <2>3, ExceptSeq
  <2>5. DOMAIN rows' = DOMAIN rows \cup {i}
    <3>1. DOMAIN rows' = 1..Len(rows')
      BY <2>4
    <3> QED
      BY <1>2, <2>1, <2>4, <3>1
  <2>6. RowOf(r) \subseteq {i}
    BY <1>3 DEF RangeInv, SingleRow, RowOf
  <2>7. FirstId(r) <= seen[r]
    BY <1>3 DEF RangeInv, RowsAsked
  <2>8. WritesRow(r, i, end)
    BY <1>1, <1>2, <1>3, <2>1, <2>3, <2>4, <2>5, <2>6, <2>7 DEF WritesRow
  <2> QED
    BY <1>2, <2>1, <2>8
<1>4. CASE RowOf(r) = {} /\ found[r] = 0 /\ seen[r] = FirstId(r)
  <2> DEFINE new == [dc_id |-> RowDc(r), current_id |-> end]
             i == Len(rows) + 1
  <2>1. rows' = Append(rows, new)
    BY <1>4 DEF Write
  <2>2. new \in Row
    BY <1>1, FirstIdOfRow DEF Row
  <2>3. /\ rows' \in Seq(Row) /\ Len(rows') = i /\ rows'[i] = new
        /\ \A j \in 1..Len(rows) : rows'[j] = rows[j]
    <3> HIDE DEF new
    <3> QED
      BY <1>2, <2>1, <2>2, AppendProperties
  <2>4. DOMAIN rows' = DOMAIN rows \cup {i} /\ i \notin DOMAIN rows
    BY <1>2, <2>3
  <2>5. FirstId(r) <= seen[r]
    BY <1>1, <1>4
  <2>6. WritesRow(r, i, end)
    BY <1>1, <1>2, <1>4, <2>3, <2>4, <2>5 DEF WritesRow
  <2> QED
    BY <1>2, <2>6
<1> QED
  BY <1>3, <1>4 DEF Current

(* What others have read of the rows of other data centres stays current. *)
LEMMA WriteSpares ==
  ASSUME RangeInv, NEW r \in Requests, Write(r), Current(r),
         NEW q \in Requests, RowDc(q) # RowDc(r), Current(q)
  PROVE  Current(q)'
<1>1. PICK i \in Nat : WritesRow(r, i, seen[r] + StepOf[r])
  BY WriteEffect
<1>2. UNCHANGED <<found, seen>>
  BY DEF Write
<1>3. rows'[i].dc_id = RowDc(r)
  BY <1>1 DEF WritesRow
<1>4. /\ \A j \in DOMAIN rows : j # i => rows'[j] = rows[j]
      /\ RowOf(q)' = RowOf(q) /\ i \notin RowOf(q)
  BY <1>1, <1>3 DEF WritesRow, RowOf, RowDc
<1>5. \A j \in RowOf(q) : rows'[j] = rows[j]
  BY <1>4 DEF RowOf
<1> QED
  BY <1>2, <1>4, <1>5 DEF Current, FirstId

(* A request writes what follows from the table as it stands. *)
LEMMA WriteKeeps ==
  ASSUME PcTyped, RangeInv, NEW r \in Requests, got[r] = {}, Write(r), Current(r)
  PROVE  RangeInv'
<1> DEFINE end   == seen[r] + StepOf[r]
           range == seen[r]..(end - 1)
<1>1. PICK i \in Nat : WritesRow(r, i, end)
  BY WriteEffect
<1> HIDE DEF end
<1>2. /\ taken' = [taken EXCEPT ![r] = range] /\ UNCHANGED <<found, seen, got>>
      /\ pc[r] = "found" /\ pc' = [pc EXCEPT ![r] = "committed"]
  BY DEF Write, Goto, end
<1>3. range \subseteq Nat /\ seen[r] \in range /\ seen[r] \in Nat /\ end \in Nat
  BY <1>1 DEF WritesRow
<1>4. \A id \in range : id \in Nat /\ FirstId(r) <= id /\ seen[r] <= id /\ id < end
  BY <1>1, FirstIdOfRow DEF WritesRow
<1> HIDE DEF range
<1>5. \A q \in Requests : pc'[q] = (IF q = r THEN "committed" ELSE pc[q])
                         /\ taken'[q] = (IF q = r THEN range ELSE taken[q])
  BY <1>2 DEF PcTyped, RangeInv, DataTyped
<1>7. rows'[i].dc_id = RowDc(r) /\ rows'[i].current_id = end /\ i \in RowOf(r)'
  BY <1>1 DEF WritesRow, RowOf, RowDc
\* The rows of another data centre stay, that of this one is i.
<1>8. /\ \A j \in DOMAIN rows : j # i => rows'[j] = rows[j]
      /\ \A q \in Requests : RowDc(q) = RowDc(r) => RowOf(q)' = {i} /\ RowOf(q) \subseteq {i}
      /\ \A q \in Requests : RowDc(q) # RowDc(r) => RowOf(q)' = RowOf(q) /\ i \notin RowOf(q)
  BY <1>1, <1>7 DEF WritesRow, RowOf, RowDc
<1>9. DataTyped'
  BY <1>1, <1>2, <1>3 DEF RangeInv, DataTyped, WritesRow
<1>10. SingleRow'
  <2> SUFFICES ASSUME NEW j \in DOMAIN rows', NEW k \in DOMAIN rows',
                      rows'[j].dc_id = rows'[k].dc_id
               PROVE  j = k
    BY DEF SingleRow
  <2>1. CASE rows'[j].dc_id = RowDc(r)
    <3>1. j \in RowOf(r)' /\ k \in RowOf(r)'
      BY <2>1 DEF RowOf, RowDc
    <3> QED
      BY <1>8, <3>1
  <2>2. CASE rows'[j].dc_id # RowDc(r)
    <3>1. j # i /\ k # i
      BY <1>7, <2>2
    <3>2. j \in DOMAIN rows /\ k \in DOMAIN rows
      BY <1>1, <3>1 DEF WritesRow
    <3> QED
      BY <1>8, <3>1, <3>2 DEF RangeInv, SingleRow
  <2> QED
    BY <2>1, <2>2
<1>11. RowsAsked'
  <2>1. ASSUME NEW j \in DOMAIN rows' PROVE \E q \in Requests : j \in RowOf(q)'
    <3>1. CASE j = i
      BY <1>7, <3>1
    <3>2. CASE j # i
      <4>1. j \in DOMAIN rows /\ rows'[j] = rows[j]
        BY <1>1, <1>8, <3>2 DEF WritesRow
      <4> QED
        BY <2>1, <4>1 DEF RangeInv, RowsAsked, RowOf, RowDc
    <3> QED
      BY <3>1, <3>2
  <2>2. ASSUME NEW q \in Requests, NEW j \in RowOf(q)' PROVE FirstId(q) <= rows'[j].current_id
    <3>1. CASE RowDc(q) = RowDc(r)
      <4>1. j = i /\ FirstId(q) = FirstId(r)
        BY <1>8, <2>2, <3>1, FirstIdOfRow
      <4> QED
        BY <1>1, <1>7, <4>1, FirstIdOfRow DEF WritesRow
    <3>2. CASE RowDc(q) # RowDc(r)
      <4>1. j \in RowOf(q) /\ rows'[j] = rows[j]
        BY <1>8, <2>2, <3>2 DEF RowOf
      <4> QED
        BY <4>1 DEF RangeInv, RowsAsked
    <3> QED
      BY <3>1, <3>2
  <2> QED
    BY <2>1, <2>2 DEF RowsAsked, FirstId
<1>13. RowAhead'
  <2> SUFFICES ASSUME NEW q \in Requests, NEW id \in taken'[q]
               PROVE  FirstId(q) <= id /\ \E j \in RowOf(q)' : id < rows'[j].current_id
    BY DEF RowAhead, FirstId
  <2>1. CASE q = r
    BY <1>4, <1>5, <1>7, <2>1
  <2>2. CASE q # r
    <3>1. id \in taken[q] /\ id \in Nat
      BY <1>5, <2>2 DEF RangeInv, DataTyped
    <3>2. PICK j \in RowOf(q) : id < rows[j].current_id
      BY <3>1 DEF RangeInv, RowAhead
    <3>3. CASE RowDc(q) = RowDc(r)
      <4>1. j = i /\ i \in DOMAIN rows
        BY <1>8, <3>2, <3>3 DEF RowOf
      <4>2. id < seen[r] /\ seen[r] < end
        BY <1>1, <3>2, <4>1 DEF WritesRow
      <4>3. id < end
        BY <1>3, <3>1, <4>2
      <4> QED
        BY <1>7, <1>8, <3>1, <3>3, <4>3 DEF RangeInv, RowAhead
    <3>4. CASE RowDc(q) # RowDc(r)
      <4>1. j \in RowOf(q)' /\ rows'[j] = rows[j]
        BY <1>8, <3>2, <3>4 DEF RowOf
      <4> QED
        BY <3>1, <3>2, <4>1 DEF RangeInv, RowAhead
    <3> QED
      BY <3>3, <3>4
  <2> QED
    BY <2>1, <2>2
<1>14. TakenDisjoint'
  <2>1. ASSUME NEW q \in Requests, RowDc(q) = RowDc(r), NEW id \in taken[q] PROVE id \notin range
    <3>1. PICK j \in RowOf(q) : id < rows[j].current_id
      BY <2>1 DEF RangeInv, RowAhead
    <3>2. j = i /\ i \in DOMAIN rows /\ id \in Nat
      BY <1>8, <2>1, <3>1 DEF RowOf, RangeInv, DataTyped
    <3>3. id < seen[r]
      BY <1>1, <3>1, <3>2 DEF WritesRow
    <3> QED
      BY <1>3, <1>4, <3>2, <3>3
  <2> QED
    BY <1>5, <2>1 DEF RangeInv, TakenDisjoint, RowDc
<1>15. TakenSome' /\ GotTaken'
  BY <1>2, <1>3, <1>5 DEF RangeInv, TakenSome, GotTaken
<1> QED
  BY <1>9, <1>10, <1>11, <1>13, <1>14, <1>15 DEF RangeInv

LEMMA AnswerKeeps ==
  ASSUME PcTyped, RangeInv, NEW r \in Requests, Answer(r) PROVE RangeInv'
<1>1. /\ UNCHANGED dbVars /\ got' = [got EXCEPT ![r] = taken[r]]
      /\ pc' = [pc EXCEPT ![r] = "done"]
  BY DEF Answer, Goto
<1>2. \A q \in Requests : pc'[q] \in {"found", "committed"} => pc'[q] = pc[q]
  BY <1>1 DEF PcTyped
<1>3. \A q : RowOf(q)' = RowOf(q)
  BY <1>1 DEF RowOf, RowDc, dbVars
<1>4. SingleRow' /\ RowsAsked' /\ RowAhead'
  BY <1>1, <1>3 DEF RangeInv, SingleRow, RowsAsked, RowAhead, FirstId, dbVars
<1>6. TakenDisjoint' /\ TakenSome'
  BY <1>1, <1>2 DEF RangeInv, TakenDisjoint, TakenSome, RowDc, dbVars
<1>7. DataTyped' /\ GotTaken'
  BY <1>1 DEF RangeInv, DataTyped, GotTaken, dbVars
<1> QED
  BY <1>4, <1>6, <1>7 DEF RangeInv

(* A request has no answer before it is done. *)
Unanswered == \A r \in Requests : pc[r] # "done" => got[r] = {}

(* Nor has it taken anything before its commit. *)
Untaken == \A r \in Requests : pc[r] \in Early => taken[r] = {}

DataInv == PcTyped /\ RangeInv /\ Unanswered /\ Untaken

LEMMA UnansweredStep ==
  ASSUME DataInv, AllocationStep PROVE Unanswered'
<1>1. \A q \in Requests : pc[q] = "done" => pc'[q] = "done"
  BY DEF AllocationStep, Aside, Find, Write, Answer, Goto, DataInv, PcTyped
<1>2. ASSUME NEW r \in Requests, Answer(r) PROVE Unanswered'
  <2>1. \A q \in Requests : q # r => got'[q] = got[q]
    BY <1>2 DEF Answer, DataInv, RangeInv, DataTyped
  <2>2. pc'[r] = "done"
    BY <1>2 DEF Answer, Goto, DataInv, PcTyped
  <2> QED
    BY <1>1, <2>1, <2>2 DEF DataInv, Unanswered
<1>3. CASE UNCHANGED got
  BY <1>1, <1>3 DEF DataInv, Unanswered
<1> QED
  BY <1>2, <1>3 DEF AllocationStep, Aside, Find, Write

LEMMA UntakenStep ==
  ASSUME DataInv, AllocationStep PROVE Untaken'
<1>1. \A q \in Requests : pc'[q] \in Early => pc[q] \in Early
  BY DEF AllocationStep, Aside, Find, Write, Answer, Goto, DataInv, PcTyped, Early
<1>2. ASSUME NEW r \in Requests, Write(r) PROVE Untaken'
  <2>1. \A q \in Requests : q # r => taken'[q] = taken[q]
    BY <1>2 DEF Write, DataInv, RangeInv, DataTyped
  <2>2. pc'[r] \notin Early
    BY <1>2 DEF Write, Goto, DataInv, PcTyped, Early
  <2> QED
    BY <1>1, <2>1, <2>2 DEF DataInv, Untaken
<1>3. CASE UNCHANGED taken
  BY <1>1, <1>3 DEF DataInv, Untaken
<1> QED
  BY <1>2, <1>3 DEF AllocationStep, Aside, Find, Answer, dbVars

LEMMA RangeStep ==
  ASSUME OneMethod, DataInv, AllocationStep PROVE RangeInv' /\ Unanswered' /\ Untaken'
<1>1. ASSUME NEW r \in Requests, Write(r), Current(r) PROVE RangeInv'
  <2>1. got[r] = {}
    BY <1>1 DEF Write, DataInv, Unanswered
  <2> QED
    BY <1>1, <2>1, WriteKeeps DEF DataInv
<1>2. RangeInv'
  BY <1>1, AsideKeeps, FindKeeps, AnswerKeeps DEF AllocationStep, Aside, DataInv
<1> QED
  BY <1>2, UnansweredStep, UntakenStep

LEMMA RangeInit == InitCore => RangeInv /\ Unanswered /\ Untaken
<1> SUFFICES ASSUME InitCore PROVE RangeInv /\ Unanswered /\ Untaken
  OBVIOUS
<1>1. rows = <<>> /\ DOMAIN rows = {}
  BY DEF InitCore
<1>2. DataTyped /\ SingleRow /\ RowsAsked
  BY <1>1 DEF InitCore, DataTyped, SingleRow, RowsAsked, RowOf
<1>3. RowAhead /\ TakenDisjoint /\ TakenSome /\ GotTaken /\ Unanswered /\ Untaken
  BY DEF InitCore, RowAhead, TakenDisjoint, TakenSome, GotTaken, Unanswered,
         Untaken
<1> QED
  BY <1>2, <1>3 DEF RangeInv

(* What is read stays current while the lock keeps the row for its reader. *)
LEMMA ReadsCurrent ==
  ASSUME OneMethod, DataInv, Aside \/ (\E r \in Requests : Find(r) \/ Answer(r)),
         NEW q \in Requests, pc'[q] = "found", pc[q] = "found" => Current(q)
  PROVE  Current(q)'
<1>1. CASE Aside \/ \E r \in Requests : Answer(r)
  <2>1. UNCHANGED dbVars /\ pc[q] = "found"
    BY <1>1 DEF Aside, Answer, Goto, DataInv, PcTyped
  <2> QED
    BY <2>1 DEF Current, RowOf, RowDc, FirstId, dbVars
<1>2. ASSUME NEW r \in Requests, Find(r) PROVE Current(q)'
  <2>1. CASE q = r
    BY <1>2, <2>1, FindKeeps DEF DataInv
  <2>2. CASE q # r
    <3>1. /\ rows' = rows /\ found'[q] = found[q] /\ seen'[q] = seen[q]
          /\ pc[q] = "found"
      BY <1>2, <2>2 DEF Find, Goto, DataInv, PcTyped, RangeInv, DataTyped
    <3> QED
      BY <3>1 DEF Current, RowOf, RowDc, FirstId
  <2> QED
    BY <2>1, <2>2
<1> QED
  BY <1>1, <1>2

(* Under etcd: the data is in order, and what a request whose lease is not *)
(* over has read is current, until one writes after its lease.             *)
EtcdSeen == \A q \in Requests : pc[q] = "found" /\ q \notin outlived => Current(q)
EtcdInv  == LockInv /\ (~slipped => DataInv /\ EtcdSeen)

LEMMA OutlivedStays ==
  ASSUME LockInv, [Next]_vars, NEW q \in Requests, q \in outlived, pc'[q] \notin Ended
  PROVE  q \in outlived'
<1>1. ASSUME NEW r \in Requests, Release(r) \/ EndEarly(r) PROVE q \in outlived'
  <2>1. outlived' = outlived \ {r} /\ \E l \in Ended : Goto(r, l)
    BY <1>1 DEF Release, Answer, EndEarly, Fail, Cancel, Ended
  <2>2. pc'[r] \in Ended
    BY <2>1 DEF Goto, LockInv, LockTyped
  <2> QED
    BY <2>1, <2>2
<1>2. ASSUME NEW r \in Requests, Crash(r) PROVE q \in outlived'
  <2>1. outlived' = outlived \ {r}
    BY <1>2 DEF Crash
  <2>2. pc'[r] \in Ended
    BY <1>2 DEF Crash, Goto, Ended, LockInv, LockTyped, RevokingEnded
  <2> QED
    BY <2>1, <2>2
<1>3. ASSUME NEW r \in Requests,
             TryAcquire(r) \/ AcquireFails(r) \/ Database(r) \/ Revoke(r) \/ Expire(r)
      PROVE  q \in outlived'
  BY <1>3 DEF TryAcquire, AcquireFails, Database, Revoke, Expire, histVars
<1> QED
  BY <1>1, <1>2, <1>3 DEF Next, Quiescent, vars, histVars

LEMMA EtcdSound ==
  ASSUME OneMethod, EtcdInv, [Next]_vars, ~slipped'
  PROVE  ~slipped /\ DataInv /\ DataInv' /\ AllocationStep /\ EtcdSeen'
<1>1. ~slipped
  BY DEF Next, Quiescent, vars, histVars, TryAcquire, AcquireFails, Database, Release, EndEarly,
         Revoke, Crash, Expire
<1>2. LockInv /\ LockInv' /\ DataInv /\ EtcdSeen
  BY <1>1, LockStep DEF EtcdInv
<1>3. EtcdAllocationStep
  BY <1>2, EtcdSteps
<1>4. \A r \in Requests : Write(r) /\ (r \in outlived => slipped') => r \notin outlived /\ Current(r)
  BY <1>2 DEF EtcdSeen, Write
<1>5. AllocationStep
  BY <1>3, <1>4 DEF EtcdAllocationStep, AllocationStep
<1>6. DataInv'
  <2>1. RangeInv' /\ Unanswered' /\ Untaken'
    BY <1>2, <1>5, RangeStep
  <2>2. PcTyped'
    BY <1>2 DEF LockInv, LockTyped, PcTyped
  <2> QED
    BY <2>1, <2>2 DEF DataInv
<1>7. EtcdSeen'
  <2> SUFFICES ASSUME NEW q \in Requests, pc'[q] = "found", q \notin outlived' PROVE Current(q)'
    BY DEF EtcdSeen
  <2>1. q \notin outlived
    BY <1>2, OutlivedStays DEF Ended
  <2>2. pc[q] = "found" => Current(q)
    BY <1>2, <2>1 DEF EtcdSeen, Within
  <2>3. CASE Aside \/ \E r \in Requests : Find(r) \/ Answer(r)
    BY <1>2, <2>2, <2>3, ReadsCurrent
  <2>4. ASSUME NEW r \in Requests, Write(r), r \in outlived => slipped' PROVE Current(q)'
    <3>1. r \notin outlived /\ Current(r) /\ pc[r] = "found" /\ q # r /\ pc[q] = "found"
      BY <1>2, <1>4, <2>4 DEF Write, Goto, DataInv, PcTyped
    <3>2. owner[LockKey(r)] = r /\ owner[LockKey(q)] = q
      BY <1>2, <2>1, <3>1 DEF LockInv, HolderOwns, Within
    <3>3. RowDc(q) # RowDc(r)
      BY <3>1, <3>2, KeyOfRow
    <3> QED
      BY <1>2, <2>2, <2>4, <3>1, <3>3, WriteSpares DEF DataInv
  <2> QED
    BY <1>3, <2>3, <2>4 DEF EtcdAllocationStep
<1> QED
  BY <1>1, <1>2, <1>5, <1>6, <1>7

LEMMA EtcdInvariant ==
  ASSUME OneMethod PROVE Spec => []EtcdInv
<1>1. Init => EtcdInv
  <2>1. Init => PcTyped /\ EtcdSeen
    BY DEF Init, InitCore, PcTyped, EtcdSeen
  <2> QED
    BY <2>1, LockInit, RangeInit DEF Init, DataInv, EtcdInv
<1>2. EtcdInv /\ [Next]_vars => EtcdInv'
  BY EtcdSound, LockStep DEF EtcdInv
<1> QED
  BY <1>1, <1>2, PTL DEF Spec

(* Under the local lock: so it is until two find one key unmarked.         *)
LocalSeen == \A q \in Requests : pc[q] = "found" => Current(q)
LocalAllocationInv == PcTyped /\ LocalInv /\ (~slipped => DataInv /\ LocalSeen)

LEMMA LocalSound ==
  ASSUME OneMethod, LocalAllocationInv, [LocalNext]_localVars, ~slipped'
  PROVE  ~slipped /\ DataInv /\ DataInv' /\ AllocationStep /\ LocalSeen'
<1>1. ~slipped
  BY DEF LocalNext, LocalQuiescent, localVars
<1>2. DataInv /\ LocalSeen /\ LocalInv
  BY <1>1 DEF LocalAllocationInv
<1>3. LocalAllocationStep
  BY LocalSteps DEF LocalAllocationInv
<1>4. AllocationStep
  BY <1>2, <1>3 DEF LocalAllocationStep, AllocationStep, LocalSeen, Write
<1>5. DataInv'
  BY <1>2, <1>4, RangeStep, PcStep DEF DataInv
<1>6. LocalSeen'
  <2> SUFFICES ASSUME NEW q \in Requests, pc'[q] = "found" PROVE Current(q)'
    BY DEF LocalSeen
  <2>1. pc[q] = "found" => Current(q)
    BY <1>2 DEF LocalSeen
  <2>2. CASE Aside \/ \E r \in Requests : Find(r) \/ Answer(r)
    BY <1>2, <2>1, <2>2, ReadsCurrent
  <2>3. ASSUME NEW r \in Requests, Write(r) PROVE Current(q)'
    <3>1. Current(r) /\ pc[r] = "found" /\ q # r /\ pc[q] = "found"
      BY <1>2, <2>3 DEF LocalSeen, Write, Goto, DataInv, PcTyped
    <3>2. RowDc(q) # RowDc(r)
      BY <1>1, <1>2, <3>1, KeyOfRow DEF LocalInv, Alone, Within
    <3> QED
      BY <1>2, <2>1, <2>3, <3>1, <3>2, WriteSpares DEF DataInv
  <2> QED
    BY <1>3, <2>2, <2>3 DEF LocalAllocationStep
<1> QED
  BY <1>1, <1>2, <1>4, <1>5, <1>6

LEMMA LocalInvariant ==
  ASSUME OneMethod PROVE LocalSpec => []LocalAllocationInv
<1>1. LocalInit => LocalAllocationInv
  <2>1. LocalInit => LocalSeen
    BY DEF LocalInit, InitCore, LocalSeen
  <2> QED
    BY <2>1, LocalLockInit, RangeInit DEF LocalInit, DataInv, LocalAllocationInv
<1>2. LocalAllocationInv /\ [LocalNext]_localVars => LocalAllocationInv'
  BY LocalSound, LocalStep, PcStep DEF LocalAllocationInv
<1> QED
  BY <1>1, <1>2, PTL DEF LocalSpec

(* Within its span a data centre keeps off the ids of those after it. *)
LEMMA SpansApart ==
  ASSUME RangeInv, InSpan, NEW r \in Requests, NEW q \in Requests, RowDc(r) < RowDc(q),
         NEW id \in taken[r], NEW jd \in taken[q]
  PROVE  id # jd
<1> DEFINE d == RowDc(r)
           k == RowDc(q) - (d + 1)
<1>1. d \in Nat /\ k \in Nat /\ RowDc(q) = (d + 1) + k /\ DcSpan \in Nat
  BY FirstIdOfRow, RequestsAssumption DEF RequestsAssumption
<1>2. id \in Nat /\ jd \in Nat
  BY DEF RangeInv, DataTyped
<1>3. PICK i \in RowOf(r) : id < rows[i].current_id
  BY DEF RangeInv, RowAhead
<1>4. rows[i].current_id <= (d + 1) * DcSpan + 1 /\ rows[i].current_id \in Nat
  BY <1>3, RowTyped DEF InSpan, RowOf
<1>5. RowDc(q) * DcSpan + 1 <= jd
  BY FirstIdOfRow DEF RangeInv, RowAhead
<1> HIDE DEF d, k
<1>6. k * DcSpan \in Nat /\ (d + 1) * DcSpan \in Nat
  BY <1>1
<1>7. ((d + 1) + k) * DcSpan = (d + 1) * DcSpan + k * DcSpan
  BY <1>1
<1>8. (d + 1) * DcSpan <= RowDc(q) * DcSpan
  BY <1>1, <1>6, <1>7
<1> QED
  BY <1>2, <1>3, <1>4, <1>5, <1>6, <1>8, <1>1, <1>7

Apart == \A r, q \in Requests : r # q => got[r] \cap got[q] = {}

LEMMA RangesApart == RangeInv /\ InSpan => Apart
<1> SUFFICES ASSUME RangeInv, InSpan, NEW r \in Requests, NEW q \in Requests, r # q,
                    NEW id \in got[r], id \in got[q]
             PROVE  FALSE
  BY DEF Apart
<1>1. id \in taken[r] /\ id \in taken[q]
  BY DEF RangeInv, GotTaken
<1>2. RowDc(r) \in Nat /\ RowDc(q) \in Nat
  BY FirstIdOfRow
<1>3. CASE RowDc(r) = RowDc(q)
  BY <1>1, <1>3 DEF RangeInv, TakenDisjoint
<1>4. CASE RowDc(r) < RowDc(q)
  BY <1>1, <1>4, SpansApart
<1>5. CASE RowDc(q) < RowDc(r)
  BY <1>1, <1>5, SpansApart
<1> QED
  BY <1>2, <1>3, <1>4, <1>5

(* With one data centre there is no span. *)
LEMMA KeyApart ==
  ASSUME \A r, q \in Requests : DcOf[r] = DcOf[q] PROVE OneMethod /\ (RangeInv => Apart)
<1>1. OneMethod /\ \A r, q \in Requests : RowDc(r) = RowDc(q)
  BY DEF OneMethod, RowDc
<1> QED
  BY <1>1 DEF RangeInv, TakenDisjoint, GotTaken, Apart

(* A row that is written over was read at its latest. *)
LEMMA WritesForward ==
  ASSUME RangeInv, AllocationStep
  PROVE  [\A i \in DOMAIN rows : rows'[i].current_id >= rows[i].current_id]_rows
<1> SUFFICES ASSUME rows' # rows, NEW j \in DOMAIN rows
             PROVE  rows'[j].current_id >= rows[j].current_id
  OBVIOUS
<1>1. PICK r \in Requests : Write(r) /\ Current(r)
  BY DEF AllocationStep, Aside, Find, Answer, dbVars
<1>2. PICK i \in Nat : WritesRow(r, i, seen[r] + StepOf[r])
  BY <1>1, WriteEffect
<1>3. rows[j].current_id \in Nat
  BY RowTyped
<1>4. CASE j = i
  BY <1>2, <1>4 DEF WritesRow
<1>5. CASE j # i
  BY <1>2, <1>3, <1>5 DEF WritesRow
<1> QED
  BY <1>4, <1>5

(* Where the counter of a data centre stands in the table. *)
LEMMA NextIdIs ==
  ASSUME SingleRow, NEW d \in Centres
  PROVE  /\ \A i \in DOMAIN rows : rows[i].dc_id = d => NextId[d] = rows[i].current_id
         /\ (\A i \in DOMAIN rows : rows[i].dc_id # d) => NextId[d] = d * DcSpan + 1
<1>1. ASSUME NEW i \in DOMAIN rows, rows[i].dc_id = d PROVE NextId[d] = rows[i].current_id
  <2>1. (CHOOSE j \in DOMAIN rows : rows[j].dc_id = d) = i
    BY <1>1 DEF SingleRow
  <2> QED
    BY <1>1, <2>1 DEF NextId
<1>2. ASSUME \A i \in DOMAIN rows : rows[i].dc_id # d PROVE NextId[d] = d * DcSpan + 1
  BY <1>2 DEF NextId
<1> QED
  BY <1>1, <1>2

(* A write takes the next ids off the counter of its data centre. *)
LEMMA WriteTakes ==
  ASSUME DataInv, RangeInv', NEW r \in Requests, Write(r), Current(r) PROVE Counter!Take(r)
<1> DEFINE end == seen[r] + StepOf[r]
           dc  == RowDc(r)
<1>1. PICK i \in Nat : WritesRow(r, i, end)
  BY WriteEffect DEF DataInv
<1>2. SingleRow /\ SingleRow' /\ dc \in Centres /\ Centres' = Centres
  BY DEF DataInv, RangeInv, Centres, RowDc
<1>3. NextId[dc] = seen[r]
  <2>1. CASE i \in DOMAIN rows
    BY <1>1, <1>2, <2>1, NextIdIs DEF WritesRow
  <2>2. CASE i \notin DOMAIN rows
    <3>1. RowOf(r) = {}
      BY <1>1, <2>2 DEF WritesRow, RowOf
    <3>2. \A j \in DOMAIN rows : rows[j].dc_id # dc
      BY <3>1 DEF RowOf
    <3>3. seen[r] = dc * DcSpan + 1
      BY <3>1, FirstIdOfRow DEF Current
    <3> QED
      BY <1>2, <3>2, <3>3, NextIdIs
  <2> QED
    BY <2>1, <2>2
<1>4. NextId'[dc] = end
  <2>1. i \in DOMAIN rows' /\ rows'[i].dc_id = dc /\ rows'[i].current_id = end
    BY <1>1 DEF WritesRow
  <2>2. (CHOOSE j \in DOMAIN rows' : rows'[j].dc_id = dc) = i
    BY <1>2, <2>1 DEF SingleRow
  <2> QED
    BY <1>2, <2>1, <2>2 DEF NextId
<1>5. ASSUME NEW d \in Centres, d # dc PROVE NextId'[d] = NextId[d]
  <2>1. \A j \in DOMAIN rows' : rows'[j].dc_id = d =>
          j \in DOMAIN rows /\ rows'[j] = rows[j]
    BY <1>1, <1>5 DEF WritesRow
  <2>2. \A j \in DOMAIN rows : rows[j].dc_id = d => j \in DOMAIN rows' /\ rows'[j] = rows[j]
    BY <1>1, <1>5 DEF WritesRow
  <2>3. CASE \E j \in DOMAIN rows : rows[j].dc_id = d
    <3>1. PICK j \in DOMAIN rows : rows[j].dc_id = d
      BY <2>3
    <3>2. j \in DOMAIN rows' /\ rows'[j] = rows[j] /\ rows'[j].dc_id = d
      BY <2>2, <3>1
    <3>3. (CHOOSE k \in DOMAIN rows' : rows'[k].dc_id = d) = j
      BY <1>2, <3>2 DEF SingleRow
    <3>4. NextId'[d] = rows'[j].current_id
      BY <1>2, <3>2, <3>3 DEF NextId
    <3>5. NextId[d] = rows[j].current_id
      BY <1>2, <3>1, NextIdIs
    <3> QED
      BY <3>2, <3>4, <3>5
  <2>4. CASE \A j \in DOMAIN rows : rows[j].dc_id # d
    <3>1. \A j \in DOMAIN rows' : rows'[j].dc_id # d
      BY <2>1, <2>4
    <3>2. NextId'[d] = d * DcSpan + 1
      BY <1>2, <3>1 DEF NextId
    <3> QED
      BY <1>2, <2>4, <3>2, NextIdIs
  <2> QED
    BY <2>3, <2>4
<1> HIDE DEF end
<1>6. NextId' = [NextId EXCEPT ![dc] = end]
  <2>1. NextId = [d \in Centres |-> NextId[d]] /\ NextId' = [d \in Centres |-> NextId'[d]]
    BY <1>2 DEF NextId
  <2> QED
    BY <1>2, <1>4, <1>5, <2>1
<1>7. taken[r] = {} /\ taken' = [taken EXCEPT ![r] = seen[r]..(end - 1)]
  BY DEF DataInv, Untaken, Early, Write, end
<1>8. PICK k : k = [q \in Requests |-> RowDc(q)][r]
  OBVIOUS
<1>9. k = dc
  BY <1>8
<1>10. PICK first : first = NextId[k]
  OBVIOUS
<1>11. first = seen[r] /\ end = first + StepOf[r]
  BY <1>3, <1>9, <1>10 DEF end
<1>12. /\ NextId' = [NextId EXCEPT ![k] = first + StepOf[r]]
       /\ taken' = [taken EXCEPT ![r] = first..((first + StepOf[r]) - 1)]
  BY <1>6, <1>7, <1>9, <1>11
<1> QED
  BY <1>7, <1>8, <1>10, <1>12, Zenon DEF Counter!Take

(* Nothing else touches the table or what was taken. *)
LEMMA CounterStep ==
  ASSUME DataInv, RangeInv', AllocationStep PROVE [Counter!Next]_<<NextId, taken>>
<1>1. ASSUME NEW r \in Requests, Write(r), Current(r) PROVE Counter!Next
  BY <1>1, WriteTakes DEF Counter!Next
<1>2. CASE UNCHANGED <<rows, taken>>
  BY <1>2 DEF NextId, Centres, RowDc
<1> QED
  BY <1>1, <1>2 DEF AllocationStep, Aside, Find, Answer, dbVars

LEMMA CounterInit == InitCore => Counter!Init
  BY DEF InitCore, Counter!Init, NextId

(* Every step answers one request with a range no other request has, or    *)
(* leaves the answers alone.                                               *)
LEMMA IssueStep ==
  ASSUME DataInv, RangeInv', InSpan', AllocationStep PROVE [Issuer!Next]_got
<1>1. ASSUME NEW r \in Requests, Answer(r) PROVE Issuer!Next
  <2>1. pc[r] = "committed" /\ got[r] = {} /\ taken[r] # {}
    BY <1>1 DEF Answer, DataInv, Unanswered, RangeInv, TakenSome
  <2>2. got' = [got EXCEPT ![r] = taken[r]] /\ got'[r] = taken[r]
    BY <1>1 DEF Answer, DataInv, RangeInv, DataTyped
  <2>3. Apart'
    BY RangesApart, PTL
  <2>4. ASSUME NEW q \in Requests \ {r} PROVE got'[r] \cap got[q] = {}
    <3>1. got'[q] = got[q]
      BY <2>2 DEF DataInv, RangeInv, DataTyped
    <3> QED
      BY <2>3, <3>1 DEF Apart
  <2>5. Issuer!Issue(r)
    BY <2>1, <2>2, <2>4 DEF Issuer!Issue
  <2> QED
    BY <2>5 DEF Issuer!Next
<1> QED
  BY <1>1 DEF AllocationStep, Aside, Find, Write

--------------------------------------------------------------------------------
(* The lease is what makes select-then-update safe: until a request writes *)
(* after its lease is over, no id goes to two requests, of one data centre *)
(* or of several, whatever fails, crashes or is cancelled on the way and   *)
(* however many rounds of allocation there are, as long as no data centre  *)
(* has used up its span of ids.                                            *)
THEOREM RangesUnique ==
  ASSUME OneMethod PROVE Spec /\ []InSpan => []UniqueRanges
<1>1. EtcdInv /\ InSpan => UniqueRanges
  BY RangesApart DEF EtcdInv, DataInv, Apart, UniqueRanges
<1> QED
  BY <1>1, EtcdInvariant, PTL

(* For one data centre, or allocate_segment alone, there is no span. *)
THEOREM KeyRangesUnique ==
  ASSUME \A r, q \in Requests : DcOf[r] = DcOf[q] PROVE Spec => []UniqueRanges
<1>1. OneMethod /\ (EtcdInv => UniqueRanges)
  BY KeyApart DEF EtcdInv, DataInv, Apart, UniqueRanges
<1> QED
  BY <1>1, EtcdInvariant, PTL

(* Until then the lock also stands in for the unique key the table lacks:  *)
(* of the requests that find no row for their data centre one inserts.     *)
THEOREM RowSingle ==
  ASSUME OneMethod PROVE Spec => []OneRow
<1>1. EtcdInv => OneRow
  BY DEF EtcdInv, DataInv, RangeInv, SingleRow, OneRow
<1> QED
  BY <1>1, EtcdInvariant, PTL

(* Nor is an update lost: allocation under the lease sets no row back.     *)
THEOREM RowAdvances ==
  ASSUME OneMethod PROVE Spec => NeverBack
<1>1. EtcdInv /\ [Next]_vars =>
        [~slipped' => \A i \in DOMAIN rows : rows'[i].current_id >= rows[i].current_id]_rows
  BY EtcdSound, WritesForward DEF DataInv
<1> QED
  BY <1>1, EtcdInvariant, PTL DEF Spec, NeverBack

(* Until then, select-then-update under the lease implements a counter for *)
(* each data centre that requests take their ids off in one step: what     *)
(* fails or crashes in between takes nothing or takes it all.              *)
THEOREM TakenAtOnce ==
  ASSUME OneMethod PROVE Spec => TakesAtOnce
<1>1. Init => Counter!Init
  BY CounterInit DEF Init
<1>2. EtcdInv /\ [Next]_vars => [slipped' \/ Counter!Next]_<<NextId, taken>>
  BY EtcdSound, CounterStep DEF DataInv
<1> QED
  BY <1>1, <1>2, EtcdInvariant, PTL DEF Spec, TakesAtOnce

(* Until then it implements the issuer of ids. *)
THEOREM Implements ==
  ASSUME OneMethod PROVE Spec /\ []InSpan => IssuesRanges
<1>1. Init => Issuer!Init
  BY DEF Init, InitCore, Issuer!Init
<1>2. EtcdInv /\ InSpan' /\ [Next]_vars => [slipped' \/ Issuer!Next]_got
  BY EtcdSound, IssueStep DEF DataInv
<1> QED
  BY <1>1, <1>2, EtcdInvariant, PTL DEF Spec, IssuesRanges

--------------------------------------------------------------------------------
(* So does the local lock, on any number of threads, until two requests    *)
(* find one key unmarked together: marks are left behind then, but never   *)
(* taken from a request that holds the key.                                *)
THEOREM LocalRangesUnique ==
  ASSUME OneMethod PROVE LocalSpec /\ []InSpan => []UniqueRanges
<1>1. LocalAllocationInv /\ InSpan => UniqueRanges
  BY RangesApart DEF LocalAllocationInv, DataInv, Apart, UniqueRanges
<1> QED
  BY <1>1, LocalInvariant, PTL

(* In one process, too, a row is single and only moves forward. *)
THEOREM LocalRowKept ==
  ASSUME OneMethod PROVE LocalSpec => []OneRow /\ NeverBack
<1>1. LocalAllocationInv => OneRow
  BY DEF LocalAllocationInv, DataInv, RangeInv, SingleRow, OneRow
<1>2. LocalAllocationInv /\ [LocalNext]_localVars =>
        [~slipped' => \A i \in DOMAIN rows : rows'[i].current_id >= rows[i].current_id]_rows
  BY LocalSound, WritesForward DEF DataInv
<1> QED
  BY <1>1, <1>2, LocalInvariant, PTL DEF LocalSpec, NeverBack

(* ... as good as a counter. *)
THEOREM LocalTakenAtOnce ==
  ASSUME OneMethod PROVE LocalSpec => TakesAtOnce
<1>1. LocalInit => Counter!Init
  BY CounterInit DEF LocalInit
<1>2. LocalAllocationInv /\ [LocalNext]_localVars => [slipped' \/ Counter!Next]_<<NextId, taken>>
  BY LocalSound, CounterStep DEF DataInv
<1> QED
  BY <1>1, <1>2, LocalInvariant, PTL DEF LocalSpec, TakesAtOnce

(* Allocation under the local lock implements the issuer of ids. *)
THEOREM LocalImplements ==
  ASSUME OneMethod PROVE LocalSpec /\ []InSpan => IssuesRanges
<1>1. LocalInit => Issuer!Init
  BY DEF LocalInit, InitCore, Issuer!Init
<1>2. LocalAllocationInv /\ InSpan' /\ [LocalNext]_localVars => [slipped' \/ Issuer!Next]_got
  BY LocalSound, IssueStep DEF DataInv
<1> QED
  BY <1>1, <1>2, LocalInvariant, PTL DEF LocalSpec, IssuesRanges

--------------------------------------------------------------------------------
(* acquire counts its attempts up to MaxRetries and then ends. *)
TriesLeft == \A r \in Requests : pc[r] = "start" => tries[r] < MaxRetries

LEMMA DatabaseTyped ==
  ASSUME TypeOK, slipped' \in BOOLEAN, NEW r \in Requests, Find(r) \/ Write(r) PROVE TypeOK'
<1>1. /\ rows \in Seq(Row) /\ Len(rows) \in Nat /\ DOMAIN rows = 1..Len(rows)
      /\ \A i \in DOMAIN rows : rows[i].current_id \in Nat
  <2>1. rows \in Seq(Row) /\ Len(rows) \in Nat /\ DOMAIN rows = 1..Len(rows)
    BY DEF TypeOK, Row
  <2>2. \A i \in DOMAIN rows : rows[i] \in Row
    BY <2>1, ElementOfSeq
  <2> QED
    BY <2>1, <2>2 DEF Row
<1>2. pc' \in [Requests -> {"start", "checked"} \cup Within \cup Ended] /\ got' = got
  BY DEF TypeOK, Find, Write, Goto, Within
<1>3. CASE Find(r)
  <2>1. \E i \in 0..Len(rows), n \in Nat :
          found' = [found EXCEPT ![r] = i] /\ seen' = [seen EXCEPT ![r] = n]
    BY <1>1, <1>3, FirstIdOfRow DEF Find, Matching
  <2> QED
    BY <1>2, <1>3, <2>1 DEF TypeOK, Find
<1>4. CASE Write(r)
  <2> DEFINE end == seen[r] + StepOf[r]
  <2>1. seen[r] \in Nat /\ end \in Nat /\ seen[r]..(end - 1) \subseteq Nat
    BY RequestsAssumption DEF RequestsAssumption, TypeOK
  <2>2. rows' \in Seq(Row) /\ Len(rows') >= Len(rows) /\ Len(rows') \in Nat
    <3>1. CASE found[r] # 0
      <4> DEFINE new == [rows[found[r]] EXCEPT !.current_id = end]
      <4>1. found[r] \in 1..Len(rows)
        BY <1>1, <3>1 DEF TypeOK
      <4>2. rows' = [rows EXCEPT ![found[r]] = new]
        BY <1>4, <3>1 DEF Write
      <4>3. new \in Row
        <5>1. rows[found[r]] \in Row
          BY <1>1, <4>1, ElementOfSeq
        <5> QED
          BY <2>1, <5>1 DEF Row
      <4> HIDE DEF new
      <4> QED
        BY <1>1, <4>1, <4>2, <4>3, ExceptSeq
    <3>2. CASE found[r] = 0
      <4> DEFINE new == [dc_id |-> RowDc(r), current_id |-> end]
      <4>1. rows' = Append(rows, new)
        BY <1>4, <3>2 DEF Write
      <4>2. new \in Row
        BY <2>1, FirstIdOfRow DEF Row
      <4> HIDE DEF new
      <4> QED
        BY <1>1, <4>1, <4>2, AppendProperties
    <3> QED
      BY <3>1, <3>2
  <2>3. found' \in [Requests -> 0..Len(rows')]
    BY <1>1, <1>4, <2>2 DEF TypeOK, Write
  <2>4. taken' \in [Requests -> SUBSET Nat]
    BY <1>4, <2>1 DEF TypeOK, Write
  <2>5. seen' = seen /\ got' = got
    BY <1>4 DEF Write
  <2> QED
    BY <1>2, <2>2, <2>3, <2>4, <2>5 DEF TypeOK, Row
<1> QED
  BY <1>3, <1>4

LEMMA CoreTyped == InitCore => TypeOK
<1> SUFFICES ASSUME InitCore PROVE TypeOK
  OBVIOUS
<1>1. <<>> \in Seq([dc_id : Nat, current_id : Nat]) /\ Len(<<>>) = 0
  OBVIOUS
<1>2. slipped \in BOOLEAN
  BY DEF InitCore
<1>3. 0 \in 0..Len(rows) /\ rows \in Seq([dc_id : Nat, current_id : Nat])
  BY <1>1 DEF InitCore
<1> QED
  BY <1>2, <1>3 DEF InitCore, TypeOK

LEMMA EtcdTypedStep ==
  ASSUME EtcdTypeOK, TriesLeft, [Next]_vars PROVE EtcdTypeOK' /\ TriesLeft'
<1> USE DEF EtcdTypeOK, TypeOK, TriesLeft
<1>0. slipped' \in BOOLEAN
  BY DEF Next, Quiescent, vars, histVars, TryAcquire, AcquireFails, Database, Release, EndEarly,
         Revoke, Crash, Expire
<1> USE <1>0
<1>1. CASE UNCHANGED vars
  BY <1>1 DEF vars, dbVars, lockVars, histVars
<1>2. ASSUME NEW r \in Requests, TryAcquire(r) PROVE EtcdTypeOK' /\ TriesLeft'
  <2>1. tries[r] \in Nat /\ tries[r] < MaxRetries /\ MaxRetries \in Nat
    BY <1>2, RetriesAssumption DEF TryAcquire, RetriesAssumption
  <2>2. tries' \in [Requests -> 0..MaxRetries]
    <3>1. tries[r] + 1 \in 0..MaxRetries
      BY <2>1
    <3> QED
      BY <1>2, <3>1 DEF TryAcquire
  <2>3. TriesLeft'
    BY <1>2, <2>1 DEF TryAcquire, Goto
  <2>4. UNCHANGED <<rows, found, seen, taken, got, revoking, outlived>>
    BY <1>2 DEF TryAcquire, dbVars, histVars
  <2>5. pc' \in [Requests -> {"start", "checked"} \cup Within \cup Ended]
    BY <1>2 DEF TryAcquire, Goto, Within, Ended
  <2>6. owner' \in [LockKeys -> Requests \cup {Free}]
    BY <1>2 DEF TryAcquire
  <2> QED
    BY <2>2, <2>3, <2>4, <2>5, <2>6
<1>3. ASSUME NEW r \in Requests, Database(r) PROVE EtcdTypeOK' /\ TriesLeft'
  <2>1. TypeOK' /\ UNCHANGED <<owner, tries, revoking, outlived>>
    BY <1>3, DatabaseTyped DEF Database, lockVars
  <2>2. TriesLeft'
    BY <1>3, <2>1 DEF Database, Find, Write, Goto
  <2> QED
    BY <2>1, <2>2
<1>4. ASSUME NEW r \in Requests, Release(r) PROVE EtcdTypeOK' /\ TriesLeft'
  BY <1>4 DEF Release, Answer, EndLease, Goto, Ended, dbVars
<1>5. ASSUME NEW r \in Requests, AcquireFails(r) \/ EndEarly(r) \/ Revoke(r) \/ Crash(r) \/ Expire(r)
      PROVE  EtcdTypeOK' /\ TriesLeft'
  <2>1. /\ UNCHANGED <<rows, found, seen, taken, got, tries>>
        /\ revoking' \subseteq Requests /\ outlived' \subseteq Requests
    BY <1>5 DEF AcquireFails, EndEarly, Fail, Cancel, Revoke, Crash, Expire, dbVars, histVars
  <2>2. owner' \in [LockKeys -> Requests \cup {Free}]
    BY <1>5 DEF AcquireFails, EndEarly, Revoke, Crash, Expire, EndLease
  <2>3. pc' = pc \/ \E l \in Ended : pc' = [pc EXCEPT ![r] = l]
    BY <1>5 DEF AcquireFails, EndEarly, Fail, Cancel, Revoke, Crash, Expire, Goto, Ended
  <2>4. /\ pc' \in [Requests -> {"start", "checked"} \cup Within \cup Ended]
        /\ \A q \in Requests : pc'[q] = "start" => pc[q] = "start"
    BY <2>3 DEF Ended
  <2> QED
    BY <2>1, <2>2, <2>4
<1> QED
  BY <1>1, <1>2, <1>3, <1>4, <1>5 DEF Next, Quiescent

(* The table, the requests and the lock keep their types, and no request   *)
(* tries to acquire more often than MAX_RETRIES, even where a transaction  *)
(* outlives its lease.                                                     *)
THEOREM TypeCorrect == Spec => []EtcdTypeOK
<1>1. Init => EtcdTypeOK /\ TriesLeft
  BY CoreTyped, RetriesAssumption
     DEF Init, InitCore, EtcdTypeOK, TriesLeft, RetriesAssumption
<1>2. EtcdTypeOK /\ TriesLeft /\ [Next]_vars => EtcdTypeOK' /\ TriesLeft'
  BY EtcdTypedStep
<1> QED
  BY <1>1, <1>2, PTL DEF Spec

LocalTypeOK == TypeOK /\ marked \subseteq LockKeys

LEMMA LocalTypedStep ==
  ASSUME LocalTypeOK, [LocalNext]_localVars PROVE LocalTypeOK'
<1> USE DEF LocalTypeOK, TypeOK
<1>0. LockKeys' = LockKeys
  BY DEF LockKeys, LockKey
<1>00. slipped' \in BOOLEAN
  BY DEF LocalNext, LocalQuiescent, localVars
<1> USE <1>00
<1>1. CASE UNCHANGED localVars
  BY <1>0, <1>1 DEF localVars, dbVars
<1>2. ASSUME NEW r \in Requests, IsLocked(r) \/ AcquireLock(r) PROVE LocalTypeOK'
  BY <1>0, <1>2, KeyIsKey DEF IsLocked, AcquireLock, Goto, Within, Ended, dbVars
<1>3. ASSUME NEW r \in Requests, LocalDatabase(r) PROVE LocalTypeOK'
  BY <1>0, <1>3, DatabaseTyped DEF LocalDatabase
<1>4. ASSUME NEW r \in Requests, ReleaseLock(r) \/ LoseGuard(r) PROVE LocalTypeOK'
  BY <1>0, <1>4 DEF ReleaseLock, LoseGuard, Answer, Fail, Cancel, Goto, Ended, dbVars
<1> QED
  BY <1>1, <1>2, <1>3, <1>4 DEF LocalNext, LocalQuiescent

(* So they do under the local lock, on any number of worker threads, which *)
(* marks no key but those of requests.                                     *)
THEOREM LocalTypeCorrect == LocalSpec => []LocalTypeOK
<1>1. LocalInit => LocalTypeOK
  BY CoreTyped DEF LocalInit, LocalTypeOK
<1> QED
  BY <1>1, LocalTypedStep, PTL DEF LocalSpec
=================================================================================
