-------------------------- MODULE WorkerAllocationProofs --------------------------
(***************************************************************************)
(* Proofs about WorkerAllocation, for any number of servers, ids, leases   *)
(* and faults.                                                             *)
(***************************************************************************)
EXTENDS WorkerAllocation, Sequences, FiniteSetTheorems, TLAPS

LEMMA NoLeaseNotLease == NoLease \notin Leases
PROOF
  <1> SUFFICES ASSUME NEW s \in Servers, NEW n \in 1..MaxGrants, <<s, n>> = <<>> PROVE FALSE
    BY DEF Leases, NoLease
  <1>1. Len(<<s, n>>) = 2 /\ Len(<<>>) = 0
    OBVIOUS
  <1> QED
    BY <1>1

LEMMA FaultTyped == TypeOK /\ Fault => faults' \in 0..MaxFaults /\ disturbed' \in BOOLEAN
PROOF
  <1> SUFFICES ASSUME TypeOK, Fault PROVE faults' \in 0..MaxFaults /\ disturbed' \in BOOLEAN
    OBVIOUS
  <1>1. faults' \in 0..MaxFaults
    BY WorkerAssumption DEF TypeOK, Fault, WorkerAssumption
  <1> QED
    BY <1>1 DEF Fault

LEMMA AdvanceTyped ==
  ASSUME TypeOK, NEW s \in Servers, Advance(s)
  PROVE  cursor' \in [Servers -> Ids] /\ pc' \in [Servers -> {"idle", "get", "put", "clear"}]
  BY WorkerAssumption DEF TypeOK, Advance, Ids, WorkerAssumption

LEMMA InitTyped == Init => TypeOK
PROOF
  <1> SUFFICES ASSUME Init PROVE TypeOK
    OBVIOUS
  <1> USE DEF TypeOK
  <1>1. 1 \in Ids /\ 0 \in 0..MaxWorkerId /\ 0 \in 0..MaxGrants /\ 0 \in 0..MaxFaults
    BY WorkerAssumption DEF Ids, WorkerAssumption
  <1> QED
    BY <1>1 DEF Init

LEMMA StepTyped == TypeOK /\ [Next]_vars => TypeOK'
PROOF
  <1> SUFFICES ASSUME TypeOK, [Next]_vars PROVE TypeOK'
    OBVIOUS
  <1> USE DEF TypeOK
  <1> USE WorkerAssumption DEF Ids, WorkerAssumption
  <1>1. ASSUME NEW s \in Servers, Allocate(s) PROVE TypeOK'
    <2>1. <<s, granted[s] + 1>> \in Leases
      BY <1>1 DEF Allocate, Leases
    <2>2. disturbed' \in BOOLEAN
      BY <1>1 DEF Allocate
    <2>3. granted' \in [Servers -> 0..MaxGrants]
      BY <1>1 DEF Allocate
    <2>4. live' \subseteq Leases /\ lease_id' \in [Servers -> Leases \cup {NoLease}]
      BY <1>1, <2>1 DEF Allocate
    <2> QED
      BY <1>1, <2>2, <2>3, <2>4 DEF Allocate
  <1>2. ASSUME NEW s \in Servers, Get(s) PROVE TypeOK'
    <2>1. faults' \in 0..MaxFaults /\ disturbed' \in BOOLEAN
      BY <1>2, FaultTyped DEF Get
    <2>2. cursor' \in [Servers -> Ids] /\ pc' \in [Servers -> {"idle", "get", "put", "clear"}]
      BY <1>2, AdvanceTyped DEF Get
    <2> QED
      BY <1>2, <2>1, <2>2 DEF Get, etcd
  <1>3. ASSUME NEW s \in Servers, Put(s) PROVE TypeOK'
    BY <1>3 DEF Put
  <1>4. ASSUME NEW s \in Servers, PutFails(s) PROVE TypeOK'
    <2>1. faults' \in 0..MaxFaults /\ disturbed' \in BOOLEAN
      BY <1>4, FaultTyped DEF PutFails
    <2>2. cursor' \in [Servers -> Ids] /\ pc' \in [Servers -> {"idle", "get", "put", "clear"}]
      BY <1>4, AdvanceTyped DEF PutFails
    <2>3. keys' \in [Ids -> Leases \cup {NoLease}]
      BY <1>4 DEF PutFails
    <2> QED
      BY <1>4, <2>1, <2>2, <2>3 DEF PutFails
  <1>5. ASSUME NEW s \in Servers, Release(s) PROVE TypeOK'
    <2>1. faults' \in 0..MaxFaults /\ disturbed' \in BOOLEAN
      BY <1>5, FaultTyped DEF Release
    <2>2. deleted' \in BOOLEAN
      BY <1>5 DEF Release
    <2>3. keys' \in [Ids -> Leases \cup {NoLease}]
      BY <1>5 DEF Release
    <2>4. pc' \in [Servers -> {"idle", "get", "put", "clear"}]
      BY <1>5 DEF Release
    <2> QED
      BY <1>5, <2>1, <2>2, <2>3, <2>4 DEF Release
  <1>6. ASSUME NEW s \in Servers, Clear(s) PROVE TypeOK'
    BY <1>6 DEF Clear, etcd
  <1>7. ASSUME NEW s \in Servers, Crash(s) PROVE TypeOK'
    BY <1>7 DEF Crash, Fault, etcd
  <1>8. ASSUME NEW lease \in live, Expire(lease) PROVE TypeOK'
    BY <1>8 DEF Expire, locals, history
  <1>9. CASE Rest \/ UNCHANGED vars
    BY <1>9 DEF Rest, vars, etcd, locals, history
  <1> QED
    BY <1>1, <1>2, <1>3, <1>4, <1>5, <1>6, <1>7, <1>8, <1>9 DEF Next, Step

(* The range of each variable is kept. *)
THEOREM TypeCorrect == Spec => []TypeOK
  BY InitTyped, StepTyped, PTL DEF Spec

--------------------------------------------------------------------------------
(* A server's allocated_id and the lease it was taken with go together, a  *)
(* lease is granted to one server and never again, and, as long as no      *)
(* release has deleted the key of an id in use, the key of an id is put    *)
(* with the lease of the server that holds it.                             *)
HolderHasKey ==
  ~deleted => \A s \in Servers : \A id \in Ids : Holds(s, id) => keys[id] = under[s]

LeaseOfOwn ==
  \A s \in Servers : allocated[s] # 0 =>
    under[s] \in Leases /\ under[s][1] = s /\ under[s][2] <= granted[s]

ScanHasLease ==
  \A s \in Servers : pc[s] \in {"get", "put"} =>
    lease_id[s] \in Leases /\ lease_id[s][1] = s /\ lease_id[s][2] <= granted[s]

WorkerInv == TypeOK /\ LeaseOfOwn /\ ScanHasLease /\ HolderHasKey

(* The bookkeeping of leases is kept by every step. *)
LEMMA LeasesKept ==
  ASSUME TypeOK, LeaseOfOwn, ScanHasLease, [Next]_vars
  PROVE  LeaseOfOwn' /\ ScanHasLease'
PROOF
  <1> USE DEF LeaseOfOwn, ScanHasLease
  <1>1. ASSUME NEW s \in Servers, Allocate(s) PROVE LeaseOfOwn' /\ ScanHasLease'
    <2>1. <<s, granted[s] + 1>> \in Leases /\ granted[s] \in Nat
      BY <1>1, WorkerAssumption DEF Allocate, Leases, TypeOK, WorkerAssumption
    <2>2. /\ \A q \in Servers : granted[q] \in Int
          /\ \A q \in Servers \ {s} : granted'[q] = granted[q] /\ lease_id'[q] = lease_id[q]
                                     /\ pc'[q] = pc[q]
          /\ granted'[s] = granted[s] + 1 /\ lease_id'[s] = <<s, granted[s] + 1>>
      BY <1>1 DEF Allocate, TypeOK
    <2>3. LeaseOfOwn'
      <3> SUFFICES ASSUME NEW q \in Servers, allocated[q] # 0
                   PROVE  under[q] \in Leases /\ under[q][1] = q /\ under[q][2] <= granted'[q]
        BY <1>1 DEF Allocate
      <3>1. under[q] \in Leases /\ under[q][1] = q /\ under[q][2] <= granted[q]
        OBVIOUS
      <3>2. under[q][2] \in Int
        BY <3>1, WorkerAssumption DEF Leases, WorkerAssumption
      <3> QED
        BY <2>2, <3>1, <3>2
    <2>4. ScanHasLease'
      BY <2>1, <2>2
    <2> QED
      BY <2>3, <2>4
  <1>2. ASSUME NEW s \in Servers, Get(s) PROVE LeaseOfOwn' /\ ScanHasLease'
    BY <1>2 DEF Get, Advance, TypeOK
  <1>3. ASSUME NEW s \in Servers, Put(s) PROVE LeaseOfOwn' /\ ScanHasLease'
    BY <1>3 DEF Put, TypeOK
  <1>4. ASSUME NEW s \in Servers, PutFails(s) PROVE LeaseOfOwn' /\ ScanHasLease'
    BY <1>4 DEF PutFails, Advance, TypeOK
  <1>5. ASSUME NEW s \in Servers, Release(s) PROVE LeaseOfOwn' /\ ScanHasLease'
    BY <1>5 DEF Release, TypeOK
  <1>6. ASSUME NEW s \in Servers, Clear(s) \/ Crash(s) PROVE LeaseOfOwn' /\ ScanHasLease'
    BY <1>6 DEF Clear, Crash, TypeOK
  <1>7. ASSUME NEW lease \in live, Expire(lease) PROVE LeaseOfOwn' /\ ScanHasLease'
    BY <1>7 DEF Expire, locals, history
  <1>8. CASE Rest \/ UNCHANGED vars
    BY <1>8 DEF Rest, vars, locals, history
  <1> QED
    BY <1>1, <1>2, <1>3, <1>4, <1>5, <1>6, <1>7, <1>8 DEF Next, Step

LEMMA HoldersKept ==
  ASSUME WorkerInv, [Next]_vars PROVE HolderHasKey'
PROOF
  <1> SUFFICES ASSUME ~deleted', NEW t \in Servers, NEW id \in Ids, Holds(t, id)'
               PROVE  keys'[id] = under'[t]
    BY DEF HolderHasKey
  <1> USE DEF WorkerInv
  <1>1. Holds(t, id) => (~deleted => keys[id] = under[t] /\ keys[id] \in Leases)
    BY DEF HolderHasKey, Holds, LeaseOfOwn, Ids
  <1>2. ASSUME NEW s \in Servers, Allocate(s) PROVE keys'[id] = under'[t]
    <2>1. under[t] # <<s, granted[s] + 1>>
      <3>1. allocated[t] # 0
        BY <1>2 DEF Holds, Allocate, Ids
      <3>2. under[t][1] = t /\ under[t][2] <= granted[t] /\ granted[t] \in Nat
        BY <3>1 DEF LeaseOfOwn, TypeOK
      <3> QED
        BY <3>2
    <2>2. Holds(t, id)
      BY <1>2, <2>1 DEF Holds, Allocate, TypeOK
    <2> QED
      BY <1>1, <1>2, <2>2 DEF Allocate
  <1>3. ASSUME NEW s \in Servers, Get(s) PROVE keys'[id] = under'[t]
    <2>1. Holds(t, id)
      BY <1>3 DEF Holds, Get, Advance, TypeOK, etcd
    <2> QED
      BY <1>1, <1>3, <2>1 DEF Get, etcd
  <1>4. ASSUME NEW s \in Servers, Put(s) PROVE keys'[id] = under'[t]
    <2>1. CASE t = s
      BY <1>4, <2>1 DEF Holds, Put, TypeOK
    <2>2. CASE t # s
      <3>1. Holds(t, id)
        BY <1>4, <2>2 DEF Holds, Put, TypeOK
      <3>2. id # cursor[s]
        BY <1>1, <1>4, <3>1, NoLeaseNotLease DEF Put
      <3> QED
        BY <1>1, <1>4, <2>2, <3>1, <3>2 DEF Put, TypeOK
    <2> QED
      BY <2>1, <2>2
  <1>5. ASSUME NEW s \in Servers, PutFails(s) PROVE keys'[id] = under'[t]
    <2>1. Holds(t, id)
      BY <1>5 DEF Holds, PutFails, Advance, TypeOK
    <2>2. keys[id] # NoLease /\ keys[id] = under[t]
      BY <1>1, <1>5, <2>1, NoLeaseNotLease DEF PutFails
    <2>3. keys'[id] = keys[id]
      BY <1>5, <2>2 DEF PutFails, TypeOK
    <2> QED
      BY <1>5, <2>2, <2>3 DEF PutFails
  <1>6. ASSUME NEW s \in Servers, Release(s) PROVE keys'[id] = under'[t]
    <2>1. Holds(t, id)
      BY <1>6 DEF Holds, Release, TypeOK
    <2>2. ~deleted
      BY <1>6 DEF Release
    <2>3. keys[id] = under[t] /\ allocated[t] = id
      BY <1>1, <2>1, <2>2 DEF Holds
    <2>4. CASE id # allocated[s] \/ UNCHANGED keys
      BY <1>6, <2>3, <2>4 DEF Release, TypeOK
    <2>5. CASE id = allocated[s] /\ pc' = [pc EXCEPT ![s] = "clear"]
               /\ deleted' = (deleted \/ (InUse(id) /\ keys[id] # under[s]))
      <3>1. t # s
        BY <2>5 DEF Holds, TypeOK
      <3>2. under[t] # under[s]
        BY <2>3, <2>5, <3>1 DEF LeaseOfOwn, Ids
      <3> QED
        BY <2>3, <2>5, <3>2 DEF InUse
    <2>6. CASE id = allocated[s] /\ deleted' = (deleted \/ InUse(id))
      BY <2>3, <2>6 DEF InUse
    <2> QED
      BY <1>6, <2>4, <2>5, <2>6 DEF Release
  <1>7. ASSUME NEW s \in Servers, Clear(s) \/ Crash(s) PROVE keys'[id] = under'[t]
    <2>1. t # s
      BY <1>7 DEF Holds, Clear, Crash, TypeOK, Ids
    <2>2. Holds(t, id)
      BY <1>7, <2>1 DEF Holds, Clear, Crash, TypeOK, etcd
    <2> QED
      BY <1>1, <1>7, <2>1, <2>2 DEF Clear, Crash, TypeOK, etcd
  <1>8. ASSUME NEW lease \in live, Expire(lease) PROVE keys'[id] = under'[t]
    <2>1. Holds(t, id) /\ under[t] # lease
      BY <1>8 DEF Holds, Expire, locals, history
    <2> QED
      BY <1>1, <1>8, <2>1 DEF Expire, locals, history
  <1>9. CASE Rest \/ UNCHANGED vars
    BY <1>1, <1>9 DEF Rest, vars, locals, history, etcd, Holds
  <1> QED
    BY <1>2, <1>3, <1>4, <1>5, <1>6, <1>7, <1>8, <1>9 DEF Next, Step

(* No worker id is held by two servers while both leases last, unless a    *)
(* release deleted the key of an id in use: the create_revision check of   *)
(* the transaction is what keeps them apart.                               *)
THEOREM OneHolder == Spec => []Exclusive
PROOF
  <1>1. Init => WorkerInv
    <2> SUFFICES ASSUME Init, TypeOK PROVE LeaseOfOwn /\ ScanHasLease /\ HolderHasKey
      BY InitTyped DEF WorkerInv
    <2> QED
      BY DEF Init, LeaseOfOwn, ScanHasLease, HolderHasKey, Holds, Ids
  <1>2. WorkerInv /\ [Next]_vars => WorkerInv'
    BY StepTyped, LeasesKept, HoldersKept DEF WorkerInv
  <1>3. WorkerInv => Exclusive
    <2> SUFFICES ASSUME WorkerInv, ~deleted, NEW id \in Ids, NEW s \in Servers, NEW t \in Servers,
                        Holds(s, id), Holds(t, id)
                 PROVE  s = t
      BY DEF Exclusive
    <2>1. under[s] = under[t]
      BY DEF WorkerInv, HolderHasKey
    <2> QED
      BY <2>1 DEF WorkerInv, LeaseOfOwn, Holds, Ids
  <1> QED
    BY <1>1, <1>2, <1>3, PTL DEF Spec

--------------------------------------------------------------------------------
(* Why a scan does not run out of ids.  A server's place is the id that its *)
(* scan is at, or the id it holds, 0 for none.  As long as nothing disturbs *)
(* a scan, it begins at the first id and goes on from one only where another *)
(* server holds it: so whoever is beyond c has at least c servers behind it, *)
(* although those may have released their ids by now.                       *)
Place == [s \in Servers |-> IF pc[s] \in {"get", "put"} THEN cursor[s] ELSE allocated[s]]

UpTo(p, c) == {s \in Servers : p[s] <= c}

Crowded(p) == \A c \in Nat, t \in Servers : p[t] > c => Cardinality(UpTo(p, c)) >= c

(* A scan holds no id, and no scan is left half way. *)
ScansFromFirst ==
  \A s \in Servers : IF pc[s] \in {"get", "put"} THEN allocated[s] = 0 ELSE cursor[s] = 1

(* A key is there for a server that has the id and is not releasing it. *)
KeyHeld ==
  \A id \in Ids : keys[id] # NoLease => \E s \in Servers : allocated[s] = id /\ pc[s] = "idle"

Undisturbed == ScansFromFirst /\ KeyHeld /\ Crowded(Place)

ShortageInv == TypeOK /\ (~disturbed => Undisturbed)

LEMMA PlaceTyped == TypeOK => Place \in [Servers -> Nat]
  BY WorkerAssumption DEF TypeOK, Place, Ids, WorkerAssumption

(* A server may step back, go to the first id, or go on from one at which  *)
(* there is another.                                                       *)
LEMMA CrowdedMove ==
  ASSUME IsFiniteSet(Servers), NEW p \in [Servers -> Nat], Crowded(p),
         NEW s \in Servers, NEW n \in Nat,
         \/ n <= p[s]
         \/ n = 1
         \/ n = p[s] + 1 /\ \E u \in Servers \ {s} : p[u] = p[s]
  PROVE  Crowded([p EXCEPT ![s] = n])
PROOF
  <1> DEFINE q == [p EXCEPT ![s] = n]
  <1>1. q \in [Servers -> Nat] /\ q[s] = n /\ \A u \in Servers \ {s} : q[u] = p[u]
    OBVIOUS
  <1> HIDE DEF q
  <1>2. \A c : /\ IsFiniteSet(UpTo(p, c)) /\ Cardinality(UpTo(p, c)) \in Nat
               /\ IsFiniteSet(UpTo(q, c)) /\ Cardinality(UpTo(q, c)) \in Nat
    BY FS_Subset, FS_CardinalityType DEF UpTo
  <1> SUFFICES ASSUME NEW c \in Nat, NEW t \in Servers, q[t] > c
               PROVE  Cardinality(UpTo(q, c)) >= c
    BY DEF Crowded, q
  <1>3. CASE c = 0
    BY <1>2, <1>3
  <1>4. CASE c # 0 /\ UpTo(p, c) \subseteq UpTo(q, c)
    <2>1. p[t] > c
      <3>1. CASE t # s
        BY <1>1, <3>1
      <3>2. CASE t = s
        <4>1. n > c /\ n > 1 /\ p[s] \in Nat
          BY <1>1, <1>4, <3>2
        <4>2. CASE n <= p[s]
          BY <3>2, <4>1, <4>2
        <4>3. CASE n = p[s] + 1
          <5>1. s \notin UpTo(q, c)
            BY <1>1, <4>1 DEF UpTo
          <5>2. s \notin UpTo(p, c)
            BY <1>4, <5>1
          <5> QED
            BY <3>2, <4>1, <5>2 DEF UpTo
        <4> QED
          BY <4>1, <4>2, <4>3
      <3> QED
        BY <3>1, <3>2
    <2>2. Cardinality(UpTo(p, c)) >= c
      BY <2>1 DEF Crowded
    <2>3. Cardinality(UpTo(p, c)) <= Cardinality(UpTo(q, c))
      BY <1>2, <1>4, FS_Subset
    <2> QED
      BY <1>2, <2>2, <2>3
  <1>5. CASE c # 0 /\ ~(UpTo(p, c) \subseteq UpTo(q, c))
    <2>1. p[s] <= c /\ n > c
      BY <1>1, <1>5 DEF UpTo
    <2>2. p[s] = c /\ n = c + 1
      BY <1>5, <2>1
    <2>3. PICK u \in Servers \ {s} : p[u] = c
      <3>1. ~(n <= p[s]) /\ n # 1
        BY <1>5, <2>2
      <3> QED
        BY <2>2, <3>1
    <2> DEFINE D == UpTo(p, c - 1)
    <2>4. Cardinality(D) >= c - 1
      <3>1. c - 1 \in Nat /\ p[s] > c - 1
        BY <1>5, <2>2
      <3> QED
        BY <3>1 DEF Crowded
    <2>5. u \notin D /\ D \cup {u} \subseteq UpTo(q, c)
      BY <1>1, <2>2, <2>3 DEF UpTo
    <2>6. IsFiniteSet(D) /\ Cardinality(D) \in Nat
      BY <1>2
    <2> HIDE DEF D
    <2>7. Cardinality(D \cup {u}) = Cardinality(D) + 1
      BY <2>5, <2>6, FS_AddElement
    <2>8. Cardinality(D \cup {u}) <= Cardinality(UpTo(q, c))
      BY <1>2, <2>5, FS_Subset
    <2> QED
      BY <1>2, <2>4, <2>6, <2>7, <2>8
  <1> QED
    BY <1>3, <1>4, <1>5

(* The id that a scan leaves behind is held by another server. *)
LEMMA OtherAtCursor ==
  ASSUME TypeOK, ScansFromFirst, KeyHeld, NEW s \in Servers, pc[s] \in {"get", "put"},
         keys[cursor[s]] # NoLease
  PROVE  Place[s] = cursor[s] /\ \E u \in Servers \ {s} : Place[u] = cursor[s]
PROOF
  <1>1. cursor[s] \in Ids
    BY DEF TypeOK
  <1>2. PICK u \in Servers : allocated[u] = cursor[s] /\ pc[u] = "idle"
    BY <1>1 DEF KeyHeld
  <1>3. u # s
    BY <1>2
  <1> QED
    BY <1>2, <1>3 DEF Place

(* With at most as many servers as ids, an undisturbed scan at the last id *)
(* does not find its key there.                                            *)
LEMMA LastIdFree ==
  ASSUME IsFiniteSet(Servers), Cardinality(Servers) <= MaxWorkerId,
         TypeOK, Undisturbed, NEW s \in Servers, pc[s] \in {"get", "put"},
         cursor[s] = MaxWorkerId
  PROVE  keys[cursor[s]] = NoLease
PROOF
  <1> SUFFICES ASSUME keys[cursor[s]] # NoLease PROVE FALSE
    OBVIOUS
  <1> DEFINE c == MaxWorkerId - 1
             D == UpTo(Place, c)
  <1>1. MaxWorkerId \in Nat /\ c \in Nat
    BY WorkerAssumption DEF WorkerAssumption
  <1>2. PICK u \in Servers \ {s} : Place[s] = MaxWorkerId /\ Place[u] = MaxWorkerId
    BY OtherAtCursor DEF Undisturbed
  <1>3. Cardinality(D) >= c
    BY <1>1, <1>2 DEF Undisturbed, Crowded
  <1>4. s \notin D /\ u \notin D /\ u # s /\ D \subseteq Servers
    BY <1>1, <1>2 DEF UpTo
  <1> HIDE DEF D
  <1>5. IsFiniteSet(D) /\ Cardinality(D) \in Nat
    BY <1>4, FS_Subset, FS_CardinalityType
  <1>6. IsFiniteSet(D \cup {s}) /\ Cardinality(D \cup {s}) = Cardinality(D) + 1
    BY <1>4, <1>5, FS_AddElement
  <1> DEFINE E == D \cup {s}
  <1>7. u \notin E /\ IsFiniteSet(E) /\ E \cup {u} \subseteq Servers
    BY <1>4, <1>6
  <1>8. Cardinality(E \cup {u}) = Cardinality(E) + 1
    <2> HIDE DEF E
    <2> QED
      BY <1>7, FS_AddElement
  <1>9. Cardinality(E \cup {u}) <= Cardinality(Servers) /\ Cardinality(Servers) \in Nat
    <2> HIDE DEF E
    <2> QED
      BY <1>7, FS_Subset, FS_CardinalityType
  <1> QED
    BY <1>1, <1>3, <1>5, <1>6, <1>8, <1>9

(* A scan that goes on from a taken id. *)
LEMMA AdvanceKeeps ==
  ASSUME IsFiniteSet(Servers), TypeOK, Undisturbed, NEW s \in Servers,
         pc[s] \in {"get", "put"}, keys[cursor[s]] # NoLease, Advance(s),
         UNCHANGED <<keys, allocated>>
  PROVE  Undisturbed'
PROOF
  <1>1. /\ cursor[s] \in 1..MaxWorkerId /\ allocated[s] = 0 /\ MaxWorkerId \in Nat
        /\ pc'[s] = (IF cursor[s] = MaxWorkerId THEN "idle" ELSE "get")
        /\ cursor'[s] = (IF cursor[s] = MaxWorkerId THEN 1 ELSE cursor[s] + 1)
        /\ \A q \in Servers \ {s} : pc'[q] = pc[q] /\ cursor'[q] = cursor[q]
    BY WorkerAssumption DEF Undisturbed, ScansFromFirst, TypeOK, Ids, Advance, WorkerAssumption
  <1>2. ScansFromFirst'
    BY <1>1 DEF Undisturbed, ScansFromFirst
  <1>3. KeyHeld'
    <2> SUFFICES ASSUME NEW id \in Ids, keys[id] # NoLease
                 PROVE  \E u \in Servers : allocated[u] = id /\ pc'[u] = "idle"
      BY DEF KeyHeld
    <2>1. PICK u \in Servers : allocated[u] = id /\ pc[u] = "idle"
      BY DEF Undisturbed, KeyHeld
    <2>2. u # s
      BY <2>1
    <2> QED
      BY <1>1, <2>1, <2>2
  <1>4. Crowded(Place')
    <2> DEFINE n == IF cursor[s] = MaxWorkerId THEN 0 ELSE cursor[s] + 1
    <2>1. Place' = [Place EXCEPT ![s] = n]
      BY <1>1 DEF Place
    <2>2. /\ Place \in [Servers -> Nat] /\ Place[s] = cursor[s] /\ n \in Nat
          /\ \E u \in Servers \ {s} : Place[u] = Place[s]
      BY <1>1, PlaceTyped, OtherAtCursor DEF Undisturbed
    <2>3. n <= Place[s] \/ n = Place[s] + 1
      BY <1>1, <2>2
    <2> HIDE DEF n
    <2> QED
      BY <2>1, <2>2, <2>3, CrowdedMove DEF Undisturbed
  <1>5. Crowded(Place)'
    BY <1>4 DEF Crowded, UpTo
  <1> QED
    BY <1>2, <1>3, <1>5 DEF Undisturbed

LEMMA ShortageStep ==
  ASSUME IsFiniteSet(Servers), ShortageInv, [Next]_vars PROVE ShortageInv'
PROOF
  <1>0. TypeOK'
    BY StepTyped DEF ShortageInv
  <1> SUFFICES ASSUME ~disturbed' PROVE Undisturbed'
    BY <1>0 DEF ShortageInv
  <1>a. TypeOK /\ Place \in [Servers -> Nat]
    BY PlaceTyped DEF ShortageInv
  <1>b. ~disturbed => ScansFromFirst /\ KeyHeld /\ Crowded(Place)
    BY DEF ShortageInv, Undisturbed
  <1>c. ASSUME ScansFromFirst', KeyHeld', Place' = Place, ~disturbed PROVE Undisturbed'
    BY <1>b, <1>c DEF Undisturbed, Crowded, UpTo
  <1>1. ASSUME NEW s \in Servers, Allocate(s) PROVE Undisturbed'
    <2>1. ~disturbed /\ allocated[s] = 0 /\ cursor[s] = 1
      BY <1>1, <1>b DEF Allocate, ScansFromFirst
    <2>2. pc'[s] = "get" /\ \A q \in Servers \ {s} : pc'[q] = pc[q]
      BY <1>1, <1>a DEF Allocate, TypeOK
    <2>3. ScansFromFirst'
      BY <1>1, <1>b, <2>1, <2>2 DEF Allocate, ScansFromFirst
    <2>4. KeyHeld'
      BY <1>1, <1>b, <2>1, <2>2 DEF Allocate, KeyHeld, Ids
    <2>5. Place' = [Place EXCEPT ![s] = 1]
      BY <1>1, <2>1, <2>2 DEF Allocate, Place
    <2>6. Crowded(Place')
      BY <1>a, <1>b, <2>1, <2>5, CrowdedMove
    <2> QED
      BY <2>3, <2>4, <2>6 DEF Undisturbed, Crowded, UpTo
  <1>2. ASSUME NEW s \in Servers, Get(s) PROVE Undisturbed'
    <2>1. ~disturbed /\ UNCHANGED <<keys, allocated>> /\ pc[s] = "get"
      BY <1>2 DEF Get, Fault, etcd
    <2>2. CASE keys[cursor[s]] = NoLease /\ pc' = [pc EXCEPT ![s] = "put"] /\ UNCHANGED cursor
      <3>1. ScansFromFirst' /\ KeyHeld'
        BY <1>a, <1>b, <2>1, <2>2 DEF ScansFromFirst, KeyHeld, TypeOK
      <3>2. Place' = Place
        BY <1>a, <2>1, <2>2 DEF Place, TypeOK
      <3> QED
        BY <1>c, <2>1, <3>1, <3>2
    <2>3. CASE keys[cursor[s]] # NoLease /\ Advance(s)
      BY <1>a, <1>b, <2>1, <2>3, AdvanceKeeps DEF Undisturbed
    <2> QED
      BY <1>2, <2>2, <2>3 DEF Get, Fault
  <1>3. ASSUME NEW s \in Servers, Put(s) PROVE Undisturbed'
    <2>1. /\ ~disturbed /\ pc[s] = "put" /\ allocated[s] = 0 /\ cursor[s] \in Ids
          /\ pc'[s] = "idle" /\ allocated'[s] = cursor[s] /\ cursor'[s] = 1
          /\ \A q \in Servers \ {s} : /\ pc'[q] = pc[q] /\ allocated'[q] = allocated[q]
                                     /\ cursor'[q] = cursor[q]
          /\ \A id \in Ids : id # cursor[s] => keys'[id] = keys[id]
      BY <1>3, <1>a, <1>b DEF Put, TypeOK, ScansFromFirst
    <2>2. ScansFromFirst'
      BY <1>b, <2>1 DEF ScansFromFirst
    <2>3. KeyHeld'
      BY <1>b, <2>1 DEF KeyHeld
    <2>4. Place' = Place
      BY <2>1 DEF Place
    <2> QED
      BY <1>c, <2>1, <2>2, <2>3, <2>4
  <1>4. ASSUME NEW s \in Servers, PutFails(s) PROVE Undisturbed'
    <2>1. ~disturbed /\ UNCHANGED <<keys, allocated>> /\ pc[s] = "put"
          /\ keys[cursor[s]] # NoLease /\ Advance(s)
      BY <1>4 DEF PutFails, Fault
    <2> QED
      BY <1>a, <1>b, <2>1, AdvanceKeeps DEF Undisturbed
  <1>5. ASSUME NEW s \in Servers, Release(s) PROVE Undisturbed'
    <2>1. /\ ~disturbed /\ pc[s] = "idle" /\ UNCHANGED <<allocated, cursor>>
          /\ pc' = [pc EXCEPT ![s] = "clear"]
          /\ keys' = [keys EXCEPT ![allocated[s]] = NoLease]
      BY <1>5 DEF Release, Fault
    <2>2. pc'[s] = "clear" /\ \A q \in Servers \ {s} : pc'[q] = pc[q]
      BY <1>a, <2>1 DEF TypeOK
    <2>3. ScansFromFirst'
      BY <1>b, <2>1, <2>2 DEF ScansFromFirst
    <2>4. KeyHeld'
      <3> SUFFICES ASSUME NEW id \in Ids, keys'[id] # NoLease
                   PROVE  \E u \in Servers : allocated[u] = id /\ pc'[u] = "idle"
        BY <2>1 DEF KeyHeld
      <3>1. keys[id] # NoLease /\ id # allocated[s]
        BY <1>a, <2>1 DEF TypeOK
      <3>2. PICK u \in Servers : allocated[u] = id /\ pc[u] = "idle"
        BY <1>b, <2>1, <3>1 DEF KeyHeld
      <3> QED
        BY <2>2, <3>1, <3>2
    <2>5. Place' = Place
      BY <2>1, <2>2 DEF Place
    <2> QED
      BY <1>c, <2>1, <2>3, <2>4, <2>5
  <1>6. ASSUME NEW s \in Servers, Clear(s) PROVE Undisturbed'
    <2>1. /\ ~disturbed /\ pc[s] = "clear" /\ UNCHANGED <<keys, cursor>>
          /\ pc'[s] = "idle" /\ allocated'[s] = 0
          /\ \A q \in Servers \ {s} : pc'[q] = pc[q] /\ allocated'[q] = allocated[q]
      BY <1>6, <1>a DEF Clear, TypeOK, etcd
    <2>2. ScansFromFirst'
      BY <1>b, <2>1 DEF ScansFromFirst
    <2>3. KeyHeld'
      BY <1>b, <2>1 DEF KeyHeld
    <2>4. Place' = [Place EXCEPT ![s] = 0] /\ 0 <= Place[s]
      <3>1. Place' = [Place EXCEPT ![s] = 0]
        BY <2>1 DEF Place
      <3> QED
        BY <1>a, <3>1
    <2>5. Crowded(Place')
      <3>1. Crowded(Place) /\ 0 \in Nat
        BY <1>b, <2>1
      <3>2. Crowded([Place EXCEPT ![s] = 0])
        BY <1>a, <2>4, <3>1, CrowdedMove
      <3> QED
        BY <2>4, <3>2
    <2> QED
      BY <2>2, <2>3, <2>5 DEF Undisturbed, Crowded, UpTo
  <1>7. ASSUME NEW s \in Servers, Crash(s) PROVE Undisturbed'
    BY <1>7 DEF Crash, Fault
  <1>8. ASSUME NEW lease \in live, Expire(lease) PROVE Undisturbed'
    <2>1. ~disturbed /\ UNCHANGED <<pc, cursor, allocated>>
          /\ \A id \in Ids : keys'[id] # NoLease => keys[id] # NoLease
      BY <1>8 DEF Expire, locals, history
    <2> QED
      BY <1>b, <1>c, <2>1 DEF ScansFromFirst, KeyHeld, Place
  <1>9. CASE Rest \/ UNCHANGED vars
    BY <1>9, <1>b, <1>c DEF Rest, vars, etcd, locals, history, ScansFromFirst, KeyHeld, Place
  <1> QED
    BY <1>1, <1>2, <1>3, <1>4, <1>5, <1>6, <1>7, <1>8, <1>9 DEF Next, Step

(* As long as there are no more servers than worker ids, a scan that meets *)
(* neither an error nor the end of its lease finds an id, however releases *)
(* and expiries free ids behind it and other scans take them.              *)
THEOREM EnoughIds ==
  ASSUME IsFiniteSet(Servers) PROVE Spec => NoShortage
PROOF
  <1>1. Init => ShortageInv
    <2> SUFFICES ASSUME Init PROVE Undisturbed
      BY InitTyped DEF ShortageInv
    <2>1. Place = [s \in Servers |-> 0]
      BY DEF Init, Place
    <2>2. Crowded(Place)
      BY <2>1 DEF Crowded
    <2> QED
      BY <2>2 DEF Init, Undisturbed, ScansFromFirst, KeyHeld
  <1>2. ShortageInv /\ [Next]_vars => ShortageInv'
    BY ShortageStep
  <1>3. ShortageInv /\ [Next]_vars =>
          [Cardinality(Servers) <= MaxWorkerId =>
             \A s \in Servers : GivesUp(s) => disturbed']_vars
    <2> SUFFICES ASSUME ShortageInv, Next, Cardinality(Servers) <= MaxWorkerId,
                        NEW s \in Servers, GivesUp(s), ~disturbed'
                 PROVE  FALSE
      BY DEF ShortageInv
    <2>1. TypeOK /\ pc[s] \in {"get", "put"} /\ pc'[s] = "idle" /\ allocated'[s] = 0
      BY DEF GivesUp, ShortageInv
    <2>2. ~disturbed /\ Advance(s) /\ keys[cursor[s]] # NoLease
      <3>1. ASSUME NEW u \in Servers, Get(u) \/ PutFails(u)
            PROVE  ~disturbed /\ Advance(s) /\ keys[cursor[s]] # NoLease
        <4>1. ~disturbed /\ \E l : pc' = [pc EXCEPT ![u] = l]
          BY <3>1 DEF Get, PutFails, Fault, Advance
        <4>2. u = s
          BY <2>1, <4>1 DEF TypeOK
        <4>3. ~(pc' = [pc EXCEPT ![s] = "put"])
          BY <2>1 DEF TypeOK
        <4> QED
          BY <3>1, <4>1, <4>2, <4>3 DEF Get, PutFails, Fault
      <3>2. ASSUME NEW u \in Servers, Allocate(u) \/ Release(u) \/ Clear(u) PROVE FALSE
        BY <2>1, <3>2 DEF Allocate, Release, Clear, TypeOK
      <3>3. ASSUME NEW u \in Servers, Put(u) PROVE FALSE
        <4>1. u = s
          BY <2>1, <3>3 DEF Put, TypeOK
        <4>2. allocated'[s] = cursor[s] /\ cursor[s] \in Ids
          BY <2>1, <3>3, <4>1 DEF Put, TypeOK
        <4> QED
          BY <2>1, <4>2 DEF Ids
      <3>4. ASSUME NEW u \in Servers, Crash(u) PROVE FALSE
        BY <3>4 DEF Crash, Fault
      <3>5. ASSUME NEW lease \in live, Expire(lease) PROVE FALSE
        BY <2>1, <3>5 DEF Expire, locals
      <3>6. CASE Rest
        BY <2>1, <3>6 DEF Rest, vars, locals
      <3> QED
        BY <3>1, <3>2, <3>3, <3>4, <3>5, <3>6 DEF Next, Step
    <2>3. cursor[s] = MaxWorkerId
      BY <2>1, <2>2 DEF Advance, TypeOK
    <2> QED
      BY <2>1, <2>2, <2>3, LastIdFree DEF ShortageInv
  <1> QED
    BY <1>1, <1>2, <1>3, PTL DEF Spec, NoShortage
================================================================================
