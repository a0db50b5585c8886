--------------------------- MODULE SegmentAllocation ---------------------------
(***************************************************************************)
(* SeaOrmRepository::allocate_segment and allocate_segment_with_dc         *)
(* (core/database/repository.rs): how the servers that share one           *)
(* workspace:biz_tag take ranges from the nebula_segments table.           *)
(*                                                                         *)
(* The steps that every lock shares; LocalAllocation and EtcdAllocation    *)
(* add acquire, release and what becomes of the lock when a request ends   *)
(* early.  The database is PostgreSQL at READ COMMITTED: a SELECT sees     *)
(* the committed rows, and an UPDATE writes the value it was given.        *)
(***************************************************************************)
EXTENDS Integers, Sequences, FiniteSets

CONSTANTS
  Requests,   \* the calls of allocate_segment[_with_dc] on one workspace:biz_tag
  DcOf,       \* the dc_id each is made for, or NoDc for allocate_segment
  StepOf,     \* the step each asks for
  DcSpan,     \* distance between the first ids of two data centres (10^12)
  MayFail     \* whether statements, calls of etcd and clients may fail

NoDc == -1

ASSUME RequestsAssumption ==
  /\ DcOf \in [Requests -> Nat \cup {NoDc}]
  /\ StepOf \in [Requests -> Nat \ {0}]
  /\ DcSpan \in Nat \ {0}
  /\ MayFail \in BOOLEAN

VARIABLES
  rows,    \* the committed rows of the pair: [dc_id, current_id]
  pc,      \* where each request stands
  found,   \* the row a request's SELECT returned, 0 for none
  seen,    \* the current_id that SELECT read
  taken,   \* the ids a request's committed transaction stands for
  got,     \* the ids handed to the callers
  slipped  \* history: whether somebody got past the lock, which the locks define

dbVars == <<rows, found, seen, taken>>

Ended  == {"done", "busy", "failed", "dropped"}
Within == {"locked", "found", "committed"}    \* between acquire and release

(* segment_lock_key: one key for allocate_segment, one per dc_id else. *)
LockKey(r) == DcOf[r]
LockKeys   == {LockKey(r) : r \in Requests}

FirstId(r) == IF DcOf[r] = NoDc THEN 1 ELSE DcOf[r] * DcSpan + 1

(* The dc_id column of a row that allocate_segment inserts has its default. *)
RowDc(r) == IF DcOf[r] = NoDc THEN 0 ELSE DcOf[r]

(* The rows the SELECT's filters let through; it takes any one of them. *)
Matching(r) == {i \in DOMAIN rows : DcOf[r] = NoDc \/ rows[i].dc_id = DcOf[r]}

Goto(r, there) == pc' = [pc EXCEPT ![r] = there]

--------------------------------------------------------------------------------
(* Mutant: the row is taken to exist. *)
FindExisting(r) ==
  /\ pc[r] = "locked"
  /\ Goto(r, "found")
  /\ \E i \in Matching(r) :
       /\ found' = [found EXCEPT ![r] = i]
       /\ seen' = [seen EXCEPT ![r] = rows[i].current_id]
  /\ UNCHANGED <<rows, taken, got>>

(* Mutant: start_id is read in place of current_id. *)
FindStart(r) ==
  /\ pc[r] = "locked"
  /\ Goto(r, "found")
  /\ found' \in {[found EXCEPT ![r] = i] :
                 i \in IF Matching(r) = {} THEN {0} ELSE Matching(r)}
  /\ seen' = [seen EXCEPT ![r] = FirstId(r)]
  /\ UNCHANGED <<rows, taken, got>>

(* SELECT ... one(): the row and its current_id, or none. *)
Find(r) ==
  /\ pc[r] = "locked"
  /\ Goto(r, "found")
  /\ \/ \E i \in Matching(r) :
          /\ found' = [found EXCEPT ![r] = i]
          /\ seen' = [seen EXCEPT ![r] = rows[i].current_id]
     \/ /\ Matching(r) = {}
        /\ found' = [found EXCEPT ![r] = 0]
        /\ seen' = [seen EXCEPT ![r] = FirstId(r)]
  /\ UNCHANGED <<rows, taken, got>>

(* Mutant: the row keeps the last id of the range, not the next one. *)
WriteLast(r) ==
  LET end == seen[r] + StepOf[r]
  IN  /\ pc[r] = "found"
      /\ Goto(r, "committed")
      /\ rows' = IF found[r] # 0
                   THEN [rows EXCEPT ![found[r]].current_id = end - 1]
                   ELSE Append(rows, [dc_id |-> RowDc(r), current_id |-> end - 1])
      /\ taken' = [taken EXCEPT ![r] = seen[r]..(end - 1)]
      /\ UNCHANGED <<found, seen, got>>

(* UPDATE or INSERT, and the commit that makes it visible.  The row lock   *)
(* an UPDATE takes only orders the commits of two that collide.            *)
Write(r) ==
  LET end == seen[r] + StepOf[r]
  IN  /\ pc[r] = "found"
      /\ Goto(r, "committed")
      /\ rows' = IF found[r] # 0
                   THEN [rows EXCEPT ![found[r]].current_id = end]
                   ELSE Append(rows, [dc_id |-> RowDc(r), current_id |-> end])
      /\ taken' = [taken EXCEPT ![r] = seen[r]..(end - 1)]
      /\ UNCHANGED <<found, seen, got>>

(* The caller has its range, once the release has been tried. *)
Answer(r) ==
  /\ pc[r] = "committed"
  /\ Goto(r, "done")
  /\ got' = [got EXCEPT ![r] = taken[r]]
  /\ UNCHANGED dbVars

(* A statement or the commit fails and `?` returns: the transaction rolls  *)
(* back, unless it was only the answer to the commit that was lost.        *)
Fail(r) ==
  /\ pc[r] \in {"locked", "found", "committed"}
  /\ Goto(r, "failed")
  /\ UNCHANGED <<dbVars, got>>

(* The caller's future is dropped while it awaits the database or etcd. *)
Cancel(r) ==
  /\ pc[r] \in Within
  /\ Goto(r, "dropped")
  /\ UNCHANGED <<dbVars, got>>

InitCore ==
  /\ rows = <<>>
  /\ pc = [r \in Requests |-> "start"]
  /\ found = [r \in Requests |-> 0]
  /\ seen = [r \in Requests |-> 0]
  /\ taken = [r \in Requests |-> {}]
  /\ got = [r \in Requests |-> {}]
  /\ slipped = FALSE

--------------------------------------------------------------------------------
(* Properties *)

TypeOK ==
  /\ rows \in Seq([dc_id : Nat, current_id : Nat])
  /\ pc \in [Requests -> {"start", "checked"} \cup Within \cup Ended]
  /\ found \in [Requests -> 0..Len(rows)]
  /\ seen \in [Requests -> Nat]
  /\ taken \in [Requests -> SUBSET Nat]
  /\ got \in [Requests -> SUBSET Nat]
  /\ slipped \in BOOLEAN

(* Until somebody gets past the lock, no id is handed to two requests: the *)
(* transaction alone would not give that (its UPDATE writes a value that   *)
(* was read before the row was locked).                                    *)
UniqueRanges ==
  ~slipped => \A r, q \in Requests : r # q => got[r] \cap got[q] = {}

(* Until then a data centre has one row: two requests that find none do    *)
(* not both insert.                                                        *)
OneRow ==
  ~slipped => \A i, j \in DOMAIN rows : rows[i].dc_id = rows[j].dc_id => i = j

(* Nor does current_id of a row go back: no update is lost.                *)
NeverBack ==
  [][~slipped' => \A i \in DOMAIN rows : rows'[i].current_id >= rows[i].current_id]_rows

(* Until somebody gets past the lock, SELECT and UPDATE are as good as one *)
(* step that takes the next ids off the row: what the double buffer counts *)
(* on, where each segment it loads lies above those loaded before.         *)
Centres == {RowDc(r) : r \in Requests}

NextId ==
  [d \in Centres |->
    IF \E i \in DOMAIN rows : rows[i].dc_id = d
      THEN rows[CHOOSE i \in DOMAIN rows : rows[i].dc_id = d].current_id
      ELSE d * DcSpan + 1]

Counter == INSTANCE RangeCounter WITH
  next <- NextId,
  CounterOf <- [r \in Requests |-> RowDc(r)],
  FirstOf <- [d \in Centres |-> d * DcSpan + 1]

TakesAtOnce == Counter!Init /\ [][slipped' \/ Counter!Next]_<<NextId, taken>>

(* What allocation promises the algorithm until then: ranges that no other *)
(* caller has.                                                             *)
Issuer == INSTANCE IdIssuer WITH Calls <- Requests
IssuesRanges == Issuer!Init /\ [][slipped' \/ Issuer!Next]_got
================================================================================
