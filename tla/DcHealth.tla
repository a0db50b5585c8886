-------------------------------- MODULE DcHealth --------------------------------
(***************************************************************************)
(* DcFailureDetector and DcHealthState (core/algorithm/segment.rs), and    *)
(* the use that load_segment makes of them: loads of several workers       *)
(* choose a data centre by its status, record how the allocation went, and *)
(* a periodic check gives failed data centres another chance.  Status,     *)
(* count and time of the last success are variables of their own: one      *)
(* action per access.                                                      *)
(***************************************************************************)
EXTENDS Integers, FiniteSets

CONSTANTS
  Loads,      \* calls of load_segment at a time
  Dcs,        \* the data centres added to the detector
  Local,      \* local_dc_id
  DegradeAt,  \* consecutive failures that make a data centre degraded
  FailAt,     \* ... and failed
  Pace        \* loads that are answered, at least, between two rounds of the check

ASSUME DcAssumption ==
  /\ Local \in Dcs /\ DegradeAt \in Nat \ {0} /\ FailAt \in Nat /\ DegradeAt < FailAt
  /\ Pace \in Nat

VARIABLES
  status,       \* of each data centre
  consecutive,  \* consecutive_failures of each, counted up to FailAt
  overdue,      \* its last success is further back than recovery_timeout
  load,         \* where each call of load_segment stands
  check,        \* the data centres that check_recovery has yet to look at
  due,          \* the one it found due, None for none
  ended,        \* the loads answered since the last round, counted up to Pace
  works         \* environment: allocations for the data centre succeed

states == <<status, consecutive, overdue>>
vars   == <<states, load, check, due, ended, works>>

Idle      == [at |-> "idle"]
None      == "none"
rounds    == <<check, due>>
Usable(d) == status[d] # "failed"  \* should_use_dc

Goto(p, r) ==
  /\ load' = [load EXCEPT ![p] = r]
  /\ ended' = IF r = Idle /\ ended < Pace THEN ended + 1 ELSE ended

--------------------------------------------------------------------------------
(* select_best_dc prefers the local one ... *)
Select(p) ==
  /\ load[p] = Idle
  /\ Goto(p, IF Usable(Local) THEN [at |-> "allocate", dc |-> Local]
             ELSE [at |-> "scan", todo |-> Dcs])
  /\ UNCHANGED <<states, rounds, works>>

(* Mutant: the local one is kept. *)
SelectLocal(p) ==
  /\ load[p].at = "scan"
  /\ Goto(p, [at |-> "allocate", dc |-> Local])
  /\ UNCHANGED <<states, rounds, works>>

(* ... or else takes the first that it finds usable, in the order of the   *)
(* map, and the local one if none is.                                      *)
Scan(p) ==
  /\ load[p].at = "scan"
  /\ \E d \in load[p].todo :
       Goto(p, IF Usable(d) THEN [at |-> "allocate", dc |-> d]
               ELSE IF load[p].todo = {d} THEN [at |-> "allocate", dc |-> Local]
               ELSE [load[p] EXCEPT !.todo = @ \ {d}])
  /\ UNCHANGED <<states, rounds, works>>

(* allocate_segment_with_dc succeeds: record_success sets the time and the *)
(* count, which no other step reads together ...                           *)
Succeed(p) ==
  LET d == load[p].dc IN
  /\ load[p].at = "allocate" /\ works[d]
  /\ overdue' = [overdue EXCEPT ![d] = FALSE]
  /\ consecutive' = [consecutive EXCEPT ![d] = 0]
  /\ Goto(p, [at |-> "look", dc |-> d])
  /\ UNCHANGED <<status, rounds, works>>

(* ... and the status, unless it finds it healthy. *)
Look(p) ==
  /\ load[p].at = "look"
  /\ Goto(p, IF status[load[p].dc] = "healthy" THEN Idle ELSE [load[p] EXCEPT !.at = "heal"])
  /\ UNCHANGED <<states, rounds, works>>

(* Mutant: only a failed one is healed. *)
HealFailed(p) ==
  /\ load[p].at = "heal"
  /\ status' = [status EXCEPT ![load[p].dc] = IF @ = "failed" THEN "healthy" ELSE @]
  /\ Goto(p, Idle)
  /\ UNCHANGED <<consecutive, overdue, rounds, works>>

Heal(p) ==
  /\ load[p].at = "heal"
  /\ status' = [status EXCEPT ![load[p].dc] = "healthy"]
  /\ Goto(p, Idle)
  /\ UNCHANGED <<consecutive, overdue, rounds, works>>

(* It fails: record_failure counts, and sets the status by what it counted.*)
Fail(p) ==
  LET d == load[p].dc
      n == IF consecutive[d] = FailAt THEN FailAt ELSE consecutive[d] + 1 IN
  /\ load[p].at = "allocate" /\ ~works[d]
  /\ consecutive' = [consecutive EXCEPT ![d] = n]
  /\ IF n < DegradeAt THEN Goto(p, Idle)
     ELSE Goto(p, [at |-> "mark", dc |-> d, count |-> n])
  /\ UNCHANGED <<status, overdue, rounds, works>>

Mark(p) ==
  /\ load[p].at = "mark"
  /\ status' = [status EXCEPT ![load[p].dc] =
       IF load[p].count >= FailAt THEN "failed" ELSE "degraded"]
  /\ Goto(p, Idle)
  /\ UNCHANGED <<consecutive, overdue, rounds, works>>

(* The call is dropped while it awaits the allocation: nothing is recorded. *)
Drop(p) ==
  /\ load[p].at = "allocate"
  /\ load' = [load EXCEPT ![p] = Idle]
  /\ UNCHANGED <<states, rounds, ended, works>>

(* A round of check_recovery, 60 s after the last, looks at each ... *)
Round ==
  /\ check = {} /\ due = None /\ ended = Pace
  /\ check' = Dcs /\ ended' = 0
  /\ UNCHANGED <<states, load, due, works>>

Visit ==
  /\ due = None
  /\ \E d \in check :
       /\ check' = check \ {d}
       /\ IF status[d] = "failed" /\ overdue[d]
          THEN due' = d ELSE UNCHANGED due
  /\ UNCHANGED <<states, load, ended, works>>

(* ... and degrades a failed one that is overdue. *)
Promote ==
  /\ due # None
  /\ status' = [status EXCEPT ![due] = "degraded"]
  /\ due' = None
  /\ UNCHANGED <<consecutive, overdue, load, check, ended, works>>

(* recovery_timeout passes without a success; only failed ones are asked. *)
Elapse(d) ==
  /\ status[d] = "failed" /\ ~overdue[d]
  /\ overdue' = [overdue EXCEPT ![d] = TRUE]
  /\ UNCHANGED <<status, consecutive, load, check, due, ended, works>>

(* A data centre breaks down, or works again. *)
Turn(d) ==
  /\ works' = [works EXCEPT ![d] = ~@]
  /\ UNCHANGED <<states, load, rounds, ended>>

--------------------------------------------------------------------------------
Init ==
  /\ status = [d \in Dcs |-> "healthy"]
  /\ consecutive = [d \in Dcs |-> 0]
  /\ overdue = [d \in Dcs |-> FALSE]
  /\ load = [p \in Loads |-> Idle]
  /\ check = {} /\ due = None /\ ended = 0
  /\ works = [d \in Dcs |-> TRUE]

Call(p) ==
  \/ Select(p) \/ Scan(p) \/ Succeed(p) \/ Look(p) \/ Heal(p) \/ Fail(p) \/ Mark(p)

Next ==
  \/ \E p \in Loads : Call(p) \/ Drop(p)
  \/ Round \/ Visit \/ Promote
  \/ \E d \in Dcs : Elapse(d) \/ Turn(d)

(* Segments are used up and loaded again, the check's task runs every 60 s, *)
(* time passes, and clients do not go away during loads for ever.           *)
Spec ==
  /\ Init /\ [][Next]_vars
  /\ \A p \in Loads : WF_vars(Call(p))
  /\ WF_vars(Round) /\ WF_vars(Visit) /\ WF_vars(Promote)
  /\ \A d \in Dcs : WF_vars(Elapse(d))
  /\ <>[][\A p \in Loads : ~Drop(p)]_vars

--------------------------------------------------------------------------------
(* Properties *)

(* The local data centre, once its allocations succeed for good, is        *)
(* healthy for good, whatever late records of failures did to its status:  *)
(* "automatic recovery" of FAQ.md.                                         *)
Recovers == <>[]works[Local] => <>[](status[Local] = "healthy")

(* Loads go on succeeding where another data centre works and the local    *)
(* one fails for good, however the status of each stands when that begins: *)
(* the check makes one try the local one again, but not every load.  (The  *)
(* detector promises this for the data centres it is given; the server     *)
(* gives it the local one only.)                                           *)
FailsOver ==
  \A d \in Dcs \ {Local} :
    <>[](works[d] /\ ~works[Local]) => []<>(\E p \in Loads : load[p].at = "look")
================================================================================
