------------------------------- MODULE Degradation -------------------------------
(***************************************************************************)
(* AlgorithmRouter (core/algorithm/router.rs) and the DegradationManager   *)
(* it reports to (core/algorithm/degradation_manager.rs).  Workers serve   *)
(* requests: they try an algorithm, then those of the fallback chain, and  *)
(* record each result.  The background check asks every algorithm how it   *)
(* is.  They share is_degraded and current_state, one action per access;   *)
(* counting a result and the decision read off the counters, and what the  *)
(* check does to a circuit, which is its own, are one action.  What only   *)
(* feeds metrics, the log or get_effective_algorithm, which nothing calls, *)
(* is left out, and so are the manual operations, which only tests call.   *)
(***************************************************************************)
EXTENDS Integers, Sequences

CONSTANTS
  Algorithms,         \* the algorithms a request may name
  Registered,         \* those that AlgorithmRouter::initialize could build
  Primary,            \* primary_algorithm
  Chain,              \* fallback_chain
  Workers,            \* the tasks that serve requests
  Checker,            \* the background check
  Wrap,               \* the counters are of type u8: they wrap here
  failure_threshold,  \* the fields of DegradationConfig of these names
  recovery_threshold,
  half_open_success_threshold

ASSUME DegradationAssumption ==
  /\ Registered \subseteq Algorithms /\ Primary \in Algorithms
  /\ Chain \in Seq(Algorithms)
  /\ Checker \notin Workers
  /\ Wrap \in Nat
  /\ failure_threshold \in 1..(Wrap - 1) /\ recovery_threshold \in 1..(Wrap - 1)
  /\ half_open_success_threshold \in 1..(Wrap - 1)
  /\ {"Normal", "Critical"} \cap Algorithms = {}

VARIABLES
  consecutive_failures, consecutive_successes,  \* AlgorithmHealthState, by algorithm
  is_degraded,
  circuit,         \* circuit_breaker_state
  elapsed,         \* whether circuit_breaker_timeout_ms has passed since it opened
  current_state,   \* of the manager; an algorithm stands for Degraded(algorithm)
  task,            \* where each task stands: see AtRest
  left, changed,   \* the check: algorithms to come, and state_changed
  calm,            \* environment: all are healthy from now on and no request comes
  overlapped       \* history: an algorithm was marked during another task's update

counters == <<consecutive_failures, consecutive_successes>>
health   == <<counters, is_degraded, circuit, elapsed>>
round    == <<left, changed>>
vars     == <<health, current_state, task, round, calm, overlapped>>

Actors == Workers \cup {Checker}
States == {"Normal", "Critical"} \cup Algorithms

(* A task: where it is, the algorithm it deals with, how far its request   *)
(* is along the chain, the state that determine_effective_algorithm found, *)
(* and where it goes on after writing that.                                *)
AtRest == [at |-> "idle", alg |-> Primary, pos |-> 0, found |-> "Normal", then |-> "idle"]

Tasks ==
  [at : {"idle", "generate", "fallback", "mark", "recover", "determine", "write", "next", "restore"},
   alg : Algorithms, pos : 0..Len(Chain), found : States, then : {"idle", "fallback", "next"}]

Goto(p, here, there) ==
  /\ task[p].at = here
  /\ task' = [task EXCEPT ![p] =
       IF there = "idle" THEN AtRest ELSE [@ EXCEPT !.at = there, !.found = "Normal"]]

Deal(p, here, there, a, then) ==
  /\ task[p].at = here
  /\ task' = [task EXCEPT ![p] = [@ EXCEPT !.at = there, !.alg = a, !.then = then]]

--------------------------------------------------------------------------------
(* generate_with_algorithm_internal, batch_generate_with_algorithm_internal *)

(* A request that names an algorithm without an instance goes to the chain. *)
Request(w) ==
  \E a \in Algorithms :
    /\ ~calm
    /\ Deal(w, "idle", IF a \in Registered THEN "generate" ELSE "fallback", a, "fallback")
    /\ UNCHANGED <<health, current_state, round, calm, overlapped>>

(* The next algorithm of the chain that has an instance; the request fails *)
(* when none is left.                                                      *)
Fallback(w) ==
  LET rest == {i \in (task[w].pos + 1)..Len(Chain) : Chain[i] \in Registered} IN
  /\ \/ rest = {} /\ Goto(w, "fallback", "idle")
     \/ /\ task[w].at = "fallback"
        /\ \E i \in rest :
             /\ \A j \in rest : i <= j
             /\ task' = [task EXCEPT ![w] = [@ EXCEPT !.at = "generate", !.alg = Chain[i], !.pos = i]]
  /\ UNCHANGED <<health, current_state, round, calm, overlapped>>

(* Mutant: the counter does not wrap. *)
RecordSuccessWide(a) ==
  /\ consecutive_successes' = [consecutive_successes EXCEPT ![a] = @ + 1]
  /\ consecutive_failures' = [consecutive_failures EXCEPT ![a] = 0]

(* AlgorithmHealthState::record_success, record_failure *)
RecordSuccess(a) ==
  /\ consecutive_successes' = [consecutive_successes EXCEPT ![a] = (@ + 1) % Wrap]
  /\ consecutive_failures' = [consecutive_failures EXCEPT ![a] = 0]

RecordFailure(a) ==
  /\ consecutive_failures' = [consecutive_failures EXCEPT ![a] = (@ + 1) % Wrap]
  /\ consecutive_successes' = [consecutive_successes EXCEPT ![a] = 0]

(* The algorithm generates; enough successes recover one that is degraded. *)
Succeed(w) ==
  LET a == task[w].alg IN
  /\ task[w].at = "generate"
  /\ RecordSuccess(a)
  /\ IF is_degraded[a] /\ consecutive_successes'[a] >= recovery_threshold
       THEN Deal(w, "generate", "recover", a, "idle")
       ELSE Goto(w, "generate", "idle")
  /\ UNCHANGED <<is_degraded, circuit, elapsed, current_state, round, calm, overlapped>>

(* It fails; enough failures degrade one that is not. *)
FailToGenerate(w) ==
  LET a == task[w].alg IN
  /\ task[w].at = "generate"
  /\ RecordFailure(a)
  /\ Goto(w, "generate",
          IF ~is_degraded[a] /\ consecutive_failures'[a] >= failure_threshold
            THEN "mark" ELSE "fallback")
  /\ UNCHANGED <<is_degraded, circuit, elapsed, current_state, round, calm, overlapped>>

--------------------------------------------------------------------------------
(* A task updates the manager from the first mark to its last write. *)
Updating(p) == task[p].at \in {"determine", "write"} \/ (p = Checker /\ changed)

Mark(a, p, degraded) ==
  /\ is_degraded' = [is_degraded EXCEPT ![a] = degraded]
  /\ overlapped' = (overlapped \/ \E q \in Actors \ {p} : Updating(q))

(* Mutant: current_state is not determined anew. *)
TriggerOnly(p) ==
  /\ Goto(p, "mark", task[p].then)
  /\ Mark(task[p].alg, p, TRUE)
  /\ UNCHANGED <<counters, circuit, elapsed, current_state, round, calm>>

(* trigger_degradation *)
Trigger(p) ==
  /\ Goto(p, "mark", "determine")
  /\ Mark(task[p].alg, p, TRUE)
  /\ UNCHANGED <<counters, circuit, elapsed, current_state, round, calm>>

(* attempt_recovery: current_state follows for the primary only. *)
Recover(w) ==
  /\ Goto(w, "recover", IF task[w].alg = Primary THEN "determine" ELSE "idle")
  /\ Mark(task[w].alg, w, FALSE)
  /\ UNCHANGED <<counters, circuit, elapsed, current_state, round, calm>>

(* determine_effective_algorithm: the primary, or the first of the chain ... *)
Effective(x) ==
  LET usable == {a \in Registered : ~is_degraded[a]}
      rest   == {i \in 1..Len(Chain) : Chain[i] \in usable} IN
  \/ Primary \in usable /\ x = "Normal"
  \/ Primary \notin usable /\ rest = {} /\ x = "Critical"
  \/ Primary \notin usable /\ \E i \in rest : (\A j \in rest : i <= j) /\ x = Chain[i]

Determine(p) ==
  /\ task[p].at = "determine"
  /\ \E x \in States :
       Effective(x) /\ task' = [task EXCEPT ![p] = [@ EXCEPT !.at = "write", !.found = x]]
  /\ UNCHANGED <<health, current_state, round, calm, overlapped>>

(* ... and the answer written. *)
Write(p) ==
  /\ Goto(p, "write", task[p].then)
  /\ current_state' = task[p].found
  /\ UNCHANGED <<health, round, calm, overlapped>>

--------------------------------------------------------------------------------
(* check_all_health: a round of the background check ... *)
StartRound ==
  /\ Goto(Checker, "idle", "next")
  /\ left' = Registered
  /\ UNCHANGED <<health, current_state, changed, calm, overlapped>>

(* ... takes the algorithms in the order of a HashMap. *)
Take(a, there) ==
  /\ a \in left
  /\ left' = left \ {a}
  /\ Deal(Checker, "next", there, IF there = "next" THEN Primary ELSE a, "next")

Opened(a) ==
  /\ circuit' = [circuit EXCEPT ![a] = "Open"]
  /\ elapsed' = [elapsed EXCEPT ![a] = FALSE]

(* An open circuit is passed over until its timeout. *)
PassOver(a) ==
  /\ Take(a, "next")
  /\ circuit[a] = "Open" /\ ~elapsed[a]
  /\ UNCHANGED <<health, current_state, changed, calm, overlapped>>

(* One that is closed, or half opened now, because its timeout has passed: *)
HalfOpen(a) ==
  \/ circuit[a] = "Closed" /\ UNCHANGED <<circuit, elapsed>>
  \/ /\ circuit[a] = "Open" /\ elapsed[a]
     /\ circuit' = [circuit EXCEPT ![a] = "HalfOpen"]
     /\ elapsed' = [elapsed EXCEPT ![a] = FALSE]

(* ... nothing is done for an algorithm that is degraded, or says so ... *)
CheckSkips(a) ==
  /\ is_degraded[a] \/ ~calm
  /\ Take(a, "next")
  /\ HalfOpen(a)
  /\ UNCHANGED <<counters, is_degraded, current_state, changed, calm, overlapped>>

(* ... a healthy one is counted ... *)
CheckHealthy(a) ==
  /\ Take(a, "next")
  /\ ~is_degraded[a]
  /\ HalfOpen(a)
  /\ RecordSuccess(a)
  /\ UNCHANGED <<is_degraded, current_state, changed, calm, overlapped>>

(* ... so is an unhealthy one ... *)
CheckUnhealthy(a) ==
  /\ ~is_degraded[a]
  /\ ~calm
  /\ RecordFailure(a)
  /\ consecutive_failures'[a] < failure_threshold
  /\ Take(a, "next")
  /\ HalfOpen(a)
  /\ UNCHANGED <<is_degraded, current_state, changed, calm, overlapped>>

(* ... and too many unhealthy answers open the circuit and degrade it. *)
CheckOpens(a) ==
  /\ circuit[a] = "Closed" \/ (circuit[a] = "Open" /\ elapsed[a])
  /\ ~is_degraded[a]
  /\ ~calm
  /\ RecordFailure(a)
  /\ consecutive_failures'[a] >= failure_threshold
  /\ Take(a, "mark")
  /\ Opened(a)
  /\ changed' = TRUE
  /\ UNCHANGED <<is_degraded, current_state, calm, overlapped>>

(* With the circuit half open: an unhealthy or degraded answer opens it ... *)
Reopen(a) ==
  /\ Take(a, "next")
  /\ circuit[a] = "HalfOpen"
  /\ ~calm
  /\ RecordFailure(a)
  /\ Opened(a)
  /\ UNCHANGED <<is_degraded, current_state, changed, calm, overlapped>>

(* ... a healthy one is counted ... *)
Probe(a) ==
  /\ Take(a, "next")
  /\ circuit[a] = "HalfOpen"
  /\ consecutive_successes[a] < half_open_success_threshold
  /\ RecordSuccess(a)
  /\ UNCHANGED <<is_degraded, circuit, elapsed, current_state, changed, calm, overlapped>>

(* ... and closes it when there were enough before ... *)
Close(a) ==
  /\ Take(a, "restore")
  /\ circuit[a] = "HalfOpen"
  /\ consecutive_successes[a] >= half_open_success_threshold
  /\ circuit' = [circuit EXCEPT ![a] = "Closed"]
  /\ UNCHANGED <<counters, is_degraded, elapsed, current_state, changed, calm, overlapped>>

(* Mutant: closing the circuit does not recover the algorithm. *)
RestoreNot ==
  /\ Goto(Checker, "restore", "next")
  /\ UNCHANGED <<health, current_state, round, calm, overlapped>>

(* ... which recovers an algorithm that is degraded. *)
Restore ==
  LET a == task[Checker].alg IN
  /\ Goto(Checker, "restore", "next")
  /\ \/ is_degraded[a] /\ Mark(a, Checker, FALSE) /\ changed' = TRUE
     \/ ~is_degraded[a] /\ UNCHANGED <<is_degraded, overlapped, changed>>
  /\ UNCHANGED <<counters, circuit, elapsed, current_state, left, calm>>

(* The round ends: a change of state is determined and written once more. *)
EndRound ==
  /\ left = {}
  /\ Goto(Checker, "next", IF changed THEN "determine" ELSE "idle")
  /\ changed' = FALSE
  /\ UNCHANGED <<health, current_state, left, calm, overlapped>>

(* The environment settles: when no request is under way. *)
Settle ==
  /\ ~calm
  /\ \A w \in Workers : task[w].at = "idle"
  /\ calm' = TRUE
  /\ UNCHANGED <<health, current_state, task, round, overlapped>>

(* circuit_breaker_timeout_ms passes. *)
Elapse(a) ==
  /\ circuit[a] = "Open" /\ ~elapsed[a]
  /\ elapsed' = [elapsed EXCEPT ![a] = TRUE]
  /\ UNCHANGED <<counters, is_degraded, circuit, current_state, task, round, calm, overlapped>>

--------------------------------------------------------------------------------
Init ==
  /\ consecutive_failures = [a \in Registered |-> 0]
  /\ consecutive_successes = [a \in Registered |-> 0]
  /\ is_degraded = [a \in Registered |-> FALSE]
  /\ circuit = [a \in Registered |-> "Closed"]
  /\ elapsed = [a \in Registered |-> FALSE]
  /\ current_state = "Normal"
  /\ task = [p \in Actors |-> AtRest]
  /\ left = {} /\ changed = FALSE /\ calm = FALSE /\ overlapped = FALSE

Update(p) == Trigger(p) \/ Determine(p) \/ Write(p)

Serve(w) ==
  \/ Request(w) \/ Fallback(w) \/ Succeed(w) \/ FailToGenerate(w) \/ Recover(w)
  \/ Update(w)

CheckOne(a) ==
  \/ PassOver(a) \/ CheckSkips(a) \/ CheckHealthy(a) \/ CheckUnhealthy(a)
  \/ CheckOpens(a) \/ Reopen(a) \/ Probe(a) \/ Close(a)

Check ==
  \/ StartRound \/ Restore \/ EndRound \/ Update(Checker)
  \/ \E a \in Registered : CheckOne(a)

Next ==
  \/ \E w \in Workers : Serve(w)
  \/ Check
  \/ \E a \in Registered : Elapse(a)
  \/ Settle

(* start_background_check runs the check at every tick of its interval. *)
Spec ==
  /\ Init /\ [][Next]_vars
  /\ WF_vars(Check)
  /\ \A a \in Registered : WF_vars(Elapse(a))

--------------------------------------------------------------------------------
(* Properties *)

(* The range of each variable. *)
TypeOK ==
  /\ consecutive_failures \in [Registered -> 0..(Wrap - 1)]
  /\ consecutive_successes \in [Registered -> 0..(Wrap - 1)]
  /\ is_degraded \in [Registered -> BOOLEAN] /\ elapsed \in [Registered -> BOOLEAN]
  /\ circuit \in [Registered -> {"Closed", "Open", "HalfOpen"}]
  /\ current_state \in States
  /\ task \in [Actors -> Tasks]
  /\ left \subseteq Registered /\ changed \in BOOLEAN /\ calm \in BOOLEAN /\ overlapped \in BOOLEAN

(* Between updates the manager's state says what the marks say: Normal if  *)
(* and only if the primary (where it could be built) is not degraded, and  *)
(* Degraded(a) only for an a that is not; unless an algorithm was marked while another task was      *)
(* between its mark and its write of current_state, a late write of which  *)
(* nothing corrects until the next mark.                                   *)
Agreement ==
  ~overlapped /\ (\A p \in Actors : ~Updating(p)) =>
    /\ Primary \in Registered => (current_state = "Normal" <=> ~is_degraded[Primary])
    /\ current_state \in Algorithms =>
         current_state \in Registered /\ ~is_degraded[current_state]

(* Once every algorithm is healthy and no request comes any more, the      *)
(* background check closes each circuit that is not closed, and recovers   *)
(* the algorithm with it.  (One that failed requests degraded while its    *)
(* circuit was closed is passed over by the check: it stays degraded.)     *)
CircuitRecovers ==
  \A a \in Registered :
    calm /\ circuit[a] # "Closed" ~> circuit[a] = "Closed" /\ ~is_degraded[a]
================================================================================
