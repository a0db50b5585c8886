----------------------------- MODULE CircuitBreaker -----------------------------
(***************************************************************************)
(* CircuitBreaker (core/algorithm/circuit_breaker.rs): tasks that share    *)
(* one breaker call execute and reset, one action per access to an atomic. *)
(* The accesses are taken to be sequentially consistent.  What only feeds  *)
(* metrics() (the totals, last_failure_at, last_success_at) is left out.   *)
(***************************************************************************)
EXTENDS Integers

CONSTANTS
  Callers,            \* the tasks
  MaxCalls,           \* bound: calls that they make between them
  failure_threshold,  \* the fields of CircuitBreakerConfig of these names
  success_threshold,
  min_requests,
  Timeout,            \* timeout_ms and window_size_seconds in ticks
  Window,
  MaxClock            \* bound: the clock stops there

ASSUME BreakerAssumption ==
  /\ failure_threshold \in Nat /\ success_threshold \in Nat /\ min_requests \in Nat
  /\ Timeout \in Nat /\ Window \in Nat /\ MaxCalls \in Nat /\ MaxClock \in Nat \ {0}

VARIABLES
  clock,                   \* Instant::now(), in ticks from 1
  state,                   \* the atomics of the breaker
  consecutive_failures, consecutive_successes,
  window_requests, window_failures, window_start,
  next_attempt_at,         \* 0 stands for None
  pc,                      \* where each task stands
  calls,                   \* calls begun, of all tasks
  stamp,                   \* the time a task read: now, next_attempt or next_attempt_at
  count,                   \* the count it read
  opening,                 \* should_open, once it is computed
  openedAt,                \* history: the time read for the last opening
  probes,                  \* history: successes counted in this half-open spell
  races                    \* history: which of the races below have happened

counters   == <<consecutive_failures, consecutive_successes,
                window_requests, window_failures, window_start>>
breakerVars == <<state, counters, next_attempt_at>>
localVars  == <<calls, stamp, count, opening>>
history    == <<openedAt, probes>>
vars == <<clock, breakerVars, pc, localVars, history, races>>

(* A location's letter names the method: on_success, its clean-up (c), *)
(* on_failure, its window (w), transition_to_open and reset.           *)
Locations ==
  {"idle", "attempt", "halve", "run",
   "s_request", "s_count", "s_failures", "s_state", "s_close",
   "c_failures", "c_successes", "c_attempt",
   "f_request", "f_failed", "f_now", "f_count", "f_successes", "f_start",
   "w_requests", "w_failures", "w_start", "f_requests", "f_rate", "f_state",
   "o_now", "o_swap", "o_attempt",
   "r_state", "r_failures", "r_successes", "r_requests", "r_failed", "r_attempt"}

Goto(c, here, there) == pc[c] = here /\ pc' = [pc EXCEPT ![c] = there]

Begin(c, there) ==
  /\ calls < MaxCalls
  /\ calls' = calls + 1
  /\ Goto(c, "idle", there)

--------------------------------------------------------------------------------
(* execute: should_allow_request loads the state ... *)
ShouldAllow(c) ==
  /\ Begin(c, IF state = "OPEN" THEN "attempt" ELSE "run")
  /\ UNCHANGED <<clock, breakerVars, stamp, count, opening, history>>

(* ... if it is OPEN, next_attempt_at, whose 0 refuses the request ... *)
LoadAttempt(c) ==
  /\ Goto(c, "attempt", IF next_attempt_at = 0 THEN "idle" ELSE "halve")
  /\ stamp' = [stamp EXCEPT ![c] = next_attempt_at]
  /\ UNCHANGED <<clock, breakerVars, calls, count, opening, history>>

(* Mutant: the comparison with the clock is left out. *)
HalveAlways(c) ==
  /\ Goto(c, "halve", "run")
  /\ state' = IF state = "OPEN" THEN "HALF_OPEN" ELSE state
  /\ probes' = IF state = "OPEN" THEN 0 ELSE probes
  /\ UNCHANGED <<clock, counters, next_attempt_at, localVars, openedAt>>

(* ... and, past that time, the compare_exchange, whose outcome is ignored. *)
Halve(c) ==
  /\ \/ /\ clock < stamp[c]
        /\ Goto(c, "halve", "idle")
        /\ UNCHANGED <<state, probes>>
     \/ /\ clock >= stamp[c]
        /\ Goto(c, "halve", "run")
        /\ state' = IF state = "OPEN" THEN "HALF_OPEN" ELSE state
        /\ probes' = IF state = "OPEN" THEN 0 ELSE probes
  /\ UNCHANGED <<clock, counters, next_attempt_at, localVars, openedAt>>

(* The operation succeeds, fails, or is dropped with the future awaiting it. *)
Operate(c) ==
  /\ \E there \in {"s_request", "f_request", "idle"} : Goto(c, "run", there)
  /\ UNCHANGED <<clock, breakerVars, localVars, history>>

--------------------------------------------------------------------------------
(* Reads and writes of the counters, by on_success, on_failure and reset. *)
CountRequest(c) ==
  /\ \/ Goto(c, "s_request", "s_count")
     \/ Goto(c, "f_request", "f_failed")
  /\ window_requests' = window_requests + 1
  /\ UNCHANGED <<clock, state, consecutive_failures, consecutive_successes,
                 window_failures, window_start, next_attempt_at, localVars, history>>

CountFailed(c) ==
  /\ Goto(c, "f_failed", "f_now")
  /\ window_failures' = window_failures + 1
  /\ UNCHANGED <<clock, state, consecutive_failures, consecutive_successes,
                 window_requests, window_start, next_attempt_at, localVars, history>>

CountSuccess(c) ==
  /\ Goto(c, "s_count", "s_failures")
  /\ consecutive_successes' = consecutive_successes + 1
  /\ count' = [count EXCEPT ![c] = consecutive_successes + 1]
  /\ probes' = IF state = "HALF_OPEN" THEN probes + 1 ELSE probes
  /\ UNCHANGED <<clock, state, consecutive_failures, window_requests, window_failures,
                 window_start, next_attempt_at, calls, stamp, opening, openedAt>>

CountFailure(c) ==
  /\ Goto(c, "f_count", "f_successes")
  /\ consecutive_failures' = consecutive_failures + 1
  /\ opening' = [opening EXCEPT ![c] = consecutive_failures + 1 >= failure_threshold]
  /\ UNCHANGED <<clock, state, consecutive_successes, window_requests, window_failures,
                 window_start, next_attempt_at, calls, stamp, count, history>>

ZeroFailures(c) ==
  /\ \/ Goto(c, "s_failures", "s_state")
     \/ Goto(c, "c_failures", "c_successes")
     \/ Goto(c, "r_failures", "r_successes")
  /\ consecutive_failures' = 0
  /\ UNCHANGED <<clock, state, consecutive_successes, window_requests, window_failures,
                 window_start, next_attempt_at, localVars, history>>

(* Mutant: on_failure does not reset the count of successes. *)
ZeroSuccessesLess(c) ==
  /\ \/ Goto(c, "f_successes", "f_start")
     \/ Goto(c, "c_successes", "c_attempt")
     \/ Goto(c, "r_successes", "r_requests")
  /\ consecutive_successes' =
       IF pc[c] = "f_successes" THEN consecutive_successes ELSE 0
  /\ UNCHANGED <<clock, state, consecutive_failures, window_requests, window_failures,
                 window_start, next_attempt_at, localVars, history>>

ZeroSuccesses(c) ==
  /\ \/ Goto(c, "f_successes", "f_start")
     \/ Goto(c, "c_successes", "c_attempt")
     \/ Goto(c, "r_successes", "r_requests")
  /\ consecutive_successes' = 0
  /\ UNCHANGED <<clock, state, consecutive_failures, window_requests, window_failures,
                 window_start, next_attempt_at, localVars, history>>

ZeroRequests(c) ==
  /\ \/ Goto(c, "w_requests", "w_failures")
     \/ Goto(c, "r_requests", "r_failed")
  /\ window_requests' = 0
  /\ UNCHANGED <<clock, state, consecutive_failures, consecutive_successes,
                 window_failures, window_start, next_attempt_at, localVars, history>>

ZeroFailed(c) ==
  /\ \/ Goto(c, "w_failures", "w_start")
     \/ Goto(c, "r_failed", "r_attempt")
  /\ window_failures' = 0
  /\ UNCHANGED <<clock, state, consecutive_failures, consecutive_successes,
                 window_requests, window_start, next_attempt_at, localVars, history>>

ZeroAttempt(c) ==
  /\ \/ Goto(c, "c_attempt", "idle")
     \/ Goto(c, "r_attempt", "idle")
  /\ next_attempt_at' = 0
  /\ UNCHANGED <<clock, state, counters, localVars, history>>

(* Instant::now(), in on_failure and again in transition_to_open. *)
ReadClock(c) ==
  /\ \/ Goto(c, "f_now", "f_count")
     \/ Goto(c, "o_now", "o_swap")
  /\ stamp' = [stamp EXCEPT ![c] = clock]
  /\ UNCHANGED <<clock, breakerVars, calls, count, opening, history>>

--------------------------------------------------------------------------------
(* on_success: enough successes in HALF_OPEN close the breaker ... *)
SuccessState(c) ==
  /\ Goto(c, "s_state", IF state = "HALF_OPEN" /\ count[c] >= success_threshold
                          THEN "s_close" ELSE "idle")
  /\ UNCHANGED <<clock, breakerVars, localVars, history>>

(* ... by a compare_exchange, and its winner clears up. *)
Close(c) ==
  /\ Goto(c, "s_close", IF state = "HALF_OPEN" THEN "c_failures" ELSE "idle")
  /\ state' = IF state = "HALF_OPEN" THEN "CLOSED" ELSE state
  /\ UNCHANGED <<clock, counters, next_attempt_at, localVars, history>>

(* on_failure: has the window expired?  then it starts anew. *)
WindowStart(c) ==
  /\ Goto(c, "f_start", IF stamp[c] - window_start > Window THEN "w_requests"
                        ELSE "f_requests")
  /\ UNCHANGED <<clock, breakerVars, localVars, history>>

RestartWindow(c) ==
  /\ Goto(c, "w_start", "f_requests")
  /\ window_start' = stamp[c]
  /\ UNCHANGED <<clock, state, consecutive_failures, consecutive_successes,
                 window_requests, window_failures, next_attempt_at, localVars, history>>

WindowRequests(c) ==
  /\ Goto(c, "f_requests", "f_rate")
  /\ count' = [count EXCEPT ![c] = window_requests]
  /\ UNCHANGED <<clock, breakerVars, calls, stamp, opening, history>>

FailureRate(c) ==
  /\ Goto(c, "f_rate", "f_state")
  /\ opening' = [opening EXCEPT ![c] =
       @ \/ (count[c] >= min_requests /\ 2 * window_failures > count[c])]
  /\ UNCHANGED <<clock, breakerVars, calls, stamp, count, history>>

(* should_transition = should_open || current_state != STATE_HALF_OPEN *)
FailureState(c) ==
  /\ Goto(c, "f_state", IF opening[c] \/ state # "HALF_OPEN" THEN "o_now" ELSE "idle")
  /\ UNCHANGED <<clock, breakerVars, localVars, history>>

(* transition_to_open: state.swap ... *)
SwapOpen(c) ==
  /\ Goto(c, "o_swap", "o_attempt")
  /\ state' = "OPEN"
  /\ openedAt' = IF state = "OPEN" THEN openedAt ELSE stamp[c]
  /\ UNCHANGED <<clock, counters, next_attempt_at, localVars, probes>>

(* Mutant: the deadline is not stored. *)
StoreAttemptNot(c) ==
  /\ Goto(c, "o_attempt", "idle")
  /\ UNCHANGED <<clock, breakerVars, localVars, history>>

(* ... and then next_attempt_at.store. *)
StoreAttempt(c) ==
  /\ Goto(c, "o_attempt", "idle")
  /\ next_attempt_at' = stamp[c] + Timeout
  /\ UNCHANGED <<clock, state, counters, localVars, history>>

(* reset(): state.store(CLOSED), and then one store after the other. *)
BeginReset(c) ==
  /\ Begin(c, "r_state")
  /\ UNCHANGED <<clock, breakerVars, stamp, count, opening, history>>

ResetState(c) ==
  /\ Goto(c, "r_state", "r_failures")
  /\ state' = "CLOSED"
  /\ UNCHANGED <<clock, counters, next_attempt_at, localVars, history>>

Tick ==
  /\ clock < MaxClock
  /\ clock' = clock + 1
  /\ UNCHANGED <<breakerVars, pc, localVars, history>>

--------------------------------------------------------------------------------
Init ==
  /\ clock = 1
  /\ state = "CLOSED"
  /\ consecutive_failures = 0 /\ consecutive_successes = 0
  /\ window_requests = 0 /\ window_failures = 0 /\ window_start = 1
  /\ next_attempt_at = 0
  /\ pc = [c \in Callers |-> "idle"]
  /\ calls = 0
  /\ stamp = [c \in Callers |-> 0]
  /\ count = [c \in Callers |-> 0]
  /\ opening = [c \in Callers |-> FALSE]
  /\ openedAt = 0 /\ probes = 0 /\ races = {}

Execute(c)   == ShouldAllow(c) \/ LoadAttempt(c) \/ Halve(c) \/ Operate(c)
Counters(c)  ==
  \/ CountRequest(c) \/ CountFailed(c) \/ CountSuccess(c) \/ CountFailure(c)
  \/ ZeroFailures(c) \/ ZeroSuccesses(c) \/ ZeroRequests(c) \/ ZeroFailed(c)
  \/ ZeroAttempt(c) \/ ReadClock(c)
OnSuccess(c) == SuccessState(c) \/ Close(c)
OnFailure(c) ==
  \/ WindowStart(c) \/ RestartWindow(c) \/ WindowRequests(c) \/ FailureRate(c)
  \/ FailureState(c) \/ SwapOpen(c) \/ StoreAttempt(c)
Reset(c)     == BeginReset(c) \/ ResetState(c)

(* The tasks have made their calls. *)
Rest ==
  /\ calls = MaxCalls /\ \A c \in Callers : pc[c] = "idle"
  /\ UNCHANGED vars

(* What the atomics, each good by itself, do not keep apart.  The breaker   *)
(* opens while a task that closed or reset it has still to clear           *)
(* next_attempt_at; a task goes by the deadline, or is about to store one, *)
(* while another opens the breaker; the count of successes a task goes by  *)
(* is from before an opening, or one is counted on top of the zero that a  *)
(* failure has just stored or while the breaker is open.                   *)
Clearing == {"c_failures", "c_successes", "c_attempt",
             "r_failures", "r_successes", "r_requests", "r_failed", "r_attempt"}
Opening  == {"o_swap", "o_attempt"}
Counted  == {"s_failures", "s_state", "s_close"}
Zeroed   == {"f_start", "w_requests", "w_failures", "w_start", "f_requests", "f_rate", "f_state",
             "o_now", "o_swap"}

Late  == state = "OPEN" /\ \E c \in Callers : pc[c] \in Clearing
Hasty == \E c, d \in Callers :
           c # d /\ pc[c] \in {"attempt", "halve"} \cup Opening /\ pc[d] \in Opening
Stray == \E c \in Callers :
           pc[c] \in Counted /\ (state = "OPEN" \/ \E d \in Callers : pc[d] \in Zeroed)

Racing == {r \in {"late", "hasty", "stray"} :
             (r = "late" /\ Late) \/ (r = "hasty" /\ Hasty) \/ (r = "stray" /\ Stray)}

Next ==
  \/ /\ \/ \E c \in Callers :
             Execute(c) \/ Counters(c) \/ OnSuccess(c) \/ OnFailure(c) \/ Reset(c)
        \/ Tick
     /\ races' = races \cup Racing'
  \/ Rest

Spec == Init /\ [][Next]_vars

--------------------------------------------------------------------------------
(* Properties *)

(* The range of each atomic; the breaker counts no more than it is called. *)
TypeOK ==
  /\ clock \in 1..MaxClock
  /\ state \in {"CLOSED", "OPEN", "HALF_OPEN"}
  /\ consecutive_failures \in Nat /\ consecutive_successes \in Nat
  /\ window_requests \in Nat /\ window_failures \in Nat
  /\ window_start \in 1..MaxClock /\ next_attempt_at \in 0..(MaxClock + Timeout)
  /\ pc \in [Callers -> Locations]
  /\ calls \in 0..MaxCalls
  /\ stamp \in [Callers -> 0..(MaxClock + Timeout)]
  /\ count \in [Callers -> Nat] /\ opening \in [Callers -> BOOLEAN]
  /\ races \subseteq {"late", "hasty", "stray"}

(* An open breaker has a time after which transition_to_open lets requests *)
(* try again, but for the moment between its two stores: without one,      *)
(* should_allow_request refuses every request until someone resets it.     *)
(* Any number of tasks open, close, reset and probe it at the same time;   *)
(* only an opening before a clean-up is through (Late) is left out.        *)
OpenHasDeadline ==
  "late" \notin races /\ state = "OPEN" /\ next_attempt_at = 0 =>
    \E c \in Callers : pc[c] = "o_attempt"

(* should_allow_request makes an open breaker HALF_OPEN only once the      *)
(* timeout has passed since it last went from another state to OPEN, as    *)
(* long as nobody was at its deadline while another opened it (Hasty).     *)
TimeoutRespected ==
  []["hasty" \notin races /\ state = "OPEN" /\ state' = "HALF_OPEN"
       => clock >= openedAt + Timeout]_vars

(* on_success closes a half-open breaker only after success_threshold      *)
(* successes were counted while it was half open, by whichever tasks, as   *)
(* long as none came in from before (Stray).                               *)
ClosesOnProbes ==
  [][\A c \in Callers :
       "stray" \notin races /\ pc[c] = "s_close" /\ pc'[c] # "s_close" /\ state = "HALF_OPEN"
         => probes >= success_threshold]_vars
================================================================================
