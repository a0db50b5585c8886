-------------------------- MODULE CircuitBreakerProofs --------------------------
(***************************************************************************)
(* Proofs about CircuitBreaker, for any number of tasks and whatever the   *)
(* thresholds and times: the types, and that until tasks race in the ways  *)
(* the model names an open breaker keeps its deadline, is not probed       *)
(* before it and closes on enough probes only.                             *)
(***************************************************************************)
EXTENDS CircuitBreaker, TLAPS

(* Where the stamp of a task is what it read from the clock. *)
HasClock ==
  {"f_count", "f_successes", "f_start", "w_requests", "w_failures", "w_start",
   "o_swap", "o_attempt"}

StampTyped == \A c \in Callers : pc[c] \in HasClock => stamp[c] \in 1..MaxClock

TypeInv == TypeOK /\ StampTyped

RacesTyped == races \subseteq {"late", "hasty", "stray"}

LEMMA GotoTyped ==
  ASSUME TypeOK, NEW c \in Callers, NEW here, NEW there \in Locations, Goto(c, here, there)
  PROVE  /\ pc' \in [Callers -> Locations]
         /\ pc[c] = here /\ pc'[c] = there
         /\ \A d \in Callers \ {c} : pc'[d] = pc[d]
  BY DEF TypeOK, Goto

(* A step of one task that leaves the stamps and comes from where the      *)
(* stamp is the clock, or does not go there.                               *)
LEMMA StampKept ==
  ASSUME StampTyped, NEW c \in Callers, stamp' = stamp,
         \A d \in Callers \ {c} : pc'[d] = pc[d],
         pc'[c] \in HasClock => pc[c] \in HasClock
  PROVE  StampTyped'
  BY DEF StampTyped

LEMMA ExecuteTyped ==
  ASSUME TypeInv, RacesTyped', NEW c \in Callers, Execute(c) PROVE TypeInv'
PROOF
  <1> USE DEF TypeInv, RacesTyped
  <1>1. CASE ShouldAllow(c)
    <2> DEFINE there == IF state = "OPEN" THEN "attempt" ELSE "run"
    <2>1. there \in Locations /\ there \notin HasClock
      BY DEF Locations, HasClock
    <2>2. Goto(c, "idle", there) /\ calls < MaxCalls /\ calls' = calls + 1
      BY <1>1 DEF ShouldAllow, Begin
    <2> HIDE DEF there
    <2>3. calls' \in 0..MaxCalls
      BY <2>2, BreakerAssumption DEF BreakerAssumption, TypeOK
    <2> QED
      BY <1>1, <2>1, <2>2, <2>3, GotoTyped, StampKept
         DEF ShouldAllow, TypeOK, breakerVars, counters
  <1>2. CASE LoadAttempt(c)
    <2> DEFINE there == IF next_attempt_at = 0 THEN "idle" ELSE "halve"
    <2>1. there \in Locations /\ there \notin HasClock
      BY DEF Locations, HasClock
    <2>2. Goto(c, "attempt", there)
      BY <1>2 DEF LoadAttempt
    <2> HIDE DEF there
    <2>3. StampTyped'
      BY <1>2, <2>1, <2>2, GotoTyped DEF LoadAttempt, StampTyped, TypeOK
    <2> QED
      BY <1>2, <2>1, <2>2, <2>3, GotoTyped DEF LoadAttempt, TypeOK, breakerVars, counters
  <1>3. CASE Halve(c)
    <2>1. Goto(c, "halve", "idle") \/ Goto(c, "halve", "run")
      BY <1>3 DEF Halve
    <2>2. "idle" \in Locations /\ "run" \in Locations /\ {"idle", "run"} \cap HasClock = {}
      BY DEF Locations, HasClock
    <2> QED
      BY <1>3, <2>1, <2>2, GotoTyped, StampKept DEF Halve, TypeOK, counters, localVars
  <1>4. CASE Operate(c)
    <2>1. Goto(c, "run", "s_request") \/ Goto(c, "run", "f_request") \/ Goto(c, "run", "idle")
      BY <1>4 DEF Operate
    <2>2. /\ {"idle", "s_request", "f_request"} \subseteq Locations
          /\ {"idle", "s_request", "f_request"} \cap HasClock = {}
      BY DEF Locations, HasClock
    <2> QED
      BY <1>4, <2>1, <2>2, GotoTyped, StampKept
         DEF Operate, TypeOK, breakerVars, counters, localVars
  <1> QED
    BY <1>1, <1>2, <1>3, <1>4 DEF Execute

LEMMA CountersTyped ==
  ASSUME TypeInv, RacesTyped', NEW c \in Callers, Counters(c) PROVE TypeInv'
PROOF
  <1> USE DEF TypeInv, RacesTyped
  <1>1. CASE ReadClock(c)
    <2>1. Goto(c, "f_now", "f_count") \/ Goto(c, "o_now", "o_swap")
      BY <1>1 DEF ReadClock
    <2>2. {"f_count", "o_swap"} \subseteq Locations
      BY DEF Locations
    <2>3. clock \in 1..MaxClock /\ clock \in 0..(MaxClock + Timeout)
      BY BreakerAssumption DEF BreakerAssumption, TypeOK
    <2>4. StampTyped'
      BY <1>1, <2>1, <2>2, <2>3, GotoTyped DEF ReadClock, StampTyped, TypeOK
    <2> QED
      BY <1>1, <2>1, <2>2, <2>3, <2>4, GotoTyped DEF ReadClock, TypeOK, breakerVars, counters
  <1>2. CASE ~ReadClock(c)
    <2>1. \E here, there \in Locations :
            Goto(c, here, there) /\ (there \in HasClock => here \in HasClock)
      BY <1>2 DEF Counters, CountRequest, CountFailed, CountSuccess, CountFailure, ZeroFailures,
                  ZeroSuccesses, ZeroRequests, ZeroFailed, ZeroAttempt, Locations, HasClock
    <2>2. UNCHANGED <<clock, state, window_start, calls, stamp>>
      BY <1>2 DEF Counters, CountRequest, CountFailed, CountSuccess, CountFailure, ZeroFailures,
                  ZeroSuccesses, ZeroRequests, ZeroFailed, ZeroAttempt, counters, localVars
    <2>3. /\ consecutive_failures' \in Nat /\ consecutive_successes' \in Nat
          /\ window_requests' \in Nat /\ window_failures' \in Nat
      BY <1>2 DEF Counters, CountRequest, CountFailed, CountSuccess, CountFailure, ZeroFailures,
                  ZeroSuccesses, ZeroRequests, ZeroFailed, ZeroAttempt, counters, TypeOK
    <2>4. next_attempt_at' = next_attempt_at \/ next_attempt_at' = 0
      BY <1>2 DEF Counters, CountRequest, CountFailed, CountSuccess, CountFailure, ZeroFailures,
                  ZeroSuccesses, ZeroRequests, ZeroFailed, ZeroAttempt
    <2>5. count' \in [Callers -> Nat] /\ opening' \in [Callers -> BOOLEAN]
      <3>1. CASE CountSuccess(c)
        BY <3>1 DEF CountSuccess, TypeOK
      <3>2. CASE CountFailure(c)
        BY <3>2 DEF CountFailure, TypeOK
      <3>3. CASE UNCHANGED <<count, opening>>
        BY <3>3 DEF TypeOK
      <3> QED
        BY <1>2, <3>1, <3>2, <3>3
           DEF Counters, CountRequest, CountFailed, ZeroFailures,
               ZeroSuccesses, ZeroRequests, ZeroFailed, ZeroAttempt, localVars
    <2>6. 0 \in 0..(MaxClock + Timeout)
      BY BreakerAssumption DEF BreakerAssumption
    <2> QED
      BY <2>1, <2>2, <2>3, <2>4, <2>5, <2>6, GotoTyped, StampKept DEF TypeOK
  <1> QED
    BY <1>1, <1>2

LEMMA OutcomeTyped ==
  ASSUME TypeInv, RacesTyped', NEW c \in Callers, OnSuccess(c) \/ OnFailure(c) \/ Reset(c)
  PROVE  TypeInv'
PROOF
  <1> USE DEF TypeInv, RacesTyped
  <1>1. \E here, there \in Locations :
          Goto(c, here, there) /\ (there \in HasClock => here \in HasClock)
    BY DEF OnSuccess, SuccessState, Close, OnFailure, WindowStart, RestartWindow, WindowRequests,
           FailureRate, FailureState, SwapOpen, StoreAttempt, Reset, BeginReset, Begin, ResetState,
           Locations, HasClock
  <1>2. UNCHANGED <<clock, consecutive_failures, consecutive_successes,
                    window_requests, window_failures, stamp>>
    BY DEF OnSuccess, SuccessState, Close, OnFailure, WindowStart, RestartWindow, WindowRequests,
           FailureRate, FailureState, SwapOpen, StoreAttempt, Reset, BeginReset, ResetState,
           breakerVars, counters, localVars
  <1>3. state' \in {"CLOSED", "OPEN", "HALF_OPEN"}
    BY DEF OnSuccess, SuccessState, Close, OnFailure, WindowStart, RestartWindow, WindowRequests,
           FailureRate, FailureState, SwapOpen, StoreAttempt, Reset, BeginReset, ResetState,
           breakerVars, TypeOK
  <1>4. window_start' \in 1..MaxClock
    BY DEF OnSuccess, SuccessState, Close, OnFailure, WindowStart, RestartWindow, WindowRequests,
           FailureRate, FailureState, SwapOpen, StoreAttempt, Reset, BeginReset, ResetState,
           breakerVars, counters, TypeOK, StampTyped, HasClock, Goto
  <1>5. next_attempt_at' \in 0..(MaxClock + Timeout)
    <2>1. CASE StoreAttempt(c)
      <3>1. stamp[c] \in 1..MaxClock
        BY <2>1 DEF StoreAttempt, Goto, StampTyped, HasClock
      <3> QED
        BY <2>1, <3>1, BreakerAssumption DEF StoreAttempt, BreakerAssumption
    <2>2. CASE UNCHANGED next_attempt_at
      BY <2>2 DEF TypeOK
    <2> QED
      BY <2>1, <2>2
         DEF OnSuccess, SuccessState, Close, OnFailure, WindowStart, RestartWindow, WindowRequests,
             FailureRate, FailureState, SwapOpen, Reset, BeginReset, ResetState, breakerVars
  <1>6. calls' \in 0..MaxCalls
    <2>1. CASE BeginReset(c)
      BY <2>1, BreakerAssumption DEF BeginReset, Begin, BreakerAssumption, TypeOK
    <2>2. CASE UNCHANGED calls
      BY <2>2 DEF TypeOK
    <2> QED
      BY <2>1, <2>2
         DEF OnSuccess, SuccessState, Close, OnFailure, WindowStart, RestartWindow, WindowRequests,
             FailureRate, FailureState, SwapOpen, StoreAttempt, Reset, ResetState, localVars
  <1>7. count' \in [Callers -> Nat] /\ opening' \in [Callers -> BOOLEAN]
    <2>1. CASE WindowRequests(c)
      BY <2>1 DEF WindowRequests, TypeOK
    <2>2. CASE FailureRate(c)
      BY <2>2 DEF FailureRate, TypeOK
    <2>3. CASE UNCHANGED <<count, opening>>
      BY <2>3 DEF TypeOK
    <2> QED
      BY <2>1, <2>2, <2>3
         DEF OnSuccess, SuccessState, Close, OnFailure, WindowStart, RestartWindow,
             FailureState, SwapOpen, StoreAttempt, Reset, BeginReset, ResetState, localVars
  <1> QED
    BY <1>1, <1>2, <1>3, <1>4, <1>5, <1>6, <1>7, GotoTyped, StampKept DEF TypeOK

LEMMA InitTyped == Init => TypeInv
PROOF
  <1>1. 1 \in 1..MaxClock /\ 0 \in 0..MaxCalls /\ 0 \in 0..(MaxClock + Timeout)
    BY BreakerAssumption DEF BreakerAssumption
  <1>2. "idle" \in Locations /\ "idle" \notin HasClock
    BY DEF Locations, HasClock
  <1> QED
    BY <1>1, <1>2 DEF Init, TypeInv, TypeOK, StampTyped

LEMMA StepTyped == TypeInv /\ [Next]_vars => TypeInv'
PROOF
  <1> SUFFICES ASSUME TypeInv, [Next]_vars PROVE TypeInv'
    OBVIOUS
  <1>1. CASE Rest \/ UNCHANGED vars
    BY <1>1 DEF Rest, vars, TypeInv, TypeOK, StampTyped, breakerVars, counters, localVars
  <1>2. CASE ~(Rest \/ UNCHANGED vars)
    <2>1. races' = races \cup Racing'
      BY <1>2 DEF Next
    <2>2. RacesTyped'
      BY <2>1 DEF RacesTyped, Racing, TypeInv, TypeOK
    <2>3. CASE Tick
      <3>1. clock' \in 1..MaxClock
        BY <2>3, BreakerAssumption DEF Tick, TypeInv, TypeOK, BreakerAssumption
      <3> QED
        BY <2>2, <2>3, <3>1
           DEF Tick, RacesTyped, TypeInv, TypeOK, StampTyped, breakerVars, counters, localVars
    <2> QED
      BY <1>2, <2>2, <2>3, ExecuteTyped, CountersTyped, OutcomeTyped DEF Next
  <1> QED
    BY <1>1, <1>2

(* execute and reset keep the types of the breaker and of its tasks. *)
THEOREM TypeCorrect == Spec => []TypeOK
PROOF
  <1>1. TypeInv => TypeOK
    BY DEF TypeInv
  <1> QED
    BY <1>1, InitTyped, StepTyped, PTL DEF Spec

--------------------------------------------------------------------------------
(* Every step is one of a task or of the clock and notes the races it      *)
(* leaves standing, or changes nothing.                                    *)
Act(c) == Execute(c) \/ Counters(c) \/ OnSuccess(c) \/ OnFailure(c) \/ Reset(c)

LEMMA Steps ==
  ASSUME [Next]_vars
  PROVE  \/ UNCHANGED vars
         \/ Tick /\ races' = races \cup Racing'
         \/ \E c \in Callers : Act(c) /\ races' = races \cup Racing'
  BY DEF Next, Rest, Act

LEMMA NoRace ==
  ASSUME races' = races \cup Racing'
  PROVE  /\ "late" \notin races' => "late" \notin races /\ ~Late'
         /\ "hasty" \notin races' => "hasty" \notin races /\ ~Hasty'
         /\ "stray" \notin races' => "stray" \notin races /\ ~Stray'
  BY DEF Racing

(* The steps that bear on the deadline; the others leave it, the stamps,   *)
(* the time of the opening and who is about to open alone.                 *)
Timed(c) == ReadClock(c) \/ LoadAttempt(c) \/ SwapOpen(c) \/ StoreAttempt(c) \/ ZeroAttempt(c)

LEMMA Untimed ==
  ASSUME TypeInv, NEW d \in Callers, Act(d), ~Timed(d)
  PROVE  /\ UNCHANGED <<clock, next_attempt_at, stamp, openedAt>>
         /\ state' = "OPEN" => state = "OPEN"
         /\ \A c \in Callers : /\ pc'[c] \in Opening => pc[c] \in Opening
                               /\ pc[c] = "o_attempt" => pc'[c] = "o_attempt"
                               /\ pc'[c] = "halve" => pc[c] = "halve"
PROOF
  <1> USE DEF Act, Timed, TypeInv, TypeOK, breakerVars, counters, localVars, history, Goto, Opening
  <1>1. CASE Execute(d)
    BY <1>1 DEF Execute, ShouldAllow, Begin, Halve, Operate
  <1>2. CASE Counters(d)
    BY <1>2 DEF Counters, CountRequest, CountFailed, CountSuccess, CountFailure, ZeroFailures,
                ZeroSuccesses, ZeroRequests, ZeroFailed
  <1>3. CASE OnSuccess(d) \/ Reset(d)
    BY <1>3 DEF OnSuccess, SuccessState, Close, Reset, BeginReset, Begin, ResetState
  <1>4. CASE OnFailure(d)
    BY <1>4 DEF OnFailure, WindowStart, RestartWindow, WindowRequests, FailureRate, FailureState
  <1> QED
    BY <1>1, <1>2, <1>3, <1>4

(* Until an opening meets a clean-up that is not through, only the task    *)
(* that opened the breaker finds it without a deadline.                    *)
DeadlineInv == TypeInv /\ ("late" \notin races => ~Late) /\ OpenHasDeadline

LEMMA DeadlineStep == ASSUME DeadlineInv, [Next]_vars PROVE DeadlineInv'
PROOF
  <1> USE DEF DeadlineInv
  <1>1. TypeInv'
    BY StepTyped
  <1>2. CASE UNCHANGED vars
    BY <1>1, <1>2 DEF vars, breakerVars, Late, OpenHasDeadline
  <1>3. CASE races' = races \cup Racing' /\ (Tick \/ \E d \in Callers : Act(d))
    <2> SUFFICES ASSUME "late" \notin races', state' = "OPEN", next_attempt_at' = 0
                 PROVE  \E c \in Callers : pc'[c] = "o_attempt"
      BY <1>1, <1>3, NoRace DEF OpenHasDeadline
    <2>1. "late" \notin races /\ ~Late
      BY <1>3, NoRace
    <2>2. CASE Tick
      BY <2>1, <2>2 DEF Tick, breakerVars, OpenHasDeadline
    <2>3. ASSUME NEW d \in Callers, Act(d) PROVE \E c \in Callers : pc'[c] = "o_attempt"
      <3>1. CASE StoreAttempt(d)
        <4>1. stamp[d] \in 1..MaxClock
          BY <3>1 DEF StoreAttempt, Goto, TypeInv, StampTyped, HasClock
        <4> QED
          BY <3>1, <4>1, BreakerAssumption DEF StoreAttempt, BreakerAssumption
      <3>2. CASE ZeroAttempt(d)
        BY <2>1, <3>2 DEF ZeroAttempt, Goto, Late, Clearing
      <3>3. CASE SwapOpen(d)
        BY <3>3 DEF SwapOpen, Goto, TypeInv, TypeOK
      <3>4. CASE ReadClock(d)
        BY <2>1, <3>4 DEF ReadClock, Goto, breakerVars, OpenHasDeadline, TypeInv, TypeOK
      <3>5. CASE LoadAttempt(d)
        BY <2>1, <3>5 DEF LoadAttempt, Goto, breakerVars, OpenHasDeadline, TypeInv, TypeOK
      <3>6. CASE ~Timed(d)
        BY <2>1, <2>3, <3>6, Untimed DEF OpenHasDeadline
      <3> QED
        BY <3>1, <3>2, <3>3, <3>4, <3>5, <3>6 DEF Timed
    <2> QED
      BY <1>3, <2>2, <2>3
  <1> QED
    BY <1>2, <1>3, Steps

(* However many tasks open, close, reset and probe the breaker at the same *)
(* time, transition_to_open leaves it no longer without a deadline than    *)
(* between its two stores, as long as nobody opens it before a task that   *)
(* closed or reset it has cleared the last one.                            *)
THEOREM DeadlineKept == Spec => []OpenHasDeadline
PROOF
  <1>1. Init => DeadlineInv
    BY InitTyped DEF Init, DeadlineInv, Late, OpenHasDeadline
  <1>2. DeadlineInv => OpenHasDeadline
    BY DEF DeadlineInv
  <1> QED
    BY <1>1, <1>2, DeadlineStep, PTL DEF Spec

--------------------------------------------------------------------------------
(* The times read are past ones ... *)
Past ==
  /\ openedAt \in 0..clock
  /\ \A c \in Callers : pc[c] \in Opening => stamp[c] <= clock

(* ... and, while nobody is at its deadline when another opens the breaker, *)
(* whoever is about to store or to pass a deadline has one that lies a     *)
(* timeout after the opening.                                              *)
Patient ==
  /\ ~Hasty
  /\ \A c \in Callers : pc[c] \in Opening => openedAt <= stamp[c]
  /\ state = "OPEN" /\ (\A c \in Callers : pc[c] # "o_attempt") =>
       next_attempt_at = 0 \/ openedAt + Timeout <= next_attempt_at
  /\ state = "OPEN" =>
       \A c \in Callers : pc[c] = "halve" => openedAt + Timeout <= stamp[c]

TimeoutInv == TypeInv /\ Past /\ ("hasty" \notin races => Patient)

LEMMA TimedStep ==
  ASSUME TypeInv, Past, NEW d \in Callers, Act(d) PROVE Past'
PROOF
  <1> USE BreakerAssumption DEF BreakerAssumption, TypeInv, TypeOK, Past, Opening, Goto
  <1>1. CASE ReadClock(d)
    BY <1>1 DEF ReadClock, history
  <1>2. CASE LoadAttempt(d)
    BY <1>2 DEF LoadAttempt, history
  <1>3. CASE SwapOpen(d)
    <2>1. stamp[d] \in 1..MaxClock
      BY <1>3 DEF SwapOpen, StampTyped, HasClock
    <2> QED
      BY <1>3, <2>1 DEF SwapOpen, localVars
  <1>4. CASE StoreAttempt(d) \/ ZeroAttempt(d)
    BY <1>4 DEF StoreAttempt, ZeroAttempt, localVars, history
  <1>5. CASE ~Timed(d)
    BY <1>5, Untimed
  <1> QED
    BY <1>1, <1>2, <1>3, <1>4, <1>5 DEF Timed

LEMMA PatientStep ==
  ASSUME TypeInv, Past, Patient, ~Hasty', NEW d \in Callers, Act(d) PROVE Patient'
PROOF
  <1> USE BreakerAssumption DEF BreakerAssumption, TypeInv, TypeOK, Patient, Goto
  <1>1. CASE ReadClock(d)
    BY <1>1 DEF ReadClock, breakerVars, history, Past, Opening
  <1>2. CASE LoadAttempt(d)
    <2>1. \A c \in Callers : pc[c] = "o_attempt" => FALSE
      BY <1>2 DEF LoadAttempt, Hasty, Opening
    <2> QED
      BY <1>2, <2>1 DEF LoadAttempt, breakerVars, history, Opening
  <1>3. CASE SwapOpen(d)
    <2>1. \A c \in Callers : c # d => pc[c] \notin {"halve"} \cup Opening /\ pc'[c] = pc[c]
      BY <1>3 DEF SwapOpen, Hasty, Opening
    <2>2. stamp[d] \in 1..MaxClock /\ openedAt <= stamp[d] /\ pc'[d] = "o_attempt"
      BY <1>3 DEF SwapOpen, Opening, StampTyped, HasClock
    <2>3. openedAt' <= stamp[d] /\ stamp' = stamp
      BY <1>3, <2>2 DEF SwapOpen, localVars, Past
    <2> QED
      BY <2>1, <2>2, <2>3
  <1>4. CASE StoreAttempt(d)
    <2>1. stamp[d] \in 1..MaxClock /\ openedAt <= stamp[d]
      BY <1>4 DEF StoreAttempt, Opening, StampTyped, HasClock
    <2>2. openedAt + Timeout <= next_attempt_at' /\ UNCHANGED <<openedAt, state, stamp>>
      BY <1>4, <2>1 DEF StoreAttempt, localVars, history, Past
    <2> QED
      BY <1>4, <2>2 DEF StoreAttempt, Opening
  <1>5. CASE ZeroAttempt(d)
    BY <1>5 DEF ZeroAttempt, localVars, history, Opening
  <1>6. CASE ~Timed(d)
    BY <1>6, Untimed
  <1> QED
    BY <1>1, <1>2, <1>3, <1>4, <1>5, <1>6 DEF Timed

LEMMA TimeoutStep == ASSUME TimeoutInv, [Next]_vars PROVE TimeoutInv'
PROOF
  <1> USE DEF TimeoutInv
  <1>1. TypeInv'
    BY StepTyped
  <1>2. CASE UNCHANGED vars
    BY <1>1, <1>2 DEF vars, breakerVars, localVars, history, Past, Patient, Hasty, Opening
  <1>3. CASE Tick /\ races' = races \cup Racing'
    <2>1. Past'
      BY <1>3 DEF Tick, localVars, history, Past, Opening, TypeInv, TypeOK
    <2>2. "hasty" \notin races' => Patient'
      BY <1>3, NoRace DEF Tick, breakerVars, localVars, history, Patient, Opening
    <2> QED
      BY <1>1, <2>1, <2>2
  <1>4. ASSUME NEW d \in Callers, Act(d), races' = races \cup Racing' PROVE TimeoutInv'
    BY <1>1, <1>4, NoRace, TimedStep, PatientStep
  <1> QED
    BY <1>2, <1>3, <1>4, Steps

(* should_allow_request lets no request through an open breaker before the *)
(* timeout is over, whichever tasks open, close and reset it, as long as   *)
(* none is at its deadline when another opens it.                          *)
THEOREM WaitsForTimeout == Spec => TimeoutRespected
PROOF
  <1>1. Init => TimeoutInv
    BY InitTyped, BreakerAssumption
       DEF Init, TimeoutInv, Past, Patient, Hasty, Opening, BreakerAssumption
  <1>2. TimeoutInv /\ [Next]_vars =>
          ["hasty" \notin races /\ state = "OPEN" /\ state' = "HALF_OPEN"
             => clock >= openedAt + Timeout]_vars
    <2> SUFFICES ASSUME TimeoutInv, [Next]_vars, "hasty" \notin races,
                        state = "OPEN", state' = "HALF_OPEN"
                 PROVE  clock >= openedAt + Timeout
      OBVIOUS
    <2>1. PICK c \in Callers : Halve(c)
      BY Steps
         DEF Act, Tick, vars, breakerVars, Execute, ShouldAllow, LoadAttempt, Operate,
             Counters, CountRequest, CountFailed, CountSuccess, CountFailure, ZeroFailures,
             ZeroSuccesses, ZeroRequests, ZeroFailed, ZeroAttempt, ReadClock, OnSuccess,
             SuccessState, Close, OnFailure, WindowStart, RestartWindow, WindowRequests,
             FailureRate, FailureState, SwapOpen, StoreAttempt, Reset, BeginReset, ResetState
    <2> QED
      BY <2>1, BreakerAssumption
         DEF Halve, Goto, TimeoutInv, Past, Patient, TypeInv, TypeOK, BreakerAssumption
  <1> QED
    BY <1>1, <1>2, TimeoutStep, PTL DEF Spec, TimeoutRespected

--------------------------------------------------------------------------------
(* As long as no success comes in from before an opening or a failure, the *)
(* count of successes is zero when a half-open spell begins, and what a    *)
(* task goes by was counted in the spell.                                  *)
Probed ==
  /\ ~Stray
  /\ state = "OPEN" \/ (\E c \in Callers : pc[c] \in Zeroed) => consecutive_successes = 0
  /\ state = "HALF_OPEN" =>
       /\ consecutive_successes <= probes
       /\ \A c \in Callers : pc[c] \in Counted => count[c] <= probes

Reached ==
  /\ probes \in Nat
  /\ \A c \in Callers : pc[c] = "s_close" => success_threshold <= count[c]

ProbesInv == TypeInv /\ Reached /\ ("stray" \notin races => Probed)

(* The steps that bear on the successes; the others keep the counts, and   *)
(* who of the tasks counted or is in a failure.                            *)
Counting(c) ==
  CountSuccess(c) \/ ZeroSuccesses(c) \/ SuccessState(c) \/ Halve(c) \/ WindowRequests(c)

LEMMA Uncounted ==
  ASSUME TypeInv, NEW d \in Callers, Act(d), ~Counting(d)
  PROVE  /\ UNCHANGED <<consecutive_successes, count, probes>>
         /\ state' = "HALF_OPEN" => state = "HALF_OPEN"
         /\ state' = "OPEN" => state = "OPEN" \/ pc[d] \in Zeroed
         /\ \A c \in Callers : /\ pc'[c] \in Counted => pc[c] \in Counted
                               /\ pc'[c] \in Zeroed => pc[c] \in Zeroed
                               /\ pc'[c] = "s_close" => pc[c] = "s_close"
PROOF
  <1> USE DEF Act, Counting, TypeInv, TypeOK, breakerVars, counters, localVars, history, Goto,
              Counted, Zeroed
  <1>1. CASE Execute(d)
    BY <1>1 DEF Execute, ShouldAllow, Begin, LoadAttempt, Operate
  <1>2. CASE Counters(d)
    BY <1>2 DEF Counters, CountRequest, CountFailed, CountFailure, ZeroFailures,
                ZeroRequests, ZeroFailed, ZeroAttempt, ReadClock
  <1>3. CASE OnSuccess(d) \/ Reset(d)
    BY <1>3 DEF OnSuccess, Close, Reset, BeginReset, Begin, ResetState
  <1>4. CASE OnFailure(d)
    BY <1>4 DEF OnFailure, WindowStart, RestartWindow, FailureRate, FailureState,
                SwapOpen, StoreAttempt
  <1> QED
    BY <1>1, <1>2, <1>3, <1>4

LEMMA ReachedStep ==
  ASSUME TypeInv, Reached, NEW d \in Callers, Act(d) PROVE Reached'
PROOF
  <1> USE BreakerAssumption DEF BreakerAssumption, TypeInv, TypeOK, Reached, Goto
  <1>1. CASE CountSuccess(d)
    BY <1>1 DEF CountSuccess
  <1>2. CASE ZeroSuccesses(d)
    BY <1>2 DEF ZeroSuccesses, localVars, history
  <1>3. CASE SuccessState(d)
    BY <1>3 DEF SuccessState, localVars, history
  <1>4. CASE Halve(d)
    BY <1>4 DEF Halve, localVars
  <1>5. CASE WindowRequests(d)
    BY <1>5 DEF WindowRequests, history
  <1>6. CASE ~Counting(d)
    BY <1>6, Uncounted
  <1> QED
    BY <1>1, <1>2, <1>3, <1>4, <1>5, <1>6 DEF Counting

LEMMA ProbedStep ==
  ASSUME TypeInv, Reached, Probed, ~Stray', NEW d \in Callers, Act(d) PROVE Probed'
PROOF
  <1> USE DEF TypeInv, TypeOK, Reached, Probed, Goto
  <1>1. CASE CountSuccess(d)
    <2>1. pc'[d] \in Counted
      BY <1>1 DEF CountSuccess, Counted
    <2>2. state' # "OPEN" /\ ~(\E c \in Callers : pc'[c] \in Zeroed)
      BY <2>1 DEF Stray
    <2> QED
      BY <1>1, <2>2 DEF CountSuccess, Counted
  <1>2. CASE ZeroSuccesses(d)
    BY <1>2 DEF ZeroSuccesses, localVars, history, Counted
  <1>3. CASE SuccessState(d)
    BY <1>3 DEF SuccessState, breakerVars, counters, localVars, history, Counted, Zeroed
  <1>4. CASE Halve(d)
    <2>1. /\ \A c \in Callers : /\ pc'[c] \in Counted <=> pc[c] \in Counted
                                /\ pc'[c] \in Zeroed <=> pc[c] \in Zeroed
          /\ UNCHANGED <<consecutive_successes, count>>
      BY <1>4 DEF Halve, counters, localVars, Counted, Zeroed
    <2>2. CASE UNCHANGED <<state, probes>>
      BY <2>1, <2>2
    <2>3. CASE state = "OPEN" /\ state' = "HALF_OPEN" /\ probes' = 0
      BY <2>1, <2>3 DEF Stray
    <2> QED
      BY <1>4, <2>2, <2>3 DEF Halve
  <1>5. CASE WindowRequests(d)
    BY <1>5 DEF WindowRequests, breakerVars, counters, history, Counted, Zeroed
  <1>6. CASE ~Counting(d)
    BY <1>6, Uncounted
  <1> QED
    BY <1>1, <1>2, <1>3, <1>4, <1>5, <1>6 DEF Counting

LEMMA ProbesStep == ASSUME ProbesInv, [Next]_vars PROVE ProbesInv'
PROOF
  <1> USE DEF ProbesInv
  <1>1. TypeInv'
    BY StepTyped
  <1>2. CASE UNCHANGED vars
    BY <1>1, <1>2 DEF vars, breakerVars, counters, localVars, history, Reached, Probed, Stray
  <1>3. CASE Tick /\ races' = races \cup Racing'
    <2>1. Reached'
      BY <1>3 DEF Tick, localVars, history, Reached
    <2>2. "stray" \notin races' => Probed'
      BY <1>3, NoRace DEF Tick, breakerVars, counters, localVars, history, Probed
    <2> QED
      BY <1>1, <2>1, <2>2
  <1>4. ASSUME NEW d \in Callers, Act(d), races' = races \cup Racing' PROVE ProbesInv'
    BY <1>1, <1>4, NoRace, ReachedStep, ProbedStep
  <1> QED
    BY <1>2, <1>3, <1>4, Steps

(* on_success closes the breaker on success_threshold successes of the     *)
(* half-open spell, counted by any number of tasks, as long as no success  *)
(* comes in from before; a failure in between starts the count anew.       *)
THEOREM ClosesAfterProbes == Spec => ClosesOnProbes
PROOF
  <1>1. Init => ProbesInv
    BY InitTyped DEF Init, ProbesInv, Reached, Probed, Stray, Counted, Zeroed
  <1>2. ProbesInv /\ [Next]_vars =>
          [\A c \in Callers :
             "stray" \notin races /\ pc[c] = "s_close" /\ pc'[c] # "s_close" /\ state = "HALF_OPEN"
               => probes >= success_threshold]_vars
    <2> SUFFICES ASSUME ProbesInv, NEW c \in Callers,
                        "stray" \notin races, pc[c] = "s_close", state = "HALF_OPEN"
                 PROVE  probes >= success_threshold
      OBVIOUS
    <2>1. count[c] <= probes /\ success_threshold <= count[c] /\ count[c] \in Nat /\ probes \in Nat
      BY DEF ProbesInv, Probed, Reached, Counted, TypeInv, TypeOK
    <2> QED
      BY <2>1, BreakerAssumption DEF BreakerAssumption
  <1> QED
    BY <1>1, <1>2, ProbesStep, PTL DEF Spec, ClosesOnProbes
================================================================================
