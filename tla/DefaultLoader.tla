----------------------------- MODULE DefaultLoader -----------------------------
(***************************************************************************)
(* The double buffer with the loader that SegmentAlgorithm::new installs   *)
(* and SegmentFactory keeps: DefaultSegmentLoader answers from the clock   *)
(* and leaves the database alone (hwm keeps its initial value).            *)
(***************************************************************************)
EXTENDS SegmentBuffer

CONSTANTS
  PerSecond,   \* ids that the base advances by in a second: 10000
  Span,        \* ids in a range: 1000000
  MaxSeconds   \* bound: the clock stops there

ASSUME ClockAssumption ==
  PerSecond \in Nat \ {0} /\ Span \in Nat \ {0} /\ MaxSeconds \in Nat

VARIABLES
  now,         \* the system time in seconds
  loadedAt     \* history: when each segment was loaded

clockVars == <<now, loadedAt>>

(* Mutant: the reading of the clock is rounded to a second, not truncated. *)
DefaultLoaderAnswersEarly(c) ==
  \E second \in {now, now + 1} :
    /\ LoadedRange(c, second * PerSecond, second * PerSecond + Span)
    /\ loadedAt' = [loadedAt EXCEPT ![loads + 1] = now]
    /\ UNCHANGED <<hwm, now>>

(* load_segment: the range starts at the second it is loaded in. *)
DefaultLoaderAnswers(c) ==
  /\ LoadedRange(c, now * PerSecond, now * PerSecond + Span)
  /\ loadedAt' = [loadedAt EXCEPT ![loads + 1] = now]
  /\ UNCHANGED <<hwm, now>>

Tick ==
  /\ now < MaxSeconds
  /\ now' = now + 1
  /\ UNCHANGED <<vars, loadedAt>>

DefaultInit ==
  /\ Init
  /\ now = 1
  /\ loadedAt = [s \in SegIds |-> 0]

DefaultNext ==
  \/ \E c \in Calls :
       \/ DefaultLoaderAnswers(c)
       \/ (Poll(c) \/ CallStep(c) \/ LoaderFails(c) \/ Disconnect(c)) /\ UNCHANGED clockVars
  \/ Tick
  \/ (Restart \/ Quiescent) /\ UNCHANGED clockVars

DefaultSpec == DefaultInit /\ [][DefaultNext]_<<vars, clockVars>>

--------------------------------------------------------------------------------
(* Loads so far apart that the clock has passed the end of a range before  *)
(* the next one is made: 100 seconds with the code's numbers.              *)
Spaced ==
  \A s, t \in 1..loads :
    s < t => (loadedAt[t] - loadedAt[s]) * PerSecond >= Span

(* What the clock does give: as long as loads are spaced, no id is         *)
(* returned twice, through restarts too.                                   *)
SpacedUnique == Spaced => UniqueIds
================================================================================
