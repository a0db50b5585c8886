------------------------------- MODULE Snowflake -------------------------------
(***************************************************************************)
(* SnowflakeAlgorithm (core/algorithm/snowflake.rs): generate and          *)
(* batch_generate called concurrently on one instance, one action per      *)
(* access to its two atomics, sequence and last_timestamp.  An id is the   *)
(* pair <<timestamp, sequence>>; datacenter and worker are those of the    *)
(* instance.  The system clock may step back.                              *)
(***************************************************************************)
EXTENDS Integers, Sequences

CONSTANTS
  Calls,       \* the calls under way
  Singles,     \* those that are calls of generate; the rest are batches
  SizeOf,      \* the size argument of each, 1 for generate
  Sequences,   \* sequence numbers in a millisecond: sequence_mask + 1
  Threshold,   \* clock_drift_threshold_ms
  MaxRetries,  \* MAX_RETRIES of batch_generate
  MaxClock,    \* bound: the clock stops there
  MaxBacks     \* bound: how often the clock steps back

ASSUME SnowflakeAssumption ==
  /\ Singles \subseteq Calls
  /\ SizeOf \in [Calls -> Nat \ {0}] /\ \A c \in Singles : SizeOf[c] = 1
  /\ Sequences \in Nat \ {0} /\ Threshold \in Nat /\ MaxRetries \in Nat \ {0}
  /\ MaxClock \in Nat \ {0} /\ MaxBacks \in Nat

VARIABLES
  clock,            \* milliseconds of the system clock since epoch_start
  backs,            \* how often it stepped back
  sequence,         \* the AtomicU64 of that name
  last_timestamp,   \* the AtomicU64 of that name
  clock_drift_ms,   \* the AtomicU64 of that name
  pc,               \* where each call stands
  ts,               \* the timestamp it goes by
  past,             \* the timestamp that wait_for_next_ms waits to pass
  retries,          \* failed attempts of a batch
  ids,              \* the ids each call has made, in order
  raced             \* history: whether a restart of the sequence was disturbed

clockVars == <<clock, backs>>
instVars  == <<sequence, last_timestamp, clock_drift_ms>>
callVars  == <<pc, ts, past, retries, ids>>
vars == <<clockVars, instVars, callVars, raced>>

Ended == {"done", "failed", "dropped"}

Goto(c, there) == pc' = [pc EXCEPT ![c] = there]

(* The number seq wrapped round: it is a multiple of the sequences there are. *)
Wrapped(seq) == seq > 0 /\ seq % Sequences = 0

(* construct_id: a call ends, or goes on to the next id of its batch. *)
Emit(c, seq) ==
  /\ ids' = [ids EXCEPT ![c] = Append(@, <<ts[c], seq % Sequences>>)]
  /\ Goto(c, IF Len(ids'[c]) = SizeOf[c] THEN "done" ELSE "clock")
  /\ UNCHANGED retries

(* generate returns the error; a batch retries and then returns what it has. *)
Error(c) ==
  /\ retries' = [retries EXCEPT ![c] = @ + 1]
  /\ Goto(c, IF c \in Singles THEN "failed"
             ELSE IF retries'[c] < MaxRetries THEN "clock"
             ELSE IF ids[c] = <<>> THEN "failed" ELSE "done")
  /\ UNCHANGED ids

--------------------------------------------------------------------------------
(* get_timestamp() *)
GetTimestamp(c) ==
  /\ pc[c] = "clock"
  /\ ts' = [ts EXCEPT ![c] = clock]
  /\ Goto(c, "last")
  /\ UNCHANGED <<clockVars, instVars, past, retries, ids>>

(* Mutant: a clock that is behind is taken as it is. *)
CompareTakesOld(c) ==
  /\ pc[c] = "last"
  /\ Goto(c, IF ts[c] = last_timestamp THEN "same" ELSE "zero")
  /\ UNCHANGED <<clockVars, instVars, ts, past, retries, ids>>

(* last_timestamp.load(), and the comparison with it. *)
Compare(c) ==
  LET drift == last_timestamp - ts[c]
  IN  /\ pc[c] = "last"
      /\ \/ /\ drift > 0
            /\ clock_drift_ms' = drift
            /\ past' = [past EXCEPT ![c] = last_timestamp]
            /\ IF drift > Threshold THEN Error(c)
               ELSE Goto(c, "wait") /\ UNCHANGED <<retries, ids>>
         \/ /\ drift = 0
            /\ Goto(c, "same")
            /\ UNCHANGED <<clock_drift_ms, past, retries, ids>>
         \/ /\ drift < 0
            /\ Goto(c, "zero")
            /\ UNCHANGED <<clock_drift_ms, past, retries, ids>>
      /\ UNCHANGED <<clockVars, sequence, last_timestamp, ts>>

(* timestamp = last_ts: fetch_add; a number that wrapped waits. *)
DrawSame(c) ==
  /\ pc[c] = "same"
  /\ sequence' = sequence + 1
  /\ IF Wrapped(sequence)
       THEN /\ past' = [past EXCEPT ![c] = ts[c]]
            /\ Goto(c, "wait")
            /\ UNCHANGED <<retries, ids>>
       ELSE Emit(c, sequence) /\ UNCHANGED past
  /\ UNCHANGED <<clockVars, last_timestamp, clock_drift_ms, ts>>

(* timestamp > last_ts: sequence.store(0) ... *)
StoreSequence(c) ==
  /\ pc[c] = "zero"
  /\ sequence' = 0
  /\ Goto(c, "mark")
  /\ UNCHANGED <<clockVars, last_timestamp, clock_drift_ms, ts, past, retries, ids>>

(* ... last_timestamp.store(timestamp) ... *)
StoreTimestamp(c) ==
  /\ pc[c] = "mark"
  /\ last_timestamp' = ts[c]
  /\ Goto(c, "draw")
  /\ UNCHANGED <<clockVars, sequence, clock_drift_ms, ts, past, retries, ids>>

(* Mutant: the first id of a millisecond does not advance the sequence. *)
DrawFirstLoad(c) ==
  /\ pc[c] = "draw"
  /\ Emit(c, sequence)
  /\ UNCHANGED <<clockVars, sequence, last_timestamp, clock_drift_ms, ts, past>>

(* ... and fetch_add, with no look at whether it wrapped. *)
DrawFirst(c) ==
  /\ pc[c] = "draw"
  /\ sequence' = sequence + 1
  /\ Emit(c, sequence)
  /\ UNCHANGED <<clockVars, last_timestamp, clock_drift_ms, ts, past>>

(* Mutant: >= for >. *)
WaitForThisMs(c) ==
  /\ pc[c] = "wait"
  /\ clock >= past[c]
  /\ ts' = [ts EXCEPT ![c] = clock]
  /\ Goto(c, "setmark")
  /\ UNCHANGED <<clockVars, instVars, past, retries, ids>>

(* wait_for_next_ms: until the clock is past the last timestamp. *)
WaitForNextMs(c) ==
  /\ pc[c] = "wait"
  /\ clock > past[c]
  /\ ts' = [ts EXCEPT ![c] = clock]
  /\ Goto(c, "setmark")
  /\ UNCHANGED <<clockVars, instVars, past, retries, ids>>

(* The caller's future is dropped while it sleeps there.  (The sleep before *)
(* a batch tries again touches nothing: a batch that is dropped there is   *)
(* one that takes no further step.)                                        *)
Drop(c) ==
  /\ pc[c] = "wait"
  /\ Goto(c, "dropped")
  /\ UNCHANGED <<clockVars, instVars, ts, past, retries, ids>>

(* generate_id_with_timestamp: last_timestamp.store, sequence.store(0), ... *)
SetTimestamp(c) ==
  /\ pc[c] = "setmark"
  /\ last_timestamp' = ts[c]
  /\ Goto(c, "setzero")
  /\ UNCHANGED <<clockVars, sequence, clock_drift_ms, ts, past, retries, ids>>

SetSequence(c) ==
  /\ pc[c] = "setzero"
  /\ sequence' = 0
  /\ Goto(c, "drawnext")
  /\ UNCHANGED <<clockVars, last_timestamp, clock_drift_ms, ts, past, retries, ids>>

(* ... fetch_add; a number that wrapped is an error here. *)
DrawNext(c) ==
  /\ pc[c] = "drawnext"
  /\ sequence' = sequence + 1
  /\ IF Wrapped(sequence) THEN Error(c) ELSE Emit(c, sequence)
  /\ UNCHANGED <<clockVars, last_timestamp, clock_drift_ms, ts, past>>

--------------------------------------------------------------------------------
(* The system clock advances, or is set back. *)
Tick ==
  /\ clock < MaxClock
  /\ clock' = clock + 1
  /\ UNCHANGED <<backs, instVars, callVars>>

StepBack ==
  /\ backs < MaxBacks
  /\ backs' = backs + 1
  /\ clock' \in 1..(clock - 1)
  /\ UNCHANGED <<instVars, callVars>>

Init ==
  /\ clock = 1 /\ backs = 0
  /\ sequence = 0 /\ last_timestamp = 0 /\ clock_drift_ms = 0
  /\ pc = [c \in Calls |-> "clock"]
  /\ ts = [c \in Calls |-> 0]
  /\ past = [c \in Calls |-> 0]
  /\ retries = [c \in Calls |-> 0]
  /\ ids = [c \in Calls |-> <<>>]
  /\ raced = FALSE

CallStep(c) ==
  \/ GetTimestamp(c) \/ Compare(c) \/ DrawSame(c)
  \/ StoreSequence(c) \/ StoreTimestamp(c) \/ DrawFirst(c)
  \/ WaitForNextMs(c) \/ Drop(c) \/ SetTimestamp(c) \/ SetSequence(c) \/ DrawNext(c)

(* What sequence and last_timestamp, two atomics, do not stand: a call that *)
(* goes by what it compared while another is between its stores to the two; *)
(* numbers drawn on after one wrapped, since only the call that drew that  *)
(* one waits, if it is not dropped; and a first draw that comes when the   *)
(* numbers of its millisecond are used up.                                 *)
Inside(c) == pc[c] \notin {"clock", "last"} \cup Ended

Racing ==
  \/ \E c, d \in Calls : c # d /\ pc[c] \in {"mark", "setzero"} /\ Inside(d)
  \/ sequence > Sequences + 1
  \/ sequence >= Sequences /\ \E c \in Calls : pc[c] = "draw"

(* Every call has ended, or waits for a clock that the bound has stopped. *)
Rest ==
  /\ \A c \in Calls : pc[c] \in Ended \/ (pc[c] = "wait" /\ clock = MaxClock)
  /\ UNCHANGED vars

Next ==
  \/ /\ (\E c \in Calls : CallStep(c)) \/ Tick \/ StepBack
     /\ raced' = (raced \/ Racing')
  \/ Rest

Spec == Init /\ [][Next]_vars

--------------------------------------------------------------------------------
(* Properties *)

(* The range of each atomic and of each local of generate_id.              *)
TypeOK ==
  /\ clock \in 1..MaxClock /\ backs \in 0..MaxBacks
  /\ sequence \in Nat /\ last_timestamp \in 0..MaxClock
  /\ clock_drift_ms \in 0..MaxClock
  /\ pc \in [Calls -> {"clock", "last", "same", "zero", "mark", "draw",
                       "wait", "setmark", "setzero", "drawnext"} \cup Ended]
  /\ ts \in [Calls -> 0..MaxClock] /\ past \in [Calls -> 0..MaxClock]
  /\ retries \in [Calls -> 0..MaxRetries]
  /\ ids \in [Calls -> Seq((1..MaxClock) \X (0..(Sequences - 1)))]
  /\ raced \in BOOLEAN

(* generate_id: no id is made twice, neither by one call nor by two that   *)
(* run at the same time, as long as nothing disturbs a restart of the      *)
(* sequence (Racing): calls may read the clock and the last timestamp and  *)
(* draw from one millisecond together, be dropped, and wait.               *)
UniqueIds ==
  ~raced => \A c, d \in Calls : \A i \in DOMAIN ids[c], j \in DOMAIN ids[d] :
              ids[c][i] = ids[d][j] => c = d /\ i = j

(* Until then each batch makes its ids in ascending order, whatever the    *)
(* clock does between two of them, however often the sequence wraps and    *)
(* whatever other calls draw in between.                                   *)
Before(a, b) == a[1] < b[1] \/ (a[1] = b[1] /\ a[2] < b[2])
Ascending ==
  ~raced => \A c \in Calls : \A i, j \in DOMAIN ids[c] :
              i < j => Before(ids[c][i], ids[c][j])

(* Until then last_timestamp never falls behind an id that any call made:  *)
(* the check for a clock that moved backwards compares with the latest one. *)
NoneAhead ==
  ~raced => \A c \in Calls : \A i \in DOMAIN ids[c] : ids[c][i][1] <= last_timestamp
================================================================================
