----------------------------- MODULE SnowflakeProofs -----------------------------
(***************************************************************************)
(* Proofs about Snowflake: the types, and the ids that concurrent calls    *)
(* make, for every number of calls, size of batch, length of the sequence, *)
(* threshold and course of the clock.                                      *)
(***************************************************************************)
EXTENDS Snowflake, TLAPS

Steps == {"clock", "last", "same", "zero", "mark", "draw", "wait", "setmark", "setzero",
          "drawnext"}
IdPair == (1..MaxClock) \X (0..(Sequences - 1))

LEMMA SmallMod ==
  /\ Sequences % Sequences = 0
  /\ \A q \in 0..(Sequences - 1) : q % Sequences = q
  /\ \A q \in Nat : q % Sequences \in 0..(Sequences - 1)
  BY SnowflakeAssumption DEF SnowflakeAssumption

(* A call that goes on has read the clock where it needs to, and has an    *)
(* attempt left.                                                           *)
TsRead == \A c \in Calls : pc[c] \in Steps \ {"clock"} => ts[c] \in 1..MaxClock
RetriesLeft == \A c \in Calls : pc[c] \in Steps => retries[c] < MaxRetries

TypeInv == TypeOK /\ TsRead /\ RetriesLeft

LEMMA InitTyped == Init => TypeInv
PROOF
  <1> SUFFICES ASSUME Init PROVE TypeInv
    OBVIOUS
  <1>1. 1 \in 1..MaxClock /\ 0 \in 0..MaxClock /\ 0 \in 0..MaxBacks /\ 0 \in 0..MaxRetries
        /\ 0 < MaxRetries
    BY SnowflakeAssumption DEF SnowflakeAssumption
  <1>2. <<>> \in Seq(IdPair)
    OBVIOUS
  <1>3. TypeOK
    BY <1>1, <1>2 DEF Init, TypeOK, IdPair
  <1> QED
    BY <1>1, <1>3 DEF Init, TypeInv, TsRead, RetriesLeft, Steps

(* What Emit and Error do to the types. *)
LEMMA EmitTyped ==
  ASSUME TypeInv, NEW c \in Calls, pc[c] \in Steps \ {"clock"}, Emit(c, sequence)
  PROVE  /\ ids' \in [Calls -> Seq(IdPair)] /\ retries' = retries
         /\ pc' \in [Calls -> Steps \cup Ended] /\ pc'[c] \in {"clock"} \cup Ended
         /\ \A d \in Calls \ {c} : pc'[d] = pc[d]
PROOF
  <1>1. <<ts[c], sequence % Sequences>> \in IdPair
    BY SmallMod DEF TypeInv, TypeOK, TsRead, IdPair
  <1>2. ids[c] \in Seq(IdPair)
    BY DEF TypeInv, TypeOK, IdPair
  <1>3. Append(ids[c], <<ts[c], sequence % Sequences>>) \in Seq(IdPair)
    BY <1>1, <1>2
  <1>4. ids' \in [Calls -> Seq(IdPair)]
    BY <1>3 DEF Emit, TypeInv, TypeOK, IdPair
  <1>5. pc' = [pc EXCEPT ![c] = pc'[c]] /\ pc'[c] \in {"clock", "done"}
    BY DEF Emit, Goto, TypeInv, TypeOK
  <1> QED
    BY <1>4, <1>5 DEF Emit, TypeInv, TypeOK, Steps, Ended

LEMMA ErrorTyped ==
  ASSUME TypeInv, NEW c \in Calls, pc[c] \in Steps, Error(c)
  PROVE  /\ ids' = ids /\ retries' \in [Calls -> 0..MaxRetries]
         /\ pc' \in [Calls -> Steps \cup Ended] /\ pc'[c] \in {"clock"} \cup Ended
         /\ \A d \in Calls \ {c} : pc'[d] = pc[d] /\ retries'[d] = retries[d]
         /\ pc'[c] = "clock" => retries'[c] < MaxRetries
PROOF
  <1>1. retries[c] \in 0..MaxRetries /\ retries[c] < MaxRetries
    BY DEF TypeInv, TypeOK, RetriesLeft
  <1>2. retries' = [retries EXCEPT ![c] = retries[c] + 1] /\ retries'[c] = retries[c] + 1
    BY DEF Error, TypeInv, TypeOK
  <1>3. retries' \in [Calls -> 0..MaxRetries]
    BY <1>1, <1>2, SnowflakeAssumption DEF TypeInv, TypeOK, SnowflakeAssumption
  <1>4. pc' = [pc EXCEPT ![c] = pc'[c]] /\ pc'[c] \in {"clock", "done", "failed"}
        /\ (pc'[c] = "clock" => retries'[c] < MaxRetries)
    BY DEF Error, Goto, TypeInv, TypeOK
  <1> QED
    BY <1>2, <1>3, <1>4 DEF Error, TypeInv, TypeOK, Steps, Ended

LEMMA StepTyped == TypeInv /\ [Next]_vars => TypeInv'
PROOF
  <1> SUFFICES ASSUME TypeInv, [Next]_vars PROVE TypeInv'
    OBVIOUS
  <1>a. /\ MaxClock \in Nat \ {0} /\ MaxBacks \in Nat /\ MaxRetries \in Nat \ {0}
    BY SnowflakeAssumption DEF SnowflakeAssumption
  <1>b. raced' \in BOOLEAN
    BY DEF Next, Rest, vars, TypeInv, TypeOK
  <1> USE <1>a, <1>b DEF TypeInv, TsRead, RetriesLeft, instVars, clockVars, callVars
  <1>1. ASSUME NEW c \in Calls, GetTimestamp(c) PROVE TypeInv'
    BY <1>1 DEF GetTimestamp, Goto, TypeOK, Steps, Ended
  <1>2. ASSUME NEW c \in Calls, Compare(c) PROVE TypeInv'
    <2>1. CASE last_timestamp - ts[c] > 0
      <3>1. clock_drift_ms' \in 0..MaxClock /\ past' \in [Calls -> 0..MaxClock]
        <4>1. ts[c] \in 0..MaxClock /\ last_timestamp \in 0..MaxClock
          BY DEF TypeOK
        <4>2. clock_drift_ms' = last_timestamp - ts[c] /\ past' = [past EXCEPT ![c] = last_timestamp]
          BY <1>2, <2>1, <4>1 DEF Compare
        <4>3. clock_drift_ms' \in 0..MaxClock
          BY <2>1, <4>1, <4>2
        <4> QED
          BY <4>1, <4>2, <4>3 DEF TypeOK
      <3>2. CASE Error(c)
        BY <1>2, <3>1, <3>2, ErrorTyped DEF Compare, TypeOK, Steps, Ended, IdPair
      <3>3. CASE Goto(c, "wait") /\ UNCHANGED <<retries, ids>>
        BY <1>2, <3>1, <3>3 DEF Compare, Goto, TypeOK, Steps, Ended
      <3>4. last_timestamp - ts[c] \in Int
        BY DEF TypeOK
      <3>5. Error(c) \/ (Goto(c, "wait") /\ UNCHANGED <<retries, ids>>)
        BY <1>2, <2>1, <3>4 DEF Compare
      <3> QED
        BY <3>2, <3>3, <3>5
    <2>2. CASE ~(last_timestamp - ts[c] > 0)
      BY <1>2, <2>2 DEF Compare, Goto, TypeOK, Steps, Ended
    <2> QED
      BY <2>1, <2>2
  <1>3. ASSUME NEW c \in Calls, DrawSame(c) PROVE TypeInv'
    <2>1. CASE Wrapped(sequence)
      <3>0. past' = [past EXCEPT ![c] = ts[c]] /\ sequence' = sequence + 1
        BY <1>3, <2>1 DEF DrawSame
      <3>1. sequence' \in Nat /\ past' \in [Calls -> 0..MaxClock]
        BY <3>0 DEF TypeOK
      <3>2. pc' = [pc EXCEPT ![c] = "wait"] /\ UNCHANGED <<retries, ids, ts>>
        BY <1>3, <2>1 DEF DrawSame, Goto
      <3> QED
        BY <1>3, <3>1, <3>2 DEF DrawSame, TypeOK, Steps, Ended
    <2>2. CASE ~Wrapped(sequence)
      <3>1. sequence' \in Nat
        BY <1>3 DEF DrawSame, TypeOK
      <3> QED
        BY <1>3, <2>2, <3>1, EmitTyped DEF DrawSame, TypeOK, Steps, Ended, IdPair
    <2> QED
      BY <2>1, <2>2
  <1>4. ASSUME NEW c \in Calls, StoreSequence(c) \/ StoreTimestamp(c) PROVE TypeInv'
    <2>1. sequence' \in Nat /\ last_timestamp' \in 0..MaxClock
      BY <1>4 DEF StoreSequence, StoreTimestamp, TypeOK
    <2>2. /\ pc[c] \in Steps \ {"clock"} /\ pc' = [pc EXCEPT ![c] = pc'[c]]
          /\ pc'[c] \in {"mark", "draw"}
      BY <1>4 DEF StoreSequence, StoreTimestamp, Goto, TypeOK, Steps
    <2> QED
      BY <1>4, <2>1, <2>2 DEF StoreSequence, StoreTimestamp, TypeOK, Steps, Ended
  <1>5. ASSUME NEW c \in Calls, DrawFirst(c) PROVE TypeInv'
    <2>1. sequence' \in Nat
      BY <1>5 DEF DrawFirst, TypeOK
    <2> QED
      BY <1>5, <2>1, EmitTyped DEF DrawFirst, TypeOK, Steps, Ended, IdPair
  <1>6. ASSUME NEW c \in Calls, WaitForNextMs(c) \/ Drop(c) PROVE TypeInv'
    <2>1. CASE WaitForNextMs(c)
      BY <2>1 DEF WaitForNextMs, Goto, TypeOK, Steps, Ended
    <2>2. CASE Drop(c)
      BY <2>2 DEF Drop, Goto, TypeOK, Steps, Ended
    <2> QED
      BY <1>6, <2>1, <2>2
  <1>7. ASSUME NEW c \in Calls, SetTimestamp(c) \/ SetSequence(c) PROVE TypeInv'
    <2>1. sequence' \in Nat /\ last_timestamp' \in 0..MaxClock
      BY <1>7 DEF SetTimestamp, SetSequence, TypeOK
    <2>2. /\ pc[c] \in Steps \ {"clock"} /\ pc' = [pc EXCEPT ![c] = pc'[c]]
          /\ pc'[c] \in {"setzero", "drawnext"}
      BY <1>7 DEF SetTimestamp, SetSequence, Goto, TypeOK, Steps
    <2> QED
      BY <1>7, <2>1, <2>2 DEF SetTimestamp, SetSequence, TypeOK, Steps, Ended
  <1>8. ASSUME NEW c \in Calls, DrawNext(c) PROVE TypeInv'
    <2>1. sequence' \in Nat
      BY <1>8 DEF DrawNext, TypeOK
    <2>2. CASE Error(c)
      BY <1>8, <2>1, <2>2, ErrorTyped DEF DrawNext, TypeOK, Steps, Ended, IdPair
    <2>3. CASE Emit(c, sequence)
      BY <1>8, <2>1, <2>3, EmitTyped DEF DrawNext, TypeOK, Steps, Ended, IdPair
    <2> QED
      BY <1>8, <2>2, <2>3 DEF DrawNext
  <1>9. CASE Tick \/ StepBack
    <2>1. clock' \in 1..MaxClock /\ backs' \in 0..MaxBacks
      BY <1>9 DEF Tick, StepBack, TypeOK
    <2> QED
      BY <1>9, <2>1 DEF Tick, StepBack, TypeOK
  <1>10. CASE Rest \/ UNCHANGED vars
    BY <1>10 DEF Rest, vars, TypeOK
  <1> QED
    BY <1>1, <1>2, <1>3, <1>4, <1>5, <1>6, <1>7, <1>8, <1>9, <1>10 DEF Next, CallStep

(* Every atomic and local keeps its range, for any number of calls. *)
THEOREM TypeCorrect == Spec => []TypeOK
PROOF
  <1>1. TypeInv => TypeOK
    BY DEF TypeInv
  <1> QED
    BY <1>1, InitTyped, StepTyped, PTL DEF Spec

--------------------------------------------------------------------------------
(* Until a restart of the sequence is disturbed, the ids of the millisecond *)
(* that last_timestamp names have sequence numbers below sequence, save    *)
(* while a call is between its stores to the two: there are none of that   *)
(* millisecond yet, or the sequence has just been set to zero.             *)

NoneOfThisMs == \A c \in Calls : \A i \in DOMAIN ids[c] : ids[c][i][1] < last_timestamp
BelowSequence ==
  \A c \in Calls : \A i \in DOMAIN ids[c] :
    ids[c][i][1] = last_timestamp => ids[c][i][2] < sequence

Between(c) == pc[c] \in {"mark", "setzero"}

Progress(c) ==
  /\ pc[c] \in {"same", "draw", "setzero", "drawnext"} => ts[c] = last_timestamp
  /\ pc[c] \in {"zero", "mark", "setmark"} => ts[c] > last_timestamp
  /\ pc[c] = "mark" => sequence = 0
  /\ pc[c] = "setzero" => NoneOfThisMs
  /\ pc[c] = "wait" => past[c] >= last_timestamp

IdsInv == NoneAhead /\ Ascending /\ UniqueIds

Calm ==
  /\ ~raced => ~Racing
  /\ ~raced => \A c \in Calls : Progress(c)
  /\ ~raced => BelowSequence \/ \E c \in Calls : Between(c)

SnowInv == TypeInv /\ IdsInv /\ Calm

(* The elements of the ids of a call. *)
LEMMA IdsForm ==
  ASSUME TypeInv, NEW c \in Calls
  PROVE  /\ ids[c] \in Seq(IdPair) /\ Len(ids[c]) \in Nat /\ DOMAIN ids[c] = 1..Len(ids[c])
         /\ \A i \in DOMAIN ids[c] : ids[c][i][1] \in Int /\ ids[c][i][2] \in Int
PROOF
  <1>1. ids[c] \in Seq(IdPair)
    BY DEF TypeInv, TypeOK, IdPair
  <1>2. \A i \in DOMAIN ids[c] : ids[c][i] \in IdPair
    BY <1>1
  <1>3. \A p \in IdPair : p[1] \in Int /\ p[2] \in Int
    BY SnowflakeAssumption DEF IdPair, SnowflakeAssumption
  <1> QED
    BY <1>1, <1>2, <1>3

(* Emit puts its id after those the call has, and every other stays. *)
IsNew(c, d, i) == d = c /\ i = Len(ids[c]) + 1 /\ ids'[d][i] = <<ts[c], sequence>>
IsOld(d, i)    == i \in DOMAIN ids[d] /\ ids'[d][i] = ids[d][i]

LEMMA EmitForm ==
  ASSUME NEW c \in Calls, TypeInv, pc[c] \in Steps \ {"clock"}, Emit(c, sequence),
         sequence < Sequences
  PROVE  \A d \in Calls : \A i \in DOMAIN ids'[d] : i \in Int /\ (IsNew(c, d, i) \/ IsOld(d, i))
PROOF
  <1> DEFINE new == <<ts[c], sequence>>
             n == Len(ids[c])
  <1>1. sequence \in 0..(Sequences - 1) /\ sequence % Sequences = sequence
    BY SnowflakeAssumption, SmallMod DEF TypeInv, TypeOK, SnowflakeAssumption
  <1>2. ids' = [ids EXCEPT ![c] = Append(ids[c], new)]
    BY <1>1 DEF Emit
  <1>3. new \in IdPair
    BY <1>1 DEF TypeInv, TypeOK, TsRead, IdPair
  <1>4. \A d \in Calls \ {c} : ids'[d] = ids[d]
    BY <1>2 DEF TypeInv, TypeOK
  <1>5. ids'[c] = Append(ids[c], new)
    BY <1>2 DEF TypeInv, TypeOK
  <1>6. ids[c] \in Seq(IdPair) /\ n \in Nat /\ DOMAIN ids[c] = 1..n
    BY IdsForm
  <1>7. /\ DOMAIN ids'[c] = 1..(n + 1) /\ ids'[c][n + 1] = new
        /\ \A i \in 1..n : ids'[c][i] = ids[c][i]
    BY <1>3, <1>5, <1>6
  <1> SUFFICES ASSUME NEW d \in Calls, NEW i \in DOMAIN ids'[d]
               PROVE  i \in Int /\ (IsNew(c, d, i) \/ IsOld(d, i))
    OBVIOUS
  <1>8. CASE d # c
    <2>1. ids'[d] = ids[d] /\ i \in 1..Len(ids[d]) /\ Len(ids[d]) \in Nat
      BY <1>4, <1>8, IdsForm
    <2> QED
      BY <2>1 DEF IsOld
  <1>9. CASE d = c
    <2>1. i \in 1..(n + 1)
      BY <1>7, <1>9
    <2>2. i \in 1..n \/ i = n + 1
      BY <1>6, <2>1
    <2>3. CASE i \in 1..n
      BY <1>6, <1>7, <1>9, <2>3 DEF IsOld
    <2>4. CASE i = n + 1
      BY <1>6, <1>7, <1>9, <2>4 DEF IsNew
    <2> QED
      BY <2>2, <2>3, <2>4
  <1> QED
    BY <1>8, <1>9

(* An id that is drawn with a number above those of its millisecond. *)
LEMMA EmitKeeps ==
  ASSUME NEW c \in Calls, TypeInv, IdsInv, pc[c] \in Steps \ {"clock"}, Emit(c, sequence),
         sequence < Sequences, ts[c] = last_timestamp, BelowSequence,
         last_timestamp' = last_timestamp, sequence' = sequence + 1, ~raced
  PROVE  IdsInv' /\ BelowSequence'
PROOF
  <1>1. sequence \in Nat /\ last_timestamp \in Int /\ Sequences \in Nat
    BY SnowflakeAssumption DEF TypeInv, TypeOK, SnowflakeAssumption
  <1>2. \A d \in Calls : \A i \in DOMAIN ids'[d] : i \in Int /\ (IsNew(c, d, i) \/ IsOld(d, i))
    BY EmitForm
  <1>3. \A d \in Calls : \A i \in DOMAIN ids[d] :
          /\ i \in Int /\ ids[d][i][1] \in Int /\ ids[d][i][2] \in Int
          /\ ids[d][i][1] <= last_timestamp
          /\ ids[d][i][1] = last_timestamp => ids[d][i][2] < sequence
          /\ d = c => i < Len(ids[c]) + 1
    BY IdsForm DEF IdsInv, NoneAhead, BelowSequence
  <1>4. NoneAhead' /\ BelowSequence'
    <2> SUFFICES ASSUME NEW d \in Calls, NEW i \in DOMAIN ids'[d]
                 PROVE  /\ ids'[d][i][1] <= last_timestamp
                        /\ ids'[d][i][1] = last_timestamp => ids'[d][i][2] < sequence + 1
      BY <1>1 DEF NoneAhead, BelowSequence
    <2>1. CASE IsNew(c, d, i)
      BY <1>1, <2>1 DEF IsNew
    <2>2. CASE IsOld(d, i)
      BY <1>1, <1>3, <2>2 DEF IsOld
    <2> QED
      BY <1>2, <2>1, <2>2
  <1>5. Ascending'
    <2> SUFFICES ASSUME NEW d \in Calls, NEW i \in DOMAIN ids'[d], NEW j \in DOMAIN ids'[d], i < j
                 PROVE  Before(ids'[d][i], ids'[d][j])
      BY DEF Ascending
    <2>1. CASE IsOld(d, i) /\ IsOld(d, j)
      BY <2>1 DEF IsOld, IdsInv, Ascending
    <2>2. CASE IsOld(d, i) /\ IsNew(c, d, j)
      BY <1>1, <1>3, <2>2 DEF IsOld, IsNew, Before
    <2>3. CASE IsNew(c, d, i) /\ IsOld(d, j)
      BY <1>2, <1>3, <2>3, IdsForm DEF IsOld, IsNew
    <2>4. CASE IsNew(c, d, i) /\ IsNew(c, d, j)
      BY <1>2, <2>4 DEF IsNew
    <2> QED
      BY <1>2, <2>1, <2>2, <2>3, <2>4
  <1>6. UniqueIds'
    <2> SUFFICES ASSUME NEW d \in Calls, NEW e \in Calls,
                        NEW i \in DOMAIN ids'[d], NEW j \in DOMAIN ids'[e],
                        ids'[d][i] = ids'[e][j]
                 PROVE  d = e /\ i = j
      BY DEF UniqueIds
    <2>0. UniqueIds
      BY DEF IdsInv
    <2>1. CASE IsOld(d, i) /\ IsOld(e, j)
      <3>1. i \in DOMAIN ids[d] /\ j \in DOMAIN ids[e] /\ ids[d][i] = ids[e][j]
        BY <2>1 DEF IsOld
      <3> QED
        BY <2>0, <3>1 DEF UniqueIds
    <2>2. CASE IsOld(d, i) /\ IsNew(c, e, j)
      <3>1. i \in DOMAIN ids[d] /\ ids[d][i] = <<ts[c], sequence>>
        BY <2>2 DEF IsOld, IsNew
      <3>2. ids[d][i][1] = last_timestamp /\ ids[d][i][2] = sequence
        BY <3>1
      <3> QED
        BY <1>1, <1>3, <3>1, <3>2
    <2>3. CASE IsNew(c, d, i) /\ IsOld(e, j)
      <3>1. j \in DOMAIN ids[e] /\ ids[e][j] = <<ts[c], sequence>>
        BY <2>3 DEF IsOld, IsNew
      <3>2. ids[e][j][1] = last_timestamp /\ ids[e][j][2] = sequence
        BY <3>1
      <3> QED
        BY <1>1, <1>3, <3>1, <3>2
    <2>4. CASE IsNew(c, d, i) /\ IsNew(c, e, j)
      BY <2>4 DEF IsNew
    <2> QED
      BY <1>2, <2>1, <2>2, <2>3, <2>4
  <1> QED
    BY <1>4, <1>5, <1>6 DEF IdsInv

(* A step that makes no id and does not set last_timestamp back. *)
LEMMA NoIdKeeps ==
  ASSUME TypeInv, IdsInv, ~raced, ids' = ids, last_timestamp' \in Int, last_timestamp' >= last_timestamp
  PROVE  IdsInv' /\ (last_timestamp' > last_timestamp => NoneOfThisMs')
PROOF
  <1>1. \A c \in Calls : \A i \in DOMAIN ids[c] : ids[c][i][1] \in Int
    BY IdsForm
  <1>2. last_timestamp \in Int
    BY DEF TypeInv, TypeOK
  <1> QED
    BY <1>1, <1>2 DEF IdsInv, NoneAhead, Ascending, UniqueIds, NoneOfThisMs

(* A step of one call leaves the locals of the others as they are. *)
LEMMA OthersStay ==
  ASSUME TypeInv, NEW c \in Calls, CallStep(c), NEW d \in Calls \ {c}
  PROVE  pc'[d] = pc[d] /\ ts'[d] = ts[d] /\ past'[d] = past[d]
PROOF
  <1>1. (\E l : Goto(c, l)) \/ Emit(c, sequence) \/ Error(c)
    BY DEF CallStep, GetTimestamp, Compare, DrawSame, StoreSequence, StoreTimestamp, DrawFirst,
           WaitForNextMs, Drop, SetTimestamp, SetSequence, DrawNext
  <1>2. pc'[d] = pc[d]
    BY <1>1 DEF Emit, Error, Goto, TypeInv, TypeOK
  <1>3. ts'[d] = ts[d]
    BY DEF CallStep, GetTimestamp, Compare, DrawSame, StoreSequence, StoreTimestamp, DrawFirst,
           WaitForNextMs, Drop, SetTimestamp, SetSequence, DrawNext, TypeInv, TypeOK
  <1>4. past' = past \/ \E p : past' = [past EXCEPT ![c] = p]
    BY DEF CallStep, GetTimestamp, Compare, DrawSame, StoreSequence, StoreTimestamp, DrawFirst,
           WaitForNextMs, Drop, SetTimestamp, SetSequence, DrawNext
  <1> QED
    BY <1>2, <1>3, <1>4 DEF TypeInv, TypeOK

(* Nobody is inside generate_id beside a call between its two stores. *)
LEMMA AloneBetween ==
  ASSUME ~Racing, NEW c \in Calls, NEW d \in Calls, c # d, Between(c)
  PROVE  ~Inside(d)
  BY DEF Racing, Between

Kept == IdsInv' /\ (\A d \in Calls : Progress(d)') /\ (BelowSequence' \/ \E d \in Calls : Between(d)')

(* A step of a call that touches neither the two atomics nor its ids. *)
LEMMA QuietKeeps ==
  ASSUME SnowInv, ~raced, NEW c \in Calls, CallStep(c), ~Between(c), Progress(c)',
         sequence' = sequence, last_timestamp' = last_timestamp, ids' = ids
  PROVE  Kept
PROOF
  <1>a. TypeInv /\ IdsInv /\ last_timestamp \in Int
    BY DEF SnowInv, TypeInv, TypeOK
  <1>1. IdsInv'
    BY <1>a, NoIdKeeps
  <1>2. \A d \in Calls \ {c} : Progress(d)' /\ (Between(d) => Between(d)')
    BY <1>a, OthersStay DEF SnowInv, Calm, Progress, Between, NoneOfThisMs
  <1>3. BelowSequence' \/ \E d \in Calls : Between(d)'
    BY <1>2 DEF SnowInv, Calm, BelowSequence
  <1> QED
    BY <1>1, <1>2, <1>3 DEF Kept

LEMMA ReadKeeps ==
  ASSUME SnowInv, ~raced, NEW c \in Calls,
         GetTimestamp(c) \/ Compare(c) \/ WaitForNextMs(c) \/ Drop(c)
  PROVE  Kept
PROOF
  <1>a. /\ TypeInv /\ pc \in [Calls -> Steps \cup Ended] /\ Progress(c)
        /\ last_timestamp \in Int /\ ts[c] \in Int /\ past[c] \in Int /\ clock \in Int
        /\ past \in [Calls -> 0..MaxClock] /\ ts \in [Calls -> 0..MaxClock]
    BY DEF SnowInv, Calm, TypeInv, TypeOK, Steps
  <1>1. sequence' = sequence /\ last_timestamp' = last_timestamp /\ ids' = ids
    BY DEF GetTimestamp, Compare, WaitForNextMs, Drop, Error, instVars
  <1>2. CallStep(c) /\ ~Between(c)
    BY DEF CallStep, GetTimestamp, Compare, WaitForNextMs, Drop, Between
  <1>3. Progress(c)'
    <2>1. CASE GetTimestamp(c) \/ Drop(c)
      <3>1. pc'[c] \in {"last", "dropped"}
        BY <1>a, <2>1 DEF GetTimestamp, Drop, Goto
      <3> QED
        BY <3>1 DEF Progress
    <2>2. CASE WaitForNextMs(c)
      <3>1. pc'[c] = "setmark" /\ ts'[c] = clock /\ clock > past[c] /\ past[c] >= last_timestamp
        BY <1>a, <2>2 DEF WaitForNextMs, Goto, Progress
      <3> QED
        BY <1>a, <1>1, <3>1 DEF Progress
    <2>3. CASE Compare(c)
      <3>1. CASE Error(c)
        <4>1. pc'[c] \in {"clock"} \cup Ended
          BY <1>a, <2>3, <3>1, ErrorTyped DEF Compare, Steps
        <4> QED
          BY <4>1 DEF Progress, Ended
      <3>2. CASE ~Error(c)
        <4>1. \/ Goto(c, "wait") /\ past' = [past EXCEPT ![c] = last_timestamp]
              \/ Goto(c, "same") /\ last_timestamp - ts[c] = 0
              \/ Goto(c, "zero") /\ last_timestamp - ts[c] < 0
          BY <2>3, <3>2 DEF Compare
        <4>2. \/ pc'[c] = "wait" /\ past'[c] = last_timestamp
              \/ pc'[c] = "same" /\ ts[c] = last_timestamp
              \/ pc'[c] = "zero" /\ ts[c] > last_timestamp
          BY <1>a, <4>1 DEF Goto
        <4>3. ts' = ts
          BY <2>3 DEF Compare
        <4> QED
          BY <1>a, <1>1, <4>2, <4>3 DEF Progress
      <3> QED
        BY <3>1, <3>2
    <2> QED
      BY <2>1, <2>2, <2>3
  <1> QED
    BY <1>1, <1>2, <1>3, QuietKeeps

(* A draw: its number is above those of its millisecond, whoever drew them, *)
(* and below the length of the sequence unless it wrapped.                  *)
LEMMA DrawKeeps ==
  ASSUME SnowInv, ~raced, ~Racing', NEW c \in Calls,
         DrawSame(c) \/ DrawFirst(c) \/ DrawNext(c)
  PROVE  Kept
PROOF
  <1>a. /\ TypeInv /\ IdsInv /\ Progress(c) /\ ~Racing
        /\ sequence \in Nat /\ Sequences \in Nat \ {0} /\ last_timestamp \in Int
        /\ pc \in [Calls -> Steps \cup Ended] /\ past \in [Calls -> 0..MaxClock]
    BY SnowflakeAssumption DEF SnowInv, Calm, TypeInv, TypeOK, Steps, SnowflakeAssumption
  <1>1. /\ pc[c] \in {"same", "draw", "drawnext"} /\ pc[c] \in Steps \ {"clock"}
        /\ ts[c] = last_timestamp /\ CallStep(c) /\ Inside(c)
        /\ sequence' = sequence + 1 /\ last_timestamp' = last_timestamp /\ ts' = ts
    BY <1>a DEF DrawSame, DrawFirst, DrawNext, Progress, CallStep, Inside, Steps, Ended
  <1>2. \A d \in Calls : ~Between(d)
    BY <1>a, <1>1, AloneBetween DEF Between
  <1>3. BelowSequence
    BY <1>2 DEF SnowInv, Calm
  <1>4. sequence <= Sequences /\ (DrawFirst(c) => sequence < Sequences)
    <2>1. sequence' <= Sequences + 1
      BY <1>a, <1>1 DEF Racing
    <2>2. DrawFirst(c) => sequence < Sequences
      BY <1>a, <1>1 DEF Racing, DrawFirst
    <2> QED
      BY <1>a, <1>1, <2>1, <2>2
  <1>5. /\ IdsInv' /\ BelowSequence'
        /\ pc'[c] \in {"clock"} \cup Ended \/ (pc'[c] = "wait" /\ past'[c] = last_timestamp)
    <2>1. CASE Emit(c, sequence) /\ sequence < Sequences
      BY <1>a, <1>1, <1>3, <2>1, EmitKeeps, EmitTyped
    <2>2. CASE ids' = ids
      <3>1. IdsInv'
        BY <1>a, <1>1, <2>2, NoIdKeeps
      <3>2. \A d \in Calls : \A i \in DOMAIN ids[d] : ids[d][i][2] \in Int
        BY <1>a, IdsForm
      <3>3. BelowSequence'
        BY <1>a, <1>1, <1>3, <2>2, <3>2 DEF BelowSequence
      <3>4. CASE DrawSame(c) /\ Wrapped(sequence)
        <4>1. Goto(c, "wait") /\ past' = [past EXCEPT ![c] = ts[c]]
          BY <3>4 DEF DrawSame
        <4> QED
          BY <1>a, <1>1, <3>1, <3>3, <4>1 DEF Goto
      <3>5. CASE Error(c) \/ Emit(c, sequence)
        BY <1>a, <1>1, <3>1, <3>3, <3>5, ErrorTyped, EmitTyped
      <3> QED
        BY <3>4, <3>5 DEF DrawSame, DrawFirst, DrawNext
    <2>3. Wrapped(sequence) \/ sequence < Sequences
      BY <1>a, <1>4, SmallMod DEF Wrapped
    <2>4. (Emit(c, sequence) /\ sequence < Sequences) \/ ids' = ids
      BY <1>4, <2>3 DEF DrawSame, DrawFirst, DrawNext, Error
    <2> QED
      BY <2>1, <2>2, <2>4
  <1>6. Progress(c)'
    BY <1>a, <1>1, <1>5 DEF Progress, Ended
  <1>7. \A d \in Calls \ {c} : Progress(d)'
    BY <1>a, <1>1, <1>2, OthersStay DEF SnowInv, Calm, Progress, Between
  <1> QED
    BY <1>5, <1>6, <1>7 DEF Kept

(* The stores that start a millisecond: nobody else is inside generate_id  *)
(* before or after, so that only the call's own stand matters.             *)
LEMMA RestartKeeps ==
  ASSUME SnowInv, ~raced, ~Racing', NEW c \in Calls,
         StoreSequence(c) \/ StoreTimestamp(c) \/ SetTimestamp(c) \/ SetSequence(c)
  PROVE  Kept
PROOF
  <1>a. /\ TypeInv /\ IdsInv /\ Progress(c) /\ ~Racing
        /\ last_timestamp \in Int /\ ts[c] \in Int /\ pc \in [Calls -> Steps \cup Ended]
    BY DEF SnowInv, Calm, TypeInv, TypeOK, Steps
  <1>1. /\ CallStep(c) /\ ids' = ids /\ ts' = ts
        /\ \/ pc[c] = "zero" /\ pc'[c] = "mark" /\ sequence' = 0
              /\ last_timestamp' = last_timestamp
           \/ pc[c] = "mark" /\ pc'[c] = "draw" /\ sequence' = sequence
              /\ last_timestamp' = ts[c]
           \/ pc[c] = "setmark" /\ pc'[c] = "setzero" /\ sequence' = sequence
              /\ last_timestamp' = ts[c]
           \/ pc[c] = "setzero" /\ pc'[c] = "drawnext" /\ sequence' = 0
              /\ last_timestamp' = last_timestamp
    BY <1>a DEF StoreSequence, StoreTimestamp, SetTimestamp, SetSequence, Goto, CallStep
  <1>2. \A d \in Calls \ {c} : pc'[d] = pc[d]
    BY <1>a, <1>1, OthersStay
  <1>3. \A d \in Calls \ {c} : pc'[d] \in {"clock", "last"} \cup Ended
    BY <1>a, <1>1, <1>2 DEF Racing, Inside
  <1>4. last_timestamp' \in Int /\ last_timestamp' >= last_timestamp
    BY <1>a, <1>1 DEF Progress
  <1>5. IdsInv' /\ (last_timestamp' > last_timestamp => NoneOfThisMs')
    BY <1>a, <1>1, <1>4, NoIdKeeps
  <1>6. pc'[c] \in {"draw", "setzero", "drawnext"} => NoneOfThisMs'
    BY <1>a, <1>1, <1>5 DEF Progress, NoneOfThisMs
  <1>7. Progress(c)'
    BY <1>a, <1>1, <1>6 DEF Progress
  <1>8. \A d \in Calls \ {c} : Progress(d)'
    BY <1>3 DEF Progress, Ended
  <1>9. BelowSequence' \/ Between(c)'
    <2>1. \A d \in Calls : \A i \in DOMAIN ids[d] : ids[d][i][1] \in Int
      BY <1>a, IdsForm
    <2>2. NoneOfThisMs' => BelowSequence'
      BY <1>1, <1>4, <2>1 DEF NoneOfThisMs, BelowSequence
    <2> QED
      BY <1>1, <1>6, <2>2 DEF Between
  <1> QED
    BY <1>5, <1>7, <1>8, <1>9 DEF Kept

LEMMA SnowStep == SnowInv /\ [Next]_vars => SnowInv'
PROOF
  <1> SUFFICES ASSUME SnowInv, [Next]_vars PROVE SnowInv'
    OBVIOUS
  <1>a. TypeInv /\ TypeInv'
    BY StepTyped DEF SnowInv
  <1>b. raced => raced'
    BY DEF Next, Rest, vars
  <1>1. CASE raced'
    BY <1>1, <1>a DEF SnowInv, Calm, IdsInv, NoneAhead, Ascending, UniqueIds
  <1>2. CASE ~raced' /\ UNCHANGED <<instVars, callVars>>
    <2>1. IdsInv'
      BY <1>2, <1>a, <1>b DEF instVars, callVars, SnowInv, IdsInv, NoneAhead, Ascending, UniqueIds
    <2>2. Calm'
      BY <1>2, <1>b
         DEF instVars, callVars, SnowInv, Calm, Racing, Inside, Progress, BelowSequence,
             NoneOfThisMs, Between
    <2> QED
      BY <1>a, <2>1, <2>2 DEF SnowInv
  <1>3. ASSUME ~raced', ~Racing', NEW c \in Calls, CallStep(c) PROVE SnowInv'
    <2>1. Kept
      BY <1>b, <1>3, ReadKeeps, DrawKeeps, RestartKeeps DEF CallStep
    <2> QED
      BY <1>a, <1>3, <2>1 DEF Kept, SnowInv, Calm
  <1>4. \/ \E c \in Calls : CallStep(c) /\ raced' = (raced \/ Racing')
        \/ UNCHANGED <<instVars, callVars>>
    BY DEF Next, Tick, StepBack, Rest, vars
  <1> QED
    BY <1>1, <1>2, <1>3, <1>4

LEMMA SnowInvariant == Spec => []SnowInv
PROOF
  <1>1. Init => SnowInv
    <2> SUFFICES ASSUME Init PROVE SnowInv
      OBVIOUS
    <2>1. /\ \A c \in Calls : pc[c] = "clock" /\ ids[c] = <<>>
          /\ sequence = 0 /\ Sequences \in Nat \ {0}
      BY SnowflakeAssumption DEF Init, SnowflakeAssumption
    <2>2. \A c \in Calls : DOMAIN ids[c] = {}
      <3>1. DOMAIN <<>> = {}
        OBVIOUS
      <3> QED
        BY <2>1, <3>1, Zenon
    <2>3. IdsInv /\ BelowSequence
      BY <2>1, <2>2 DEF IdsInv, NoneAhead, Ascending, UniqueIds, BelowSequence
    <2>4. ~Racing
      BY <2>1 DEF Racing
    <2> QED
      BY <2>1, <2>3, <2>4, InitTyped DEF SnowInv, Calm, Progress
  <1> QED
    BY <1>1, SnowStep, PTL DEF Spec

--------------------------------------------------------------------------------
(* Concurrent calls on one instance make no id twice, not in one call nor  *)
(* in two, until a restart of the sequence is disturbed: for every number  *)
(* of calls, size of batch, length of the sequence and course of the clock. *)
THEOREM Unique == Spec => []UniqueIds
PROOF
  <1>1. SnowInv => UniqueIds
    BY DEF SnowInv, IdsInv
  <1> QED
    BY <1>1, SnowInvariant, PTL

(* ... each call makes its ids in ascending order, whatever others draw in *)
(* between ...                                                             *)
THEOREM Ascends == Spec => []Ascending
PROOF
  <1>1. SnowInv => Ascending
    BY DEF SnowInv, IdsInv
  <1> QED
    BY <1>1, SnowInvariant, PTL

(* ... and last_timestamp never falls behind an id that any of them made,  *)
(* so that a clock that has been set back past one is seen to be behind.   *)
THEOREM NeverBehind == Spec => []NoneAhead
PROOF
  <1>1. SnowInv => NoneAhead
    BY DEF SnowInv, IdsInv
  <1> QED
    BY <1>1, SnowInvariant, PTL
=================================================================================
