-------------------------- MODULE SegmentBufferProofs --------------------------
(***************************************************************************)
(* Theorems about SegmentBuffer, for every number of calls and worker      *)
(* threads, every range size and every switch threshold: the cells keep    *)
(* their types, no id is returned twice, the buffer implements IdIssuer,   *)
(* try_start_loading admits one generate call at a time, swap() installs   *)
(* fresh segments, and an undisturbed call does not give up.  Last, what   *)
(* the clock-based loader of DefaultLoader gives.                          *)
(***************************************************************************)
EXTENDS DefaultLoader, FiniteSetTheorems, TLAPS

--------------------------------------------------------------------------------
(* What the code of one call's frame may hold. *)
FrameTyped ==
  /\ pc \in [Calls -> Locations]
  /\ running \subseteq Calls
  /\ mine \in [Calls -> SegIds]
  /\ took \in [Calls -> SegIds]
  /\ attempts \in [Calls -> 0..2]

LEMMA Zero == 0 \in SegIds /\ MaxLoads \in Nat
  BY SizeAssumption DEF SizeAssumption, SegIds

(* The ends of an iteration leave a well-typed frame. *)
LEMMA GotoTyped ==
  ASSUME TypeOK, NEW c \in Calls, NEW there \in Locations, Goto(c, there),
         UNCHANGED <<mine, took, attempts>>
  PROVE  FrameTyped'
  BY DEF TypeOK, Goto, FrameTyped

LEMMA ReturnTyped ==
  ASSUME TypeOK, NEW c \in Calls, NEW how \in Returned, Return(c, how)
  PROVE  FrameTyped'
<1>1. how \in Locations
  BY DEF Locations
<1> QED
  BY <1>1, Zero DEF TypeOK, Return, FrameTyped

LEMMA AgainTyped ==
  ASSUME TypeOK, NEW c \in Calls, Again(c)
  PROVE  FrameTyped'
<1>1. CASE c \in Generates /\ attempts[c] = 2
  <2>1. Return(c, "exhausted")
    BY <1>1 DEF Again
  <2> QED
    BY <2>1, ReturnTyped DEF Returned
<1>2. CASE ~(c \in Generates /\ attempts[c] = 2)
  <2>1. /\ Goto(c, "get") /\ UNCHANGED <<mine, took>>
        /\ attempts' = [attempts EXCEPT ![c] = IF c \in Generates THEN @ + 1 ELSE @]
    BY <1>2 DEF Again
  <2>2. attempts' \in [Calls -> 0..2]
    <3>1. attempts \in [Calls -> 0..2]
      BY DEF TypeOK
    <3>2. CASE c \in Generates
      <4>1. attempts' = [attempts EXCEPT ![c] = @ + 1] /\ attempts[c] # 2
        BY <1>2, <2>1, <3>2
      <4> QED
        BY <3>1, <4>1
    <3>3. CASE c \notin Generates
      <4>1. attempts' = [attempts EXCEPT ![c] = @]
        BY <2>1, <3>3
      <4> QED
        BY <3>1, <4>1
    <3> QED
      BY <3>2, <3>3
  <2> QED
    BY <2>1, <2>2 DEF Goto, TypeOK, FrameTyped, Locations
<1> QED
  BY <1>1, <1>2

LEMMA DisturbTyped ==
  ASSUME TypeOK, NEW c \in Calls, Disturb(c) \/ UNCHANGED disturbed
  PROVE  disturbed' \subseteq Calls
  BY DEF TypeOK, Disturb

LEMMA InitTyped == Init => TypeOK
<1> SUFFICES ASSUME Init PROVE TypeOK
  OBVIOUS
<1>1. seg \in [SegIds -> Segment]
  BY DEF Init, Segment, Empty
<1>2. loads \in SegIds /\ hwm \in Nat
  BY Zero DEF Init
<1>3. current \in SegIds /\ next \in SegIds \cup {None} /\ loading \in BOOLEAN
  BY Zero DEF Init
<1>4. got \in [Calls -> SUBSET Nat] /\ disturbed \subseteq Calls
  BY DEF Init
<1>5. FrameTyped
  BY Zero DEF Init, FrameTyped, Locations
<1> QED
  BY <1>1, <1>2, <1>3, <1>4, <1>5 DEF TypeOK, FrameTyped

LEMMA TypeStep == TypeOK /\ [Next]_vars => TypeOK'
<1> SUFFICES ASSUME TypeOK, [Next]_vars PROVE TypeOK'
  OBVIOUS
<1> DEFINE Frame == FrameTyped' /\ disturbed' \subseteq Calls
<1>0. ASSUME Frame, UNCHANGED <<bufferVars, loaderVars, got>>
      PROVE  TypeOK'
  BY <1>0 DEF FrameTyped, TypeOK, bufferVars, loaderVars
<1>1. ASSUME NEW c \in Calls, Poll(c) PROVE TypeOK'
  BY <1>1 DEF Poll, TypeOK, bufferVars, loaderVars
<1>2. ASSUME NEW c \in Calls, GetCurrent(c) PROVE TypeOK'
  BY <1>2 DEF GetCurrent, Goto, TypeOK, Locations, bufferVars, loaderVars
<1>3. ASSUME NEW c \in Calls, TryConsume(c) PROVE TypeOK'
  <2> DEFINE s   == mine[c]
             end == seg[s].current_id + Size(c)
  <2>1. /\ s \in SegIds
        /\ seg[s].current_id \in Nat /\ seg[s].max_id \in Nat
        /\ Size(c) \in Nat /\ end \in Nat
    BY SizeAssumption DEF TypeOK, Segment, Size, SizeAssumption
  <2>2. UNCHANGED <<bufferVars, loads, hwm>>
    BY <1>3 DEF TryConsume
  <2>3. CASE end <= seg[s].max_id
    <3>1. /\ seg' = [seg EXCEPT ![s].current_id = end]
          /\ got' = [got EXCEPT ![c] = seg[s].current_id..(end - 1)]
          /\ Return(c, "done") /\ Disturb(c)
      <4>1. ~(end > seg[s].max_id)
        BY <2>1, <2>3
      <4> QED
        BY <1>3, <4>1 DEF TryConsume
    <3>2. seg' \in [SegIds -> Segment]
      BY <2>1, <3>1 DEF TypeOK, Segment
    <3>3. got' \in [Calls -> SUBSET Nat]
      <4>1. seg[s].current_id..(end - 1) \in SUBSET Nat
        BY <2>1
      <4> HIDE DEF s, end
      <4> QED
        BY <3>1, <4>1 DEF TypeOK
    <3>4. FrameTyped' /\ disturbed' \subseteq Calls
      BY <3>1, ReturnTyped, DisturbTyped DEF Returned
    <3> HIDE DEF s, end
    <3> QED
      BY <2>2, <3>2, <3>3, <3>4 DEF TypeOK, FrameTyped, bufferVars
  <2>4. CASE ~(end <= seg[s].max_id)
    <3>1. Goto(c, "need") /\ UNCHANGED <<seg, got, mine, took, attempts, disturbed>>
      BY <1>3, <2>4 DEF TryConsume
    <3> QED
      BY <2>2, <3>1 DEF Goto, TypeOK, Locations, bufferVars
  <2> QED
    BY <2>3, <2>4
<1>4. ASSUME NEW c \in Calls, ReadCurrent(c) PROVE TypeOK'
  BY <1>4 DEF ReadCurrent, Goto, TypeOK, Locations, bufferVars, loaderVars
<1>5. ASSUME NEW c \in Calls, NeedSwitch(c) PROVE TypeOK'
  <2>1. UNCHANGED <<bufferVars, loaderVars, got, disturbed>>
    BY <1>5 DEF NeedSwitch
  <2>2. CASE Goto(c, "next") /\ UNCHANGED <<mine, took, attempts>>
    BY <1>0, <2>1, <2>2, GotoTyped, DisturbTyped DEF Locations
  <2>3. CASE Return(c, "exhausted") \/ Again(c)
    BY <1>0, <2>1, <2>3, ReturnTyped, AgainTyped, DisturbTyped DEF Returned
  <2> QED
    BY <1>5, <2>2, <2>3 DEF NeedSwitch
<1>6. ASSUME NEW c \in Calls, GetNext(c) PROVE TypeOK'
  BY <1>6 DEF GetNext, Goto, Await, TypeOK, Locations, Suspended, bufferVars, loaderVars
<1>7. ASSUME NEW c \in Calls, TryStartLoading(c) PROVE TypeOK'
  BY <1>7, DisturbTyped
     DEF TryStartLoading, Goto, Await, TypeOK, Locations, Suspended, loaderVars
<1>8. ASSUME NEW c \in Calls, LoaderAnswers(c) PROVE TypeOK'
  <2>1. PICK gap \in Gaps : /\ LoadedRange(c, hwm + gap, hwm + gap + Step)
                            /\ hwm' = hwm + gap + Step
    BY <1>8 DEF LoaderAnswers
  <2>2. gap \in Nat /\ Step \in Nat /\ hwm \in Nat
    BY SizeAssumption DEF SizeAssumption, TypeOK
  <2>3. loads + 1 \in SegIds /\ loads' = loads + 1
    BY <2>1, Zero DEF LoadedRange, TypeOK, SegIds
  <2>4. seg' \in [SegIds -> Segment]
    BY <2>1, <2>2, <2>3 DEF LoadedRange, TypeOK, Segment
  <2>5. took' \in [Calls -> SegIds]
    BY <2>1, <2>3 DEF LoadedRange, TypeOK
  <2>6. pc' \in [Calls -> Locations] /\ running' \subseteq Calls
    BY <2>1 DEF LoadedRange, Goto, TypeOK, Locations, Suspended
  <2>7. disturbed' \subseteq Calls
    BY <2>1, DisturbTyped DEF LoadedRange
  <2> QED
    BY <2>1, <2>2, <2>3, <2>4, <2>5, <2>6, <2>7 DEF LoadedRange, TypeOK, bufferVars
<1>9. ASSUME NEW c \in Calls, LoaderFails(c) PROVE TypeOK'
  BY <1>9, DisturbTyped
     DEF LoaderFails, Goto, TypeOK, Locations, Suspended, bufferVars, loaderVars
<1>10. ASSUME NEW c \in Calls, FinishLoading(c) PROVE TypeOK'
  <2>1. /\ loading' \in BOOLEAN
        /\ UNCHANGED <<current, next, loaderVars, got>>
        /\ disturbed' \subseteq Calls
    BY <1>10, DisturbTyped DEF FinishLoading, TypeOK
  <2>2. FrameTyped'
    BY <1>10, GotoTyped, ReturnTyped DEF FinishLoading, Locations, Returned
  <2> QED
    BY <2>1, <2>2 DEF TypeOK, FrameTyped, loaderVars
<1>11. ASSUME NEW c \in Calls, SetNext(c) PROVE TypeOK'
  BY <1>11, DisturbTyped DEF SetNext, Goto, TypeOK, Locations, loaderVars
<1>12. ASSUME NEW c \in Calls, TakeNext(c) PROVE TypeOK'
  <2>1. /\ next' \in SegIds \cup {None}
        /\ UNCHANGED <<current, loading, loaderVars, got>>
        /\ disturbed' \subseteq Calls
    BY <1>12, DisturbTyped DEF TakeNext
  <2>2. FrameTyped'
    <3>1. CASE next # None
      <4>1. next \in SegIds
        BY <3>1 DEF TypeOK
      <4> QED
        BY <1>12, <3>1, <4>1 DEF TakeNext, Goto, TypeOK, FrameTyped, Locations
    <3>2. CASE next = None
      BY <1>12, <3>2, AgainTyped DEF TakeNext
    <3> QED
      BY <3>1, <3>2
  <2> QED
    BY <2>1, <2>2 DEF TypeOK, FrameTyped, loaderVars
<1>13. ASSUME NEW c \in Calls, Install(c) PROVE TypeOK'
  <2>1. /\ current' \in SegIds
        /\ UNCHANGED <<next, loading, loaderVars, got>>
        /\ disturbed' \subseteq Calls
    BY <1>13, DisturbTyped DEF Install, TypeOK
  <2>2. FrameTyped'
    BY <1>13, AgainTyped DEF Install
  <2> QED
    BY <2>1, <2>2 DEF TypeOK, FrameTyped, loaderVars
<1>14. ASSUME NEW c \in Calls, Spin(c) PROVE TypeOK'
  BY <1>14 DEF Spin, Goto, TypeOK, Locations, bufferVars, loaderVars
<1>15. ASSUME NEW c \in Calls, Peek(c) PROVE TypeOK'
  <2>1. FrameTyped'
    BY <1>15, GotoTyped, AgainTyped DEF Peek, Locations
  <2> QED
    BY <1>0, <1>15, <2>1, DisturbTyped DEF Peek
<1>16. ASSUME NEW c \in Calls, Disconnect(c) PROVE TypeOK'
  BY <1>0, <1>16, ReturnTyped, DisturbTyped DEF Disconnect, Returned
<1>17. CASE UNCHANGED vars
  BY <1>17 DEF vars, callVars, bufferVars, loaderVars, TypeOK
<1>18. CASE Restart
  <2>1. UNCHANGED <<loaderVars, got, disturbed>> /\ loading' = FALSE /\ next' = None
    BY <1>18 DEF Restart
  <2>2. current' \in SegIds /\ mine' \in [Calls -> SegIds] /\ took' \in [Calls -> SegIds]
    BY <1>18, Zero DEF Restart
  <2>3. /\ pc' \in [Calls -> Locations] /\ running' \subseteq Calls
        /\ attempts' \in [Calls -> 0..2]
    BY <1>18 DEF Restart, TypeOK, Locations, Returned
  <2> QED
    BY <2>1, <2>2, <2>3 DEF TypeOK, loaderVars
<1>19. QED
  BY <1>1, <1>2, <1>3, <1>4, <1>5, <1>6, <1>7, <1>8, <1>9, <1>10, <1>11, <1>12,
     <1>13, <1>14, <1>15, <1>16, <1>17, <1>18
     DEF Next, CallStep, Loader, Quiescent

(* Every step leaves each variable in its type. *)
THEOREM TypeCorrect == Spec => []TypeOK
  BY InitTyped, TypeStep, PTL DEF Spec

--------------------------------------------------------------------------------
(* Only try_consume and the loader's answer write ids, cursors and ranges. *)
Quiet == UNCHANGED <<seg, loads, hwm, got>>

LEMMA OtherStepsQuiet ==
  ASSUME NEW c \in Calls,
         \/ Poll(c) \/ GetCurrent(c) \/ ReadCurrent(c) \/ NeedSwitch(c) \/ GetNext(c)
         \/ TryStartLoading(c) \/ LoaderFails(c) \/ FinishLoading(c) \/ SetNext(c)
         \/ TakeNext(c) \/ Install(c) \/ Spin(c) \/ Peek(c) \/ Disconnect(c)
  PROVE  Quiet
  BY DEF Quiet, loaderVars, Poll, GetCurrent, ReadCurrent, NeedSwitch, GetNext,
         TryStartLoading, LoaderFails, FinishLoading, SetNext, TakeNext, Install,
         Spin, Peek, Disconnect

(* What try_consume does when it has ids to give. *)
Consume(c, s, end) ==
  /\ s \in SegIds /\ end \in Nat
  /\ seg[s].current_id < end /\ end <= seg[s].max_id
  /\ seg' = [seg EXCEPT ![s].current_id = end]
  /\ got' = [got EXCEPT ![c] = seg[s].current_id..(end - 1)]
  /\ UNCHANGED <<loads, hwm>>

LEMMA TryConsumeEffect ==
  ASSUME TypeOK, NEW c \in Calls, TryConsume(c)
  PROVE  Quiet \/ \E s, end : Consume(c, s, end)
<1> DEFINE s   == mine[c]
           end == seg[s].current_id + Size(c)
<1>1. /\ s \in SegIds /\ Size(c) \in Nat \ {0}
      /\ seg[s].current_id \in Nat /\ seg[s].max_id \in Nat
  BY SizeAssumption DEF TypeOK, Segment, Size, SizeAssumption
<1>2. end \in Nat /\ seg[s].current_id < end
  BY <1>1
<1>3. CASE end <= seg[s].max_id
  <2>1. ~(end > seg[s].max_id)
    BY <1>1, <1>2, <1>3
  <2>2. Consume(c, s, end)
    BY <1>1, <1>2, <1>3, <2>1 DEF TryConsume, Consume
  <2> QED
    BY <2>2
<1>4. CASE ~(end <= seg[s].max_id)
  BY <1>4 DEF TryConsume, Quiet
<1> QED
  BY <1>3, <1>4

(* What the loader's answer does. *)
Load(lo) ==
  /\ lo \in Nat /\ hwm <= lo /\ loads + 1 \in SegIds
  /\ loads' = loads + 1 /\ hwm' = lo + Step
  /\ seg' = [seg EXCEPT ![loads + 1] =
               [start_id |-> lo, max_id |-> lo + Step, current_id |-> lo]]
  /\ UNCHANGED got

LEMMA LoaderAnswersEffect ==
  ASSUME TypeOK, NEW c \in Calls, LoaderAnswers(c)
  PROVE  \E lo : Load(lo)
<1>1. PICK gap \in Gaps : /\ LoadedRange(c, hwm + gap, hwm + gap + Step)
                          /\ hwm' = hwm + gap + Step
  BY DEF LoaderAnswers
<1>2. gap \in Nat /\ hwm \in Nat /\ hwm + gap \in Nat /\ hwm <= hwm + gap
  BY SizeAssumption DEF SizeAssumption, TypeOK
<1>3. loads + 1 \in SegIds
  BY <1>1, Zero DEF LoadedRange, TypeOK, SegIds
<1>4. Load(hwm + gap)
  BY <1>1, <1>2, <1>3 DEF Load, LoadedRange
<1> QED
  BY <1>4

LEMMA StepEffect ==
  ASSUME TypeOK, [Next]_vars
  PROVE  \/ Quiet
         \/ \E c \in Calls : \E s, end : TryConsume(c) /\ Consume(c, s, end)
         \/ \E lo : Load(lo)
<1>1. CASE UNCHANGED vars
  BY <1>1 DEF vars, loaderVars, callVars, Quiet
<1>2. CASE \E c \in Calls : TryConsume(c)
  BY <1>2, TryConsumeEffect
<1>3. CASE \E c \in Calls : LoaderAnswers(c)
  BY <1>3, LoaderAnswersEffect
<1>4. CASE \E c \in Calls :
        \/ Poll(c) \/ GetCurrent(c) \/ ReadCurrent(c) \/ NeedSwitch(c) \/ GetNext(c)
        \/ TryStartLoading(c) \/ LoaderFails(c) \/ FinishLoading(c) \/ SetNext(c)
        \/ TakeNext(c) \/ Install(c) \/ Spin(c) \/ Peek(c) \/ Disconnect(c)
  BY <1>4, OtherStepsQuiet
<1>5. CASE Restart
  BY <1>5 DEF Restart, loaderVars, Quiet
<1> QED
  BY <1>1, <1>2, <1>3, <1>4, <1>5 DEF Next, CallStep, Loader, Quiescent

LEMMA SegmentsTyped ==
  ASSUME TypeOK
  PROVE  /\ seg \in [SegIds -> Segment] /\ hwm \in Nat
         /\ got \in [Calls -> SUBSET Nat]
         /\ \A s \in SegIds : /\ seg[s].start_id \in Nat
                              /\ seg[s].max_id \in Nat
                              /\ seg[s].current_id \in Nat
  BY DEF TypeOK, Segment

LEMMA ConsumeKeepsUnique ==
  ASSUME TypeOK, UniqueInv, NEW c \in Calls, NEW s, NEW end, Consume(c, s, end)
  PROVE  UniqueInv'
<1> DEFINE range == seg[s].current_id..(end - 1)
<1>0. /\ s \in SegIds /\ end \in Nat /\ seg[s].current_id < end /\ end <= seg[s].max_id
      /\ hwm' = hwm
  BY DEF Consume
<1>1. \A t \in SegIds : /\ seg'[t].start_id = seg[t].start_id
                        /\ seg'[t].max_id = seg[t].max_id
                        /\ seg'[t].current_id = IF t = s THEN end ELSE seg[t].current_id
  BY SegmentsTyped DEF Consume, Segment
<1>2. \A d \in Calls : got'[d] = IF d = c THEN range ELSE got[d]
  BY SegmentsTyped DEF Consume
<1>3. CursorsInRange'
  BY <1>0, <1>1, SegmentsTyped DEF UniqueInv, CursorsInRange
<1>4. RangesDisjoint'
  BY <1>1 DEF UniqueInv, RangesDisjoint
<1>5. range \subseteq Consumable(s)
  BY <1>0, SegmentsTyped DEF Consumable
<1>6. \A t \in SegIds : Consumable(t)' \subseteq Consumable(t)
  BY <1>0, <1>1, SegmentsTyped DEF Consumable
<1>7. ReturnedConsumed'
  <2> SUFFICES ASSUME NEW d \in Calls, NEW id \in got'[d]
               PROVE  id < hwm /\ \A t \in SegIds : id \notin Consumable(t)'
    BY <1>0 DEF ReturnedConsumed
  <2>1. CASE d # c
    <3>1. id \in got[d]
      BY <1>2, <2>1
    <3>2. id < hwm /\ \A t \in SegIds : id \notin Consumable(t)
      BY <3>1 DEF UniqueInv, ReturnedConsumed
    <3> QED
      BY <3>2, <1>6
  <2>2. CASE d = c
    <3>1. id \in range
      BY <1>2, <2>2
    <3>2. id < hwm
      BY <1>0, <3>1, SegmentsTyped DEF UniqueInv, CursorsInRange
    <3>3. ASSUME NEW t \in SegIds PROVE id \notin Consumable(t)'
      <4>1. CASE t = s
        BY <1>0, <1>1, <3>1, <4>1, SegmentsTyped DEF Consumable
      <4>2. CASE t # s
        <5>1. seg[s].max_id <= seg[t].start_id \/ seg[t].max_id <= seg[s].start_id
          BY <1>0, <4>2 DEF UniqueInv, RangesDisjoint
        <5>2. /\ seg[s].start_id <= seg[s].current_id
              /\ seg[t].start_id <= seg[t].current_id
          BY <1>0 DEF UniqueInv, CursorsInRange
        <5> QED
          BY <1>0, <1>1, <3>1, <4>2, <5>1, <5>2, SegmentsTyped DEF Consumable
      <4> QED
        BY <4>1, <4>2
    <3> QED
      BY <3>2, <3>3
  <2> QED
    BY <2>1, <2>2
<1>8. UniqueIds'
  <2>1. \A d \in Calls : range \cap got[d] = {}
    BY <1>0, <1>5 DEF UniqueInv, ReturnedConsumed
  <2> HIDE DEF range
  <2> QED
    BY <1>2, <2>1 DEF UniqueInv, UniqueIds
<1> QED
  BY <1>3, <1>4, <1>7, <1>8 DEF UniqueInv

LEMMA LoadKeepsUnique ==
  ASSUME TypeOK, UniqueInv, NEW lo, Load(lo)
  PROVE  UniqueInv'
<1> DEFINE new == loads + 1
<1>0. /\ lo \in Nat /\ hwm <= lo /\ new \in SegIds /\ hwm' = lo + Step
      /\ Step \in Nat /\ got' = got
  BY SizeAssumption DEF Load, SizeAssumption
<1>1. /\ seg'[new] = [start_id |-> lo, max_id |-> lo + Step, current_id |-> lo]
      /\ \A t \in SegIds : t # new => seg'[t] = seg[t]
  BY SegmentsTyped DEF Load
<1> HIDE DEF new
<1>2. CursorsInRange'
  <2> SUFFICES ASSUME NEW t \in SegIds
               PROVE  /\ seg'[t].start_id <= seg'[t].current_id
                      /\ seg'[t].current_id <= seg'[t].max_id
                      /\ seg'[t].max_id <= hwm'
    BY DEF CursorsInRange
  <2>1. CASE t = new
    BY <1>0, <1>1, <2>1
  <2>2. CASE t # new
    BY <1>0, <1>1, <2>2, SegmentsTyped DEF UniqueInv, CursorsInRange
  <2> QED
    BY <2>1, <2>2
<1>3. \A t \in SegIds : seg[t].max_id <= lo
  BY <1>0, SegmentsTyped DEF UniqueInv, CursorsInRange
<1>4. RangesDisjoint'
  BY <1>0, <1>1, <1>3 DEF UniqueInv, RangesDisjoint
<1>5. ReturnedConsumed'
  <2> SUFFICES ASSUME NEW d \in Calls, NEW id \in got[d], NEW t \in SegIds
               PROVE  id < hwm' /\ id \notin Consumable(t)'
    BY <1>0, Zero DEF ReturnedConsumed
  <2>1. id \in Nat /\ id < hwm /\ id \notin Consumable(t)
    BY SegmentsTyped DEF UniqueInv, ReturnedConsumed
  <2>2. id < hwm' /\ id < lo
    BY <1>0, <2>1, SegmentsTyped
  <2>3. CASE t = new
    BY <1>0, <1>1, <2>2, <2>3, <2>1 DEF Consumable
  <2>4. CASE t # new
    BY <1>1, <2>1, <2>2, <2>4 DEF Consumable
  <2> QED
    BY <2>2, <2>3, <2>4
<1> QED
  BY <1>0, <1>2, <1>4, <1>5 DEF UniqueInv, UniqueIds

LEMMA QuietKeepsUnique ==
  ASSUME UniqueInv, Quiet PROVE UniqueInv'
  BY DEF UniqueInv, Quiet, CursorsInRange, RangesDisjoint, ReturnedConsumed, UniqueIds,
         Consumable

(* No id is returned to two calls, however many calls run on however many  *)
(* threads, whatever the loads interleave with and whoever disconnects:    *)
(* the mutex in try_consume and the database row make UniqueInv inductive. *)
THEOREM Uniqueness == Spec => [](UniqueInv /\ UniqueIds)
<1>1. Init => UniqueInv
  <2> SUFFICES ASSUME Init PROVE UniqueInv
    OBVIOUS
  <2>1. \A s \in SegIds : seg[s] = Empty
    BY DEF Init
  <2>2. CursorsInRange /\ RangesDisjoint
    BY <2>1 DEF Init, Empty, CursorsInRange, RangesDisjoint
  <2>3. ReturnedConsumed /\ UniqueIds
    BY DEF Init, ReturnedConsumed, UniqueIds
  <2> QED
    BY <2>2, <2>3 DEF UniqueInv
<1>2. TypeOK /\ UniqueInv /\ [Next]_vars => UniqueInv'
  BY StepEffect, ConsumeKeepsUnique, LoadKeepsUnique, QuietKeepsUnique
<1>3. UniqueInv => UniqueIds
  BY DEF UniqueInv
<1> QED
  BY <1>1, <1>2, <1>3, TypeCorrect, PTL DEF Spec

--------------------------------------------------------------------------------
(* Where the steps of a call lead. *)
Moves(c, from, to) ==
  /\ pc[c] \in from
  /\ \E l \in to : pc' = [pc EXCEPT ![c] = l]

Running == Locations \ (Suspended \cup Returned)

LEMMA AgainMoves ==
  ASSUME NEW c \in Calls, NEW l \in Running, pc[c] = l, Again(c)
  PROVE  Moves(c, Running, {"get", "exhausted"})
  BY DEF Again, Return, Goto, Moves

LEMMA StepMoves ==
  ASSUME NEW c \in Calls
  PROVE  /\ GetCurrent(c) \/ ReadCurrent(c) \/ SetNext(c) \/ Spin(c)
              => Moves(c, Running, Running)
         /\ NeedSwitch(c) \/ TakeNext(c) \/ Install(c) \/ Peek(c)
              => Moves(c, Running, Running \cup {"exhausted"})
         /\ TryConsume(c) => Moves(c, Running, Running \cup {"done"})
         /\ GetNext(c) => Moves(c, Running, Running \cup {"load"})
         /\ TryStartLoading(c) => Moves(c, Running, Running \cup {"load"})
         /\ LoaderAnswers(c) => Moves(c, {"load"}, {"loaded"})
         /\ LoaderFails(c) => Moves(c, {"load"}, {"failed"})
         /\ FinishLoading(c) => Moves(c, {"loaded", "failed"}, {"publish", "failed_load"})
         /\ Disconnect(c) => Moves(c, Suspended, {"dropped", "leaked"})
<1> USE DEF Moves, At, Goto, Return, Await, Running, Locations, Suspended, Returned
<1>1. GetCurrent(c) \/ ReadCurrent(c) \/ SetNext(c) \/ Spin(c)
        => Moves(c, Running, Running)
  BY DEF GetCurrent, ReadCurrent, SetNext, Spin
<1>2. NeedSwitch(c) => Moves(c, Running, Running \cup {"exhausted"})
  BY AgainMoves DEF NeedSwitch
<1>3. TakeNext(c) => Moves(c, Running, Running \cup {"exhausted"})
  BY AgainMoves DEF TakeNext
<1>4. Install(c) => Moves(c, Running, Running \cup {"exhausted"})
  BY AgainMoves DEF Install
<1>5. Peek(c) => Moves(c, Running, Running \cup {"exhausted"})
  BY AgainMoves DEF Peek
<1>6. TryConsume(c) => Moves(c, Running, Running \cup {"done"})
  BY DEF TryConsume
<1>7. GetNext(c) => Moves(c, Running, Running \cup {"load"})
  BY DEF GetNext
<1>8. TryStartLoading(c) => Moves(c, Running, Running \cup {"load"})
  BY DEF TryStartLoading
<1>9. LoaderAnswers(c) => Moves(c, {"load"}, {"loaded"})
  BY DEF LoaderAnswers, LoadedRange
<1>10. LoaderFails(c) => Moves(c, {"load"}, {"failed"})
  BY DEF LoaderFails
<1>11. FinishLoading(c) => Moves(c, {"loaded", "failed"}, {"publish", "failed_load"})
  BY DEF FinishLoading
<1>12. Disconnect(c) => Moves(c, Suspended, {"dropped", "leaked"})
  BY DEF Disconnect
<1> QED
  BY <1>1, <1>2, <1>3, <1>4, <1>5, <1>6, <1>7, <1>8, <1>9, <1>10, <1>11, <1>12

--------------------------------------------------------------------------------
(* A call that has not been answered holds no ids. *)
PendingEmpty == \A c \in Calls : pc[c] # "done" => got[c] = {}

(* An answered call stays answered, and only try_consume answers. *)
LEMMA PendingStep ==
  ASSUME TypeOK, PendingEmpty, [Next]_vars
  PROVE  PendingEmpty'
<1> USE DEF PendingEmpty
<1>1. CASE UNCHANGED vars
  BY <1>1 DEF vars, callVars
<1>2. ASSUME NEW c \in Calls, NEW from, NEW to, Moves(c, from, to), "done" \notin from,
             UNCHANGED got
      PROVE  PendingEmpty'
  <2>1. \A d \in Calls : pc'[d] # "done" => pc[d] # "done"
    BY <1>2 DEF Moves, TypeOK
  <2> QED
    BY <1>2, <2>1
<1>3. ASSUME NEW c \in Calls, TryConsume(c) PROVE PendingEmpty'
  <2>1. CASE Return(c, "done") /\ got' = [got EXCEPT ![c] = got'[c]]
    BY <2>1 DEF TypeOK, Return
  <2>2. CASE Goto(c, "need") /\ UNCHANGED got
    BY <1>3, <2>2 DEF TypeOK, Goto, TryConsume, At
  <2>3. \/ Return(c, "done") /\ got' = [got EXCEPT ![c] = got'[c]]
        \/ Goto(c, "need") /\ UNCHANGED got
    BY <1>3, SegmentsTyped DEF TryConsume
  <2> QED
    BY <2>1, <2>2, <2>3
<1>4. ASSUME NEW c \in Calls, Poll(c) PROVE PendingEmpty'
  BY <1>4 DEF Poll
<1>5. ASSUME NEW c \in Calls,
             \/ GetCurrent(c) \/ ReadCurrent(c) \/ NeedSwitch(c) \/ GetNext(c)
             \/ TryStartLoading(c) \/ LoaderFails(c) \/ FinishLoading(c) \/ SetNext(c)
             \/ TakeNext(c) \/ Install(c) \/ Spin(c) \/ Peek(c) \/ Disconnect(c)
      PROVE  PendingEmpty'
  <2>1. UNCHANGED got
    BY <1>5, OtherStepsQuiet DEF Quiet
  <2>2. \E from, to : Moves(c, from, to) /\ "done" \notin from
    BY <1>5, StepMoves DEF Running, Returned, Suspended
  <2> QED
    BY <1>2, <2>1, <2>2
<1>6. ASSUME NEW c \in Calls, LoaderAnswers(c) PROVE PendingEmpty'
  <2>1. UNCHANGED got
    BY <1>6, LoaderAnswersEffect DEF Load
  <2> QED
    BY <1>2, <1>6, <2>1, StepMoves
<1>7. CASE Restart
  <2>1. \A d \in Calls : pc'[d] # "done" => pc[d] # "done"
    BY <1>7 DEF Restart, Returned, Leaked
  <2> QED
    BY <1>7, <2>1 DEF Restart
<1> QED
  BY <1>1, <1>3, <1>4, <1>5, <1>6, <1>7 DEF Next, CallStep, Loader, Quiescent

(* A step answers one call with ids that no other call has, or leaves the  *)
(* answers alone.                                                          *)
LEMMA IssueStep ==
  ASSUME TypeOK, UniqueIds', PendingEmpty, [Next]_vars
  PROVE  Issuer!Next \/ got' = got
<1>1. ASSUME NEW c \in Calls, NEW s, NEW end, TryConsume(c), Consume(c, s, end)
      PROVE  Issuer!Next
  <2>1. got[c] = {}
    BY <1>1 DEF PendingEmpty, TryConsume, At
  <2>2. /\ got' = [got EXCEPT ![c] = seg[s].current_id..(end - 1)]
        /\ got'[c] = seg[s].current_id..(end - 1)
    BY <1>1, SegmentsTyped DEF Consume
  <2>3. got'[c] # {}
    <3>1. seg[s].current_id \in got'[c]
      BY <1>1, <2>2, SegmentsTyped DEF Consume
    <3> QED
      BY <3>1
  <2>4. ASSUME NEW d \in Calls \ {c} PROVE got'[c] \cap got[d] = {}
    <3>1. got'[d] = got[d]
      BY <2>2, SegmentsTyped
    <3> QED
      BY <3>1 DEF UniqueIds
  <2>5. Issuer!Issue(c)
    BY <2>1, <2>2, <2>3, <2>4 DEF Issuer!Issue
  <2> QED
    BY <2>5 DEF Issuer!Next
<1> QED
  BY <1>1, StepEffect DEF Quiet, Load

(* The buffer implements the issuer of ids, whatever generate and          *)
(* batch_generate interleave.                                              *)
THEOREM Implements == Spec => IssuesIds
<1>1. Init => Issuer!Init
  BY DEF Init, Issuer!Init
<1>2. Init => PendingEmpty
  BY DEF Init, PendingEmpty
<1>3. TypeOK /\ UniqueIds' /\ PendingEmpty /\ [Next]_vars => [Issuer!Next]_got
  BY IssueStep
<1> QED
  BY <1>1, <1>2, <1>3, PendingStep, TypeCorrect, Uniqueness, PTL
     DEF Spec, IssuesIds, Issuer!Spec

--------------------------------------------------------------------------------
(* An answered call has all the ids it asked for. *)
AnsweredInFull == \A c \in Calls : pc[c] = "done" => Cardinality(got[c]) = Size(c)

LEMMA IntervalSize ==
  ASSUME NEW a \in Nat, NEW n \in Nat \ {0}
  PROVE  Cardinality(a..(a + n - 1)) = n
<1>1. a + n - 1 \in Int /\ a \in Int /\ ~(a > a + n - 1)
  OBVIOUS
<1>2. Cardinality(a..(a + n - 1)) = (a + n - 1) - a + 1
  BY <1>1, FS_Interval
<1> QED
  BY <1>2

LEMMA AnsweredStep ==
  ASSUME TypeOK, AnsweredInFull, [Next]_vars
  PROVE  AnsweredInFull'
<1> USE DEF AnsweredInFull
<1>1. CASE UNCHANGED got /\ \A d \in Calls : pc'[d] = "done" => pc[d] = "done"
  BY <1>1
<1>2. ASSUME NEW c \in Calls, NEW from, NEW to, Moves(c, from, to), "done" \notin to
      PROVE  \A d \in Calls : pc'[d] = "done" => pc[d] = "done"
  BY <1>2 DEF Moves, TypeOK
<1>3. ASSUME NEW c \in Calls, TryConsume(c) PROVE AnsweredInFull'
  <2> DEFINE from == seg[mine[c]].current_id
  <2>1. from \in Nat /\ Size(c) \in Nat \ {0}
    BY SizeAssumption DEF TypeOK, Segment, SizeAssumption, Size
  <2>2. CASE Return(c, "done") /\ got' = [got EXCEPT ![c] = from..(from + Size(c) - 1)]
    <3>1. got'[c] = from..(from + Size(c) - 1)
      BY <2>2 DEF TypeOK
    <3>2. Cardinality(got'[c]) = Size(c)
      BY <2>1, <3>1, IntervalSize
    <3>3. \A d \in Calls \ {c} : got'[d] = got[d] /\ pc'[d] = pc[d]
      BY <2>2 DEF TypeOK, Return
    <3> QED
      BY <3>2, <3>3
  <2>3. CASE Goto(c, "need") /\ UNCHANGED got
    BY <2>3 DEF Goto, TypeOK
  <2>4. \/ Return(c, "done") /\ got' = [got EXCEPT ![c] = from..(from + Size(c) - 1)]
        \/ Goto(c, "need") /\ UNCHANGED got
    <3>1. (from + Size(c)) - 1 = from + Size(c) - 1
      BY <2>1
    <3> QED
      BY <1>3, <3>1, Zenon DEF TryConsume
  <2> QED
    BY <2>2, <2>3, <2>4
<1>4. ASSUME NEW c \in Calls,
             \/ GetCurrent(c) \/ ReadCurrent(c) \/ NeedSwitch(c) \/ GetNext(c)
             \/ TryStartLoading(c) \/ LoaderFails(c) \/ FinishLoading(c) \/ SetNext(c)
             \/ TakeNext(c) \/ Install(c) \/ Spin(c) \/ Peek(c) \/ Disconnect(c)
      PROVE  AnsweredInFull'
  <2>1. UNCHANGED got
    BY <1>4, OtherStepsQuiet DEF Quiet
  <2>2. \E from, to : Moves(c, from, to) /\ "done" \notin to
    BY <1>4, StepMoves DEF Running, Returned
  <2> QED
    BY <1>1, <1>2, <2>1, <2>2
<1>5. ASSUME NEW c \in Calls, LoaderAnswers(c) PROVE AnsweredInFull'
  <2>1. UNCHANGED got
    BY <1>5, LoaderAnswersEffect DEF Load
  <2> QED
    BY <1>1, <1>2, <1>5, <2>1, StepMoves
<1>6. CASE UNCHANGED vars \/ (\E c \in Calls : Poll(c)) \/ Restart
  BY <1>1, <1>6 DEF vars, callVars, Poll, Restart
<1> QED
  BY <1>3, <1>4, <1>5, <1>6 DEF Next, CallStep, Loader, Quiescent

(* batch_generate returns all the ids it was asked for or an error, and    *)
(* then it has consumed nothing on the caller's account.                   *)
THEOREM Complete == Spec => []AllOrNothing
<1>1. Init => PendingEmpty /\ AnsweredInFull
  BY DEF Init, PendingEmpty, AnsweredInFull
<1>2. PendingEmpty /\ AnsweredInFull => AllOrNothing
  BY FS_EmptySet DEF PendingEmpty, AnsweredInFull, AllOrNothing
<1> QED
  BY <1>1, <1>2, PendingStep, AnsweredStep, TypeCorrect, PTL DEF Spec

--------------------------------------------------------------------------------
(* The calls that account for the flag: in load_segment or dropped there. *)
Marks(c) == Holds(c) \/ Leaked(c)

(* Behind LoadExclusive and LoadingReset: the flag is up where there is one *)
(* such call, and there is never a second.                                 *)
LoadInv ==
  /\ loading <=> \E c \in Calls : Marks(c)
  /\ \A c, d \in Calls : Marks(c) /\ Marks(d) => c = d

(* Who accounts for the flag changes only in three actions. *)
LEMMA HolderStays ==
  ASSUME TypeOK, NEW c \in Calls, NEW from, NEW to, Moves(c, from, to),
         "leaked" \notin from \cup to,
         \/ from \cap Suspended = {} /\ to \cap Suspended = {}
         \/ from \subseteq Suspended /\ to \subseteq Suspended
  PROVE  \A d \in Calls : Marks(d)' <=> Marks(d)
<1> SUFFICES ASSUME NEW d \in Calls PROVE Marks(d)' <=> Marks(d)
  OBVIOUS
<1>1. CASE d = c
  BY <1>1, CallsAssumption DEF Moves, Marks, Holds, Leaked, TypeOK, CallsAssumption
<1>2. CASE d # c
  BY <1>2 DEF Moves, Marks, Holds, Leaked, TypeOK
<1> QED
  BY <1>1, <1>2

LEMMA HolderSteps ==
  ASSUME TypeOK, [Next]_vars
  PROVE  \/ (\A c \in Calls : Marks(c)' <=> Marks(c)) /\ loading' = loading
         \/ \E c \in Generates : TryStartLoading(c) /\ ~loading /\ loading'
         \/ \E c \in Generates : FinishLoading(c) /\ ~loading'
         \/ ~loading' /\ \A c \in Calls : ~Marks(c)'
<1> DEFINE Same == (\A c \in Calls : Marks(c)' <=> Marks(c)) /\ loading' = loading
<1> USE DEF Running, Locations, Suspended, Returned
<1>1. CASE UNCHANGED vars
  BY <1>1 DEF vars, callVars, bufferVars, Marks, Holds, Leaked
<1>2. ASSUME NEW c \in Calls,
             \/ GetCurrent(c) \/ ReadCurrent(c) \/ SetNext(c) \/ Spin(c)
             \/ NeedSwitch(c) \/ TakeNext(c) \/ Install(c) \/ Peek(c) \/ TryConsume(c)
      PROVE  Same
  <2> DEFINE to == Running \cup {"exhausted", "done"}
  <2>1. Moves(c, Running, to)
    <3>1. \/ Moves(c, Running, Running) \/ Moves(c, Running, Running \cup {"exhausted"})
          \/ Moves(c, Running, Running \cup {"done"})
      BY <1>2, StepMoves
    <3> HIDE DEF Running
    <3> QED
      BY <3>1 DEF Moves
  <2>2. /\ Running \cap Suspended = {} /\ "leaked" \notin Running \cup to
        /\ to \cap Suspended = {}
    OBVIOUS
  <2>3. loading' = loading
    BY <1>2 DEF bufferVars, GetCurrent, ReadCurrent, SetNext, Spin, NeedSwitch,
                TakeNext, Install, Peek, TryConsume
  <2> HIDE DEF Running, Suspended, to
  <2> QED
    BY <2>1, <2>2, <2>3, HolderStays
<1>3. ASSUME NEW c \in Calls, GetNext(c) PROVE Same
  <2>1. CASE c \in Batches
    <3>1. \A d \in Calls : Marks(d)' <=> Marks(d)
      BY <1>3, <2>1, StepMoves, CallsAssumption DEF Moves, Marks, Holds, Leaked, TypeOK, CallsAssumption
    <3> QED
      BY <1>3, <3>1 DEF GetNext, bufferVars
  <2>2. CASE c \notin Batches
    <3>1. Moves(c, Running, Running)
      BY <1>3, <2>2 DEF GetNext, At, Goto, Moves
    <3>2. Running \cap Suspended = {} /\ "leaked" \notin Running
      OBVIOUS
    <3> HIDE DEF Running, Suspended
    <3> QED
      BY <1>3, <3>1, <3>2, HolderStays DEF GetNext, bufferVars
  <2> QED
    BY <2>1, <2>2
<1>4. ASSUME NEW c \in Calls, LoaderAnswers(c) \/ LoaderFails(c) PROVE Same
  <2>1. Moves(c, {"load"}, {"loaded", "failed"})
    BY <1>4, StepMoves DEF Moves
  <2>2. loading' = loading
    BY <1>4 DEF LoaderAnswers, LoadedRange, LoaderFails, bufferVars
  <2>3. {"load"} \subseteq Suspended /\ {"loaded", "failed"} \subseteq Suspended
    OBVIOUS
  <2> HIDE DEF Suspended
  <2> QED
    BY <2>1, <2>2, <2>3, HolderStays
<1>5. ASSUME NEW c \in Calls, Poll(c) PROVE Same
  BY <1>5 DEF Poll, bufferVars, Marks, Holds, Leaked
<1>6. ASSUME NEW c \in Calls, TryStartLoading(c)
      PROVE  Same \/ (c \in Generates /\ ~loading /\ loading')
  <2>1. CASE ~loading /\ loading' = TRUE
    BY <1>6, <2>1 DEF TryStartLoading
  <2>2. CASE loading /\ Goto(c, "spin") /\ UNCHANGED loading
    <3>1. Moves(c, Running, Running)
      BY <1>6, <2>2 DEF TryStartLoading, At, Goto, Moves
    <3>2. Running \cap Suspended = {} /\ "leaked" \notin Running
      OBVIOUS
    <3> HIDE DEF Running, Suspended
    <3> QED
      BY <2>2, <3>1, <3>2, HolderStays
  <2> QED
    BY <1>6, <2>1, <2>2 DEF TryStartLoading
<1>7. ASSUME NEW c \in Calls, FinishLoading(c)
      PROVE  Same \/ (c \in Generates /\ ~loading')
  <2>1. CASE c \in Batches
    <3>1. loading' = loading
      BY <1>7, <2>1 DEF FinishLoading, TypeOK
    <3>2. \A d \in Calls : Marks(d)' <=> Marks(d)
      BY <1>7, <2>1, StepMoves, CallsAssumption DEF Moves, Marks, Holds, Leaked, TypeOK, CallsAssumption
    <3> QED
      BY <3>1, <3>2
  <2>2. CASE c \notin Batches
    BY <1>7, <2>2 DEF FinishLoading, Calls
  <2> QED
    BY <2>1, <2>2
<1>8. ASSUME NEW c \in Calls, Disconnect(c) PROVE Same
  <2>2. pc[c] \in Suspended /\ pc' = [pc EXCEPT ![c] = IF c \in Generates THEN "leaked" ELSE "dropped"]
    BY <1>8 DEF Disconnect, Return
  <2>3. \A d \in Calls : Marks(d)' <=> Marks(d)
    <3>1. CASE c \in Generates
      BY <2>2, <3>1 DEF Marks, Holds, Leaked, TypeOK
    <3>2. CASE c \notin Generates
      BY <2>2, <3>2 DEF Marks, Holds, Leaked, TypeOK
    <3> QED
      BY <3>1, <3>2
  <2> QED
    BY <1>8, <2>3 DEF Disconnect, bufferVars
<1>9. CASE Restart
  BY <1>9 DEF Restart, Marks, Holds, Leaked
<1> QED
  BY <1>1, <1>2, <1>3, <1>4, <1>5, <1>6, <1>7, <1>8, <1>9
     DEF Next, CallStep, Loader, Quiescent, Calls

LEMMA LoadStep == TypeOK /\ LoadInv /\ [Next]_vars => LoadInv'
<1> SUFFICES ASSUME TypeOK, LoadInv, [Next]_vars PROVE LoadInv'
  OBVIOUS
<1> USE DEF LoadInv
<1>1. CASE (\A c \in Calls : Marks(c)' <=> Marks(c)) /\ loading' = loading
  BY <1>1
<1>2. ASSUME NEW c \in Generates, TryStartLoading(c), ~loading, loading' PROVE LoadInv'
  <2>1. Await(c)
    BY <1>2 DEF TryStartLoading
  <2>2. Marks(c)'
    BY <2>1 DEF Await, Marks, Holds, TypeOK, Suspended, Calls
  <2>3. \A d \in Calls \ {c} : Marks(d)' <=> Marks(d)
    BY <2>1 DEF Await, Marks, Holds, Leaked, TypeOK
  <2> QED
    BY <1>2, <2>2, <2>3 DEF Calls
<1>3. ASSUME NEW c \in Generates, FinishLoading(c), ~loading' PROVE LoadInv'
  <2>1. Marks(c) /\ Moves(c, {"loaded", "failed"}, {"publish", "failed_load"})
    BY <1>3, StepMoves DEF Calls, FinishLoading, Marks, Holds, Suspended
  <2>2. \A d \in Calls \ {c} : Marks(d)' <=> Marks(d)
    BY <2>1 DEF Moves, Marks, Holds, Leaked, TypeOK
  <2>3. ~Marks(c)'
    BY <2>1 DEF Moves, Marks, Holds, Leaked, TypeOK, Calls, Suspended
  <2> QED
    BY <1>3, <2>1, <2>2, <2>3 DEF Calls
<1>4. CASE ~loading' /\ \A c \in Calls : ~Marks(c)'
  BY <1>4
<1> QED
  BY <1>1, <1>2, <1>3, <1>4, HolderSteps

LEMMA LoadInitial == Init => LoadInv
  BY DEF Init, LoadInv, Marks, Holds, Leaked, Suspended

(* The compare_exchange admits one call of generate at a time to the load, *)
(* whatever batches do beside it and whoever disconnects.                  *)
THEOREM Exclusive == Spec => []LoadExclusive
<1>1. LoadInv => LoadExclusive
  BY DEF LoadInv, LoadExclusive, Marks
<1> QED
  BY <1>1, LoadInitial, LoadStep, TypeCorrect, PTL DEF Spec

(* The flag is up exactly while somebody is there to take it down again,   *)
(* or after a generate was dropped at its load: waiting for it is waiting  *)
(* for a load, whatever loads fail and restarts come, or for a restart.    *)
THEOREM Reset == Spec => []LoadingReset
<1>1. LoadInv => LoadingReset
  BY DEF LoadInv, LoadingReset, Marks
<1> QED
  BY <1>1, LoadInitial, LoadStep, TypeCorrect, PTL DEF Spec

--------------------------------------------------------------------------------
(***************************************************************************)
(* Why swap() may take its two steps apart: a segment that was loaded and  *)
(* not yet installed is held in one place only, DoubleBuffer.next or the   *)
(* frame of one call, and no call consumes from it meanwhile.              *)
(***************************************************************************)
(* The calls that hold such a segment in took. *)
Carries(c) == pc[c] \in {"loaded", "publish", "install"}

(* No call can consume from s, and none has. *)
Unused(s) ==
  /\ s \in 1..loads /\ s # current
  /\ seg[s].current_id = seg[s].start_id
  /\ \A c \in Calls : mine[c] # s

FreshInv ==
  /\ seg[0] = Empty
  /\ current <= loads /\ \A c \in Calls : mine[c] <= loads
  /\ \A c \in Calls : Carries(c) => Unused(took[c]) /\ took[c] # next
  /\ \A c, d \in Calls : Carries(c) /\ Carries(d) /\ c # d => took[c] # took[d]
  /\ next # None => Unused(next)

LEMMA Bounds ==
  ASSUME TypeOK
  PROVE  /\ loads \in Nat /\ current \in Nat /\ 0 \in SegIds
         /\ \A c \in Calls : mine[c] \in Nat /\ took[c] \in Nat
         /\ 1..loads \subseteq SegIds
  BY Zero DEF TypeOK, SegIds

--------------------------------------------------------------------------------
(* Most steps hold no more than before and write to no segment but one     *)
(* that some call was reading.                                             *)
Calm ==
  /\ loads' = loads
  /\ current' \in {current, 0} /\ next' \in {next, None}
  /\ \A c \in Calls : mine'[c] \in {mine[c], current, 0}
  /\ \A c \in Calls : Carries(c)' => Carries(c) /\ took'[c] = took[c]
  /\ seg'[0] = seg[0]
  /\ \A s \in SegIds : seg'[s] # seg[s] => \E c \in Calls : mine[c] = s

LEMMA CalmKeepsFresh ==
  ASSUME TypeOK, FreshInv, Calm
  PROVE  FreshInv'
<1>1. \A s : Unused(s) => Unused(s)'
  <2> SUFFICES ASSUME NEW s, Unused(s) PROVE Unused(s)'
    OBVIOUS
  <2>1. s \in SegIds /\ s # 0 /\ s # current
    BY Bounds DEF Unused
  <2>2. seg'[s] = seg[s]
    BY <2>1 DEF Calm, Unused
  <2>3. \A c \in Calls : mine'[c] # s
    BY <2>1 DEF Calm, Unused
  <2> QED
    BY <2>1, <2>2, <2>3 DEF Calm, Unused
<1>2. seg'[0] = Empty
  BY DEF Calm, FreshInv
<1>3. current' <= loads' /\ \A c \in Calls : mine'[c] <= loads'
  BY Bounds DEF Calm, FreshInv
<1>4. \A c \in Calls : Carries(c)' => Unused(took[c])' /\ took'[c] # next'
  <2> SUFFICES ASSUME NEW c \in Calls, Carries(c)' PROVE Unused(took[c])' /\ took'[c] # next'
    OBVIOUS
  <2>1. took'[c] = took[c] /\ Unused(took[c]) /\ took[c] # next
    BY DEF Calm, FreshInv
  <2>2. took[c] # None
    BY Bounds DEF None
  <2> QED
    BY <1>1, <2>1, <2>2 DEF Calm, Unused
<1>5. \A c, d \in Calls : Carries(c)' /\ Carries(d)' /\ c # d => took'[c] # took'[d]
  BY DEF Calm, FreshInv
<1>6. next' # None => Unused(next)'
  BY <1>1 DEF Calm, FreshInv, Unused
<1> QED
  BY <1>2, <1>3, <1>4, <1>5, <1>6 DEF FreshInv

--------------------------------------------------------------------------------
(* The end of an iteration drops what the call held. *)
LEMMA AgainDrops ==
  ASSUME TypeOK, NEW c \in Calls, Again(c)
  PROVE  /\ ~Carries(c)'
         /\ \A d \in Calls \ {c} : pc'[d] = pc[d] /\ took'[d] = took[d]
         /\ \A d \in Calls : mine'[d] \in {mine[d], 0}
  BY DEF Again, Return, Goto, TypeOK, Carries

LEMMA CalmSteps ==
  ASSUME TypeOK, NEW c \in Calls,
         \/ Poll(c) \/ GetCurrent(c) \/ ReadCurrent(c) \/ NeedSwitch(c) \/ GetNext(c)
         \/ TryStartLoading(c) \/ LoaderFails(c) \/ FinishLoading(c) \/ Spin(c)
         \/ Peek(c) \/ Disconnect(c)
  PROVE  Calm
<1> USE DEF Calm, Carries, TypeOK, Goto, bufferVars, loaderVars
<1>1. CASE Poll(c) \/ GetCurrent(c) \/ ReadCurrent(c) \/ Spin(c)
  BY <1>1 DEF Poll, GetCurrent, ReadCurrent, Spin
<1>2. CASE NeedSwitch(c)
  BY <1>2, AgainDrops DEF NeedSwitch, Return
<1>3. CASE GetNext(c) \/ TryStartLoading(c)
  BY <1>3 DEF GetNext, TryStartLoading, Await
<1>4. CASE LoaderFails(c)
  BY <1>4 DEF LoaderFails
<1>5. CASE FinishLoading(c)
  BY <1>5 DEF FinishLoading, Return
<1>6. CASE Peek(c)
  BY <1>6, AgainDrops DEF Peek
<1>7. CASE Disconnect(c)
  BY <1>7 DEF Disconnect, Return
<1> QED
  BY <1>1, <1>2, <1>3, <1>4, <1>5, <1>6, <1>7

(* try_consume writes to the segment the call was reading, and never to    *)
(* the empty one.                                                          *)
LEMMA ConsumeCalm ==
  ASSUME TypeOK, FreshInv, NEW c \in Calls, TryConsume(c)
  PROVE  Calm
<1> DEFINE s   == mine[c]
           end == seg[s].current_id + Size(c)
<1>1. s \in SegIds /\ seg \in [SegIds -> Segment]
  BY DEF TypeOK
<1>2. CASE Goto(c, "need") /\ UNCHANGED <<seg, mine, took>>
  BY <1>2 DEF TryConsume, Calm, Carries, Goto, TypeOK, bufferVars
<1>3. CASE end <= seg[s].max_id /\ seg' = [seg EXCEPT ![s].current_id = end]
           /\ Return(c, "done")
  <2>1. s # 0
    <3>1. Size(c) \in Nat \ {0}
      BY SizeAssumption DEF Size, SizeAssumption
    <3> QED
      BY <1>3, <3>1 DEF FreshInv, Empty
  <2>2. \A t \in SegIds : t # s => seg'[t] = seg[t]
    BY <1>1, <1>3
  <2>3. seg'[0] = seg[0] /\ \A t \in SegIds : seg'[t] # seg[t] => mine[c] = t
    BY <2>1, <2>2, Bounds
  <2> QED
    BY <1>3, <2>3 DEF TryConsume, Calm, Carries, Return, TypeOK, bufferVars
<1> QED
  BY <1>2, <1>3 DEF TryConsume

--------------------------------------------------------------------------------
(* The loader's answer: a new segment, held by the call that loaded it. *)
LEMMA LoadKeepsFresh ==
  ASSUME TypeOK, FreshInv, NEW c \in Calls, LoaderAnswers(c)
  PROVE  FreshInv'
<1>1. PICK lo : LoadedRange(c, lo, lo + Step)
  BY DEF LoaderAnswers
<1> DEFINE new == loads + 1
<1>2. /\ new \in SegIds /\ loads' = new /\ loads \in Nat
      /\ seg'[new].current_id = seg'[new].start_id
      /\ \A s \in SegIds : s # new => seg'[s] = seg[s]
      /\ took' = [took EXCEPT ![c] = new]
      /\ pc' = [pc EXCEPT ![c] = "loaded"] /\ UNCHANGED <<current, next, mine>>
  BY <1>1, Zero DEF LoadedRange, Goto, bufferVars, TypeOK, SegIds
<1>3. \A s : Unused(s) => Unused(s)' /\ s # new
  BY <1>2, Bounds DEF Unused
<1>4. Unused(loads)'
  <2>1. new \in 1..loads'
    BY <1>2
  <2>2. current' <= loads /\ current' \in Nat /\ \A d \in Calls : mine'[d] <= loads /\ mine'[d] \in Nat
    BY <1>2, Bounds DEF FreshInv
  <2>3. new # current' /\ \A d \in Calls : mine'[d] # new
    BY <1>2, <2>2
  <2> QED
    BY <1>2, <2>1, <2>3 DEF Unused
<1>5. \A d \in Calls : Carries(d)' => d = c \/ (Carries(d) /\ took'[d] = took[d])
  BY <1>2 DEF Carries, TypeOK
<1>6. took'[c] = new
  BY <1>2 DEF TypeOK
<1>7. seg'[0] = Empty /\ current' <= loads' /\ \A d \in Calls : mine'[d] <= loads'
  BY <1>2, Bounds DEF FreshInv
<1>8. new # next
  BY <1>2, <1>3 DEF FreshInv, None
<1>9. \A d \in Calls : Carries(d)' => Unused(took[d])' /\ took'[d] # next'
  <2> SUFFICES ASSUME NEW d \in Calls, Carries(d)'
               PROVE  Unused(took[d])' /\ took'[d] # next'
    OBVIOUS
  <2>1. CASE d = c
    BY <1>2, <1>4, <1>6, <1>8, <2>1 DEF Unused
  <2>2. CASE Carries(d) /\ took'[d] = took[d]
    BY <1>2, <1>3, <2>2 DEF FreshInv, Unused
  <2> QED
    BY <1>5, <2>1, <2>2
<1>10. \A d, e \in Calls : Carries(d)' /\ Carries(e)' /\ d # e => took'[d] # took'[e]
  BY <1>3, <1>5, <1>6 DEF FreshInv
<1>11. next' # None => Unused(next)'
  BY <1>2, <1>3 DEF FreshInv
<1> QED
  BY <1>7, <1>9, <1>10, <1>11 DEF FreshInv

(* set_next: what the call held, next holds; what next held is nobody's. *)
LEMMA SetNextKeepsFresh ==
  ASSUME TypeOK, FreshInv, NEW c \in Calls, SetNext(c)
  PROVE  FreshInv'
<1>1. /\ Carries(c) /\ pc' = [pc EXCEPT ![c] = "take"] /\ next' = took[c]
      /\ UNCHANGED <<seg, loads, current, mine, took>>
  BY DEF SetNext, At, Goto, Carries, loaderVars
<1>2. \A s : Unused(s) => Unused(s)'
  BY <1>1 DEF Unused
<1>3. \A d \in Calls : Carries(d)' => Carries(d) /\ d # c
  BY <1>1 DEF Carries, TypeOK
<1> QED
  BY <1>1, <1>2, <1>3 DEF FreshInv

(* The first half of swap(): the call takes what next held, for itself. *)
LEMMA TakeNextKeepsFresh ==
  ASSUME TypeOK, FreshInv, NEW c \in Calls, TakeNext(c)
  PROVE  FreshInv'
<1>1. CASE next = None
  <2>1. Again(c) /\ next' = None /\ UNCHANGED <<seg, loads, current>>
    BY <1>1 DEF TakeNext, loaderVars
  <2>2. Calm
    BY <2>1, AgainDrops DEF Calm, Carries
  <2> QED
    BY <2>2, CalmKeepsFresh
<1>2. CASE next # None
  <2>1. /\ pc[c] = "take" /\ pc' = [pc EXCEPT ![c] = "install"]
        /\ took' = [took EXCEPT ![c] = next]
        /\ next' = None /\ UNCHANGED <<seg, loads, current, mine>>
    BY <1>2 DEF TakeNext, At, Goto, loaderVars
  <2>2. \A s : Unused(s) => Unused(s)' /\ s # None
    BY <2>1, Bounds DEF Unused, None
  <2>3. \A d \in Calls : Carries(d)' => d = c \/ (Carries(d) /\ took'[d] = took[d])
    BY <2>1 DEF Carries, TypeOK
  <2>4. took'[c] = next
    BY <2>1 DEF TypeOK
  <2>5. \A d \in Calls : Carries(d)' => Unused(took[d])' /\ took'[d] # next'
    BY <1>2, <2>1, <2>2, <2>3, <2>4 DEF FreshInv
  <2>6. \A d, e \in Calls : Carries(d)' /\ Carries(e)' /\ d # e => took'[d] # took'[e]
    BY <2>3, <2>4 DEF FreshInv
  <2> QED
    BY <2>1, <2>5, <2>6 DEF FreshInv
<1> QED
  BY <1>1, <1>2

(* The second half: what the call holds becomes current. *)
LEMMA InstallKeepsFresh ==
  ASSUME TypeOK, FreshInv, NEW c \in Calls, Install(c)
  PROVE  FreshInv' /\ seg[current'].current_id = seg[current'].start_id
<1>1. /\ Carries(c) /\ current' = took[c] /\ Again(c)
      /\ UNCHANGED <<seg, loads, next>>
  BY DEF Install, At, Carries, loaderVars
<1>2. Unused(took[c]) /\ took[c] # next
  BY <1>1 DEF FreshInv
<1>3. \A s : Unused(s) /\ s # took[c] => Unused(s)'
  BY <1>1, AgainDrops, Bounds DEF Unused
<1>4. \A d \in Calls : Carries(d)' => Carries(d) /\ d # c /\ took'[d] = took[d]
  BY <1>1, AgainDrops DEF Carries
<1>5. current' <= loads' /\ \A d \in Calls : mine'[d] <= loads'
  BY <1>1, <1>2, AgainDrops, Bounds DEF FreshInv, Unused
<1>6. \A d \in Calls : Carries(d)' => Unused(took[d])' /\ took'[d] # next'
  BY <1>1, <1>3, <1>4 DEF FreshInv
<1>7. \A d, e \in Calls : Carries(d)' /\ Carries(e)' /\ d # e => took'[d] # took'[e]
  BY <1>4 DEF FreshInv
<1>8. next' # None => Unused(next)'
  BY <1>1, <1>2, <1>3 DEF FreshInv
<1> QED
  BY <1>1, <1>2, <1>5, <1>6, <1>7, <1>8 DEF FreshInv, Unused

--------------------------------------------------------------------------------
LEMMA RestartCalm ==
  ASSUME TypeOK, Restart
  PROVE  Calm
  BY DEF Restart, Calm, Carries, Returned, loaderVars

LEMMA FreshStep ==
  ASSUME TypeOK, FreshInv, [Next]_vars
  PROVE  FreshInv' /\ (current' # current => seg[current'].current_id = seg[current'].start_id)
<1> DEFINE Fresh == current' # current => seg[current'].current_id = seg[current'].start_id
<1>1. Calm => Fresh
  BY DEF Calm, FreshInv, Empty
<1>2. CASE UNCHANGED vars
  <2>1. Calm
    BY <1>2 DEF Calm, vars, bufferVars, loaderVars, callVars, Carries
  <2> QED
    BY <1>1, <2>1, CalmKeepsFresh
<1>3. ASSUME NEW c \in Calls,
             \/ Poll(c) \/ GetCurrent(c) \/ ReadCurrent(c) \/ NeedSwitch(c) \/ GetNext(c)
             \/ TryStartLoading(c) \/ LoaderFails(c) \/ FinishLoading(c) \/ Spin(c)
             \/ Peek(c) \/ Disconnect(c)
      PROVE  FreshInv' /\ Fresh
  BY <1>1, <1>3, CalmSteps, CalmKeepsFresh
<1>4. ASSUME NEW c \in Calls, TryConsume(c) PROVE FreshInv' /\ Fresh
  BY <1>1, <1>4, ConsumeCalm, CalmKeepsFresh
<1>5. ASSUME NEW c \in Calls, LoaderAnswers(c) PROVE FreshInv' /\ Fresh
  <2>1. current' = current
    BY <1>5 DEF LoaderAnswers, LoadedRange, bufferVars
  <2> QED
    BY <1>5, <2>1, LoadKeepsFresh
<1>6. ASSUME NEW c \in Calls, SetNext(c) \/ TakeNext(c) PROVE FreshInv' /\ Fresh
  <2>1. current' = current
    BY <1>6 DEF SetNext, TakeNext
  <2> QED
    BY <1>6, <2>1, SetNextKeepsFresh, TakeNextKeepsFresh
<1>7. ASSUME NEW c \in Calls, Install(c) PROVE FreshInv' /\ Fresh
  BY <1>7, InstallKeepsFresh
<1>8. CASE Restart
  BY <1>1, <1>8, RestartCalm, CalmKeepsFresh
<1> QED
  BY <1>2, <1>3, <1>4, <1>5, <1>6, <1>7, <1>8 DEF Next, CallStep, Loader, Quiescent

(* swap() installs only segments nobody has consumed from: no call puts an *)
(* older or a used one back over the one that others are consuming from,   *)
(* however the two steps of several swaps, the loads of a batch and those  *)
(* of generate interleave.                                                 *)
THEOREM Freshness == Spec => FreshInstall
<1>1. Init => FreshInv
  BY Zero DEF Init, FreshInv, Carries, Empty, SegIds, None
<1>2. TypeOK /\ FreshInv /\ [Next]_vars => FreshInv'
  BY FreshStep
<1>3. TypeOK /\ FreshInv /\ [Next]_vars =>
        [current' # current => seg[current'].current_id = seg[current'].start_id]_vars
  BY FreshStep
<1> QED
  BY <1>1, <1>2, <1>3, TypeCorrect, PTL DEF Spec, FreshInstall
--------------------------------------------------------------------------------
(* A call of generate that nobody disturbs: what it finds in the buffer is *)
(* what it left there, so the segment it installs has ids for its second   *)
(* attempt.                                                                *)
Available(s) == seg[s].current_id < seg[s].max_id

Nonempty == \A s \in 1..loads : seg[s].start_id < seg[s].max_id

SoloAt(c) ==
  /\ pc[c] \notin {"peek", "exhausted"}
  /\ c \notin running => pc[c] \in {"get"} \cup Suspended \cup Returned
  /\ attempts[c] = 0 \/ (c \in running /\ attempts[c] = 1 /\ Available(current)
                           /\ pc[c] \in {"get", "consume"})
  /\ pc[c] \in {"consume", "ratio"} => mine[c] = current
  /\ pc[c] \in {"need", "ratio"} => ~Available(current)
  /\ pc[c] = "spin" => loading
  /\ pc[c] = "take" => next # None

Solo == \A c \in Generates : c \notin disturbed => SoloAt(c)

LEMMA NonemptyStep ==
  ASSUME TypeOK, Nonempty, [Next]_vars PROVE Nonempty'
<1>1. seg \in [SegIds -> Segment] /\ loads \in Nat /\ 1..loads \subseteq SegIds
  BY Bounds DEF TypeOK
<1>2. CASE Quiet
  BY <1>2 DEF Quiet, Nonempty
<1>3. ASSUME NEW c \in Calls, NEW s, NEW end, Consume(c, s, end) PROVE Nonempty'
  <2>1. \A t \in SegIds : seg'[t].start_id = seg[t].start_id /\ seg'[t].max_id = seg[t].max_id
    BY <1>1, <1>3 DEF Consume, Segment
  <2> QED
    BY <1>1, <1>3, <2>1 DEF Consume, Nonempty
<1>4. ASSUME NEW lo, Load(lo) PROVE Nonempty'
  <2>1. lo < lo + Step
    BY <1>4, SizeAssumption DEF Load, SizeAssumption
  <2> QED
    BY <1>1, <1>4, <2>1 DEF Load, Nonempty
<1> QED
  BY <1>2, <1>3, <1>4, StepEffect

(* A segment nobody has used has ids. *)
LEMMA UnusedAvailable ==
  ASSUME Nonempty, NEW s, Unused(s) PROVE Available(s)
  BY DEF Nonempty, Unused, Available

(* A step of another call leaves the frame of c alone, and c's view of the *)
(* buffer unless c is disturbed or not under way.                          *)
LEMMA OthersStep ==
  ASSUME TypeOK, NEW c \in Generates, NEW d \in Calls \ {c},
         Poll(d) \/ CallStep(d) \/ Loader(d) \/ Disconnect(d)
  PROVE  /\ pc'[c] = pc[c] /\ mine'[c] = mine[c] /\ attempts'[c] = attempts[c]
         /\ c \in running' <=> c \in running
         /\ c \in disturbed => c \in disturbed'
         /\ \/ UNCHANGED <<seg, current, next, loading>>
            \/ c \in disturbed'
            \/ c \notin running /\ pc[c] \notin Suspended
<1> USE DEF TypeOK, Calls, At, Goto, Return, Await, Disturb, bufferVars, loaderVars
<1>1. CASE Poll(d) \/ GetCurrent(d) \/ ReadCurrent(d) \/ GetNext(d) \/ Spin(d) \/ Disconnect(d)
  BY <1>1 DEF Poll, GetCurrent, ReadCurrent, GetNext, Spin, Disconnect
<1>2. CASE NeedSwitch(d) \/ Peek(d)
  BY <1>2 DEF NeedSwitch, Peek, Again
<1>3. CASE TryConsume(d) \/ TryStartLoading(d)
  BY <1>3 DEF TryConsume, TryStartLoading
<1>4. CASE FinishLoading(d) \/ SetNext(d)
  BY <1>4 DEF FinishLoading, SetNext
<1>5. CASE TakeNext(d) \/ Install(d)
  BY <1>5 DEF TakeNext, Install, Again
<1>6. CASE LoaderAnswers(d) \/ LoaderFails(d)
  BY <1>6 DEF LoaderAnswers, LoadedRange, LoaderFails
<1> QED
  BY <1>1, <1>2, <1>3, <1>4, <1>5, <1>6 DEF CallStep, Loader

(* A used-up segment is one to switch from, if the threshold is not 0. *)
LEMMA UsedUpSwitches ==
  ASSUME TypeOK, UniqueInv, SwitchPct # 0, NEW s \in SegIds, ~Available(s)
  PROVE  Switch(s)
<1> DEFINE total == seg[s].max_id - seg[s].start_id
<1>1. /\ seg[s].start_id \in Nat /\ seg[s].max_id \in Nat /\ seg[s].current_id \in Nat
      /\ seg[s].start_id <= seg[s].current_id /\ seg[s].current_id = seg[s].max_id
  BY SegmentsTyped DEF UniqueInv, CursorsInRange, Available
<1>2. total \in Nat /\ (seg[s].max_id - seg[s].current_id) * 100 = 0
  BY <1>1
<1>3. SwitchPct \in Nat \ {0}
  BY ScheduleAssumption DEF ScheduleAssumption
<1>4. total = 0 \/ 0 < total * SwitchPct
  BY <1>2, <1>3
<1> QED
  BY <1>2, <1>4 DEF Switch

LEMMA OwnStep ==
  ASSUME TypeOK, UniqueInv, FreshInv, Nonempty, SwitchPct # 0,
         NEW c \in Generates, SoloAt(c),
         Poll(c) \/ CallStep(c) \/ Loader(c) \/ Disconnect(c)
  PROVE  SoloAt(c)'
<1>0. c \in Calls /\ c \notin Batches
  BY CallsAssumption DEF CallsAssumption, Calls
<1> USE <1>0 DEF TypeOK, SoloAt, At, Goto, bufferVars, loaderVars, Available
<1>1. CASE Poll(c) \/ GetCurrent(c)
  BY <1>1 DEF Poll, GetCurrent
<1>2. CASE TryConsume(c)
  <2>1. CASE Return(c, "done")
    BY <2>1 DEF Return, Suspended, Returned
  <2>2. CASE Goto(c, "need")
    <3>1. ~Available(current) /\ attempts[c] = 0
      <4>1. Size(c) = 1 /\ mine[c] = current /\ current \in SegIds
        BY <1>2 DEF TryConsume, Size
      <4>2. seg[current].current_id + 1 > seg[current].max_id
        BY <1>2, <2>2, <4>1 DEF TryConsume, Return
      <4> QED
        BY <1>2, <4>1, <4>2, SegmentsTyped DEF TryConsume
    <3> QED
      BY <1>2, <2>2, <3>1 DEF TryConsume, Return
  <2> QED
    BY <1>2, <2>1, <2>2 DEF TryConsume
<1>3. CASE ReadCurrent(c)
  BY <1>3 DEF ReadCurrent
<1>4. CASE NeedSwitch(c)
  <2>1. Switch(mine[c])
    BY <1>4, UsedUpSwitches DEF NeedSwitch
  <2> QED
    BY <1>4, <2>1 DEF NeedSwitch
<1>5. CASE GetNext(c) \/ TryStartLoading(c) \/ Spin(c) \/ Peek(c)
  BY <1>5 DEF GetNext, TryStartLoading, Await, Spin, Peek, Suspended
<1>6. CASE FinishLoading(c)
  BY <1>6 DEF FinishLoading, Return, Suspended, Returned
<1>7. CASE SetNext(c)
  <2>1. took[c] # None
    BY Bounds DEF None
  <2> QED
    BY <1>7, <2>1 DEF SetNext
<1>8. CASE TakeNext(c)
  BY <1>8 DEF TakeNext
<1>9. CASE Install(c)
  <2>1. Available(took[c])
    BY <1>9, UnusedAvailable DEF Install, Carries, FreshInv
  <2>2. attempts[c] = 0 /\ pc' = [pc EXCEPT ![c] = "get"] /\ attempts' = [attempts EXCEPT ![c] = 1]
    BY <1>9 DEF Install, Again
  <2> QED
    BY <1>9, <2>1, <2>2 DEF Install, Again
<1>10. CASE Loader(c)
  BY <1>10 DEF Loader, LoaderAnswers, LoadedRange, LoaderFails, Suspended
<1>11. CASE Disconnect(c)
  BY <1>11 DEF Disconnect, Return, Suspended, Returned
<1> QED
  BY <1>1, <1>2, <1>3, <1>4, <1>5, <1>6, <1>7, <1>8, <1>9, <1>10, <1>11 DEF CallStep

LEMMA SoloStep ==
  ASSUME TypeOK, UniqueInv, FreshInv, Nonempty, Solo, SwitchPct # 0, [Next]_vars
  PROVE  Solo'
<1> SUFFICES ASSUME NEW c \in Generates, c \notin disturbed' PROVE SoloAt(c)'
  BY DEF Solo
<1>1. CASE UNCHANGED vars
  BY <1>1 DEF vars, bufferVars, loaderVars, callVars, Solo, SoloAt, Available
<1>2. CASE Restart
  <2>1. c \notin disturbed /\ SoloAt(c)
    BY <1>2 DEF Restart, Solo
  <2> QED
    BY <1>2, <2>1 DEF Restart, SoloAt, Returned, Suspended, Calls, loaderVars
<1>3. ASSUME NEW d \in Calls, Poll(d) \/ CallStep(d) \/ Loader(d) \/ Disconnect(d)
      PROVE  SoloAt(c)'
  <2>1. CASE d # c
    <3>1. c \notin disturbed /\ SoloAt(c)
      BY <1>3, <2>1, OthersStep DEF Solo
    <3>2. CASE UNCHANGED <<seg, current, next, loading>>
      BY <1>3, <2>1, <3>1, <3>2, OthersStep DEF SoloAt, Available
    <3>3. CASE c \notin running /\ pc[c] \notin Suspended
      BY <1>3, <2>1, <3>1, <3>3, OthersStep DEF SoloAt, Returned
    <3> QED
      BY <1>3, <2>1, <3>2, <3>3, OthersStep
  <2>2. CASE d = c
    <3>1. c \notin disturbed
      BY <1>3, <2>2
         DEF Poll, CallStep, GetCurrent, TryConsume, ReadCurrent, NeedSwitch, GetNext,
             TryStartLoading, FinishLoading, SetNext, TakeNext, Install, Spin, Peek,
             Loader, LoaderAnswers, LoadedRange, LoaderFails, Disconnect, Disturb
    <3> QED
      BY <1>3, <2>2, <3>1, OwnStep DEF Solo
  <2> QED
    BY <2>1, <2>2
<1> QED
  BY <1>1, <1>2, <1>3 DEF Next, Quiescent

(* generate gives up only where others wrote to the buffer during it, for  *)
(* any number of calls and threads, with failures and restarts, if the     *)
(* switch threshold is not 0: an undisturbed call needs two attempts.      *)
THEOREM GivesUpDisturbed ==
  ASSUME SwitchPct # 0 PROVE Spec => []ExhaustedOnlyIfDisturbed
<1>1. Init => FreshInv /\ Nonempty /\ Solo
  <2>1. Init => FreshInv
    BY Zero DEF Init, FreshInv, Carries, Empty, SegIds, None
  <2>2. Init => Nonempty
    BY DEF Init, Nonempty
  <2>3. Init => Solo
    BY DEF Init, Solo, SoloAt, Calls
  <2> QED
    BY <2>1, <2>2, <2>3
<1>2. /\ TypeOK /\ UniqueInv /\ FreshInv /\ Nonempty /\ Solo
      /\ [Next]_vars
      => (FreshInv /\ Nonempty /\ Solo)'
  BY FreshStep, NonemptyStep, SoloStep
<1>3. Solo => ExhaustedOnlyIfDisturbed
  BY DEF Solo, SoloAt, ExhaustedOnlyIfDisturbed
<1> QED
  BY <1>1, <1>2, <1>3, TypeCorrect, Uniqueness, PTL DEF Spec
--------------------------------------------------------------------------------
(* The buffer with the loader that answers from the clock: ranges start    *)
(* where their second does, and every id returned was consumed from one.   *)
Begins(s) == loadedAt[s] * PerSecond

Clocked ==
  /\ \A s \in 1..loads :
       /\ seg[s].start_id = Begins(s) /\ seg[s].max_id = Begins(s) + Span
       /\ seg[s].start_id <= seg[s].current_id
  /\ \A s \in SegIds : s > loads => seg[s] = Empty
  /\ seg[0] = Empty

Consumed(s) == seg[s].start_id..(seg[s].current_id - 1)
FromRange == \A c \in Calls : \A id \in got[c] : \E s \in 1..loads : id \in Consumed(s)

(* What an id was consumed from is within its range, which is apart from   *)
(* those of spaced loads.                                                  *)
InRanges == \A s \in SegIds : seg[s].current_id <= seg[s].max_id

ClockTyped == now \in Nat /\ loadedAt \in [SegIds -> Nat]

SpacedInv ==
  TypeOK /\ ClockTyped /\ Clocked /\ InRanges /\ FromRange /\ SpacedUnique

LEMMA SpacedRanges ==
  ASSUME TypeOK, ClockTyped, Clocked, Spaced, NEW s \in 1..loads, NEW t \in 1..loads, s # t
  PROVE  seg[s].max_id <= seg[t].start_id \/ seg[t].max_id <= seg[s].start_id
<1>1. s \in SegIds /\ t \in SegIds /\ loads \in Nat
  BY Bounds
<1>2. loadedAt[s] \in Nat /\ loadedAt[t] \in Nat /\ PerSecond \in Nat /\ Span \in Nat
  BY <1>1, ClockAssumption DEF ClockTyped, ClockAssumption
<1>3. CASE s < t
  BY <1>2, <1>3 DEF Spaced, Clocked, Begins
<1>4. CASE t < s
  BY <1>2, <1>4 DEF Spaced, Clocked, Begins
<1> QED
  BY <1>1, <1>3, <1>4

(* Steps that write neither segments nor ids. *)
LEMMA QuietKeepsSpaced ==
  ASSUME SpacedInv, TypeOK', Quiet, UNCHANGED loadedAt, ClockTyped' PROVE SpacedInv'
  BY DEF SpacedInv, Quiet, Clocked, Begins, InRanges, FromRange, Consumed, SpacedUnique, Spaced,
         UniqueIds

LEMMA ConsumeKeepsSpaced ==
  ASSUME SpacedInv, TypeOK', UNCHANGED clockVars, NEW c \in Calls, NEW s, NEW end, Consume(c, s, end)
  PROVE  SpacedInv'
<1> DEFINE range == seg[s].current_id..(end - 1)
<1>1. /\ seg \in [SegIds -> Segment] /\ loads \in Nat /\ 1..loads \subseteq SegIds
      /\ got \in [Calls -> SUBSET Nat]
  BY Bounds DEF SpacedInv, TypeOK
<1>2. /\ s \in SegIds /\ end \in Nat /\ seg[s].current_id < end /\ end <= seg[s].max_id
      /\ \A t \in SegIds : seg[t].start_id \in Nat /\ seg[t].max_id \in Nat /\ seg[t].current_id \in Nat
  BY SegmentsTyped DEF Consume, SpacedInv
<1>3. s \in 1..loads
  <2>1. seg[s] # Empty
    BY <1>2 DEF Empty
  <2>2. s \in Nat /\ s # 0 /\ ~(s > loads)
    BY <1>2, <2>1 DEF SpacedInv, Clocked, SegIds
  <2> QED
    BY <1>1, <2>2
<1>4. /\ \A t \in SegIds : seg'[t].start_id = seg[t].start_id /\ seg'[t].max_id = seg[t].max_id
      /\ \A t \in SegIds : t # s => seg'[t] = seg[t]
      /\ seg'[s].current_id = end
  BY <1>1, <1>2 DEF Consume, Segment
<1>5. UNCHANGED <<loads, loadedAt, now>>
  BY DEF Consume, clockVars
<1>6. Clocked'
  <2>1. \A t \in 1..loads : seg'[t].start_id <= seg'[t].current_id
    BY <1>1, <1>2, <1>4 DEF SpacedInv, Clocked
  <2>2. \A t \in SegIds : t > loads => seg'[t] = Empty
    BY <1>1, <1>3, <1>4 DEF SpacedInv, Clocked
  <2>3. seg'[0] = Empty
    BY <1>3, <1>4, Zero DEF SpacedInv, Clocked
  <2> QED
    BY <1>1, <1>4, <1>5, <2>1, <2>2, <2>3 DEF SpacedInv, Clocked, Begins
<1>7. InRanges'
  BY <1>2, <1>4 DEF SpacedInv, InRanges
<1>8. range \subseteq Consumed(s)' /\ range \cap Consumed(s) = {}
  BY <1>2, <1>3, <1>4 DEF Consumed, SpacedInv, Clocked
<1>9. \A t \in 1..loads : Consumed(t) \subseteq Consumed(t)'
  BY <1>1, <1>2, <1>4 DEF Consumed
<1>10. got'[c] = range /\ \A d \in Calls : d # c => got'[d] = got[d]
  BY <1>1 DEF Consume
<1>11. FromRange'
  <2> SUFFICES ASSUME NEW d \in Calls, NEW id \in got'[d]
               PROVE  \E t \in 1..loads : id \in Consumed(t)'
    BY <1>5 DEF FromRange
  <2>1. CASE d = c
    BY <1>3, <1>8, <1>10, <2>1
  <2>2. CASE d # c
    BY <1>9, <1>10, <2>2 DEF SpacedInv, FromRange
  <2> QED
    BY <2>1, <2>2
<1>12. SpacedUnique'
  <2> SUFFICES ASSUME Spaced PROVE UniqueIds'
    BY <1>5 DEF SpacedUnique, Spaced
  <2>1. ASSUME NEW d \in Calls, NEW id \in got[d], id \in range PROVE FALSE
    <3>1. PICK t \in 1..loads : id \in Consumed(t)
      BY <2>1 DEF SpacedInv, FromRange
    <3>2. t # s
      BY <1>8, <2>1, <3>1
    <3>3. seg[s].max_id <= seg[t].start_id \/ seg[t].max_id <= seg[s].start_id
      BY <1>3, <3>2, SpacedRanges DEF SpacedInv
    <3>4. t \in SegIds /\ seg[t].current_id <= seg[t].max_id
      BY <1>1 DEF SpacedInv, InRanges
    <3>5. seg[t].start_id <= id /\ id < seg[t].current_id /\ id \in Int
      BY <1>2, <3>1, <3>4 DEF Consumed
    <3>6. seg[s].start_id <= seg[s].current_id /\ seg[s].current_id <= id /\ id < end
      BY <1>2, <1>3, <2>1 DEF SpacedInv, Clocked
    <3> QED
      BY <1>2, <3>3, <3>4, <3>5, <3>6
  <2>2. \A d, e \in Calls : d # e => got[d] \cap got[e] = {}
    BY DEF SpacedInv, SpacedUnique, UniqueIds
  <2> QED
    BY <1>10, <2>1, <2>2 DEF UniqueIds
<1>13. ClockTyped'
  BY <1>5 DEF SpacedInv, ClockTyped
<1> QED
  BY <1>6, <1>7, <1>11, <1>12, <1>13 DEF SpacedInv

LEMMA LoadKeepsSpaced ==
  ASSUME SpacedInv, NEW c \in Calls, DefaultLoaderAnswers(c) PROVE SpacedInv'
<1> DEFINE new == loads + 1
           lo  == now * PerSecond
<1>1. /\ lo \in Nat /\ Span \in Nat /\ now \in Nat
  BY ClockAssumption DEF ClockAssumption, SpacedInv, ClockTyped
<1>2. /\ seg \in [SegIds -> Segment] /\ loads \in Nat /\ 1..loads \subseteq SegIds
      /\ loadedAt \in [SegIds -> Nat]
  BY Bounds DEF SpacedInv, TypeOK, ClockTyped
<1>3. /\ new \in SegIds /\ loads' = new
      /\ seg' = [seg EXCEPT ![new] = [start_id |-> lo, max_id |-> lo + Span, current_id |-> lo]]
      /\ loadedAt' = [loadedAt EXCEPT ![new] = now] /\ now' = now
      /\ UNCHANGED <<got, hwm, current, next, loading, running, mine, attempts>>
      /\ took' = [took EXCEPT ![c] = new] /\ pc' = [pc EXCEPT ![c] = "loaded"]
      /\ Disturb(c)
  BY <1>2, Zero DEF DefaultLoaderAnswers, LoadedRange, Goto, bufferVars, SegIds
<1> HIDE DEF lo
<1>4. TypeOK'
  <2>1. [start_id |-> lo, max_id |-> lo + Span, current_id |-> lo] \in Segment
    BY <1>1 DEF Segment
  <2> QED
    BY <1>3, <2>1, DisturbTyped DEF SpacedInv, TypeOK, Locations, Suspended
<1>5. ClockTyped'
  BY <1>1, <1>2, <1>3 DEF ClockTyped
<1>6. /\ \A s \in SegIds : s # new => seg'[s] = seg[s] /\ loadedAt'[s] = loadedAt[s]
      /\ loadedAt'[new] = now
      /\ seg'[new] = [start_id |-> lo, max_id |-> lo + Span, current_id |-> lo]
  BY <1>2, <1>3
<1>7. 1..loads' = 1..loads \cup {new} /\ \A s \in 1..loads : s # new /\ s \in SegIds
  BY <1>2, <1>3
<1>8. Clocked'
  <2>1. seg'[0] = Empty
    BY <1>2, <1>6, Zero DEF SpacedInv, Clocked
  <2>2. \A s \in SegIds : s > loads' => seg'[s] = Empty
    BY <1>2, <1>3, <1>6 DEF SpacedInv, Clocked, SegIds
  <2>3. \A s \in 1..loads :
          /\ seg'[s].start_id = Begins(s)' /\ seg'[s].max_id = Begins(s)' + Span
          /\ seg'[s].start_id <= seg'[s].current_id
    BY <1>6, <1>7 DEF SpacedInv, Clocked, Begins
  <2>4. \A s \in {new} :
          /\ seg'[s].start_id = Begins(s)' /\ seg'[s].max_id = Begins(s)' + Span
          /\ seg'[s].start_id <= seg'[s].current_id
    <3>1. \A s \in {new} : Begins(s)' = lo
      BY <1>6 DEF Begins, lo
    <3> QED
      BY <1>1, <1>6, <3>1
  <2>5. \A s \in 1..loads' :
          /\ seg'[s].start_id = Begins(s)' /\ seg'[s].max_id = Begins(s)' + Span
          /\ seg'[s].start_id <= seg'[s].current_id
    BY <1>7, <2>3, <2>4
  <2> QED
    BY <2>1, <2>2, <2>5 DEF Clocked
<1>9. InRanges'
  BY <1>1, <1>6 DEF SpacedInv, InRanges
<1>10. FromRange'
  BY <1>3, <1>6, <1>7 DEF SpacedInv, FromRange, Consumed
<1>11. SpacedUnique'
  <2>1. Spaced' => Spaced
    BY <1>6, <1>7 DEF Spaced
  <2> QED
    BY <1>3, <2>1 DEF SpacedInv, SpacedUnique, UniqueIds
<1> QED
  BY <1>4, <1>5, <1>8, <1>9, <1>10, <1>11 DEF SpacedInv

LEMMA SpacedStep == SpacedInv /\ [DefaultNext]_<<vars, clockVars>> => SpacedInv'
<1> SUFFICES ASSUME SpacedInv, [DefaultNext]_<<vars, clockVars>> PROVE SpacedInv'
  OBVIOUS
<1>1. ASSUME NEW c \in Calls, DefaultLoaderAnswers(c) PROVE SpacedInv'
  BY <1>1, LoadKeepsSpaced
<1>2. CASE Tick
  <2>1. Quiet /\ UNCHANGED loadedAt /\ now' \in Nat
    BY <1>2 DEF Tick, Quiet, vars, loaderVars, callVars, SpacedInv, ClockTyped
  <2>2. TypeOK'
    BY <1>2, TypeStep DEF Tick, SpacedInv
  <2> QED
    BY <2>1, <2>2, QuietKeepsSpaced DEF SpacedInv, ClockTyped
<1>3. CASE /\ UNCHANGED clockVars
           /\ \/ \E c \in Calls : Poll(c) \/ CallStep(c) \/ LoaderFails(c) \/ Disconnect(c)
              \/ Restart \/ UNCHANGED vars
  <2>1. [Next]_vars
    BY <1>3 DEF Next, Loader
  <2>2. TypeOK' /\ ClockTyped'
    BY <1>3, <2>1, TypeStep DEF SpacedInv, ClockTyped, clockVars
  <2>3. CASE Quiet
    BY <1>3, <2>2, <2>3, QuietKeepsSpaced DEF clockVars
  <2>4. CASE \E c \in Calls : \E s, end : Consume(c, s, end)
    BY <1>3, <2>2, <2>4, ConsumeKeepsSpaced
  <2>5. Quiet \/ \E c \in Calls : \E s, end : Consume(c, s, end)
    <3>1. CASE UNCHANGED vars
      BY <3>1 DEF vars, loaderVars, callVars, Quiet
    <3>2. CASE Restart
      BY <3>2 DEF Restart, loaderVars, Quiet
    <3>3. CASE \E c \in Calls : TryConsume(c)
      BY <3>3, TryConsumeEffect DEF SpacedInv
    <3> QED
      BY <1>3, <3>1, <3>2, <3>3, OtherStepsQuiet DEF CallStep
  <2> QED
    BY <2>3, <2>4, <2>5
<1> QED
  BY <1>1, <1>2, <1>3 DEF DefaultNext, Quiescent, clockVars

LEMMA SpacedInitial == DefaultInit => SpacedInv
<1> SUFFICES ASSUME DefaultInit PROVE SpacedInv
  OBVIOUS
<1>1. TypeOK /\ loads = 0 /\ \A s \in SegIds : seg[s] = Empty
  BY InitTyped DEF DefaultInit, Init
<1>2. ClockTyped
  BY DEF DefaultInit, ClockTyped
<1>3. Clocked /\ InRanges
  BY <1>1, Zero DEF Clocked, InRanges, Empty
<1>4. FromRange /\ SpacedUnique
  BY DEF DefaultInit, Init, FromRange, SpacedUnique, UniqueIds
<1> QED
  BY <1>1, <1>2, <1>3, <1>4 DEF SpacedInv

(* The clock-based loader hands no id out twice where loads are so far     *)
(* apart that the clock has passed the end of a range before the next is   *)
(* made, for any rate and length of ranges, and through restarts.          *)
THEOREM SpacedLoads == DefaultSpec => []SpacedUnique
<1>1. SpacedInv => SpacedUnique
  BY DEF SpacedInv
<1> QED
  BY <1>1, SpacedInitial, SpacedStep, PTL DEF DefaultSpec

(* But for its loads, the buffer behind this loader takes the steps of any. *)
LEMMA DefaultSteps ==
  [DefaultNext]_<<vars, clockVars>> => [Next]_vars \/ \E c \in Calls : DefaultLoaderAnswers(c)
  BY DEF DefaultNext, Next, Loader, Tick, Quiescent

LEMMA DefaultPendingStep ==
  TypeOK /\ PendingEmpty /\ [DefaultNext]_<<vars, clockVars>> => PendingEmpty'
<1> SUFFICES ASSUME TypeOK, PendingEmpty, [DefaultNext]_<<vars, clockVars>> PROVE PendingEmpty'
  OBVIOUS
<1>1. ASSUME NEW c \in Calls, DefaultLoaderAnswers(c) PROVE PendingEmpty'
  <2>1. pc[c] = "load" /\ Goto(c, "loaded") /\ UNCHANGED got
    BY <1>1 DEF DefaultLoaderAnswers, LoadedRange
  <2> QED
    BY <2>1 DEF Goto, PendingEmpty, TypeOK
<1> QED
  BY <1>1, PendingStep, DefaultSteps

(* So the buffer behind the clock-based loader implements the issuer of    *)
(* ids as long as its loads are spaced.                                    *)
THEOREM SpacedImplements == DefaultSpec /\ []Spaced => IssuesIds
<1>1. DefaultInit => Issuer!Init /\ PendingEmpty
  BY DEF DefaultInit, Init, Issuer!Init, PendingEmpty
<1>2. /\ TypeOK /\ PendingEmpty /\ Spaced' /\ SpacedUnique'
      /\ [DefaultNext]_<<vars, clockVars>>
      => [Issuer!Next]_got
  <2> SUFFICES ASSUME TypeOK, PendingEmpty, Spaced', SpacedUnique',
                      [DefaultNext]_<<vars, clockVars>>
               PROVE  Issuer!Next \/ got' = got
    OBVIOUS
  <2>1. UniqueIds'
    BY DEF SpacedUnique
  <2>2. ASSUME NEW c \in Calls, DefaultLoaderAnswers(c) PROVE got' = got
    BY <2>2 DEF DefaultLoaderAnswers, LoadedRange
  <2> QED
    BY <2>1, <2>2, DefaultSteps, IssueStep
<1>3. DefaultSpec => [](TypeOK /\ SpacedUnique)
  <2>1. SpacedInv => TypeOK /\ SpacedUnique
    BY DEF SpacedInv
  <2> QED
    BY <2>1, SpacedInitial, SpacedStep, PTL DEF DefaultSpec
<1> QED
  BY <1>1, <1>2, <1>3, DefaultPendingStep, PTL DEF DefaultSpec, IssuesIds, Issuer!Spec
================================================================================
