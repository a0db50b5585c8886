---------------------------- MODULE DegradationProofs ----------------------------
(***************************************************************************)
(* Proofs about Degradation, for any algorithms, fallback chain, number of *)
(* workers and thresholds.                                                 *)
(***************************************************************************)
EXTENDS Degradation, TLAPS

LEMMA RestTyped == AtRest \in Tasks
  BY DegradationAssumption DEF AtRest, Tasks, States, DegradationAssumption

(* What a move of one task leaves as it was. *)
LEMMA GotoTyped ==
  ASSUME TypeOK, NEW p \in Actors, NEW here, NEW there, Goto(p, here, there),
         there \in {"idle", "generate", "fallback", "mark", "recover", "determine", "write", "next",
                    "restore"}
  PROVE  /\ task' \in [Actors -> Tasks]
         /\ task[p].at = here /\ task'[p].at = there
         /\ \A q \in Actors \ {p} : task'[q] = task[q]
PROOF
  <1>1. task \in [Actors -> Tasks] /\ task[p] \in Tasks
    BY DEF TypeOK
  <1>2. CASE there = "idle"
    <2>1. task' = [task EXCEPT ![p] = AtRest]
      BY <1>2 DEF Goto
    <2> QED
      BY <1>1, <1>2, <2>1, RestTyped DEF Goto, AtRest
  <1>3. CASE there # "idle"
    <2> DEFINE t == [task[p] EXCEPT !.at = there, !.found = "Normal"]
    <2>1. task' = [task EXCEPT ![p] = t]
      BY <1>3 DEF Goto
    <2>2. t \in Tasks /\ t.at = there
      BY <1>1 DEF Tasks, States
    <2> HIDE DEF t
    <2> QED
      BY <1>1, <2>1, <2>2 DEF Goto
  <1> QED
    BY <1>2, <1>3

LEMMA DealTyped ==
  ASSUME TypeOK, NEW p \in Actors, NEW here, NEW there, NEW a \in Algorithms, NEW then,
         Deal(p, here, there, a, then),
         there \in {"idle", "generate", "fallback", "mark", "recover", "determine", "write", "next",
                    "restore"},
         then \in {"idle", "fallback", "next"}
  PROVE  /\ task' \in [Actors -> Tasks]
         /\ task[p].at = here /\ task'[p].at = there
         /\ \A q \in Actors \ {p} : task'[q] = task[q]
PROOF
  <1> DEFINE t == [task[p] EXCEPT !.at = there, !.alg = a, !.then = then]
  <1>1. task \in [Actors -> Tasks] /\ task[p] \in Tasks
    BY DEF TypeOK
  <1>2. task' = [task EXCEPT ![p] = t]
    BY DEF Deal
  <1>3. t \in Tasks /\ t.at = there
    BY <1>1 DEF Tasks
  <1> HIDE DEF t
  <1> QED
    BY <1>1, <1>2, <1>3 DEF Deal

(* A counter of type u8 stays one. *)
LEMMA CountTyped ==
  ASSUME TypeOK, NEW a, RecordSuccess(a) \/ RecordFailure(a)
  PROVE  /\ consecutive_failures' \in [Registered -> 0..(Wrap - 1)]
         /\ consecutive_successes' \in [Registered -> 0..(Wrap - 1)]
PROOF
  <1>1. Wrap \in Nat /\ Wrap > 1
    BY DegradationAssumption DEF DegradationAssumption
  <1>2. \A n \in 0..(Wrap - 1) : (n + 1) % Wrap \in 0..(Wrap - 1)
    BY <1>1
  <1>3. 0 \in 0..(Wrap - 1)
    BY <1>1
  <1> QED
    BY <1>2, <1>3 DEF TypeOK, RecordSuccess, RecordFailure

LEMMA MarkTyped ==
  ASSUME TypeOK, NEW a, NEW p, NEW degraded \in BOOLEAN, Mark(a, p, degraded)
  PROVE  is_degraded' \in [Registered -> BOOLEAN] /\ overlapped' \in BOOLEAN
  BY DEF TypeOK, Mark

LEMMA HalfOpenTyped ==
  ASSUME TypeOK, NEW a, HalfOpen(a) \/ Opened(a)
  PROVE  /\ circuit' \in [Registered -> {"Closed", "Open", "HalfOpen"}]
         /\ elapsed' \in [Registered -> BOOLEAN]
  BY DEF TypeOK, HalfOpen, Opened

LEMMA InitTyped == Init => TypeOK
PROOF
  <1>1. 0 \in 0..(Wrap - 1)
    BY DegradationAssumption DEF DegradationAssumption
  <1> QED
    BY <1>1, RestTyped DEF Init, TypeOK, States

--------------------------------------------------------------------------------
(* Every move of a task is one of these, and leaves the rest of the tasks. *)
Moves(p) ==
  /\ task' \in [Actors -> Tasks]
  /\ \A q \in Actors \ {p} : task'[q] = task[q]

LEMMA TakeTyped ==
  ASSUME TypeOK, NEW a \in Registered, NEW there \in {"next", "mark", "restore"}, Take(a, there)
  PROVE  /\ Moves(Checker) /\ left' \subseteq Registered
         /\ task[Checker].at = "next" /\ task'[Checker].at = there
PROOF
  <1> DEFINE b == IF there = "next" THEN Primary ELSE a
  <1>1. Checker \in Actors /\ b \in Algorithms
    BY DegradationAssumption DEF Actors, DegradationAssumption
  <1>2. Deal(Checker, "next", there, b, "next")
    BY DEF Take
  <1> HIDE DEF b
  <1>3. /\ Moves(Checker)
        /\ task[Checker].at = "next" /\ task'[Checker].at = there
    BY <1>1, <1>2, DealTyped DEF Moves
  <1> QED
    BY <1>3 DEF Take, TypeOK

(* A step of the check that takes an algorithm. *)
LEMMA CheckOneEffect ==
  ASSUME TypeOK, NEW a \in Registered, CheckOne(a)
  PROVE  /\ TypeOK' /\ Moves(Checker)
         /\ task[Checker].at = "next" /\ task'[Checker].at \in {"next", "mark", "restore"}
         /\ changed' = (changed \/ task'[Checker].at = "mark")
         /\ UNCHANGED <<is_degraded, current_state, overlapped>>
PROOF
  <1>1. CASE PassOver(a)
    <2>1. Take(a, "next")
      BY <1>1 DEF PassOver
    <2> QED
      BY <1>1, <2>1, TakeTyped DEF PassOver, TypeOK, Moves, health, counters
  <1>2. CASE CheckSkips(a)
    <2>1. Take(a, "next") /\ HalfOpen(a)
      BY <1>2 DEF CheckSkips
    <2> QED
      BY <1>2, <2>1, TakeTyped, HalfOpenTyped DEF CheckSkips, TypeOK, Moves, counters
  <1>3. CASE CheckHealthy(a)
    <2>1. Take(a, "next") /\ HalfOpen(a) /\ RecordSuccess(a)
      BY <1>3 DEF CheckHealthy
    <2> QED
      BY <1>3, <2>1, TakeTyped, HalfOpenTyped, CountTyped DEF CheckHealthy, TypeOK, Moves
  <1>4. CASE CheckUnhealthy(a)
    <2>1. Take(a, "next") /\ HalfOpen(a) /\ RecordFailure(a)
      BY <1>4 DEF CheckUnhealthy
    <2> QED
      BY <1>4, <2>1, TakeTyped, HalfOpenTyped, CountTyped DEF CheckUnhealthy, TypeOK, Moves
  <1>5. CASE CheckOpens(a)
    <2>1. Take(a, "mark") /\ Opened(a) /\ RecordFailure(a)
      BY <1>5 DEF CheckOpens
    <2> QED
      BY <1>5, <2>1, TakeTyped, HalfOpenTyped, CountTyped DEF CheckOpens, TypeOK, Moves
  <1>6. CASE Reopen(a)
    <2>1. Take(a, "next") /\ Opened(a) /\ RecordFailure(a)
      BY <1>6 DEF Reopen
    <2> QED
      BY <1>6, <2>1, TakeTyped, HalfOpenTyped, CountTyped DEF Reopen, TypeOK, Moves
  <1>7. CASE Probe(a)
    <2>1. Take(a, "next") /\ RecordSuccess(a)
      BY <1>7 DEF Probe
    <2> QED
      BY <1>7, <2>1, TakeTyped, CountTyped DEF Probe, TypeOK, Moves
  <1>8. CASE Close(a)
    <2>1. Take(a, "restore")
      BY <1>8 DEF Close
    <2> QED
      BY <1>8, <2>1, TakeTyped DEF Close, TypeOK, Moves, counters
  <1> QED
    BY <1>1, <1>2, <1>3, <1>4, <1>5, <1>6, <1>7, <1>8 DEF CheckOne

--------------------------------------------------------------------------------
(* What Agreement asks of a state of the manager. *)
Agrees(x) ==
  /\ Primary \in Registered => (x = "Normal" <=> ~is_degraded[Primary])
  /\ x \in Algorithms => x \in Registered /\ ~is_degraded[x]

(* Agreement is not inductive: what a task is about to write has to agree  *)
(* as well, up to the write.                                               *)
FoundAgrees ==
  ~overlapped => \A p \in Actors : task[p].at = "write" => Agrees(task[p].found)

AgreeInv == TypeOK /\ FoundAgrees /\ Agreement

(* determine_effective_algorithm finds a state that agrees. *)
LEMMA EffectiveAgrees ==
  ASSUME TypeOK, NEW x \in States, Effective(x) PROVE Agrees(x)
PROOF
  <1>1. "Normal" \notin Algorithms /\ "Critical" \notin Algorithms
    BY DegradationAssumption DEF DegradationAssumption
  <1>2. \A i \in 1..Len(Chain) : Chain[i] \in Algorithms
    BY DegradationAssumption DEF DegradationAssumption
  <1> QED
    BY <1>1, <1>2 DEF Effective, Agrees

(* A step that marks nothing and begins or ends no update keeps AgreeInv. *)
Quiet(p) ==
  /\ Moves(p)
  /\ {task[p].at, task'[p].at} \cap {"determine", "write"} = {}
  /\ changed => changed'
  /\ UNCHANGED <<is_degraded, current_state, overlapped>>

LEMMA QuietKeeps ==
  ASSUME AgreeInv, NEW p \in Actors, Quiet(p) PROVE FoundAgrees' /\ Agreement'
PROOF
  <1>1. \A q \in Actors : task'[q] = task[q] \/ (task[q].at \notin {"determine", "write"} /\ task'[q].at \notin {"determine", "write"})
    BY DEF Quiet, Moves
  <1>2. FoundAgrees'
    BY <1>1 DEF AgreeInv, FoundAgrees, Agrees, Quiet
  <1>3. \A q \in Actors : Updating(q) => Updating(q)'
    BY <1>1 DEF Updating, Quiet
  <1>4. Agreement'
    BY <1>3 DEF AgreeInv, Agreement, Quiet
  <1> QED
    BY <1>2, <1>4

(* A mark, after which its task is updating: whoever else was is noted. *)
LEMMA MarkKeeps ==
  ASSUME AgreeInv, NEW p \in Actors, NEW a, NEW degraded \in BOOLEAN, Mark(a, p, degraded),
         Moves(p), task'[p].at # "write", Updating(p)'
  PROVE  FoundAgrees' /\ Agreement'
PROOF
  <1>1. Agreement'
    BY DEF Agreement
  <1>2. SUFFICES ASSUME ~overlapped', NEW q \in Actors, task'[q].at = "write" PROVE FALSE
    BY <1>1 DEF FoundAgrees
  <1>3. q # p /\ task[q].at = "write"
    BY <1>2 DEF Moves
  <1> QED
    BY <1>2, <1>3 DEF Mark, Updating

LEMMA TriggerKeeps ==
  ASSUME AgreeInv, NEW p \in Actors, Trigger(p) PROVE AgreeInv'
PROOF
  <1>1. Goto(p, "mark", "determine") /\ Mark(task[p].alg, p, TRUE)
    BY DEF Trigger
  <1>2. Moves(p) /\ task'[p].at = "determine"
    BY <1>1, GotoTyped DEF Moves, AgreeInv
  <1>3. TypeOK'
    BY <1>1, <1>2, MarkTyped DEF AgreeInv, TypeOK, Trigger, Moves, counters, round
  <1>4. Updating(p)'
    BY <1>2 DEF Updating
  <1> QED
    BY <1>1, <1>2, <1>3, <1>4, MarkKeeps DEF AgreeInv

LEMMA DetermineKeeps ==
  ASSUME AgreeInv, NEW p \in Actors, Determine(p) PROVE AgreeInv'
PROOF
  <1>1. PICK x \in States :
          Effective(x) /\ task' = [task EXCEPT ![p] = [@ EXCEPT !.at = "write", !.found = x]]
    BY DEF Determine
  <1> DEFINE t == [task[p] EXCEPT !.at = "write", !.found = x]
  <1>2. task \in [Actors -> Tasks] /\ task[p] \in Tasks
    BY DEF AgreeInv, TypeOK
  <1>3. t \in Tasks /\ t.at = "write" /\ t.found = x
    BY <1>2 DEF Tasks
  <1>4. task' = [task EXCEPT ![p] = t]
    BY <1>1
  <1> HIDE DEF t
  <1>5. Moves(p) /\ task'[p].at = "write" /\ task'[p].found = x
    BY <1>2, <1>3, <1>4 DEF Moves
  <1>6. TypeOK'
    BY <1>5 DEF AgreeInv, TypeOK, Determine, Moves, health, counters, round
  <1>7. Updating(p)'
    BY <1>5 DEF Updating
  <1>8. Agreement'
    BY <1>7 DEF Agreement
  <1>9. Agrees(x)
    BY <1>1, EffectiveAgrees DEF AgreeInv
  <1>10. UNCHANGED <<is_degraded, overlapped>>
    BY DEF Determine, health
  <1>11. FoundAgrees'
    <2> SUFFICES ASSUME ~overlapped', NEW q \in Actors, task'[q].at = "write"
                 PROVE  Agrees(task[q].found)' 
      BY DEF FoundAgrees
    <2>1. CASE q = p
      BY <2>1, <1>5, <1>9, <1>10 DEF Agrees
    <2>2. CASE q # p
      BY <2>2, <1>5, <1>10 DEF Agrees, Moves, AgreeInv, FoundAgrees
    <2> QED
      BY <2>1, <2>2
  <1> QED
    BY <1>6, <1>8, <1>11 DEF AgreeInv

LEMMA WriteKeeps ==
  ASSUME AgreeInv, NEW p \in Actors, Write(p) PROVE AgreeInv'
PROOF
  <1>1. task[p] \in Tasks
    BY DEF AgreeInv, TypeOK
  <1>2. Goto(p, "write", task[p].then) /\ task[p].then \in {"idle", "fallback", "next"}
    BY <1>1 DEF Write, Tasks
  <1>3. Moves(p) /\ task[p].at = "write" /\ task'[p].at \in {"idle", "fallback", "next"}
    BY <1>2, GotoTyped DEF Moves, AgreeInv
  <1>4. TypeOK'
    BY <1>1, <1>3 DEF AgreeInv, TypeOK, Write, Moves, health, counters, round, Tasks
  <1>5. UNCHANGED <<is_degraded, overlapped>> /\ current_state' = task[p].found
    BY DEF Write, health
  <1>6. FoundAgrees'
    BY <1>3, <1>5 DEF FoundAgrees, Agrees, AgreeInv, Moves
  <1>7. ~overlapped => Agrees(task[p].found)
    BY <1>3 DEF AgreeInv, FoundAgrees
  <1>8. Agreement'
    BY <1>5, <1>7 DEF Agreement, Agrees
  <1> QED
    BY <1>4, <1>6, <1>8 DEF AgreeInv

LEMMA UpdateKeeps ==
  ASSUME AgreeInv, NEW p \in Actors, Update(p) PROVE AgreeInv'
  BY TriggerKeeps, DetermineKeeps, WriteKeeps DEF Update

LEMMA RequestTyped ==
  ASSUME TypeOK, NEW w \in Workers, Request(w) PROVE TypeOK' /\ Quiet(w)
PROOF
  <1>1. PICK a \in Algorithms :
          Deal(w, "idle", IF a \in Registered THEN "generate" ELSE "fallback", a, "fallback")
    BY DEF Request
  <1> DEFINE there == IF a \in Registered THEN "generate" ELSE "fallback"
  <1>2. there \in {"generate", "fallback"} /\ w \in Actors
    BY DEF Actors
  <1>3. Deal(w, "idle", there, a, "fallback")
    BY <1>1
  <1> HIDE DEF there
  <1>4. Moves(w) /\ task[w].at = "idle" /\ task'[w].at = there
    BY <1>2, <1>3, DealTyped DEF Moves
  <1> QED
    BY <1>2, <1>4 DEF Request, TypeOK, Quiet, Moves, health, counters, round

LEMMA FallbackTyped ==
  ASSUME TypeOK, NEW w \in Workers, Fallback(w) PROVE TypeOK' /\ Quiet(w)
PROOF
  <1>1. w \in Actors /\ task \in [Actors -> Tasks] /\ task[w] \in Tasks
    BY DEF Actors, TypeOK
  <1>2. Moves(w) /\ task[w].at = "fallback" /\ task'[w].at \in {"idle", "generate"}
    <2>1. CASE Goto(w, "fallback", "idle")
      BY <1>1, <2>1, GotoTyped DEF Moves
    <2>2. CASE ~Goto(w, "fallback", "idle")
      <3>1. PICK i \in (task[w].pos + 1)..Len(Chain) :
              /\ Chain[i] \in Registered
              /\ task' = [task EXCEPT ![w] =
                   [@ EXCEPT !.at = "generate", !.alg = Chain[i], !.pos = i]]
        BY <2>2 DEF Fallback
      <3> DEFINE t == [task[w] EXCEPT !.at = "generate", !.alg = Chain[i], !.pos = i]
      <3>2. Len(Chain) \in Nat /\ Chain[i] \in Algorithms
        BY <3>1, DegradationAssumption DEF DegradationAssumption
      <3>3. i \in 0..Len(Chain)
        BY <1>1, <3>1, <3>2 DEF Tasks
      <3>4. t \in Tasks /\ t.at = "generate"
        BY <1>1, <3>2, <3>3 DEF Tasks
      <3>5. task' = [task EXCEPT ![w] = t]
        BY <3>1
      <3>6. task[w].at = "fallback"
        BY <2>2 DEF Fallback
      <3> HIDE DEF t
      <3> QED
        BY <1>1, <3>4, <3>5, <3>6 DEF Moves
    <2> QED
      BY <2>1, <2>2
  <1> QED
    BY <1>2 DEF Fallback, TypeOK, Quiet, Moves, health, counters, round

LEMMA SucceedTyped ==
  ASSUME TypeOK, NEW w \in Workers, Succeed(w) PROVE TypeOK' /\ Quiet(w)
PROOF
  <1>1. w \in Actors /\ task[w].alg \in Algorithms
    BY DEF Actors, TypeOK, Tasks
  <1>2. \/ Deal(w, "generate", "recover", task[w].alg, "idle")
        \/ Goto(w, "generate", "idle")
    BY DEF Succeed
  <1>3. Moves(w) /\ task[w].at = "generate" /\ task'[w].at \in {"recover", "idle"}
    BY <1>1, <1>2, GotoTyped, DealTyped DEF Moves
  <1>4. RecordSuccess(task[w].alg)
    BY DEF Succeed
  <1> QED
    BY <1>3, <1>4, CountTyped DEF Succeed, TypeOK, Quiet, Moves, round

LEMMA FailTyped ==
  ASSUME TypeOK, NEW w \in Workers, FailToGenerate(w) PROVE TypeOK' /\ Quiet(w)
PROOF
  <1>1. w \in Actors
    BY DEF Actors
  <1>2. \/ Goto(w, "generate", "mark")
        \/ Goto(w, "generate", "fallback")
    BY DEF FailToGenerate
  <1>3. Moves(w) /\ task[w].at = "generate" /\ task'[w].at \in {"mark", "fallback"}
    BY <1>1, <1>2, GotoTyped DEF Moves
  <1>4. RecordFailure(task[w].alg)
    BY DEF FailToGenerate
  <1> QED
    BY <1>3, <1>4, CountTyped DEF FailToGenerate, TypeOK, Quiet, Moves, round

LEMMA RecoverKeeps ==
  ASSUME AgreeInv, NEW w \in Workers, Recover(w) PROVE AgreeInv'
PROOF
  <1>1. w \in Actors /\ Mark(task[w].alg, w, FALSE)
    BY DEF Actors, Recover
  <1>2. \/ task[w].alg = Primary /\ Goto(w, "recover", "determine")
        \/ task[w].alg # Primary /\ Goto(w, "recover", "idle")
    BY DEF Recover
  <1>3. Moves(w) /\ task[w].at = "recover" /\ task'[w].at \in {"determine", "idle"}
    BY <1>1, <1>2, GotoTyped DEF Moves, AgreeInv
  <1>4. TypeOK'
    BY <1>1, <1>3, MarkTyped DEF AgreeInv, TypeOK, Recover, Moves, counters, round
  <1>5. CASE task[w].alg = Primary
    <2>1. Updating(w)' /\ task'[w].at # "write"
      BY <1>1, <1>2, <1>5, GotoTyped DEF Updating, AgreeInv
    <2> QED
      BY <1>1, <1>3, <1>4, <2>1, MarkKeeps DEF AgreeInv
  \* Another algorithm: a state that agreed still does.
  <1>6. CASE task[w].alg # Primary
    <2>1. \A x : Agrees(x) => Agrees(x)'
      <3>1. is_degraded' = [is_degraded EXCEPT ![task[w].alg] = FALSE]
        BY <1>1 DEF Mark
      <3>2. is_degraded \in [Registered -> BOOLEAN]
        BY DEF AgreeInv, TypeOK
      <3>3. Primary \in Registered => is_degraded'[Primary] = is_degraded[Primary]
        BY <1>6, <3>1, <3>2
      <3>4. \A x \in Registered : ~is_degraded[x] => ~is_degraded'[x]
        BY <3>1, <3>2
      <3> QED
        BY <3>3, <3>4 DEF Agrees
    <2>2. overlapped => overlapped'
      BY <1>1 DEF Mark
    <2>3. UNCHANGED <<current_state, changed>>
      BY DEF Recover, round
    <2>4. \A q \in Actors :
            task'[q] = task[q] \/ {task[q].at, task'[q].at} \cap {"determine", "write"} = {}
      BY <1>2, <1>3, <1>1, <1>6, GotoTyped DEF Moves, AgreeInv
    <2>5. FoundAgrees'
      <3> SUFFICES ASSUME ~overlapped', NEW q \in Actors, task'[q].at = "write"
                   PROVE  Agrees(task[q].found)'
        BY DEF FoundAgrees
      <3>1. task'[q] = task[q] /\ ~overlapped
        BY <2>2, <2>4
      <3>2. Agrees(task[q].found)
        BY <3>1 DEF AgreeInv, FoundAgrees
      <3>3. Agrees(task[q].found) => /\ Primary \in Registered =>
                                          (task[q].found = "Normal" <=> ~is_degraded'[Primary])
                                     /\ task[q].found \in Algorithms =>
                                          /\ task[q].found \in Registered
                                          /\ ~is_degraded'[task[q].found]
        BY <2>1 DEF Agrees
      <3> QED
        BY <3>1, <3>2, <3>3 DEF Agrees
    <2>6. Agreement'
      <3>1. \A q \in Actors : Updating(q) => Updating(q)'
        BY <2>3, <2>4 DEF Updating
      <3>2. Agrees(current_state) => Agrees(current_state)'
        BY <2>1, <2>3 DEF Agrees
      <3> QED
        BY <2>2, <2>3, <3>1, <3>2 DEF AgreeInv, Agreement, Agrees
    <2> QED
      BY <1>4, <2>5, <2>6 DEF AgreeInv
  <1> QED
    BY <1>5, <1>6

LEMMA ServeKeeps ==
  ASSUME AgreeInv, NEW w \in Workers, Serve(w) PROVE AgreeInv'
PROOF
  <1>1. w \in Actors /\ TypeOK
    BY DEF Actors, AgreeInv
  <1>2. CASE Request(w) \/ Fallback(w) \/ Succeed(w) \/ FailToGenerate(w)
    BY <1>1, <1>2, RequestTyped, FallbackTyped, SucceedTyped, FailTyped, QuietKeeps DEF AgreeInv
  <1>3. CASE Recover(w)
    BY <1>3, RecoverKeeps
  <1>4. CASE Update(w)
    BY <1>1, <1>4, UpdateKeeps
  <1> QED
    BY <1>2, <1>3, <1>4 DEF Serve

LEMMA CheckOneKeeps ==
  ASSUME AgreeInv, NEW a \in Registered, CheckOne(a) PROVE AgreeInv'
PROOF
  <1>1. Checker \in Actors /\ TypeOK
    BY DEF Actors, AgreeInv
  <1>2. TypeOK' /\ Quiet(Checker)
    BY <1>1, CheckOneEffect DEF Quiet
  <1> QED
    BY <1>1, <1>2, QuietKeeps DEF AgreeInv

LEMMA StartRoundKeeps == ASSUME AgreeInv, StartRound PROVE AgreeInv'
PROOF
  <1>1. Checker \in Actors /\ TypeOK
    BY DEF Actors, AgreeInv
  <1>2. Moves(Checker) /\ task[Checker].at = "idle" /\ task'[Checker].at = "next"
    BY <1>1, GotoTyped DEF StartRound, Moves
  <1>3. TypeOK' /\ Quiet(Checker)
    BY <1>1, <1>2 DEF StartRound, TypeOK, Quiet, Moves, health, counters
  <1> QED
    BY <1>1, <1>3, QuietKeeps DEF AgreeInv

LEMMA RestoreKeeps == ASSUME AgreeInv, Restore PROVE AgreeInv'
PROOF
  <1> DEFINE a == task[Checker].alg
  <1>1. Checker \in Actors /\ TypeOK
    BY DEF Actors, AgreeInv
  <1>2. Moves(Checker) /\ task[Checker].at = "restore" /\ task'[Checker].at = "next"
    BY <1>1, GotoTyped DEF Restore, Moves
  <1>3. CASE Mark(a, Checker, FALSE) /\ changed' = TRUE
    <2>1. TypeOK'
      BY <1>1, <1>2, <1>3, MarkTyped DEF Restore, TypeOK, Moves, counters
    <2>2. Updating(Checker)'
      BY <1>3 DEF Updating
    <2> QED
      BY <1>1, <1>2, <1>3, <2>1, <2>2, MarkKeeps DEF AgreeInv
  <1>4. CASE UNCHANGED <<is_degraded, overlapped, changed>>
    <2>1. TypeOK' /\ Quiet(Checker)
      BY <1>1, <1>2, <1>4 DEF Restore, TypeOK, Quiet, Moves, counters
    <2> QED
      BY <1>1, <2>1, QuietKeeps DEF AgreeInv
  <1> QED
    BY <1>3, <1>4 DEF Restore

LEMMA EndRoundKeeps == ASSUME AgreeInv, EndRound PROVE AgreeInv'
PROOF
  <1>1. Checker \in Actors /\ TypeOK
    BY DEF Actors, AgreeInv
  <1>2. Goto(Checker, "next", "determine") \/ Goto(Checker, "next", "idle")
    BY DEF EndRound
  <1>3. Moves(Checker) /\ task[Checker].at = "next" /\ task'[Checker].at \in {"determine", "idle"}
    BY <1>1, <1>2, GotoTyped DEF Moves
  <1>4. TypeOK'
    BY <1>1, <1>3 DEF EndRound, TypeOK, Moves, health, counters
  <1>5. UNCHANGED <<is_degraded, current_state, overlapped>>
    BY DEF EndRound, health
  <1>6. FoundAgrees'
    BY <1>3, <1>5 DEF AgreeInv, FoundAgrees, Agrees, Moves
  \* The check is updating before the step if it is after it.
  <1>7. \A q \in Actors : Updating(q) => Updating(q)'
    <2>1. changed => task'[Checker].at = "determine"
      BY <1>1, GotoTyped DEF EndRound
    <2> QED
      BY <1>3, <2>1 DEF Updating, Moves
  <1>8. Agreement'
    BY <1>5, <1>7 DEF AgreeInv, Agreement
  <1> QED
    BY <1>4, <1>6, <1>8 DEF AgreeInv

LEMMA OtherKeeps ==
  ASSUME AgreeInv, (\E a \in Registered : Elapse(a)) \/ Settle \/ UNCHANGED vars
  PROVE  AgreeInv'
PROOF
  <1>1. UNCHANGED <<is_degraded, current_state, task, changed, overlapped>> /\ TypeOK'
    BY DEF AgreeInv, TypeOK, Elapse, Settle, vars, health, counters, round
  <1> QED
    BY <1>1 DEF AgreeInv, FoundAgrees, Agreement, Agrees, Updating

LEMMA StepKeeps == AgreeInv /\ [Next]_vars => AgreeInv'
PROOF
  <1> SUFFICES ASSUME AgreeInv, [Next]_vars PROVE AgreeInv'
    OBVIOUS
  <1>1. ASSUME NEW w \in Workers, Serve(w) PROVE AgreeInv'
    BY <1>1, ServeKeeps
  <1>2. CASE Check
    <2>1. CASE Update(Checker)
      BY <2>1, UpdateKeeps DEF Actors
    <2>2. ASSUME NEW a \in Registered, CheckOne(a) PROVE AgreeInv'
      BY <2>2, CheckOneKeeps
    <2> QED
      BY <1>2, <2>1, <2>2, StartRoundKeeps, RestoreKeeps, EndRoundKeeps DEF Check
  <1>3. CASE (\E a \in Registered : Elapse(a)) \/ Settle \/ UNCHANGED vars
    BY <1>3, OtherKeeps
  <1> QED
    BY <1>1, <1>2, <1>3 DEF Next

LEMMA InitAgrees == Init => AgreeInv
PROOF
  <1> SUFFICES ASSUME Init PROVE AgreeInv
    OBVIOUS
  <1>1. "Normal" \notin Algorithms
    BY DegradationAssumption DEF DegradationAssumption
  <1>2. FoundAgrees
    BY DEF Init, FoundAgrees, AtRest
  <1>3. Agreement
    BY <1>1 DEF Init, Agreement
  <1> QED
    BY <1>2, <1>3, InitTyped DEF AgreeInv

LEMMA Inductive == Spec => []AgreeInv
PROOF
  <1>1. Init /\ [][Next]_vars => []AgreeInv
    BY InitAgrees, StepKeeps, PTL
  <1> QED
    BY <1>1, PTL DEF Spec

--------------------------------------------------------------------------------
(* The router and its DegradationManager keep their types, whatever the    *)
(* thresholds and however the 8-bit counters wrap.                         *)
THEOREM TypeCorrect == Spec => []TypeOK
PROOF
  <1>1. AgreeInv => TypeOK
    BY DEF AgreeInv
  <1> QED
    BY <1>1, Inductive, PTL

(* Unless trigger_degradation or a recovery marked an algorithm between    *)
(* another task's mark and its write, current_state agrees with the marks  *)
(* whenever no task is updating it, for any number of tasks.               *)
THEOREM StateAgrees == Spec => []Agreement
PROOF
  <1>1. AgreeInv => Agreement
    BY DEF AgreeInv
  <1> QED
    BY <1>1, Inductive, PTL
================================================================================
