----------------------------- MODULE SegmentBuffer -----------------------------
(***************************************************************************)
(* The double buffer of one "workspace:biz_tag" key of SegmentAlgorithm    *)
(* (core/algorithm/segment.rs) and the concurrent calls of generate and    *)
(* batch_generate on it, one action per access to shared memory.           *)
(*                                                                         *)
(* A call is a future polled on one of the Workers threads of the tokio    *)
(* runtime; it gives the thread up only at its one await, the loader's     *)
(* answer.  AtomicSegment objects live in the heap seg and are shared by   *)
(* reference, as the Arcs of the code are.                                 *)
(***************************************************************************)
EXTENDS Integers, FiniteSets

CONSTANTS
  Generates,    \* the calls of generate
  Batches,      \* the calls of batch_generate
  BatchSize,    \* the size argument of those
  MayRestart,   \* whether the server process may crash and restart
  Workers,      \* worker threads of the runtime
  Step,         \* ids in a range the loader hands out
  Gaps,         \* what other nodes may take between two loads of this one
  SwitchPct,    \* switch_threshold, in percent
  MaxLoads      \* bound: segments the loader hands out before it only fails

Calls == Generates \cup Batches

ASSUME CallsAssumption == Generates \cap Batches = {}
ASSUME SizeAssumption ==
  /\ BatchSize \in Nat \ {0}
  /\ Step \in Nat \ {0}
  /\ MaxLoads \in Nat
  /\ Gaps \subseteq Nat
ASSUME ScheduleAssumption ==
  Workers \in Nat \ {0} /\ SwitchPct \in 0..100 /\ MayRestart \in BOOLEAN

VARIABLES
  seg,        \* the AtomicSegment objects, by number; 0 is the initial one
  loads,      \* how many of them the loader has created so far
  hwm,        \* current_id of the key's database row: where the next range starts
  current,    \* DoubleBuffer.current
  next,       \* DoubleBuffer.next
  loading,    \* DoubleBuffer.loading
  pc,         \* where each call stands
  running,    \* the calls that occupy a worker thread
  mine,       \* the segment a call read from current
  took,       \* the segment a call loaded, or took out of next
  attempts,   \* iterations of generate's loop that have failed
  got,        \* the ids each call returned
  disturbed   \* history: the calls during which another one wrote shared state

bufferVars == <<current, next, loading>>
loaderVars == <<seg, loads, hwm>>
callVars   == <<pc, running, mine, took, attempts, got, disturbed>>
vars == <<bufferVars, loaderVars, callVars>>

None   == -1
SegIds == 0..MaxLoads
Segment == [start_id : Nat, max_id : Nat, current_id : Nat]
Empty   == [start_id |-> 0, max_id |-> 0, current_id |-> 0]

Returned  == {"done", "exhausted", "failed_load", "dropped", "leaked"}
Suspended == {"load", "loaded", "failed"}   \* at or behind load_segment().await
Locations == {"get", "consume", "need", "ratio", "next", "claim", "publish",
              "take", "install", "spin", "peek"} \cup Suspended \cup Returned

(* A call dropped since the process started, its loading flag still up. *)
Leaked(c) == pc[c] = "leaked"

Size(c) == IF c \in Batches THEN BatchSize ELSE 1

--------------------------------------------------------------------------------
(* Pieces of the actions. *)

At(c, here) == pc[c] = here /\ c \in running

Goto(c, there) ==
  /\ pc' = [pc EXCEPT ![c] = there]
  /\ UNCHANGED running

(* The future returns: the thread is free, the frame is gone. *)
Return(c, how) ==
  /\ pc' = [pc EXCEPT ![c] = how]
  /\ running' = running \ {c}
  /\ mine' = [mine EXCEPT ![c] = 0]
  /\ took' = [took EXCEPT ![c] = 0]
  /\ attempts' = [attempts EXCEPT ![c] = 0]

(* load_segment().await: the future is suspended, its thread is free. *)
Await(c) ==
  /\ pc' = [pc EXCEPT ![c] = "load"]
  /\ running' = running \ {c}

(* Mutant: for _ in 0..=3 *)
AgainFour(c) ==
  IF c \in Generates /\ attempts[c] = 3
    THEN Return(c, "exhausted")
    ELSE /\ Goto(c, "get")
         /\ attempts' = [attempts EXCEPT ![c] = IF c \in Generates THEN @ + 1 ELSE @]
         /\ UNCHANGED <<mine, took>>

(* The end of a loop iteration: generate gives up after the third. *)
Again(c) ==
  IF c \in Generates /\ attempts[c] = 2
    THEN Return(c, "exhausted")
    ELSE /\ Goto(c, "get")
         /\ attempts' = [attempts EXCEPT ![c] = IF c \in Generates THEN @ + 1 ELSE @]
         /\ UNCHANGED <<mine, took>>

(* c writes something that the other calls under way may have read. *)
Disturb(c) ==
  disturbed' = disturbed \cup
    {d \in Calls \ {c} : d \in running \/ pc[d] \in Suspended}

(* Mutant: the division is not guarded against an empty range. *)
SwitchNoEmpty(s) ==
  (seg[s].max_id - seg[s].current_id) * 100 < (seg[s].max_id - seg[s].start_id) * SwitchPct

(* DoubleBuffer::need_switch on the segment it read. *)
Switch(s) ==
  LET total     == seg[s].max_id - seg[s].start_id
      remaining == seg[s].max_id - seg[s].current_id
  IN  total = 0 \/ remaining * 100 < total * SwitchPct

--------------------------------------------------------------------------------
(* A worker thread takes up a call that is not waiting for the loader. *)
Poll(c) ==
  /\ pc[c] \notin Returned \cup {"load"}
  /\ c \notin running
  /\ Cardinality(running) < Workers
  /\ running' = running \cup {c}
  /\ UNCHANGED <<bufferVars, loaderVars, pc, mine, took, attempts, got, disturbed>>

(* let current = buffer.get_current() *)
GetCurrent(c) ==
  /\ At(c, "get")
  /\ Goto(c, "consume")
  /\ mine' = [mine EXCEPT ![c] = current]
  /\ UNCHANGED <<bufferVars, loaderVars, took, attempts, got, disturbed>>

(* Mutant: the range returned includes its end. *)
TryConsumeClosed(c) ==
  LET s   == mine[c]
      end == seg[s].current_id + Size(c)
  IN  /\ At(c, "consume")
      /\ \/ /\ end <= seg[s].max_id
            /\ seg' = [seg EXCEPT ![s].current_id = end]
            /\ got' = [got EXCEPT ![c] = seg[s].current_id..end]
            /\ Return(c, "done")
            /\ Disturb(c)
         \/ /\ end > seg[s].max_id
            /\ Goto(c, "need")
            /\ UNCHANGED <<seg, got, mine, took, attempts, disturbed>>
      /\ UNCHANGED <<bufferVars, loads, hwm>>

(* Mutant: what is left is returned when it is less than what was asked. *)
TryConsumePartial(c) ==
  LET s   == mine[c]
      end == IF seg[s].current_id + Size(c) <= seg[s].max_id
               THEN seg[s].current_id + Size(c) ELSE seg[s].max_id
  IN  /\ At(c, "consume")
      /\ \/ /\ seg[s].current_id < end
            /\ seg' = [seg EXCEPT ![s].current_id = end]
            /\ got' = [got EXCEPT ![c] = seg[s].current_id..(end - 1)]
            /\ Return(c, "done")
            /\ Disturb(c)
         \/ /\ seg[s].current_id = end
            /\ Goto(c, "need")
            /\ UNCHANGED <<seg, got, mine, took, attempts, disturbed>>
      /\ UNCHANGED <<bufferVars, loads, hwm>>

(* current.try_consume(n), under the segment's mutex: all n ids or none. *)
TryConsume(c) ==
  LET s   == mine[c]
      end == seg[s].current_id + Size(c)
  IN  /\ At(c, "consume")
      /\ \/ /\ end <= seg[s].max_id
            /\ seg' = [seg EXCEPT ![s].current_id = end]
            /\ got' = [got EXCEPT ![c] = seg[s].current_id..(end - 1)]
            /\ Return(c, "done")
            /\ Disturb(c)
         \/ /\ end > seg[s].max_id
            /\ Goto(c, "need")
            /\ UNCHANGED <<seg, got, mine, took, attempts, disturbed>>
      /\ UNCHANGED <<bufferVars, loads, hwm>>

(* need_switch reads current again ... *)
ReadCurrent(c) ==
  /\ At(c, "need")
  /\ Goto(c, "ratio")
  /\ mine' = [mine EXCEPT ![c] = current]
  /\ UNCHANGED <<bufferVars, loaderVars, took, attempts, got, disturbed>>

(* ... and then locks that segment: generate goes round, a batch gives up. *)
NeedSwitch(c) ==
  /\ At(c, "ratio")
  /\ \/ /\ Switch(mine[c])
        /\ Goto(c, "next")
        /\ UNCHANGED <<mine, took, attempts>>
     \/ /\ ~Switch(mine[c])
        /\ IF c \in Batches THEN Return(c, "exhausted") ELSE Again(c)
  /\ UNCHANGED <<bufferVars, loaderVars, got, disturbed>>

(* buffer.get_next(): a batch that finds none loads without asking further. *)
GetNext(c) ==
  /\ At(c, "next")
  /\ \/ next # None /\ Goto(c, "take")
     \/ next = None /\ c \in Generates /\ Goto(c, "claim")
     \/ next = None /\ c \in Batches /\ Await(c)
  /\ UNCHANGED <<bufferVars, loaderVars, mine, took, attempts, got, disturbed>>

(* Mutant: a plain store in place of the compare_exchange. *)
TryStartLoadingStore(c) ==
  /\ c \in Generates
  /\ At(c, "claim")
  /\ loading' = TRUE
  /\ Await(c)
  /\ Disturb(c)
  /\ UNCHANGED <<current, next, loaderVars, mine, took, attempts, got>>

(* generate only: try_start_loading, the compare_exchange of loading. *)
TryStartLoading(c) ==
  /\ c \in Generates
  /\ At(c, "claim")
  /\ \/ /\ ~loading
        /\ loading' = TRUE
        /\ Await(c)
        /\ Disturb(c)
     \/ /\ loading
        /\ Goto(c, "spin")
        /\ UNCHANGED <<loading, disturbed>>
  /\ UNCHANGED <<current, next, loaderVars, mine, took, attempts, got>>

(* The loader answers with the range lo..hi-1, or with an error; the call  *)
(* is woken but needs a thread to go on.                                   *)
LoadedRange(c, lo, hi) ==
  /\ pc[c] = "load"
  /\ loads < MaxLoads
  /\ loads' = loads + 1
  /\ seg' = [seg EXCEPT ![loads + 1] =
               [start_id |-> lo, max_id |-> hi, current_id |-> lo]]
  /\ took' = [took EXCEPT ![c] = loads + 1]
  /\ Goto(c, "loaded")
  /\ Disturb(c)
  /\ UNCHANGED <<bufferVars, mine, attempts, got>>

(* Mutant: the row keeps the start of the range it handed out. *)
LoaderAnswersStart(c) ==
  \E gap \in Gaps :
    /\ LoadedRange(c, hwm + gap, hwm + gap + Step)
    /\ hwm' = hwm + gap

LoaderAnswers(c) ==
  \E gap \in Gaps :
    /\ LoadedRange(c, hwm + gap, hwm + gap + Step)
    /\ hwm' = hwm + gap + Step

LoaderFails(c) ==
  /\ pc[c] = "load"
  /\ Goto(c, "failed")
  /\ Disturb(c)
  /\ UNCHANGED <<bufferVars, loaderVars, mine, took, attempts, got>>

(* Mutant: the error is propagated (load_result?) before finish_loading(). *)
FinishLoadingLate(c) ==
  /\ c \in running
  /\ \/ /\ pc[c] = "loaded"
        /\ loading' = (loading /\ c \in Batches)
        /\ Goto(c, "publish")
        /\ UNCHANGED <<mine, took, attempts>>
     \/ /\ pc[c] = "failed"
        /\ Return(c, "failed_load")
        /\ UNCHANGED loading
  /\ Disturb(c)
  /\ UNCHANGED <<current, next, loaderVars, got>>

(* generate: finish_loading(), before the result is looked at; batch_generate *)
(* never set the flag and leaves it alone.                                    *)
FinishLoading(c) ==
  /\ c \in running
  /\ loading' = (loading /\ c \in Batches)
  /\ \/ /\ pc[c] = "loaded"
        /\ Goto(c, "publish")
        /\ UNCHANGED <<mine, took, attempts>>
     \/ /\ pc[c] = "failed"
        /\ Return(c, "failed_load")
  /\ Disturb(c)
  /\ UNCHANGED <<current, next, loaderVars, got>>

(* buffer.set_next(atomic_seg), over whatever next holds *)
SetNext(c) ==
  /\ At(c, "publish")
  /\ Goto(c, "take")
  /\ next' = took[c]
  /\ Disturb(c)
  /\ UNCHANGED <<current, loading, loaderVars, mine, took, attempts, got>>

(* Mutant: swap() loads next and does not clear it. *)
TakeNextKeep(c) ==
  /\ At(c, "take")
  /\ \/ /\ next # None
        /\ took' = [took EXCEPT ![c] = next]
        /\ Goto(c, "install")
        /\ Disturb(c)
        /\ UNCHANGED <<mine, attempts>>
     \/ /\ next = None
        /\ Again(c)
        /\ UNCHANGED disturbed
  /\ UNCHANGED <<current, next, loading, loaderVars, got>>

(* swap(): next.swap(None) ... *)
TakeNext(c) ==
  /\ At(c, "take")
  /\ next' = None
  /\ \/ /\ next # None
        /\ took' = [took EXCEPT ![c] = next]
        /\ Goto(c, "install")
        /\ Disturb(c)
        /\ UNCHANGED <<mine, attempts>>
     \/ /\ next = None
        /\ Again(c)
        /\ UNCHANGED disturbed
  /\ UNCHANGED <<current, loading, loaderVars, got>>

(* ... and, in a second step, current.store *)
Install(c) ==
  /\ At(c, "install")
  /\ current' = took[c]
  /\ Again(c)
  /\ Disturb(c)
  /\ UNCHANGED <<next, loading, loaderVars, got>>

(* while buffer.is_loading() { spin_loop() }: the thread stays occupied. *)
Spin(c) ==
  /\ At(c, "spin")
  /\ ~loading
  /\ Goto(c, "peek")
  /\ UNCHANGED <<bufferVars, loaderVars, mine, took, attempts, got, disturbed>>

(* after the wait: swap if a next segment is there by now *)
Peek(c) ==
  /\ At(c, "peek")
  /\ \/ next # None /\ Goto(c, "take") /\ UNCHANGED <<mine, took, attempts>>
     \/ next = None /\ Again(c)
  /\ UNCHANGED <<bufferVars, loaderVars, got, disturbed>>

(* The connection closes and the suspended future is dropped as it is: a   *)
(* generate has no guard that would lower the loading flag it put up.      *)
Disconnect(c) ==
  /\ pc[c] \in Suspended
  /\ c \notin running
  /\ Return(c, IF c \in Generates THEN "leaked" ELSE "dropped")
  /\ UNCHANGED <<bufferVars, loaderVars, got, disturbed>>

(* The process crashes and restarts: the calls under way are lost and the  *)
(* key gets a new DoubleBuffer, its flag down; the database row stays, as  *)
(* do the ids that clients have.  Calls not begun find the new buffer.     *)
Restart ==
  LET lost == {c \in Calls : pc[c] \notin Returned /\ (pc[c] # "get" \/ c \in running)}
  IN  /\ MayRestart
      /\ current' = 0 /\ next' = None /\ loading' = FALSE
      /\ pc' = [c \in Calls |-> IF c \in lost \/ Leaked(c) THEN "dropped" ELSE pc[c]]
      /\ running' = {}
      /\ mine' = [c \in Calls |-> 0]
      /\ took' = [c \in Calls |-> 0]
      /\ attempts' = [c \in Calls |-> 0]
      /\ UNCHANGED <<loaderVars, got, disturbed>>

--------------------------------------------------------------------------------
Init ==
  /\ seg = [s \in SegIds |-> Empty]
  /\ loads = 0 /\ hwm = 1
  /\ current = 0 /\ next = None /\ loading = FALSE
  /\ pc = [c \in Calls |-> "get"]
  /\ running = {}
  /\ mine = [c \in Calls |-> 0]
  /\ took = [c \in Calls |-> 0]
  /\ attempts = [c \in Calls |-> 0]
  /\ got = [c \in Calls |-> {}]
  /\ disturbed = {}

CallStep(c) ==
  \/ GetCurrent(c) \/ TryConsume(c) \/ ReadCurrent(c) \/ NeedSwitch(c)
  \/ GetNext(c) \/ TryStartLoading(c) \/ FinishLoading(c) \/ SetNext(c)
  \/ TakeNext(c) \/ Install(c) \/ Spin(c) \/ Peek(c)

Loader(c) == LoaderAnswers(c) \/ LoaderFails(c)

(* Every call has returned: the system may rest. *)
Quiescent == (\A c \in Calls : pc[c] \in Returned) /\ UNCHANGED vars

Next ==
  \/ \E c \in Calls : Poll(c) \/ CallStep(c) \/ Loader(c) \/ Disconnect(c)
  \/ Restart
  \/ Quiescent

Spec == Init /\ [][Next]_vars

(* The runtime polls every woken future, runs every thread, and the        *)
(* database client answers or times out; a client need not disconnect.     *)
Fairness ==
  \A c \in Calls :
    /\ WF_vars(Poll(c))
    /\ WF_vars(CallStep(c))
    /\ WF_vars(Loader(c))

FairSpec == Spec /\ Fairness

--------------------------------------------------------------------------------
(* Properties *)

(* Every shared cell and every local holds a value of its Rust type.       *)
TypeOK ==
  /\ seg \in [SegIds -> Segment]
  /\ loads \in SegIds /\ hwm \in Nat
  /\ current \in SegIds /\ next \in SegIds \cup {None} /\ loading \in BOOLEAN
  /\ pc \in [Calls -> Locations]
  /\ running \subseteq Calls
  /\ mine \in [Calls -> SegIds]
  /\ took \in [Calls -> SegIds]
  /\ attempts \in [Calls -> 0..2]
  /\ got \in [Calls -> SUBSET Nat]
  /\ disturbed \subseteq Calls

(* No id is returned to two calls: the point of the mutex in try_consume   *)
(* and of every segment having one cursor, whoever holds a reference.      *)
UniqueIds ==
  \A c, d \in Calls : c # d => got[c] \cap got[d] = {}

(* Why UniqueIds holds: cursors stay inside their ranges and those below   *)
(* the database row; ranges do not overlap; what was returned is no longer *)
(* consumable from any segment that exists or will.                        *)
Consumable(s) == seg[s].current_id..(seg[s].max_id - 1)
CursorsInRange ==
  \A s \in SegIds : /\ seg[s].start_id <= seg[s].current_id
                    /\ seg[s].current_id <= seg[s].max_id
                    /\ seg[s].max_id <= hwm
RangesDisjoint ==
  \A s, t \in SegIds : s # t =>
    seg[s].max_id <= seg[t].start_id \/ seg[t].max_id <= seg[s].start_id
ReturnedConsumed ==
  \A c \in Calls : \A id \in got[c] :
    id < hwm /\ \A s \in SegIds : id \notin Consumable(s)
UniqueInv == CursorsInRange /\ RangesDisjoint /\ ReturnedConsumed /\ UniqueIds

(* The compare_exchange of try_start_loading admits one generate call at a *)
(* time to load_segment, until its finish_loading.                         *)
Holds(c) == c \in Generates /\ pc[c] \in Suspended
LoadExclusive ==
  \A c, d \in Calls : Holds(c) /\ Holds(d) => c = d

(* The loading flag is up while some call is between its try_start_loading *)
(* and its finish_loading, through failed loads, and otherwise only where  *)
(* a generate was dropped at its load: then it stays up until a restart.   *)
LoadingReset == loading <=> \E c \in Calls : Holds(c) \/ Leaked(c)

(* A segment that becomes current has not been consumed from: next.swap    *)
(* hands each loaded segment to one call, so none is installed a second    *)
(* time over a newer one.                                                  *)
FreshInstall ==
  [][current' # current => seg[current'].current_id = seg[current'].start_id]_vars

(* A failed batch leaves nothing behind and an answered call has all its   *)
(* ids: batch_generate never returns a part of what was asked.             *)
AllOrNothing ==
  \A c \in Calls :
    Cardinality(got[c]) = IF pc[c] = "done" THEN Size(c) ELSE 0

(* generate gives up only on a call that others disturbed: some other call *)
(* wrote to the buffer while it ran.  Three attempts are enough for a call *)
(* that runs undisturbed, in whatever state the others left the buffer.    *)
ExhaustedOnlyIfDisturbed ==
  \A c \in Generates : pc[c] = "exhausted" => c \in disturbed

(* Every call returns, through failed loads, dropped calls and restarts,   *)
(* if there is a worker thread beside those that may spin (with one thread *)
(* the spinning call keeps it from the call that would end the wait); but  *)
(* a generate may spin for ever on the flag of one that was dropped.       *)
Termination ==
  \A c \in Calls :
    \/ <>(pc[c] \in Returned)
    \/ c \in Generates /\ <>[](\E d \in Calls : Leaked(d))

(* The buffer implements the issuer of ids.                                *)
Issuer == INSTANCE IdIssuer
IssuesIds == Issuer!Spec
================================================================================
