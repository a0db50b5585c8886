# NebulaId in TLA+

Specifications of the id generator's concurrent core, TLC instances of them, and
TLAPS proofs of the properties that matter most. The source is the reference;
paths below are relative to the repository. Modules keep the names of the code:
an action is called after the method or the step of a method it translates.

Run from this directory:

    tlc -config seg_mixed.cfg SegmentBufferMC.tla     # a model-checking run
    tlapm SegmentBufferProofs.tla                     # a proof module

## The system

NebulaId is one server process (tokio, axum, tonic) or several that share a
PostgreSQL database and, optionally, an etcd cluster.

| Component | Source | State | Operations | What makes it correct |
|---|---|---|---|---|
| Double buffer | `src/core/algorithm/segment.rs` | two `AtomicSegment`s behind swappable pointers, the flag `loading` | `generate`, `batch_generate` | no id twice; one load at a time; callers get out of their waits |
| Segment loaders | `segment.rs` | none, the clock, or the database | `load_segment` | ranges that no other load gets |
| Segment allocation | `src/core/database/repository.rs` | rows of `nebula_segments` | `allocate_segment`, `allocate_segment_with_dc` | one row per key, it never goes back, disjoint ranges |
| Distributed lock | `src/core/coordinator/etcd.rs`, `local.rs` | a key under a lease; a map in the process | `acquire`, `release`, drop of the guard | exclusion; a key is freed again |
| Snowflake | `src/core/algorithm/snowflake.rs` | `sequence`, `last_timestamp`, `clock_drift_ms` | `generate`, `batch_generate` | no id twice, ascending, whatever the clock does |
| Circuit breaker | `src/core/algorithm/circuit_breaker.rs` | state, counters, deadline | `execute`, `reset` | opens, waits, probes, closes as documented |
| Degradation and router | `degradation_manager.rs`, `router.rs` | health and circuit of each algorithm, the manager's state, a background task | generate with fallback, record a result, recover, check | state and marks agree; degradation ends |
| Data-centre detector | `segment.rs` | status, failures and last success of each data centre | choose, record, check | loads go where they succeed; the local one is used again |
| Adaptive step | `segment.rs` | sliding QPS window, CPU sample | next step | bounds of the step |
| Worker ids | `etcd.rs`, `local.rs` | keys under leases; a constant | allocate, release | an id has one holder; ids are free again |
| Etcd health monitor | `etcd.rs` | counters, status, a local cache | check, fall back | the status follows the checks |
| API keys | `workspace_handlers.rs`, `api_key_handlers.rs`, `system_handlers.rs`, `repository.rs` | rows of `workspaces` and `api_keys`, requests between two statements, the rotation task | create, regenerate, revoke, rotate, validate | one key per workspace; a revoked key stays revoked |
| Authentication | `src/server/middleware/api_key_auth.rs` | failures per client | validate, limit | the limit holds |
| Configuration, hot reload | `src/server/config/*` | the shared configuration, the rate limit's override, the file | update, reload, watch | no update is lost; an edit takes effect |
| Alerting, audit, rate limit, token store | `monitoring/core.rs`, `audit/logger.rs`, `rate_limit/limiter.rs`, `auth/memory_dao.rs` | rule states, queue, buckets, entries | evaluate, log, check, get/set | bounds, no lost rule, no lost entry |
| Front end, wiring, types | `main.rs`, `router.rs`, `grpc.rs`, handlers | none of their own | decode, call, encode | - |

How they interact: a request is decoded and calls `generate` or
`batch_generate` of the router's algorithm. The segment algorithm calls its
loader when its buffer runs low; `DatabaseSegmentLoader` and
`RepositoryBackedLoader` call the allocation, which takes the distributed lock,
runs a transaction and releases the lock. The breaker stands before operations
that fail. The router reports every result to the DegradationManager, whose
background check probes the algorithms; `load_segment` reports to the
DcFailureDetector, whose check gives a failed data centre another chance. The
handlers change keys and configuration beside each other and beside the
rotation task and the file watcher. All of it runs as futures on the runtime's worker threads: a future
is preempted only at an `await`, is dropped there if its client's connection
closes, and shares memory through atomics and short critical sections with
those on the other threads.

`main` starts neither the file watcher, nor the key rotation task, nor the etcd
worker-id allocator; what they promise is modelled as their code and its tests
state it. It gives the data-centre detector one data centre, the local one.

What is hard here: interleavings of atomics that belong together (`sequence`
and `last_timestamp`; the breaker's state and its deadline; `current` and
`next`); futures dropped between an acquire and its release; a spin loop inside
an async function; a lock with a lease that is not renewed; a clock that steps
back. PROJECT.json lists these hazards at their lines.

## Modules

### IdIssuer and RangeCounter
Two abstract specifications. IdIssuer: a call is answered once, with ids that no
other answer holds. The double buffer and the allocation are both shown to
implement it (`IssuesIds`, `IssuesRanges`), with `got` mapped to itself.

RangeCounter: a counter for each data centre, and a request takes the next ids
off its counter in one step. The allocation implements it (`TakesAtOnce`) under
the map `NextId`: a counter stands at its row's `current_id`, or where its first
row would begin. It says what the lock is for: between its SELECT and its UPDATE
a request works on a value that is still the row's. It is also what the double
buffer counts on, where every load lies above the ones before it.

### SegmentBuffer (+ SegmentBufferMC, SegmentBufferProofs)
One `workspace:biz_tag` buffer. `seg` is the heap of `AtomicSegment`s, shared by
reference as the `Arc`s are: a call that has read `current` (`mine`) goes on
with it after others swapped it out. `running` holds the calls on a worker
thread; `Poll` puts one there, `Await` and `Return` free the thread.

| Action | Code |
|---|---|
| `GetCurrent`, `TryConsume` | `buffer.get_current()`, `current.try_consume(n)` |
| `ReadCurrent`, `NeedSwitch` | `need_switch()`: the pointer, then the segment's cursor |
| `GetNext` | `get_next()`; from here `generate` claims the load, a batch just loads |
| `TryStartLoading`, `Spin`, `Peek` | the compare-exchange of `loading`; the wait of those that lose |
| `LoaderAnswers`, `LoaderFails` | the await of `load_segment`; `hwm` is the row's `current_id`, `Gaps` what other nodes took |
| `FinishLoading`, `SetNext` | `finish_loading()` before the result is looked at; `set_next` |
| `TakeNext`, `Install` | the two halves of `swap()` |
| `Disconnect`, `Restart` | a dropped future; a crash with the loss of the buffer |

Any call may be dropped at its await. A `generate` that goes there ends as
`leaked` until a restart: it put the flag up and has no guard to lower it.
`mine` and `took` are reset when a call returns: the stack frame is gone.
`disturbed` is a history variable: the calls under way while another wrote.

### DefaultLoader (+ DefaultLoaderMC; proofs in SegmentBufferProofs)
SegmentBuffer composed with `DefaultSegmentLoader`, which makes ranges from the
clock: base = seconds x 10000, span 1000000. `PerSecond`/`Span` keep the
property that matters, a span of more than a second's worth of ids.

### SegmentAllocation, with EtcdAllocation and LocalAllocation (+ MC modules, AllocationMC, AllocationProofs)
SegmentAllocation has the steps both locks share. `rows` are the committed rows
of one pair; `Find` is the SELECT, `Write` the UPDATE or INSERT with the commit,
`Answer` the return, `Fail` and `Cancel` the early ends. `seen` is what the
SELECT read: the UPDATE writes `seen + step`, not an increment. The data
centre `NoDc` stands for `allocate_segment`, whose SELECT has no filter on
`dc_id` and whose INSERT leaves its default 0.

EtcdAllocation adds `EtcdDistributedLock`: a key hangs on the lease of the
request that put it (`owner`). `TryAcquire` counts attempts; `AcquireFails` may
leave a key behind; `Release` and the spawned `Revoke` may fail; `Crash` loses
spawned tasks; `Expire` ends a lease at any time, also under a request that is
still inside, since nothing renews it. LocalAllocation adds
`LocalDistributedLock`: `IsLocked` and `AcquireLock` are two sections of a mutex,
and `Threads` says how many requests can stand between them; `ReleaseLock` is
`release_lock`, which takes away the mark whoever made it, and a guard that goes
without it (`LoseGuard`) leaves its mark. Its names begin with `Local` where
EtcdAllocation has the plain one, since AllocationProofs extends both.

Both locks can be passed, and the history variable `slipped` records when: with
etcd, a request writes after its lease is over (`outlived` has those that are
inside without one); locally, two requests have both found one key unmarked.
What the lock is for holds up to that moment, and only up to it: a lease that
runs out under a request which then does not write breaks nothing, nor does a
late release or revoke.

### Snowflake (+ SnowflakeMC, SnowflakeProofs)
`generate_id` with one action per access to an atomic; an id is
`<<timestamp, sequence>>`. `Sequences` is a power of two in the code, so that
`seq & sequence_mask` is `seq % Sequences`. `Tick` and `StepBack` are the clock,
`Drop` is a caller that goes while it sleeps. Any number of calls share the
instance. `raced` is history: a restart of the sequence was disturbed, which
`Racing` spells out. Another call went by what it had compared while one was
between its stores to `sequence` and `last_timestamp`; or numbers were drawn on
after the one that wrapped (the call that drew that one waits, unless it was
dropped; the others do not know); or the numbers of a millisecond were used up
before its first draw. Two calls on a millisecond that is under way, the wrap
and the wait of one of them, and steps of the clock are none of these.

### CircuitBreaker (+ CircuitBreakerMC, CircuitBreakerProofs)
`execute` and `reset` with one action per access to an atomic that decides. The
operation itself succeeds, fails or is dropped. A location's letter names the
method (`s_` on_success, `c_` its clean-up, `f_` on_failure, `w_` the window's
restart, `o_` transition_to_open, `r_` reset). Where two methods make the same
access, one action has a disjunct for each. `openedAt` and `probes` are history,
and so is `races`, which of three races have happened: `Late`, the breaker is
opened while a task that closed or reset it has yet to clear the deadline;
`Hasty`, it is opened while a task goes by a deadline read or computed before;
`Stray`, a success from before an opening or a failure is counted after it. Each
of the three properties names the one race that breaks it, and holds through the
other two.

### Degradation (+ DegradationMC, DegradationProofs)
AlgorithmRouter's workers and the background check as tasks (`task`), each at
most between its mark of an algorithm and its write of `current_state`.

| Action | Code |
|---|---|
| `Request`, `Fallback` | `generate_with_algorithm_internal`: the algorithm asked for, then the chain |
| `Succeed`, `FailToGenerate` | `record_generation_result`: the 8-bit counters wrap at `Wrap` |
| `Trigger`, `Recover` | `trigger_degradation`, `attempt_recovery`: the mark |
| `Determine`, `Write` | `determine_effective_algorithm` reads the marks, then `current_state` is written |
| `StartRound`, `PassOver`, `CheckSkips`, `CheckHealthy`, `CheckUnhealthy`, `CheckOpens`, `Reopen`, `Probe`, `Close`, `Restore`, `EndRound` | `check_all_health`, one algorithm after the other in any order |

`calm` is the environment's promise that all algorithms are healthy from now on
and no request comes; `overlapped` is history: an algorithm was marked during
another task's update.

### DcHealth (+ DcHealthMC)
DcFailureDetector with the loads that use it: `Select` and `Scan` are
`select_best_dc`, `Succeed`/`Look`/`Heal` and `Fail`/`Mark` are `record_success`
and `record_failure` by their accesses, `Round`, `Visit` and `Promote` the
periodic check. The count is kept up to `FailAt`, above which nothing tells the
values apart; whether `recovery_timeout` has passed is the Boolean `overdue`.
`Drop` is a load dropped as it awaits the allocation, which records nothing.

### WorkerAllocation (+ WorkerAllocationMC, WorkerAllocationProofs)
EtcdWorkerAllocator of several servers. `Allocate` grants the lease, `Get` and
`Put` are the two requests for each id of the scan, `Release` and `Clear` the
deletion and the server's own record. A request may fail before or after etcd
carried it out (`Fault`); `Crash` loses the server's record, `Expire` ends a
lease with its keys. Nothing renews a lease, so `Expire` may take one at any
time. `under` and the flags `deleted` and `disturbed` are history.

### ApiKeys (+ ApiKeysMC, ApiKeysProofs)
The handlers' operations on workspaces and user keys, one action per SQL
statement: `CreateKey` looks and a later `Insert` inserts; `Regenerate` lists,
`Delete` deletes one listed key at a time, `Insert` makes the new one;
`Validate` reads the row and `Touch` writes `last_used_at`. `Disable` is the
repository's `revoke_api_key`, `Revoke` the handlers', which deletes.
`FindOld` and `RotateOld` are the rotation task, `CutShort` an error or a client
that goes. `doubled`, `overlapped` and `disturbed` are history.

### SharedConfig (+ SharedConfigMC, SharedConfigProofs)
HotReloadConfig under ConfigManager: `UpdateRateLimit` and `UpdateLogging` clone
the configuration, `Override` sets the rate limiter's override, `Store` stores
the clone, `Call` calls the callbacks. `Reload` and the watcher's `Tick` read the
file (`ReadFile`), then store and call likewise. `serial` is what the stores
would make one after the other; `raced` records that a store came between a
clone and its store, or between a store and its callbacks.

## Runs

| Run | Question | Bounds |
|---|---|---|
| `seg_mixed` | Are ids unique, loads exclusive, segments installed fresh, and does every call return? | 2 generates + 1 batch of 2, 2 threads, 3 loads of 3 ids, another node takes an id before each load, any client may go away, the process may restart |
| `default_spaced` | When is the clock-based loader safe? | 2 generates + 1 batch, 3 seconds, 2 loads, ranges of 1.5 seconds |
| `etcd_dcs` | Is an allocation one step of a counter, are ranges new, rows single and never set back, until one writes after its lease; are keys freed and requests ended? | 3 requests, 2 data centres, 3 attempts, failures, leases that end at any time |
| `local_lock` | What does the local lock give, up to two requests that both find a key unmarked? | 2 threads, 4 requests, 2 data centres, failures |
| `snow_batch` | Are the ids of calls that share an instance unique and ascending on a bad clock? | 2 generates + 1 batch of 3, 2 ids per millisecond, 4 milliseconds, 1 step back, 2 attempts |
| `breaker` | Does the breaker wait, probe and close as documented when tasks share it? | 2 tasks, 5 calls between them, thresholds 1 (failures), 2 (successes) and 2 (requests), timeout 1, window 1, clock 3 |
| `degradation` | Do state and marks agree, do the counters keep their width, and does a circuit close again? | 1 worker and the check, 3 algorithms of which 2 have an instance, counters modulo 3, thresholds 2, 2 and 1 |
| `worker_ids` | Has an id one holder, do scans find the ids there are, do keys lapse? | 2 servers, 2 ids, 2 leases each, 2 faults |
| `api_keys` | Does a workspace keep exactly one key, does a revoked one stay so? | 2 requests, 1 workspace, 4 keys, 1 rotation of each |
| `shared_config` | Is no update lost, does the override follow, does an edit take effect? | 2 clients and the watcher, 2 requests, 2 edits, 2 values |
| `dc_health` | Is the local data centre used again, and do loads go on without it? | 2 loads that may be dropped, 2 data centres, thresholds 1 and 2, 3 loads between rounds |
| `rotate_grace` (violated) | Is the old secret accepted in its grace period? | as `api_keys` |

Why the bounds are enough. Three calls give every pair that interferes and one
to be hurt by it; two threads let one spin while another loads; three loads of
three ids make the initial segment, its successor and one more, so segments are
swapped out under calls that hold them, and a batch of 2 fails on a segment
with one id left. Two ids a millisecond make a batch of three wrap the sequence
while two others draw from it, wait and are dropped. Five calls of two tasks are
an opening, two probes that close, and a late call of the other before, between
and after them; five are also enough for each of the three races to break its
property, as TLC shows when the flag is taken out of it. Four local requests are
two on each key. One worker and the check
are two writers of the manager's state, which is what can go wrong there, and
counters modulo 3 reach threshold 2 and wrap. Two servers with two leases each
let an id outlive its lease, be taken by the other and be released by the
first. Four keys are two regenerations at a time of a workspace that has one,
and one more. Two edits are one during the watcher's read and the read's own. Two
loads let the late record of one meet the other's and the check. `MaxLoads`,
`MaxClock`, `MaxSeconds`, `MaxBacks`, `MaxCalls`, `MaxGrants`, `MaxFaults`,
`MaxKeys`, `MaxRotations`, `MaxEdits` and `MaxUpdates` are bounds of the model; `MaxRetries` is the code's number, smaller for Snowflake
(2 for 100: only reaching it matters). The proofs have no bounds.

Deadlock is checked in every run. Where all calls of the bound have been made a
step `Rest` (or the like) stutters, and only there.

Fairness. `FairSpec` of SegmentBuffer: the runtime polls a woken future when a
thread is free, a thread runs, the database client answers or times out. Weak
fairness per call is enough since a call that may be polled stays so. Nothing
makes a client disconnect or a process restart. `Termination` needs a thread
that does not spin: with `Workers = 1` it fails. It says of `generate` that the
call returns or that from some time on there is a dropped call whose flag stays
up; a batch always returns. `FairSpec` of EtcdAllocation: requests and
spawned tasks run, an unrenewed lease ends; nothing fails by fairness.
Degradation: the interval of the background check fires and its task runs, and a
circuit's timeout passes; requests are not fair, `CircuitRecovers` needs none.
WorkerAllocation: a lease that nothing renews ends. SharedConfig: the watcher's
interval fires and its task runs; clients need not. DcHealth: loads are made
again and again, from some time on none is dropped (a client that goes away
during every load leaves nothing to be recorded), the check runs,
`recovery_timeout` passes. A round of that check comes only after `Pace` loads
have been answered: the interval is 60 s, a load's length milliseconds.

## Proofs

SegmentBufferProofs, for any sets of calls, thread count, step, gaps, threshold,
with clients of any call that go away and with restarts:

* `TypeCorrect`: `Spec => []TypeOK`.
* `Uniqueness`: `Spec => [](UniqueInv /\ UniqueIds)`. `UniqueIds` alone is not
  inductive: that two answers are disjoint follows from where ids come from.
  `UniqueInv` says that cursors stay within their ranges and these below the
  row (`CursorsInRange`), ranges do not overlap (`RangesDisjoint`), and what was
  returned cannot be consumed from any segment again, nor loaded
  (`ReturnedConsumed`). Only `TryConsume` and `LoaderAnswers` touch what it
  speaks of (`StepEffect`), and each keeps it (`ConsumeKeepsUnique`,
  `LoadKeepsUnique`): the two-step swap, the loads without the flag and the
  restarts do not matter for uniqueness.
* `Exclusive`: one generate at a time between `try_start_loading` and
  `finish_loading`.
* `Reset`: the flag is up exactly while a `generate` is there or was dropped
  there. Both follow from `LoadInv`: the flag is up just where some call `Marks`
  it, by being there or by having been dropped, and at most one call does. A
  dropped call goes on counting, which is why no second load begins beside its
  flag; only `finish_loading` and a restart end it.
* `Implements`: `Spec => IssuesIds`, by the lemma that a call that is not `done`
  holds no ids.
* `Complete`: `Spec => []AllOrNothing`, by that lemma and the size of an interval.
* `Freshness`: `Spec => FreshInstall`. A step that changes `current` installs
  what its call took out of `next`, so the invariant `FreshInv` follows a loaded
  segment: it is in `next` or in the frame of one call (`Carries`), never in two
  places, and no call reads it (`Unused`). Most steps are `Calm`, they hold no
  more than before; `SetNext`, `TakeNext` and `Install` move it.

* `GivesUpDisturbed`: `Spec => []ExhaustedOnlyIfDisturbed` if the threshold is not
  0. `SoloAt` says where an undisturbed call stands and that the buffer is as it
  left it; by `FreshInv` what it installs is unused, so its second attempt gets
  its id (`OwnStep`); a step of another call disturbs it or changes nothing it
  reads (`OthersStep`).
* `SpacedLoads`: `DefaultSpec => []SpacedUnique`, for the clock-based loader.
  `SpacedInv` says that a range begins where its second does and that every id
  returned was consumed from a range; spaced loads keep ranges apart
  (`SpacedRanges`).
* `SpacedImplements`: `DefaultSpec /\ []Spaced => IssuesIds`: while loads are
  spaced the buffer behind the clock is an issuer too.

AllocationProofs, for any requests, data centres, steps and retries, with
failures, cancellations, crashes and lost revokes. What the database does is
argued once for both locks: the lemmas from `DataInv` on assume of a step only
that it is one of the allocation's (`AllocationStep`) and that the lock keeps two
requests on one key apart (`Excluding`); each lock is then shown to give that.

* `LeaseKeeps`: `Spec => []HolderOwns`; the invariant adds that only guards of
  ended requests are revoked later, so that a late revoke finds no key of a
  request inside.
* `RangesUnique`: `Spec /\ []InSpan => []UniqueRanges` assuming `OneMethod` (all
  requests by `allocate_segment`, or all by `allocate_segment_with_dc`), for any
  number of data centres. `InSpan`: none has used up the ids before those of the
  next; `KeyRangesUnique` does without it for requests of one data centre. The
  invariant `RangeInv`: a data centre has at most one row, which is ahead of
  every range taken from it, and ranges taken from one row are disjoint. Beside
  it stands `EtcdSeen`, which is what the lock is for: what a request that is
  about to write has read is still what its row holds (`Current`), if its lease
  is not over. A write by such a request keeps both (`WriteKeeps`, `WriteSpares`);
  a write by another is the one that sets `slipped`. A lease that ends takes a
  request out of `EtcdSeen` and disturbs nothing else. `RangesApart` adds the
  spans.
* `Implements`: `Spec /\ []InSpan => IssuesRanges` under the same assumption.
* `TakenAtOnce`: `Spec => TakesAtOnce` under `OneMethod`, without `InSpan`: counters
  may run into each other's ids and are counters all the same. A `Write` is the
  `Take` of its counter, since `seen` is what the row holds; every other step
  leaves `NextId` and `taken` alone (`CounterStep`).
* `RowSingle` and `RowAdvances`: `Spec => []OneRow` and `Spec => NeverBack` under
  `OneMethod`; `WriteEffect` is the one step that changes the table.
* `TypeCorrect`: `Spec => []EtcdTypeOK`.
* `MarksAccounted`: `LocalSpec => []MarksOwned`: a request leaves the set of those
  that account for its mark only by the `release_lock` that takes the mark away
  (`MarkKeeps`).
* `LocalExcludes`: `LocalSpec => []Exclusion`. The invariant `LocalInv`, until two
  requests have found one key unmarked together: a request past `is_locked` is
  alone there and finds its key unmarked, and one that is inside has its key
  marked and to itself.
* `LocalRangesUnique`, `LocalRowKept`, `LocalTakenAtOnce`, `LocalImplements`: what the
  etcd lock gives until a write without a lease, the local lock gives until that
  moment, by the same lemmas.
* `LocalTypeCorrect`. All of the local theorems have any number of threads.

SnowflakeProofs, for any number of concurrent calls, and every clock, number of
sequences, threshold and retries:

* `TypeCorrect`: `Spec => []TypeOK`.
* `Unique`, `Ascends`, `NeverBehind`: `Spec => []UniqueIds`, `[]Ascending` and
  `[]NoneAhead`. None of the three is inductive alone. `SnowInv` adds, as long as
  `~raced`, how what a call has read stands to `last_timestamp` (`Progress`), and
  that the ids of the current millisecond have numbers below `sequence`
  (`BelowSequence`), except while a call is between its two stores: then there
  are none of that millisecond yet, or the sequence is zero. A draw from below is
  new (`DrawKeeps`, `EmitKeeps`), a restart begins a millisecond nobody has drawn
  from (`RestartKeeps`), and a call that is between its stores is alone inside
  (`AloneBetween`).

WorkerAllocationProofs, for any servers, ids, leases and faults:

* `TypeCorrect`, and `OneHolder`: `Spec => []Exclusive`. The invariant
  `WorkerInv` says that a server whose lease lasts has its key under that lease
  in etcd, unless a release deleted it; two such servers would need one key
  under two leases.
* `EnoughIds`: `Spec => NoShortage` for any finite set of servers. That a scan
  found every id taken does not mean that they were taken at one time: ids come
  free behind it. The invariant `Crowded` counts servers by their place, the id
  they scan at or hold: whoever is beyond `c` has at least `c` servers at or
  below it. A scan goes on only from a place where another server stands,
  so the count holds when it moves (`CrowdedMove`), and at the last id it would
  need more servers than ids (`LastIdFree`).

ApiKeysProofs, for any clients, workspaces, keys and rotations:

* `TypeCorrect`, and `Revoked`: `Spec => RevokedStays`, from the types: only
  `Insert` makes a row, and only in a place no key has had.
* `SingleKey`: `Spec => []OneKey`. `KeyInv` adds that in a workspace that is not
  `overlapped` at most one request is making a key, and one about to insert
  finds no key there.
* `KeyRemains`: `Spec => []HasKey`; `HasInv` follows the keys that a
  regeneration has yet to delete.

SharedConfigProofs, for any clients, values and files:

* `TypeCorrect`, `NoLostUpdate`: `Spec => []Serial`. `SerialInv`: a clone that no
  store has come after differs from the configuration in its own field only,
  and a stored configuration that none has come after is the current one.
* `OverrideAgrees`: `Spec => []OverrideFollows`; on the way from an override to
  its store the request carries the same rate.

DegradationProofs, for any algorithms, chain, thresholds and number of workers:

* `TypeCorrect`: among it, that the counters keep to 8 bits.
* `StateAgrees`: `Spec => []Agreement`. `Agreement` says nothing of a task that is
  about to write, so `AgreeInv` adds that what it is about to write agrees too
  (`FoundAgrees`). A step is a mark (`MarkKeeps`), a `Determine`, a `Write`, or
  `Quiet`; a recovery of another algorithm than the primary, after which the
  code does not determine the state anew, keeps what agreed.

CircuitBreakerProofs, for any number of tasks, thresholds, times and calls:

* `TypeCorrect`: `Spec => []TypeOK`. A task stores as deadline or window start
  what it read from the clock (`StampTyped`).
* `DeadlineKept`: `Spec => []OpenHasDeadline`. Only the steps of `Timed` touch the
  deadline; while no clean-up is under way in an open breaker (`~Late`), the one
  that stores 0 finds it not open.
* `WaitsForTimeout`: `Spec => TimeoutRespected`. `Patient`, until a `Hasty` race: a
  task that is about to store or to pass a deadline of an open breaker has one
  that lies a timeout after `openedAt`.
* `ClosesAfterProbes`: `Spec => ClosesOnProbes`. `Probed`, until a `Stray` race: the
  count of successes is zero while the breaker is open or a failure is between
  its two halves, and in a half-open one no count, stored or read, exceeds the
  probes of the spell (a late zero may make it smaller).

The only assumptions are the ASSUMEs on constants in the modules (TLC evaluates
them in the runs) and those named in the theorems: `OneMethod` and `InSpan` of the
allocation, a threshold other than 0 in `GivesUpDisturbed`, spaced loads, no more
servers than ids in `EnoughIds`.

Only model-checked: liveness (`Termination`, `KeyFreed`, `CircuitRecovers`,
`KeyLapses`, `EditTakesEffect`, `Recovers`, `FailsOver`; DcHealth states nothing
else), since liveness under fairness and ENABLED are beyond the proof system's
backends. Every safety property that a passing run checks is proved. Where the
code has a race that breaks a property, the race is in the model, the runs meet
it, and the property holds up to it: its history flag (`slipped`, `raced`, `races`,
`overlapped`, `disturbed`) is a definition of the module, which says what the race
is. What comes after the race does not hold, as the next section shows.

## Where the code and its documents disagree

The run marked violated; PROJECT.json quotes the line.

* `rotate_grace`: `rotate_api_key` replaces the stored hash and ignores its grace
  period, so the old secret is refused at once; the handler's comment says that
  it stays active.

More of them show in the other runs when a property is stated without the race it
excepts, or with other constants. First without the race:

* `local_lock`, `UniqueRanges` without `~slipped`: two requests both find the key
  unmarked, both mark it, and one range is handed out twice. The comment at
  `main.rs:559` calls the lock mutual exclusion within the process.
* `etcd_dcs`, `OneRow`, `TakesAtOnce` or `IssuesRanges` without `slipped`: a
  transaction that outlives its lease hands out a range again.
* `snow_batch`, `UniqueIds` without `~raced`: two calls that both see a new
  millisecond both restart the sequence and return one id.
* `breaker`, `OpenHasDeadline` without `"late"`: a late `next_attempt_at.store(0)`
  leaves the breaker open with no deadline, for good. `TimeoutRespected` without
  `"hasty"`: a request is let through before the timeout. `ClosesOnProbes` without
  `"stray"`: a success of before the opening counts as a probe.
* `seg_mixed`, `Termination` with `<>(pc[c] \in Returned)` alone: a `generate` dropped
  at its load leaves `loading` true, and every later call that needs a load spins
  for ever.
* `default_spaced` with `UniqueIds` in place of `SpacedUnique`: the default loader's
  ranges overlap when loads are less than 100 seconds apart.

And by constants:

* `etcd_dcs` with `Requests <- Two`, `DcOf <- Mixed`, `StepOf <- Steps2`:
  `allocate_segment` and `allocate_segment_with_dc(.., 0)` work on one row under
  two lock keys and hand out one range twice (`IssuesRanges`, `TakesAtOnce`).
* `seg_mixed` with `Workers = 1`: the call that spins keeps the only thread from
  the load that would end its wait (`Termination`). So it is with as many spinning
  calls as workers.
* `seg_mixed` with `SwitchPct = 0` and `Step = 1`: a used-up segment is never
  replaced (`ExhaustedOnlyIfDisturbed`); validation accepts a threshold of 0.
* A closed breaker opens at its first failure whatever `failure_threshold`
  says, and a half-open one may survive a failure: `FailureState` translates
  `should_open || state != HALF_OPEN`, `docs/ARCHITECTURE.md` 4.3 draws it
  otherwise.

Met while reading, and in the models as they are: two tasks that update the
manager's state at a time may leave it behind the marks (`overlapped` in
`Agreement`); two updates of the configuration may lose one (`raced` in
`Serial`); two regenerations of one workspace may leave it two keys, or none
later (`overlapped`, `doubled`); the watcher keeps a file's time before it reads
it, so a read that fails is not tried again (`failed` in `EditTakesEffect`), and
`reload_config` of ConfigManager reports success for a file that does not parse;
an algorithm that requests degraded while its circuit is closed is passed over
by the check (`CircuitRecovers` speaks of open circuits only); ConfigManager
builds the audit future of an update and drops it, so updates are not audited.

## Abstractions

* Atomics are sequentially consistent, the `Relaxed` ones too.
* Logging, metrics and the counters only they read are left out, as is the
  wording of errors.
* A transaction's statement and its commit are one step where nothing can see
  between them; a COMMIT in flight when its request is cancelled is taken to
  land before the spawned revoke.
* The step of a load is a constant; in the code StepCalculator chooses it.
* A range is a set of naturals; ids do not overflow `i64` in the model.
* A key's secret is the number of its rotations; a configuration has two fields,
  one with an override and one without.
* In Degradation counting a result and the decision read off the counters are
  one step, and so is what the check does to a circuit, which is its own.

## Not modelled, and the plan

Not modelled because there is no protocol to get wrong, or nobody to meet it:

* QpsWindow, StepCalculator, CpuMonitor: arithmetic on samples in floating
  point, bounded by two calls of `clamp`; the step is a constant of SegmentBuffer.
* The local worker-id allocator answers its configured id and keeps no state.
* The etcd health monitor keeps a status that nothing that issues ids or takes
  locks asks for.
* AuthManager and AlertManager are built by their tests only; `AlertManager::new`
  also drops the sender of its shutdown channel. The same holds for
  `core/config`, a second configuration manager.
* The rate limiter is a map of buckets of an external library, which decides.
* The token store implements a trait of an authentication library; nothing else
  in the repository uses it.
* UUIDs are drawn by a library. Front end, wiring, TLS, i18n, OpenAPI, generated
  protobuf and entity code decode, connect and format; the one thing of theirs
  that matters, a request's future being dropped, is an action of the modules.

Left for later, in this order:

1. The failure limiter of the authentication middleware: its check before and
   its record after the validation that ApiKeys has.
2. The audit queue at its bound: the order and the loss of events.
3. `SnowflakeLayout`: construct_id as arithmetic on bits, injective within its
   field widths.
4. Proofs: the double buffer over RangeCounter in place of a loader with gaps,
   so that the ids of several buffers on one row are disjoint by one theorem.
