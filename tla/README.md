# A verification project for IsardVDI

IsardVDI is a virtual desktop platform. Most of it is request handlers over a
database; what is hard to get right is the part that runs on its own: storage
tasks on remote workers, the stream that carries their results back, the
finalize steps that turn a result into row updates, the reconciler that repairs
what got lost, the session store, the governor that limits disk work, the saga
that migrates trees of disks between pools, and the orchestrator that scales
hypervisors. This project models that part in TLA+,
checks it with TLC and proves the main invariants with TLAPS.

## The system

| Part | Code | State | Operations | What makes it hard |
|---|---|---|---|---|
| Task results stream | `change-handler/.../streams/task_results_consumer.py`, `trim.py`, `_common/helpers/task_streams.py` | Redis stream, consumer group, pending list, dead letters; per process: batch, sweep cursor, unreadable counts | publish, read, settle, acknowledge, reclaim, dead-letter, reap, trim | overlapping processes, crashes, lost answers, poison entries |
| Task chains | `_common/models/task.py`, `lib/result_job.py`, `docker/storage/.../task.py`, `_process_entry` | rq status and meta of every job, finalize marks, cancel records, anchor locks | run, save progress, complete, cancel, dispatch, mark, create knot child, heal | workers, cancels and dispatches that write the same blob; redelivery |
| Reconciler | `change-handler/.../streams/reconcile.py` | rq registries and database rows | five passes | repairs what other actors are still changing |
| Sessions | `sessions/sessions/sessions.go`, `sessions/model`, `pkg/redis/model.go` | session keys, user keys, locks, all with TTL | New, Get, Renew, Revoke | lock TTL, dangling keys, several keys per operation |
| Governor | `_common/lib/governed_worker.py`, `queue_*.py` | running sets, owner tags, lanes | reserve, release, prune, push back, collect lanes | leaks of dead workers, over-admission |
| Storage migration | `_common/lib/storage/migration_run.py`, `migration.py`, `_common/models/storage_migration.py` | ledger of disks, storage rows, files, tasks, lease | gate, move, rebase, verify, commit, release, fail, abandon, pause, cancel | overlapping drivers, crashes between a write and the next, lost tasks, desktops that start |
| Orchestrator | `orchestrator/orchestrator/*.go`, `director/rata.go` | rows of hypervisors, machines, operations in flight | limit, unlimit, create, destroy, sentence, pardon, clean up | decisions from stale state, rules that undo each other |
| Engine | `engine/` | domains, hypervisor threads | start, stop, migrate | threads, status machine |
| Bookings, GPU pools | `_common/lib/bookings`, `gpu_pool_policy.py`, `vgpu_state.py` | plans and reservations | plan, book, reassign | interval arithmetic |
| API, authentication, changefeed, socketio, scheduler, notifier, stats, proxies, frontends | see `PROJECT.json` | | | mostly I/O, not modelled |

The parts meet as follows. A request builds a chain of rq jobs; a storage worker
runs each job and publishes its result on the stream; the change-handler reads
the entry, runs the finalize steps below the job, saves their marks in the job's
meta and acknowledges. A user may cancel the chain meanwhile, and the reconciler
looks for members that were left behind. Before a worker runs a job the governor
decides whether it may: the job takes a slot of its category and, if it is heavy,
one of the fleet, or it goes back to its lane. A migration is a longer story of the
same kind: a driver sends one task per disk and step, and decides from a ledger and
the status of the last task what comes next. The orchestrator stands apart; it
meets the rest in the table of hypervisors only.

## Modules

| Module | Models |
|---|---|
| `TaskStream` | the stream, the consumer group and the loop of every consumer process |
| `Delivery` | what the stream promises: an inbox that is only emptied by handling, giving up, or the producers' cap |
| `TaskStreamProofs`, `TaskStreamRefines` | theorems about `TaskStream`: type correctness, safety, the bound on attempts; the counts and that it implements `Delivery` |
| `TaskChain` | one chain: workers, `Task.cancel`, `_process_entry`, pass 1 of the reconciler |
| `TaskChainTypeProofs`, `TaskChainProofs` | its theorems: type correctness and the anchor locks; results, knots, marks, acknowledgements |
| `Sessions` | the session service over Redis |
| `SessionsTypeProofs`, `SessionsProofs` | its theorems: type correctness, what the lock protects |
| `Governor` | the poll of the governed workers, the slot sets, the owner tags, the lanes |
| `GovernorProofs` | its theorems |
| `MigrationSaga` | the migration of one tree of disks: drivers, ledger, tasks, files, users and an admin |
| `Orchestrator` | the orchestrator's loop, the Rata director, the goroutines, the pool |
| `OrchestratorProofs` | its theorems |
| `MC...` | instances for TLC; the `.cfg` files beside them give the bounds |

### TaskStream

A consumer is one process start, because each start takes a fresh name. Each
await between two Redis calls is a step boundary. `Read`, `ProcessEntry`, `Ack`
are `_read_and_dispatch`; `StartReclaim` to `EndReclaim` are `_reclaim_pending`
with `_autoclaim_pages`, `_delivery_count` and `_dead_letter`;
`ReapDeadConsumers` (the list) and `DelConsumer` (one removal each, by what the list
said) are `_reap_dead_consumers`, at the start of `run` and after each sweep;
`ReapLost` is its `except`. `ReadFrontier`, `ReadPending`,
`XTrim` are the three calls of `_trim_to_frontier`. Idle times are abstracted to
"long enough" (`GrowIdle`, `GoSilent`). A call may fail before it has an effect
or lose its answer after it. Dispatching an entry succeeds or fails. Only a process
that died counts as silent: one that is frozen for the 12 hours of
`DEAD_CONSUMER_IDLE_MS` and wakes up between the list and the removal is not modelled.

`Delivery` knows no processes, pending lists or sweeps. Its inbox is mapped to the
entries that are neither acknowledged nor evicted (`Waiting`), and `Implements` says
that every step of `TaskStream` publishes, handles, gives up or closes a result, or
leaves the abstract state alone. A result can only leave the inbox once handled or
given up, or when the cap drops it, which spares the newest `MaxLen`.

### TaskChain

`meta[j]` is the blob of finalize marks in job `j`; a worker's copy is `blob[j]`,
a dispatch's copy is its `view`. `Take`, `PeekStatus`, `PutStatus`, `Discover`,
`Lock`, `Hydrate`, `Handle`, `Mark`, `CreateKnot`, `SaveKnot`, `EnqueueKnot`,
`SaveAnchor`, `Finish` follow `_process_entry` from top to bottom, with a step boundary
wherever the code awaits or makes a separate Redis call that another actor can
see. `CancelRead`, `CancelApply`, `CancelStamp`, `Announce` are the calls of
`Task.cancel` for each member, leaves first. `Heal` is pass 1 of the reconciler.

Abstractions: a walk over the steps and a hydration of all anchors are one step
each; steps that are ready run in any order; the reconciler's grace period is
not measured; a handler succeeds or raises, what it writes to the database is
left out; knots are one level deep with one child per step. rq's retries, the
`_finished` guard they need, and the retention of finished jobs are not modelled.

There is one handler process with several dispatches, because the anchor locks are
`asyncio` locks in its memory; `KnotOnce`, `MarksKept` and `NoCircularWait` rest on
that, and say nothing of two handler processes that work on one chain at a time. A
crash drops all locks and dispatches at once. Result entries do not vanish, which is
what `TaskStream` shows. The reconciler refuses to queue a member whose lane has no
consumer; the refusal changes nothing, so it is a step that is not taken, and the
fairness of `Heal` assumes that the lane has a consumer in the end. A knot child is
saved, then its finalize steps, then it is queued; a crash in between leaves a child
without steps, or one that nobody queues.

### Sessions

Every Redis call of `New`, `Renew` and `Revoke` is an action. `Fail` is an error
of a call, `Abandon` the death of a request, `AcquireLost` and `NewUserLost` a
write whose answer is lost. Time is a tick counter; the TTLs of the session key
and of the user key run separately, as in Redis. `lapsed` records the users
whose lock ran out under a live holder, `misdirected` those whose user key was
deleted for another session. Automatic retries of the Redis client are not
modelled.

### Governor

`held` are the Redis sets of ids that hold a slot, `owner` the tags that name the
worker of a reservation, `lanes` is `rq:queues`. `BootPrune` and `BootCollects` are the
end of the constructor, `Boot` is the worker's registration. One round of `dequeue_job_and_maintain_ttl` is
`PollPrunes` and `Poll` (`_defer_background`), `OrderPrunes` and `Order`
(`_fair_ordered_queues`), `Pop` or `PopTimeout`, then `_admit`: `Deny`, `Reserve`,
`Tag`, `PushBack`, `Register`. `Execute`, `Done` and the steps of `_release_fair`
(`FreeCategory`, `FreeHeavy`, `Untag`) are `execute_job`. `Prune`, `Judge`, `Drop`,
`DropTag` are `_prune_stale_members`, which several workers may be in at a time.
`RemoveIdleLane`, `RestoreLane` and `ForgetLane` are `queue_lane_gc`, with its list of
the lanes it removed. `Announce` and `Enqueue` are the two calls of an enqueue, with
whatever a collector does in between. `Due` and `Rescue` are rq's
retry and its rescue of an abandoned job. A worker may be killed between any two
calls and a call may fail; `beating` are the workers whose heartbeat key exists. The
key of a live worker may run out too (`Expire`), until its next `Heartbeat`.

Abstractions: the reads that judge one slot are one step; the order of the jobs on
a lane and the weighted rotation are left out; PSI pressure is a free choice at
the poll and again at admission; the caps are fixed; the 24 h TTL of the sets,
which each reservation renews, is not modelled. The flat (single-tenant) path, the kill switch
and the seeding after it, and the ungoverned floor worker are left out.
`retried`, `misjudged` and `unlisted` record what a property excepts.

### MigrationSaga

One tree: a disk and those that back onto it. `item` is the ledger, `row` the storage
row (its status and which file it points to), `src` and `dst` are the two files, with
what each backs onto. `TreeNext` with `DecideItemAction` and `Gate` is the pure
decision of `migration.py`. `Drive` is a pass of `advance` up to its handler: lease,
gate of the tree, decision. A start is `Claim` (the conditional write of a fence),
`Charge` (the bound on abandoned tasks), `Orig`, `Maint`, `Record`, `Park` (what has to
be put back later, and the two maintenance states), `Send` and `Note`. `Repoint` and
`Commit` are `_db_update`; `Release`, `Erase`, `Released` are `_release`; `Fail`,
`Terminalize`, `Drop`, `Discard`, `Abandon` are the ways a tree is given up; `Settle` is
the end of the job. `RunPreflight` to `RunDelete` are the worker's tasks, a rebase with
or without the check that `config.verify` asks for. A driver may
raise, die, or stall at any point until its lease runs out (`Raise`, `Crash`, `Stall`);
it then carries on with what it read, beside the driver that has the lease by then,
because the lease is renewed before the step of a tree and not during it. Tasks
are lost with their worker (`Lose`); users start and stop desktops; an admin pauses,
resumes and cancels.

History variables name what the properties except. `doubled`: two copies of a disk
were under way at a time. `fumbled`: a task was sent and its id not noted, or a status
could not be read. `revived`: a driver died while it gave up a tree disk by disk, and
the next one went on with the rest. `ran`: a desktop ran while its disk was on its way.
`overlapped`: two drivers were both past their claims, or in handlers that have none,
where writes compare nothing and only the lease keeps them apart (the docstring of
`advance` calls the lease "the load-bearing guarantee").
`cut`: an exception in a handler closed the last open disk, after which nothing of
the saga comes back to its storage row; the reconciler's passes 2 and 3, which skip
only disks with open ledger items, look at such rows later.

Left out: the planner, windows, ETA and budgets of admission, force-stop, media,
recurring jobs, the autostart guard, the failure policy that pauses the
job, and the restore calls that fail and are swallowed. Left out as well are the two
operations that move a disk's ledger state back: the repair of damage, and the
re-scan, which alone makes a pending row that has a move already (the
`reconcile_pending` branch of `decide_item_action`). `Onward` is about a job without
them. The incremental driver `drive_trees` takes the same steps.

### Orchestrator

`hyper` are the rows of the hypervisors table, `listed` and `up` the machines of the
operations service, `loop` the position of `Start`, `op` the goroutine that holds
`scaleMux`, `sentences` the goroutines of `addHypervisorsToDeadRow`, which take no lock.
A cycle is `ListHypers`, `ExtraOperation` (one call each), `Gate` (the wait for the
mutex and the stall guard), `ListAgain`, `Cleanup`, `Decide`. `Scale` and `Limits` are the
Rata director: `ToPardon`, `ToUnlimit`, `ToCreate`, `ToDestroy`, `ToSentence` are its
`bestHyper...` functions. The operations are `Pardon`, `Unlimit`, `StopDesktops` and
`Destroy`, and `OpenBuffer`, `Create`, `Manage`, `CloseBuffer`. Hypervisors boot, go
offline, register anew or vanish, desktops start and stop, destroy times come.

Memory is in units; the limits are absolute or relative to those of the hypervisors,
and both kinds are among the configurations of the run. Left out: CPU limits, limits
by the hour, GPU-only and buffering hypervisors as candidates, desktops forced to a
hypervisor, server desktops, the check service, dry run, the live switch that
disables the orchestrator, and the Chamaleon director. Some pairs of calls are one
step: the read and the update of a row in `Sentence` and in `Pardon`, and the two lists
of `ListAgain`; desktops that an operation stops are gone at once.

## Runs

| Run | Bounds | Shows |
|---|---|---|
| `stream_safety` | 2 processes, 2 entries, MAXLEN 1, 1 fault | `NothingLost`, `TrimSafe`, `AckedIsDone`, `PoisonBounded`, `GivenUpLate`, and that the stream implements `Delivery` (`Implements`) |
| `stream_liveness` | 2 processes, 1 entry, 1 fault | `EventuallySettled`, `CorpsesReaped` |
| `chain_safety` | 3 jobs, 3 steps, 2 dispatches, 1 cancel, 1 fault | `NoPhantomSuccess`, `KnotOnce`, `KnotFollows`, `AckedIsDurable`, `NoCircularWait`, `MarksKept` |
| `chain_liveness` | the same chain, 1 dispatch, 1 cancel, 1 fault | `ChainSettles` |
| `sessions_safety` | 1 user, 2 session ids, 2 requests, 3 ticks | `OneSessionWhileLocked`, `ClosedStaysClosed` |
| `gov_safety` | 2 workers, 2 heavy jobs of a category, heavy cap 1, category cap 2, 1 retry, 2 faults | `CapKept`, `LaneFound` |
| `gov_liveness` | 2 workers, 2 heavy jobs, on a flat lane, heavy cap 1, category cap 2, 1 fault | `NotWedged` |
| `mig_safety` | a disk and its child, which boots a desktop; neither, the root or the child in place; 2 drivers, 2 mishaps; up to an overlap | `Kept`, `Restored`, `TreeAtOnce`, `OneCopy`, `Onward` |
| `mig_liveness` | the same tree with its root in place, 1 driver, 2 mishaps | `TreesFinish`, `JobEnds` |
| `orchestrator` | 2 machines of 3 units, 2 configurations, 4 starts or stops of desktops, 1 fault | `KillsTheCondemned`, `BufferShut`, `Settles`, `Provided` |

Each of these also checks the module's `TypeOK` where it checks safety. Two
processes let one act between any two calls of the other, which is the shape of
the races the comments in the code argue about. Two entries distinguish a read from an unread one and an
evicted from a kept one. The chain is that of a template creation: a job with a
dependency, and a knot child with two steps. One cancel and one fault fire
every error action. In `Governor` two jobs compete for one slot of the fleet; one
fault is enough to leak a slot, two let a heartbeat lapse and a worker die. The
category's set, with its cap of two, is filled and not contended in these runs: its half
of `CapKept` is proved, and that of `NotWedged` was checked with a heavy and a light job
and both caps one (214,515 states, no error). In
`MigrationSaga` a parent and a child are enough for an order between disks; two mishaps
allow a stall of one driver and a failure or a command on top of it. In `Orchestrator`
two machines of three units can each be full, empty or in between while one is
sentenced and the other limited.

`mig_safety` has a state constraint, `Apart`: the first state of an overlap is checked
and its successors are not explored. Nothing is lost by it, for every property but the
type invariant excepts the behaviours that have overlapped; without the constraint
TLC finds no error either, in 24.6 million states.

Two runs end in a counterexample. Each checks a sentence of the repository's own
comments against the code:

| Run | Statement | What happens |
|---|---|---|
| `chain_dead_starts` | "may still not start a disk operation once the chain it belongs to is dead" | a result that was pending at the cancel is dispatched as live |
| `mig_started` | "A running disk pins its whole tree" | the gate looks once; a desktop whose disk comes later can start after it, and is copied while it runs |

Some more disagreements show in the models and have no run of their own. On a
dead chain a handler that raised is marked failed, and the redelivery skips it
(`HandlerRaises`, `Mark`). `depending_status` is read by the handler and again
for the mark (`Handle`, `Mark`). The status is read and written in two calls, so
a cancel in between is overwritten (`PeekStatus`, `PutStatus`). `revoke` deletes
the user key whatever session it points to (`RevokeDeleteUser`), which is why
`OneSessionWhileLocked` excepts the `misdirected` users. A worker's progress save
writes its old blob over the marks of a canceled job that it still runs
(`SaveProgress`), where a comment says of a mark that it "stands as it is". The
governor promises that a leak "only ever under-admits"; but a prune that cannot
fetch a job takes it for gone (`JudgeFails`), a job that is queued again may
still carry the tag of its dead worker until `Tag` overwrites it, and a live worker
whose `rq:worker` key ran out before its next heartbeat is taken for dead
(`FalselyStale`), although `_reservation_owner_alive` means to say alive "unless we can
PROVE the reserving worker is gone". Each frees the slot of a job that runs. This is
why `CapKept` excepts `misjudged` and `retried` jobs. A worker that starts collects
drained lanes and keeps no list of them, so a lane that it takes between the two calls
of an enqueue stays unregistered until the next enqueue on it; the other collector
keeps such a list and restores the lane. `LaneFound` excepts the first (`unlisted`) and
covers the second. And a job whose heavy slot could not be released and which is queued again
waits for its own slot, since a queued job counts as live; `NotWedged` is about the
slots of dead workers only, and only of those that still have a tag: the prune of the
heavy set deletes the one tag of a job, and the prune of the category's set then takes
its dead worker for alive.

Some comments of the migration say more than the code keeps. Two overlapping drivers
"can never launch two rsyncs" (`_start_move`): they can when one overtakes the other
between its claim and its note, as the docstring of `advance` says itself; `OneCopy`,
`Onward`, `Kept`, `Restored` and `TreeAtOnce` except what follows such an overlap.
`plan_tree_failure` says of an abandoned tree "so there is no data loss", and
`_cancel_skip_tree` "sources retained byte-identical"; but the header of a disk that is in place, below one that moves, is
rewritten onto its parent's new file before the gate, is not rewritten back, and that
file is then discarded. `Kept` excepts such a disk (`Ahead`).

A knot child is saved before its steps are and before it is queued, so a failure in
between makes the retry skip it; `KnotFollows` excepts that child and no other. The count of unreadable sweeps
("unreadable must not mean immortal") is forgotten by a sweep that does not claim the
entry, and sweeps come every 30 s while an entry is claimed after 60 s of idleness
(`EndReclaim`). A session lock's TTL may run out under its holder, whose release then
deletes the lock of the next one; with `Lapses` TRUE two logins create two sessions,
and `OneSessionWhileLocked` excepts the users this has happened to.

A late sentence and a limit lifted from an older list leave a hypervisor that is
sentenced and open at once (`Astray`); it is never destroyed, its pardon is refused,
and the director may choose to pardon it for ever. A new registration has the same
effect. `Settles` and `Provided` except the behaviours in which this happens, which are
the harmful ones of that race, and `Provided` asks for nothing once no machine is left
to start.
`createHypervisors` returns early without closing the buffering hypervisor, which
`BufferShut` excepts, and a hypervisor that could not be marked as managed is never
handled. A pause for space and an admin's pause that see the same status can replace
each other.

## Fairness

`TaskStream`: each process's loop goes on as long as the process lives, and idle
times grow. The read and the start of a sweep are strongly fair: both are
enabled only at the top of the loop, and the loop comes back to them.
`TaskChain`: workers take and end jobs, the consumer dispatches,
a cancel that was begun goes on, the reconciler comes round and finds a consumer on
the lane. `Governor`: a live
worker goes round its loop, beats, and its jobs end, a dead worker's key expires, and
the pressure is not high at every poll for ever (strong fairness of the poll that
finds none; with high pressure for ever the governor defers for ever, by design).
`MigrationSaga`: drivers are called again and
again (a scheduler's backstop), handlers go on, with or without the lease, and each
task is run by some worker; an admin need not resume. `Orchestrator`: the loop ticks,
its goroutines go on, machines that run come online, destroy times come. No fairness is
assumed of faults, of users, or of which outcome a step has. The loops of
the stream's consumers, of the governed workers and of the orchestrator never end, and
TLC checks those runs for deadlock; a chain, a set of login requests and a migration
come to an end, so `CHECK_DEADLOCK` is off there.

## Proofs

All for every value of the constants that satisfies the named assumptions
(`StreamAssumption`, `ChainAssumption`, `SessionsAssumption`, `GovernorAssumption`,
`PoolAssumption`), which TLC evaluates in the runs. Each module has its type invariant
proved (`TypeCorrect`, `OrchestratorTypes`). Where an inductive invariant was needed,
TLC checked it on the instance of the run before it was proved.

**Task results stream**

- `TaskStreamProofs!NothingIsLost`: an entry that was neither acknowledged nor
  dropped by the MAXLEN is unread, or pending with its data in the stream. On its
  own this is not inductive: a trim decides from a frontier and a pending list
  read earlier. `TrimSafe` is the strengthening: pending entries have been read,
  a remembered frontier can only have advanced, and everything below a computed
  floor is settled or evicted. A removal of a consumer forgets what is pending for it,
  and decides from a list read earlier; that nothing is pending by then is `Corpses`:
  what a process means to remove is dead, owns nothing and gets nothing.
- `TrimIsSafe`: the strengthening itself, between the three calls of
  a trim while other processes read, claim and acknowledge.
- `AcknowledgedIsDone`: needs that whatever waits to be acknowledged has been
  dispatched, dead-lettered or evicted.
- `PoisonIsBounded`: an entry that is still pending was dispatched at most
  `MAX_DELIVERIES` times. Every delivery is still held by one process or led to at most
  one dispatch, so attempts and holders together do not exceed the deliveries (`Poison`,
  with cardinalities), and a retry compares the count of deliveries with the limit.
- `TaskStreamRefines!NotGivenUpEarly`: relates the counts each process keeps to the
  deliveries.
- `TaskStreamRefines!StreamDelivers`: `TaskStream` implements `Delivery`. Beyond
  `NothingLost` the mapping needs that what was acknowledged, or is held by a process,
  was read, that an acknowledged entry is not pending again, and that what the cap
  dropped does not come back (`WasRead`); then one lemma per kind of step.

**Task chains.** The invariant is built in layers, each inductive given those below.

- `TaskChainTypeProofs!NoDeadlock`: no set of dispatches waits in a circle for anchor
  locks. An anchor is locked by one dispatch (`Exclusive`), and each takes its anchors
  in the order of their ids, so that what it still wants is above all it holds
  (`Ordered`); the waiting dispatch with the largest lock then has nobody to wait for.
- `TaskChainProofs!NoPhantom`: no finalize step runs its success branch, and no mark
  says finished, for a job whose body did not complete. Whatever says finished is backed
  by a completed body: statuses, results on the stream, the marks in redis, and the
  copies of them that workers and dispatches hold and save later (`Worked`).
- `KnotIsOnce`: a knot child is queued at most once, over redeliveries and overlapping
  dispatches. A child that exists was created under the lock of its carrier's anchor,
  and the one dispatch that created it is between that and its queueing (`Knit`).
- `MarksAreKept`: an action property. A finalize mark is not lost, but for those that
  a running worker's save may overwrite and those of a child saved anew. Every dispatch
  saves whole blobs from a `view` read earlier: that the view holds every mark of the
  anchors it locked is `Views`, which needs that what is walked has its anchors locked
  (`Roots`, `Placement`), that children appear only under a lock (`Exists`), and that
  one that does not exist, or whose steps are still to be saved, has no marks and is
  locked by nobody (`Bare`).
- `AcknowledgedIsDurable`: a result is acknowledged only when the marks of all its
  steps are saved. A dispatch holds the anchor of its own result (`Owns`); what it has
  still to save is in its view, and what it saved stays (`Durable`, `Settled`).
- `KnotsFollow`: a step that was finalized live has its child queued, unless a fault
  came between the child's save and its queueing (`Stranded`, `Follows`).

**Sessions**

- `SessionsProofs!OneSession` and `ClosedForGood`: the inductive invariant says
  that at most one request is between its lock and its release for a user whose
  lock has not lapsed, and what that request knows of the keys at each place.

**Governor**

- `GovernorProofs!CapIsKept`: the jobs that run on reservations of a set are never more
  than its cap. The script fills a set only below its cap (`Capped`); that a running job
  stays in its sets (`Backed`) needs that no prune takes it for stale: a job has one
  worker (`Sole`), and what a prune judges stale, or has judged earlier, is over and
  stays over unless it is queued again or its live worker's key was gone (`Judged`).
- `LanesAreFound`: the lane of a job on a list is registered, is on the list of the
  collector that restores it, or is about to be registered by the worker that pushed
  the job back. That this holds when the push of an enqueue comes after a collection
  needs the same of the enqueues that are under way (`Announced`); that no slot is held
  for those is `Unseen`.

**Orchestrator**

- `OrchestratorProofs!OnlyTheCondemned`: an action property. What is being destroyed
  was condemned when it was read; that it still is needs three facts. From the read to
  the decision no operation runs and no limit is left to change (`Quiet`); what was
  chosen is condemned and is not about to be cleaned up (`Chosen`); and while a
  destruction runs, the limits the next cycle holds are those of other hypervisors,
  for it read them after the sentence (`Doomed`).
- `BufferIsShut`: without a fault the buffering hypervisor is open only while a
  hypervisor is being created; while a creation waits, its machine is up (`Shut`).

Only model-checked: everything about `MigrationSaga`, and all liveness
(`EventuallySettled`, `CorpsesReaped`, `ChainSettles`, `NotWedged`, `TreesFinish`,
`JobEnds`, `Settles`, `Provided`), since the prover does not handle fairness.

## Not modelled

- Reconciler passes 2 to 5: they re-check rows against files and queues; their effect
  is on the rows the task-result handlers write, which `TaskChain` abstracts.
- The engine (domain status machine, hypervisor threads), bookings and GPU planning.
- The flat path of the governor and its kill switch; the Chamaleon director.
- Request handlers, authentication against providers, proxies, frontends, generated
  clients, statistics: I/O without a protocol of their own.

What would come next: proofs about `MigrationSaga`; the reconciler's passes
with the storage rows, composed with `MigrationSaga`; bookings as functions against
reference definitions; the engine.
