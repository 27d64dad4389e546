------------------------------- MODULE Governor -------------------------------
(***************************************************************************)
(* The admission of storage jobs by the governed rq workers: the Redis     *)
(* sets of job ids that hold a slot (governor:heavy_running and, per       *)
(* category, governor:running), the owner tags of the reservations, the    *)
(* prune of leaked slots, and the lanes registered in rq:queues.           *)
(*                                                                         *)
(* A Redis call of a worker or of an enqueue is a step, but that the reads *)
(* by which a slot is judged are one. A live worker's heartbeat may come   *)
(* too late for its key. The order of the jobs on a lane and the weighted  *)
(* rotation of the lanes are left out: a worker may pop any job of a lane  *)
(* that it serves. The caps do not change, jobs that wait for other jobs   *)
(* are not enqueued, and the floor worker, which neither reserves nor      *)
(* defers, has no part in the slots. A failed read of a count or of the    *)
(* ids of a set only skips a prune, and is left out.                       *)
(***************************************************************************)
EXTENDS Integers, FiniteSets

CONSTANTS Workers,    \* worker names, one per process start
          Jobs,
          None,
          Lanes,      \* fair lanes: per-category ones and flat catch-alls
          Flat,       \* the catch-alls, which the workers list themselves
          Lane,       \* Lane[j]: the lane that j is queued on
          Keys,       \* the slot sets: one for heavy jobs, one per category
          KeysOf,     \* KeysOf[l]: the sets in which a job of l takes a slot
          Cap,        \* Cap[k]: max_heavy, or the in-flight cap of a category
          Deferrable, \* lanes hidden under pressure or at the heavy cap
          HeavyKey,   \* HEAVY_RUNNING_KEY
          MaxRetries, \* bound: re-queues of jobs that failed
          MaxFaults   \* bound: crashes, late heartbeats and failed Redis calls

ASSUME GovernorAssumption ==
  /\ None \notin Workers \union Jobs \union Keys
  /\ Lane \in [Jobs -> Lanes]
  /\ KeysOf \in [Lanes -> SUBSET Keys]
  /\ Cap \in [Keys -> Nat]
  /\ Deferrable \subseteq Lanes /\ Flat \subseteq Lanes
  /\ HeavyKey \in Keys
  /\ IsFiniteSet(Jobs)
  /\ MaxRetries \in Nat /\ MaxFaults \in Nat

VARIABLES
  \* Redis
  queue,     \* job ids on the lists of their lanes
  lanes,     \* the lanes in rq:queues
  removed,   \* lanes that the idle-lane collector has unregistered
  status,    \* rq status of each job
  held,      \* held[k]: the ids in the slot set k
  owner,     \* governor:reserved_by
  beating,   \* workers whose rq:worker key exists
  \* the workers
  born,      \* workers that are past their constructor
  pc,        \* where each worker is in its loop
  job,       \* the job it has popped
  slot,      \* the reservation of that job was made (not failed open)
  defer,     \* _defer_background of this poll
  checked,   \* slot sets pruned in this poll
  served,    \* the lanes of this poll
  key,       \* the set being pruned
  members,   \* its ids still to be looked at
  target,    \* the id that was judged
  \* history and bounds
  retried,   \* jobs that were queued again after they had started
  misjudged, \* jobs judged stale because their status was unreadable, or while
             \* the worker that had reserved for them lived
  unlisted,  \* lanes that were lost: their registration after a push back
             \* failed, or a starting worker took them amid an enqueue
  retries, faults

redisVars == <<queue, lanes, removed, status, held, owner, beating>>
pollVars  == <<defer, checked, served>>
pruneVars == <<key, members, target>>
histVars  == <<retried, misjudged, unlisted, retries, faults>>
vars == <<redisVars, born, pc, job, slot, pollVars, pruneVars, histVars>>

Live == {"queued", "started", "scheduled"}

\* A worker between the pop of a job and the end of its release.
Working == {"admit", "tag", "push", "register", "execute", "busy", "free",
            "freeheavy", "untag"}
Places == Working \union {"boot", "poll", "order", "pop", "judge", "drop", "droptag",
                          "dead"}

TypeOK ==
  /\ queue \subseteq Jobs /\ lanes \subseteq Lanes /\ removed \subseteq Lanes
  /\ status \in [Jobs -> Live \union {"new", "coming", "finished", "failed"}]
  /\ held \in [Keys -> SUBSET Jobs]
  /\ owner \in [Jobs -> Workers \union {None}]
  /\ beating \subseteq born /\ born \subseteq Workers
  /\ pc \in [Workers -> Places]
  /\ job \in [Workers -> Jobs \union {None}]
  /\ \A w \in Workers : job[w] # None <=> pc[w] \in Working
  /\ slot \in [Workers -> BOOLEAN] /\ defer \in [Workers -> BOOLEAN]
  /\ checked \in [Workers -> SUBSET Keys]
  /\ served \in [Workers -> SUBSET Lanes]
  /\ key \in [Workers -> Keys \union {None}]
  /\ members \in [Workers -> SUBSET Jobs]
  /\ target \in [Workers -> Jobs \union {None}]
  /\ retried \subseteq Jobs /\ misjudged \subseteq Jobs
  /\ unlisted \subseteq Lanes
  /\ retries \in 0..MaxRetries /\ faults \in 0..MaxFaults

Init ==
  /\ queue = {} /\ lanes = {} /\ removed = {}
  /\ status = [j \in Jobs |-> "new"]
  /\ held = [k \in Keys |-> {}] /\ owner = [j \in Jobs |-> None]
  /\ beating = {} /\ born = {}
  /\ pc = [w \in Workers |-> "boot"]
  /\ job = [w \in Workers |-> None] /\ slot = [w \in Workers |-> FALSE]
  /\ defer = [w \in Workers |-> FALSE] /\ checked = [w \in Workers |-> {}]
  /\ served = [w \in Workers |-> {}]
  /\ key = [w \in Workers |-> None] /\ members = [w \in Workers |-> {}]
  /\ target = [w \in Workers |-> None]
  /\ retried = {} /\ misjudged = {} /\ unlisted = {}
  /\ retries = 0 /\ faults = 0

Goto(w, p) == pc' = [pc EXCEPT ![w] = p]
Fault == faults < MaxFaults /\ faults' = faults + 1
AtCap(k) == Cardinality(held[k]) >= Cap[k]
Categories == Keys \ {HeavyKey}
On(l, S) == \E j \in S : Lane[j] = l
In(S) == {j \in Jobs : status[j] \in S}

-----------------------------------------------------------------------------
(* The prune of a slot set.                                                  *)

Prune(w, k) ==
  /\ key' = [key EXCEPT ![w] = k]
  /\ members' = [members EXCEPT ![w] = held[k]]
  /\ target' = target
  /\ Goto(w, "judge")

\* Mutant: by the job's status alone.
StaleByStatus(j) == status[j] \notin Live

\* _reservation_owner_alive: a worker is gone when its key is, for whatever reason.
OwnerAlive(j) == owner[j] # None => owner[j] \in beating

Stale(j) == status[j] \notin Live \/ ~ OwnerAlive(j)

\* The worker of the tag lives all the same.
FalselyStale(j) ==
  status[j] \in Live /\ ~ OwnerAlive(j) /\ pc[owner[j]] # "dead"

Judge(w, j) ==
  /\ pc[w] = "judge" /\ j \in members[w]
  /\ members' = [members EXCEPT ![w] = @ \ {j}]
  /\ IF Stale(j) THEN Goto(w, "drop") /\ target' = [target EXCEPT ![w] = j]
     ELSE UNCHANGED <<pc, target>>
  /\ misjudged' = IF FalselyStale(j) THEN misjudged \union {j} ELSE misjudged
  /\ UNCHANGED <<redisVars, born, job, slot, pollVars, key, retried, unlisted,
                 retries, faults>>

\* The fetch of the job raises: the status counts as gone.
JudgeFails(w, j) ==
  /\ pc[w] = "judge" /\ j \in members[w] /\ Fault
  /\ members' = [members EXCEPT ![w] = @ \ {j}]
  /\ target' = [target EXCEPT ![w] = j] /\ Goto(w, "drop")
  /\ misjudged' = misjudged \union {j}
  /\ UNCHANGED <<redisVars, born, job, slot, pollVars, key, retried, unlisted,
                 retries>>

Drop(w) ==
  /\ pc[w] = "drop"
  /\ held' = [held EXCEPT ![key[w]] = @ \ {target[w]}]
  /\ Goto(w, "droptag")
  /\ UNCHANGED <<queue, lanes, removed, status, owner, beating, born, job, slot,
                 pollVars, pruneVars, histVars>>

DropTag(w) ==
  /\ pc[w] = "droptag"
  /\ owner' = [owner EXCEPT ![target[w]] = None]
  /\ target' = [target EXCEPT ![w] = None]
  /\ Goto(w, "judge")
  /\ UNCHANGED <<queue, lanes, removed, status, held, beating, born, job, slot,
                 pollVars, key, members, histVars>>

DropFails(w) ==
  /\ pc[w] \in {"drop", "droptag"} /\ Fault
  /\ target' = [target EXCEPT ![w] = None]
  /\ Goto(w, "judge")
  /\ UNCHANGED <<redisVars, born, job, slot, pollVars, key, members, retried,
                 misjudged, unlisted, retries>>

Pruned(w) ==
  /\ pc[w] = "judge" /\ members[w] = {}
  /\ checked' = [checked EXCEPT ![w] = @ \union {key[w]}]
  /\ Goto(w, IF w \notin born THEN "boot"
             ELSE IF key[w] = HeavyKey THEN "poll" ELSE "order")
  /\ key' = [key EXCEPT ![w] = None]
  /\ UNCHANGED <<redisVars, born, job, slot, defer, served, members, target,
                 histVars>>

-----------------------------------------------------------------------------
(* Lanes.                                                                    *)

\* _GC_LANE_LUA.
Drained(l) == ~ On(l, queue) /\ ~ On(l, In({"started", "scheduled"}))

\* The constructor prunes every set and then collects the drained lanes, one by
\* one; a collection that fails is passed over.
BootPrune(w, k) ==
  /\ pc[w] = "boot" /\ k \notin checked[w]
  /\ k # HeavyKey => HeavyKey \in checked[w]
  /\ Prune(w, k)
  /\ UNCHANGED <<redisVars, born, job, slot, pollVars, histVars>>

BootCollects(w, l) ==
  /\ pc[w] = "boot" /\ checked[w] = Keys
  /\ l \in lanes \ Flat /\ Drained(l)
  /\ lanes' = lanes \ {l}
  /\ unlisted' = IF On(l, In({"coming"})) THEN unlisted \union {l} ELSE unlisted
  /\ UNCHANGED <<queue, removed, status, held, owner, beating, born, pc, job, slot,
                 pollVars, pruneVars, retried, misjudged, retries, faults>>

\* register_birth
Boot(w) ==
  /\ pc[w] = "boot" /\ checked[w] = Keys
  /\ beating' = beating \union {w} /\ born' = born \union {w}
  /\ checked' = [checked EXCEPT ![w] = {}]
  /\ Goto(w, "poll")
  /\ UNCHANGED <<queue, lanes, removed, status, held, owner, job, slot, defer,
                 served, pruneVars, histVars>>

\* _REMOVE_IDLE_LANE_LUA; no worker lists a lane of a category among its queues,
\* and a flat one is served whether it is registered or not.
Idle(l) == Drained(l) /\ ~ On(l, In({"failed"}))

\* collect_empty_lanes, run by any worker between two polls: a lane that has
\* been idle for the grace period goes, and comes back if it has work after all.
RemoveIdleLane(l) ==
  /\ l \in lanes \ Flat /\ Idle(l)
  /\ lanes' = lanes \ {l} /\ removed' = removed \union {l}
  /\ UNCHANGED <<queue, status, held, owner, beating, born, pc, job, slot, pollVars,
                 pruneVars, histVars>>

RestoreLane(l) ==
  /\ l \in removed \ lanes /\ ~ Idle(l)
  /\ lanes' = lanes \union {l} /\ removed' = removed \ {l}
  /\ unlisted' = unlisted \ {l}
  /\ UNCHANGED <<queue, status, held, owner, beating, born, pc, job, slot, pollVars,
                 pruneVars, retried, misjudged, retries, faults>>

\* The collector watches a removed lane no longer once it is registered again, or
\* has been idle for a day, which no enqueue lasts.
ForgetLane(l) ==
  /\ l \in removed
  /\ \/ l \in lanes
     \/ Idle(l) /\ ~ On(l, In({"coming"}))
  /\ removed' = removed \ {l}
  /\ UNCHANGED <<queue, lanes, status, held, owner, beating, born, pc, job, slot,
                 pollVars, pruneVars, histVars>>

\* rq's enqueue registers the lane and pushes the job in two round trips.
Announce(j) ==
  /\ status[j] = "new"
  /\ status' = [status EXCEPT ![j] = "coming"]
  /\ lanes' = lanes \union {Lane[j]} /\ unlisted' = unlisted \ {Lane[j]}
  /\ UNCHANGED <<queue, removed, held, owner, beating, born, pc, job, slot,
                 pollVars, pruneVars, retried, misjudged, retries, faults>>

Enqueue(j) ==
  /\ status[j] = "coming"
  /\ status' = [status EXCEPT ![j] = "queued"]
  /\ queue' = queue \union {j}
  /\ UNCHANGED <<lanes, removed, held, owner, beating, born, pc, job, slot,
                 pollVars, pruneVars, histVars>>

-----------------------------------------------------------------------------
(* A poll: _defer_background, _fair_ordered_queues, dequeue_any.             *)

PollPrunes(w) ==
  /\ pc[w] = "poll" /\ AtCap(HeavyKey) /\ HeavyKey \notin checked[w]
  /\ Prune(w, HeavyKey)
  /\ UNCHANGED <<redisVars, born, job, slot, pollVars, histVars>>

\* Deferred by the pressure, which is read first, or at the cap after the prune.
Poll(w, pressure) ==
  /\ pc[w] = "poll"
  /\ IF pressure THEN HeavyKey \notin checked[w]
     ELSE ~ AtCap(HeavyKey) \/ HeavyKey \in checked[w]
  /\ defer' = [defer EXCEPT ![w] = pressure \/ AtCap(HeavyKey)]
  /\ Goto(w, "order")
  /\ UNCHANGED <<redisVars, born, job, slot, checked, served, pruneVars, histVars>>

\* The lanes that this poll may serve, if their categories are below their caps;
\* the jobs of a flat lane are of the category NULL_CATEGORY.
Shown(w, l) == l \in lanes \union Flat /\ ~ (l \in Deferrable /\ defer[w])

OrderPrunes(w, k) ==
  /\ pc[w] = "order" /\ k \in Categories \ checked[w] /\ AtCap(k)
  /\ \E l \in Lanes : Shown(w, l) /\ k \in KeysOf[l]
  /\ Prune(w, k)
  /\ UNCHANGED <<redisVars, born, job, slot, pollVars, histVars>>

Order(w) ==
  LET capped == {k \in Categories : AtCap(k)} IN
  /\ pc[w] = "order"
  /\ \A l \in Lanes : Shown(w, l) => KeysOf[l] \intersect capped \subseteq checked[w]
  /\ served' = [served EXCEPT
                  ![w] = {l \in Lanes : Shown(w, l) /\ KeysOf[l] \intersect capped = {}}]
  /\ defer' = [defer EXCEPT ![w] = FALSE] /\ checked' = [checked EXCEPT ![w] = {}]
  /\ Goto(w, "pop")
  /\ UNCHANGED <<redisVars, born, job, slot, pruneVars, histVars>>

Pop(w, j) ==
  /\ pc[w] = "pop" /\ j \in queue /\ Lane[j] \in served[w]
  /\ queue' = queue \ {j}
  /\ job' = [job EXCEPT ![w] = j]
  /\ served' = [served EXCEPT ![w] = {}]
  /\ Goto(w, "admit")
  /\ UNCHANGED <<lanes, removed, status, held, owner, beating, born, slot, defer,
                 checked, pruneVars, histVars>>

\* Mutant: the job of the last poll is kept.
NextPollKeepsJob(w) ==
  /\ Goto(w, "poll")
  /\ served' = [served EXCEPT ![w] = {}]
  /\ UNCHANGED <<job, slot, defer, checked>>

NextPoll(w) ==
  /\ Goto(w, "poll")
  /\ job' = [job EXCEPT ![w] = None] /\ slot' = [slot EXCEPT ![w] = FALSE]
  /\ served' = [served EXCEPT ![w] = {}]
  /\ UNCHANGED <<defer, checked>>

\* DequeueTimeout, or no lane to serve at all.
PopTimeout(w) ==
  /\ pc[w] = "pop" /\ \A j \in queue : Lane[j] \notin served[w]
  /\ NextPoll(w)
  /\ UNCHANGED <<redisVars, born, pruneVars, histVars>>

-----------------------------------------------------------------------------
(* _admit                                                                    *)

\* Pressure has risen since the poll.
Deny(w) ==
  /\ pc[w] = "admit" /\ Lane[job[w]] \in Deferrable
  /\ Goto(w, "push")
  /\ UNCHANGED <<redisVars, born, job, slot, pollVars, pruneVars, histVars>>

\* Mutant: off by one.
AdmissibleAtCap(j) == \A k \in KeysOf[Lane[j]] : Cardinality(held[k]) <= Cap[k]

\* _FAIR_RESERVE_LUA: both sets or neither.
Admissible(j) == \A k \in KeysOf[Lane[j]] : ~ AtCap(k)

Reserved(j) ==
  held' = [k \in Keys |-> IF k \in KeysOf[Lane[j]] THEN held[k] \union {j} ELSE held[k]]

Reserve(w) ==
  LET j == job[w] IN
  /\ pc[w] = "admit"
  /\ \/ /\ Admissible(j) /\ Reserved(j)
        /\ slot' = [slot EXCEPT ![w] = TRUE] /\ Goto(w, "tag")
     \/ /\ ~ Admissible(j) /\ held' = held
        /\ slot' = slot /\ Goto(w, "push")
  /\ UNCHANGED <<queue, lanes, removed, status, owner, beating, born, job, pollVars,
                 pruneVars, histVars>>

\* The call fails, before or after it had its effect: the job is admitted.
ReserveFails(w) ==
  LET j == job[w] IN
  /\ pc[w] = "admit" /\ Fault
  /\ \/ Admissible(j) /\ Reserved(j) /\ slot' = [slot EXCEPT ![w] = TRUE]
     \/ held' = held /\ slot' = slot
  /\ Goto(w, "execute")
  /\ UNCHANGED <<queue, lanes, removed, status, owner, beating, born, job, pollVars,
                 pruneVars, retried, misjudged, unlisted, retries>>

Tag(w) ==
  /\ pc[w] = "tag"
  /\ owner' = [owner EXCEPT ![job[w]] = w]
  /\ Goto(w, "execute")
  /\ UNCHANGED <<queue, lanes, removed, status, held, beating, born, job, slot,
                 pollVars, pruneVars, histVars>>

TagFails(w) ==
  /\ pc[w] = "tag" /\ Fault
  /\ Goto(w, "execute")
  /\ UNCHANGED <<redisVars, born, job, slot, pollVars, pruneVars, retried,
                 misjudged, unlisted, retries>>

\* The id is pushed first, so that the collectors see it again.
PushBack(w) ==
  /\ pc[w] = "push"
  /\ queue' = queue \union {job[w]}
  /\ Goto(w, "register")
  /\ UNCHANGED <<lanes, removed, status, held, owner, beating, born, job, slot,
                 pollVars, pruneVars, histVars>>

\* Mutant: the bare LPUSH of rq's push_job_id.
RegisterNothing(w) ==
  /\ pc[w] = "register"
  /\ NextPoll(w)
  /\ UNCHANGED <<redisVars, born, pruneVars, histVars>>

Register(w) ==
  /\ pc[w] = "register"
  /\ lanes' = lanes \union {Lane[job[w]]}
  /\ unlisted' = unlisted \ {Lane[job[w]]}
  /\ NextPoll(w)
  /\ UNCHANGED <<queue, removed, status, held, owner, beating, born, pruneVars,
                 retried, misjudged, retries, faults>>

RegisterFails(w) ==
  /\ pc[w] = "register" /\ Fault
  /\ unlisted' = unlisted \union {Lane[job[w]]}
  /\ NextPoll(w)
  /\ UNCHANGED <<redisVars, born, pruneVars, retried, misjudged, retries>>

-----------------------------------------------------------------------------
(* execute_job, and what rq does with a job that failed.                     *)

Execute(w) ==
  /\ pc[w] = "execute"
  /\ status' = [status EXCEPT ![job[w]] = "started"]
  /\ Goto(w, "busy")
  /\ UNCHANGED <<queue, lanes, removed, held, owner, beating, born, job, slot,
                 pollVars, pruneVars, histVars>>

\* A failed job with a retry left is scheduled; otherwise it is terminal.
Ended(j) ==
  \/ /\ status' = [status EXCEPT ![j] = "finished"]
     /\ UNCHANGED <<retried, retries>>
  \/ /\ retries = MaxRetries
     /\ status' = [status EXCEPT ![j] = "failed"]
     /\ UNCHANGED <<retried, retries>>
  \/ /\ retries < MaxRetries /\ retries' = retries + 1
     /\ status' = [status EXCEPT ![j] = "scheduled"]
     /\ retried' = retried \union {j}

Done(w) ==
  /\ pc[w] = "busy" /\ Ended(job[w])
  /\ Goto(w, "free")
  /\ UNCHANGED <<queue, lanes, removed, held, owner, beating, born, job, slot,
                 pollVars, pruneVars, misjudged, unlisted, faults>>

Without(j, S) == [k \in Keys |-> IF k \in S THEN held[k] \ {j} ELSE held[k]]

\* _release_fair: the category's slot, the heavy slot, the tag.
FreeCategory(w) ==
  LET mine == KeysOf[Lane[job[w]]] IN
  /\ pc[w] = "free"
  /\ held' = Without(job[w], mine \intersect Categories)
  /\ Goto(w, IF HeavyKey \in mine THEN "freeheavy" ELSE "untag")
  /\ UNCHANGED <<queue, lanes, removed, status, owner, beating, born, job, slot,
                 pollVars, pruneVars, histVars>>

FreeHeavy(w) ==
  /\ pc[w] = "freeheavy"
  /\ held' = Without(job[w], {HeavyKey})
  /\ Goto(w, "untag")
  /\ UNCHANGED <<queue, lanes, removed, status, owner, beating, born, job, slot,
                 pollVars, pruneVars, histVars>>

Untag(w) ==
  /\ pc[w] = "untag"
  /\ owner' = [owner EXCEPT ![job[w]] = None]
  /\ NextPoll(w)
  /\ UNCHANGED <<queue, lanes, removed, status, held, beating, born, pruneVars,
                 histVars>>

\* A failed release of the category's slot goes on; one of the heavy slot skips
\* the tag.
FreeFails(w) ==
  /\ Fault
  /\ \/ /\ pc[w] = "free"
        /\ Goto(w, IF HeavyKey \in KeysOf[Lane[job[w]]] THEN "freeheavy" ELSE "untag")
        /\ UNCHANGED <<job, slot, pollVars>>
     \/ pc[w] \in {"freeheavy", "untag"} /\ NextPoll(w)
  /\ UNCHANGED <<redisVars, born, pruneVars, retried, misjudged, unlisted, retries>>

\* The interval of a retry is longer than a release takes. The lane is registered
\* first here too, but a scheduled job keeps the collectors off it.
Due(j) ==
  /\ status[j] = "scheduled" /\ \A w \in Workers : job[w] # j
  /\ status' = [status EXCEPT ![j] = "queued"]
  /\ queue' = queue \union {j} /\ lanes' = lanes \union {Lane[j]}
  /\ unlisted' = unlisted \ {Lane[j]}
  /\ UNCHANGED <<removed, held, owner, beating, born, pc, job, slot, pollVars,
                 pruneVars, retried, misjudged, retries, faults>>

\* clean_registries finds a started job that no worker keeps alive.
Rescue(j) ==
  /\ status[j] = "started" /\ \A w \in Workers : job[w] # j
  /\ \/ /\ retries = MaxRetries /\ status' = [status EXCEPT ![j] = "failed"]
        /\ UNCHANGED <<retried, retries>>
     \/ /\ retries < MaxRetries /\ retries' = retries + 1
        /\ status' = [status EXCEPT ![j] = "scheduled"]
        /\ retried' = retried \union {j}
  /\ UNCHANGED <<queue, lanes, removed, held, owner, beating, born, pc, job, slot,
                 pollVars, pruneVars, misjudged, unlisted, faults>>

\* SIGKILL: what the worker had popped is in no list.
Crash(w) ==
  /\ pc[w] # "dead" /\ Fault
  /\ Goto(w, "dead")
  /\ unlisted' = IF pc[w] = "register" THEN unlisted \union {Lane[job[w]]}
                 ELSE unlisted
  /\ job' = [job EXCEPT ![w] = None] /\ slot' = [slot EXCEPT ![w] = FALSE]
  /\ defer' = [defer EXCEPT ![w] = FALSE]
  /\ checked' = [checked EXCEPT ![w] = {}] /\ served' = [served EXCEPT ![w] = {}]
  /\ key' = [key EXCEPT ![w] = None] /\ members' = [members EXCEPT ![w] = {}]
  /\ target' = [target EXCEPT ![w] = None]
  /\ UNCHANGED <<redisVars, born, retried, misjudged, retries>>

Expire(w) ==
  /\ w \in beating
  /\ IF pc[w] = "dead" THEN faults' = faults ELSE Fault
  /\ beating' = beating \ {w}
  /\ UNCHANGED <<queue, lanes, removed, status, held, owner, born, pc, job, slot,
                 pollVars, pruneVars, retried, misjudged, unlisted, retries>>

\* A heartbeat makes the key anew.
Heartbeat(w) ==
  /\ pc[w] # "dead" /\ w \in born \ beating
  /\ beating' = beating \union {w}
  /\ UNCHANGED <<queue, lanes, removed, status, held, owner, born, pc, job, slot,
                 pollVars, pruneVars, histVars>>

-----------------------------------------------------------------------------
Step(w) ==
  \/ \E k \in Keys : BootPrune(w, k) \/ OrderPrunes(w, k)
  \/ \E l \in Lanes : BootCollects(w, l)
  \/ Boot(w) \/ PollPrunes(w) \/ Poll(w, FALSE) \/ Order(w) \/ PopTimeout(w)
  \/ \E j \in Jobs : Judge(w, j) \/ Pop(w, j)
  \/ Drop(w) \/ DropTag(w) \/ Pruned(w)
  \/ Reserve(w) \/ Tag(w) \/ PushBack(w) \/ Register(w)
  \/ Execute(w) \/ Done(w) \/ FreeCategory(w) \/ FreeHeavy(w) \/ Untag(w)

Faulty(w) ==
  \/ \E j \in Jobs : JudgeFails(w, j)
  \/ DropFails(w) \/ ReserveFails(w) \/ TagFails(w) \/ RegisterFails(w)
  \/ FreeFails(w) \/ Crash(w)

Next ==
  \/ \E w \in Workers : Step(w) \/ Poll(w, TRUE) \/ Deny(w) \/ Faulty(w)
                        \/ Expire(w) \/ Heartbeat(w)
  \/ \E l \in Lanes : RemoveIdleLane(l) \/ RestoreLane(l) \/ ForgetLane(l)
  \/ \E j \in Jobs : Announce(j) \/ Enqueue(j) \/ Due(j) \/ Rescue(j)

Spec == Init /\ [][Next]_vars

\* A live worker goes round its loop, beats, and its jobs end; a dead one's key
\* expires; and the pressure is not high at every poll for ever.
Fairness ==
  \A w \in Workers :
    /\ WF_vars(Step(w)) /\ WF_vars(Heartbeat(w))
    /\ WF_vars(pc[w] = "dead" /\ Expire(w))
    /\ SF_vars(PollPrunes(w) \/ Poll(w, FALSE))

FairSpec == Spec /\ Fairness

-----------------------------------------------------------------------------
(* Properties.                                                               *)

\* The jobs that run, or are about to, on a slot of the set k.
Running(k) ==
  {j \in Jobs : /\ k \in KeysOf[Lane[j]]
                /\ \E w \in Workers : /\ job[w] = j /\ slot[w]
                                      /\ pc[w] \in {"tag", "execute", "busy"}}

\* No more jobs run on reservations of a slot set than its cap, whatever is
\* pruned and whoever dies (_reserve_fair, _prune_stale_members). Excepted are
\* jobs that were queued a second time, whose old tag may still name a dead
\* worker; jobs whose status could not be read by a prune; and jobs of a live
\* worker that was taken for dead because its rq:worker key had run out before
\* the next heartbeat made it anew: their slots are freed while they run, and
\* the cap is passed.
CapKept ==
  \A k \in Keys : Cardinality(Running(k) \ (retried \union misjudged)) <= Cap[k]

\* The workers find l, or the collector that removed it still watches it.
Findable(l) == l \in lanes \union Flat \union removed

\* A job on a lane can be found, whatever the two lane collectors do between the
\* two calls of an enqueue or of a push back: its lane is registered, or the
\* idle-lane collector is to restore it, or the worker that pushed the job back
\* is about to register it. Excepted is a lane of which that registration failed,
\* or that a starting worker collected between the two calls of an enqueue: that
\* collector keeps no list of what it removes, and nobody brings the lane back
\* before the next enqueue on it (_gc_drained_category_lanes).
LaneFound ==
  \A j \in queue : \/ Findable(Lane[j]) \/ Lane[j] \in unlisted
                   \/ \E w \in Workers : pc[w] = "register" /\ job[w] = j

\* No worker answers for the slot that j has in k.
Orphaned(j, k) == j \in held[k] /\ \A w \in Workers : job[w] # j

\* A slot tagged by a worker that died does not keep the jobs that wait for the
\* set out for ever, as long as a worker lives: the prune at the cap gets it
\* (_heavy_at_cap, _category_at_cap, _reservation_owner_alive).
NotWedged ==
  \A j \in Jobs, k \in Keys :
    []<>~ (/\ Orphaned(j, k) /\ AtCap(k)
           /\ owner[j] # None /\ pc[owner[j]] = "dead"
           /\ \E i \in queue : k \in KeysOf[Lane[i]]
           /\ \E w \in Workers : pc[w] # "dead")
=============================================================================
