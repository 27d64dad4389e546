--------------------------- MODULE GovernorProofs ---------------------------
(***************************************************************************)
(* The governor does not over-admit on its reservations, as long as no     *)
(* worker is taken for dead that lives, and a queued job is on a lane that *)
(* is found, unless a starting worker collected it amid the enqueue, for   *)
(* any number of workers, jobs, lanes, slot sets, retries and faults.      *)
(*                                                                         *)
(* That reservations respect the cap is the work of one script. What a     *)
(* proof has to show is that the prune, which judges a slot from reads and *)
(* frees it two calls later, does not free one that is in use: whatever it *)
(* finds stale is over, and stays so unless it is queued again (Judged).   *)
(***************************************************************************)
EXTENDS Governor, FiniteSetTheorems, TLAPS

USE DEF redisVars, pollVars, pruneVars, histVars

Ending == {"free", "freeheavy", "untag"}

\* A worker that prunes knows the set.
Pruning == \A w \in Workers :
  pc[w] \in {"judge", "drop", "droptag"} => key[w] \in Keys

Typed == TypeOK /\ Pruning

\* A job has one worker, but for one that has just pushed it back.
Sole == \A w, v \in Workers :
  /\ job[w] # None /\ job[w] = job[v]
  /\ pc[w] # "register" /\ pc[v] # "register"
  => w = v

\* A job on a list has no worker, and none has started it.
Fresh ==
  /\ \A j \in queue : status[j] = "queued"
  /\ \A w \in Workers :
       /\ job[w] \in queue => pc[w] = "register"
       /\ pc[w] \in {"admit", "tag", "push", "execute"} =>
            status[job[w]] = "queued"

\* A job that has not been enqueued is in no set and at no worker.
Unseen ==
  \A j \in In({"new", "coming"}) :
    /\ owner[j] = None /\ \A k \in Keys : j \notin held[k]
    /\ \A w \in Workers : job[w] # j /\ j \notin members[w] /\ target[w] # j

\* Only a job that is counted as retried waits for its retry.
Again == \A j \in Jobs : status[j] = "scheduled" => j \in retried

\* The mark of a reservation is gone when the worker polls again.
Slots == \A w \in Workers :
  slot[w] => pc[w] \in {"tag", "execute", "busy"} \union Ending

Employed == Sole /\ Fresh /\ Again /\ Slots

\* The job will not run (again), unless it is retried.
Over(j) ==
  /\ j \notin queue
  /\ \A w \in Workers : job[w] = j => pc[w] \in Ending \union {"register"}

Owned(j) ==
  job[owner[j]] = j /\ pc[owner[j]] \in {"execute", "busy"} \union Ending

\* What a prune takes for stale is over: a job that ended, one whose tag names
\* a worker that has it no more, one that was judged before.
Judged ==
  \A j \in Jobs \ (retried \union misjudged) :
    /\ status[j] \in {"finished", "failed"} => Over(j)
    /\ owner[j] # None => Owned(j) \/ Over(j)
    /\ \A w \in Workers : target[w] = j => Over(j)

\* A job that runs on a reservation is in every set it was reserved in.
Backed ==
  \A w \in Workers :
    /\ slot[w] /\ pc[w] \in {"tag", "execute", "busy"}
    /\ job[w] \notin retried \union misjudged
    => \A k \in KeysOf[Lane[job[w]]] : job[w] \in held[k]

\* The script of a reservation is the only one that fills a set.
Capped == \A k \in Keys : Cardinality(held[k]) <= Cap[k]

\* The lane of an enqueue under way can be found, but for one that was collected.
Announced ==
  \A j \in In({"coming"}) : Findable(Lane[j]) \/ Lane[j] \in unlisted

IInv == Typed /\ Employed /\ Unseen /\ Judged /\ Backed /\ Capped /\ LaneFound
        /\ Announced

-----------------------------------------------------------------------------
(* The actions, in groups.                                                   *)

Prunes(w) ==
  \/ \E k \in Keys : BootPrune(w, k) \/ OrderPrunes(w, k)
  \/ \E j \in Jobs : Judge(w, j) \/ JudgeFails(w, j)
  \/ PollPrunes(w) \/ Drop(w) \/ DropTag(w) \/ DropFails(w) \/ Pruned(w)

Polls(w) ==
  \/ \E p \in BOOLEAN : Poll(w, p)
  \/ \E j \in Jobs : Pop(w, j)
  \/ \E l \in Lanes : BootCollects(w, l)
  \/ Boot(w) \/ Order(w) \/ PopTimeout(w) \/ Expire(w) \/ Heartbeat(w)

Admits(w) ==
  \/ Deny(w) \/ Reserve(w) \/ ReserveFails(w) \/ Tag(w) \/ TagFails(w)
  \/ PushBack(w) \/ Register(w) \/ RegisterFails(w)

Runs(w) ==
  \/ Execute(w) \/ Done(w) \/ FreeCategory(w) \/ FreeHeavy(w) \/ Untag(w)
  \/ FreeFails(w) \/ Crash(w)

Collects(l) == RemoveIdleLane(l) \/ RestoreLane(l) \/ ForgetLane(l)
Requeues(j) == Announce(j) \/ Enqueue(j) \/ Due(j) \/ Rescue(j)

\* They are all.
LEMMA Actions ==
  ASSUME Next
  PROVE  \/ \E w \in Workers : Prunes(w) \/ Polls(w) \/ Admits(w) \/ Runs(w)
         \/ \E l \in Lanes : Collects(l)
         \/ \E j \in Jobs : Requeues(j)
BY Zenon DEF Next, Step, Faulty, Prunes, Polls, Admits, Runs, Collects,
   Requeues

-----------------------------------------------------------------------------
(* Types.                                                                    *)

\* Types in a prune.
LEMMA PrunesTyped ==
  ASSUME Typed, NEW w \in Workers, Prunes(w)
  PROVE  Typed'
<1>1. ASSUME NEW k \in Keys, BootPrune(w, k) PROVE Typed'
  BY <1>1, GovernorAssumption, Zenon DEF BootPrune, Prune, Goto, Typed,
     Pruning, TypeOK, Working, Places, Live
<1>2. ASSUME NEW k \in Keys, OrderPrunes(w, k) PROVE Typed'
  BY <1>2, GovernorAssumption, Zenon DEF OrderPrunes, Prune, Goto, Typed,
     Pruning, TypeOK, Working, Places, Live
<1>3. CASE PollPrunes(w)
  BY <1>3, GovernorAssumption, Zenon DEF PollPrunes, Prune, Goto, Typed,
     Pruning, TypeOK, Working, Places, Live
<1>4. ASSUME NEW j \in Jobs, Judge(w, j) PROVE Typed'
  <2>1. members' \in [Workers -> SUBSET Jobs]
    BY <1>4, Zenon DEF Judge, Typed, TypeOK
  <2>2. CASE Stale(j)
    BY <1>4, <2>1, <2>2 DEF Judge, Goto, Typed, Pruning, TypeOK, Working,
       Places
  <2>3. CASE ~ Stale(j)
    BY <1>4, <2>1, <2>3, Zenon DEF Judge, Goto, Typed, Pruning, TypeOK,
       Working, Places
  <2> QED
    BY <2>2, <2>3, Zenon
<1>5. ASSUME NEW j \in Jobs, JudgeFails(w, j) PROVE Typed'
  BY <1>5, GovernorAssumption DEF JudgeFails, Fault, Goto, Typed, Pruning,
     TypeOK, Working, Places, Live
<1>6. CASE Drop(w)
  BY <1>6, GovernorAssumption, Zenon DEF Drop, Goto, Typed, Pruning, TypeOK,
     Working, Places, Live
<1>7. CASE DropTag(w)
  BY <1>7, GovernorAssumption, Zenon DEF DropTag, Goto, Typed, Pruning, TypeOK,
     Working, Places, Live
<1>8. CASE DropFails(w)
  BY <1>8, GovernorAssumption DEF DropFails, Fault, Goto, Typed, Pruning,
     TypeOK, Working, Places, Live
<1>9. CASE Pruned(w)
  <2>1. PICK p \in {"boot", "poll", "order"} : pc' = [pc EXCEPT ![w] = p]
    BY <1>9, Zenon DEF Pruned, Goto
  <2>2. /\ pc' \in [Workers -> Places]
        /\ \A v \in Workers : job'[v] # None <=> pc'[v] \in Working
    BY <1>9, <2>1, Zenon DEF Pruned, Typed, TypeOK, Working, Places
  <2>3. key[w] \in Keys
    BY <1>9, Zenon DEF Pruned, Typed, Pruning
  <2>4. checked' \in [Workers -> SUBSET Keys]
    BY <1>9, <2>3, Zenon DEF Pruned, Typed, TypeOK
  <2>5. key' \in [Workers -> Keys \union {None}]
    BY <1>9, Zenon DEF Pruned, Typed, TypeOK
  <2>6. Pruning'
    BY <1>9, <2>1, Zenon DEF Pruned, Typed, Pruning, TypeOK
  <2> QED
    BY <1>9, <2>2, <2>4, <2>5, <2>6, Zenon DEF Pruned, Typed, TypeOK
<1> QED
  BY <1>1, <1>2, <1>3, <1>4, <1>5, <1>6, <1>7, <1>8, <1>9, Zenon DEF Prunes

\* Types in a poll.
LEMMA PollsTyped ==
  ASSUME Typed, NEW w \in Workers, Polls(w)
  PROVE  Typed'
<1>1. CASE Boot(w)
  BY <1>1, GovernorAssumption, Zenon DEF Boot, Goto, Typed, Pruning, TypeOK,
     Working, Places, Live
<1>2. ASSUME NEW p \in BOOLEAN, Poll(w, p) PROVE Typed'
  BY <1>2, GovernorAssumption, Zenon DEF Poll, Goto, Typed, Pruning, TypeOK,
     Working, Places, Live
<1>3. CASE Order(w)
  BY <1>3, GovernorAssumption, Zenon DEF Order, Goto, Typed, Pruning, TypeOK,
     Working, Places, Live
<1>4. CASE PopTimeout(w)
  BY <1>4, GovernorAssumption, Zenon DEF PopTimeout, NextPoll, Goto, Typed,
     Pruning, TypeOK, Working, Places, Live
<1>5. ASSUME NEW j \in Jobs, Pop(w, j) PROVE Typed'
  BY <1>5, GovernorAssumption, Zenon DEF Pop, Goto, Typed, Pruning, TypeOK,
     Working, Places, Live
<1>6. CASE Expire(w)
  <2>1. faults' \in 0..MaxFaults
    BY <1>6, GovernorAssumption DEF Expire, Fault, Typed, TypeOK
  <2> QED
    BY <1>6, <2>1, Zenon DEF Expire, Typed, Pruning, TypeOK
<1>7. CASE Heartbeat(w)
  BY <1>7, Zenon DEF Heartbeat, Typed, Pruning, TypeOK
<1>8. ASSUME NEW l \in Lanes, BootCollects(w, l) PROVE Typed'
  BY <1>8, Zenon DEF BootCollects, Typed, Pruning, TypeOK
<1> QED
  BY <1>1, <1>2, <1>3, <1>4, <1>5, <1>6, <1>7, <1>8, Zenon DEF Polls

\* Types in an admission.
LEMMA AdmitsTyped ==
  ASSUME Typed, NEW w \in Workers, Admits(w)
  PROVE  Typed'
<1>1. CASE Deny(w)
  BY <1>1, GovernorAssumption, Zenon DEF Deny, Goto, Typed, Pruning, TypeOK,
     Working, Places, Live
<1>2. CASE Reserve(w)
  <2>1. pc[w] = "admit" /\ job[w] \in Jobs
    BY <1>2, Zenon DEF Reserve, Typed, TypeOK, Working
  <2>2. held' \in [Keys -> SUBSET Jobs]
    BY <1>2, <2>1 DEF Reserve, Reserved, Typed, TypeOK
  <2>3. slot' \in [Workers -> BOOLEAN]
    BY <1>2, Zenon DEF Reserve, Typed, TypeOK
  <2>4. PICK p \in {"tag", "push"} : pc' = [pc EXCEPT ![w] = p]
    BY <1>2, Zenon DEF Reserve, Goto
  <2> QED
    BY <1>2, <2>1, <2>2, <2>3, <2>4, Zenon DEF Reserve, Typed, Pruning, TypeOK,
       Working, Places
<1>3. CASE ReserveFails(w)
  <2>1. pc[w] = "admit" /\ job[w] \in Jobs
    BY <1>3, Zenon DEF ReserveFails, Typed, TypeOK, Working
  <2>2. held' \in [Keys -> SUBSET Jobs]
    BY <1>3, <2>1 DEF ReserveFails, Reserved, Typed, TypeOK
  <2>3. slot' \in [Workers -> BOOLEAN]
    BY <1>3, Zenon DEF ReserveFails, Typed, TypeOK
  <2>4. faults' \in 0..MaxFaults
    BY <1>3, GovernorAssumption DEF ReserveFails, Fault, Typed, TypeOK
  <2> QED
    BY <1>3, <2>1, <2>2, <2>3, <2>4, Zenon
    DEF ReserveFails, Goto, Typed, Pruning, TypeOK, Working, Places
<1>4. CASE Tag(w)
  BY <1>4, GovernorAssumption, Zenon DEF Tag, Goto, Typed, Pruning, TypeOK,
     Working, Places, Live
<1>5. CASE TagFails(w)
  BY <1>5, GovernorAssumption DEF TagFails, Fault, Goto, Typed, Pruning,
     TypeOK, Working, Places, Live
<1>6. CASE PushBack(w)
  BY <1>6, GovernorAssumption, Zenon DEF PushBack, Goto, Typed, Pruning,
     TypeOK, Working, Places, Live
<1>7. CASE Register(w)
  BY <1>7, GovernorAssumption DEF Register, NextPoll, Goto, Typed, Pruning,
     TypeOK, Working, Places, Live
<1>8. CASE RegisterFails(w)
  BY <1>8, GovernorAssumption DEF RegisterFails, NextPoll, Fault, Goto, Typed,
     Pruning, TypeOK, Working, Places, Live
<1> QED
  BY <1>1, <1>2, <1>3, <1>4, <1>5, <1>6, <1>7, <1>8, Zenon DEF Admits

\* Types in a run and its release.
LEMMA RunsTyped ==
  ASSUME Typed, NEW w \in Workers, Runs(w)
  PROVE  Typed'
<1>1. CASE Execute(w)
  BY <1>1, GovernorAssumption, Zenon DEF Execute, Goto, Typed, Pruning, TypeOK,
     Working, Places, Live
<1>2. CASE Done(w)
  BY <1>2, GovernorAssumption DEF Done, Ended, Goto, Typed, Pruning, TypeOK,
     Working, Places, Live
<1>3. CASE FreeCategory(w)
  BY <1>3, GovernorAssumption, Zenon DEF FreeCategory, Without, Goto, Typed,
     Pruning, TypeOK, Working, Places, Live
<1>4. CASE FreeHeavy(w)
  BY <1>4, GovernorAssumption, Zenon DEF FreeHeavy, Without, Goto, Typed,
     Pruning, TypeOK, Working, Places, Live
<1>5. CASE Untag(w)
  BY <1>5, GovernorAssumption, Zenon DEF Untag, NextPoll, Goto, Typed, Pruning,
     TypeOK, Working, Places, Live
<1>6. CASE FreeFails(w)
  <2>1. faults' \in 0..MaxFaults
    BY <1>6, GovernorAssumption DEF FreeFails, Fault, Typed, TypeOK
  <2>2. CASE pc[w] = "free"
    <3>1. PICK p \in {"freeheavy", "untag"} : pc' = [pc EXCEPT ![w] = p]
      BY <1>6, <2>2, Zenon DEF FreeFails, Goto, NextPoll
    <3> QED
      BY <1>6, <2>1, <2>2, <3>1, Zenon
      DEF FreeFails, NextPoll, Typed, Pruning, TypeOK, Working, Places
  <2>3. CASE pc[w] \in {"freeheavy", "untag"} /\ NextPoll(w)
    BY <1>6, <2>1, <2>3, GovernorAssumption, Zenon
    DEF FreeFails, NextPoll, Goto, Typed, Pruning, TypeOK, Working, Places
  <2> QED
    BY <1>6, <2>2, <2>3, Zenon DEF FreeFails
<1>7. CASE Crash(w)
  BY <1>7, GovernorAssumption DEF Crash, Fault, Goto, Typed, Pruning, TypeOK,
     Working, Places, Live
<1> QED
  BY <1>1, <1>2, <1>3, <1>4, <1>5, <1>6, <1>7, Zenon DEF Runs

\* Types in the collection of a lane.
LEMMA CollectsTyped ==
  ASSUME Typed, NEW l \in Lanes, Collects(l)
  PROVE  Typed'
<1>1. CASE RemoveIdleLane(l)
  BY <1>1, GovernorAssumption, Zenon DEF RemoveIdleLane, Typed, Pruning,
     TypeOK, Working, Places, Live
<1>2. CASE RestoreLane(l)
  BY <1>2, GovernorAssumption, Zenon DEF RestoreLane, Typed, Pruning, TypeOK,
     Working, Places, Live
<1>3. CASE ForgetLane(l)
  BY <1>3, Zenon DEF ForgetLane, Typed, Pruning, TypeOK
<1> QED
  BY <1>1, <1>2, <1>3, Zenon DEF Collects

\* Types when rq queues a job, or queues it again.
LEMMA RequeuesTyped ==
  ASSUME Typed, NEW j \in Jobs, Requeues(j)
  PROVE  Typed'
<1>1. CASE Due(j)
  BY <1>1, GovernorAssumption DEF Due, Typed, Pruning, TypeOK, Working, Places,
     Live
<1>2. CASE Rescue(j)
  BY <1>2, GovernorAssumption DEF Rescue, Typed, Pruning, TypeOK, Working,
     Places, Live
<1>3. CASE Announce(j)
  BY <1>3, GovernorAssumption, Zenon DEF Announce, Typed, Pruning, TypeOK, Live
<1>4. CASE Enqueue(j)
  BY <1>4, GovernorAssumption, Zenon DEF Enqueue, Typed, Pruning, TypeOK, Live
<1> QED
  BY <1>1, <1>2, <1>3, <1>4, Zenon DEF Requeues

\* Every step keeps the types.
LEMMA TypeStep ==
  ASSUME Typed, [Next]_vars
  PROVE  Typed'
<1>1. CASE UNCHANGED vars
  BY <1>1, Zenon DEF vars, Typed, Pruning, TypeOK
<1> QED
  BY <1>1, Actions, PrunesTyped, PollsTyped, AdmitsTyped, RunsTyped,
     CollectsTyped, RequeuesTyped, Zenon

-----------------------------------------------------------------------------
(* What the rest of the proof uses of the types.                             *)

WorkerTypes ==
  /\ pc \in [Workers -> Places] /\ job \in [Workers -> Jobs \union {None}]
  /\ slot \in [Workers -> BOOLEAN] /\ target \in [Workers -> Jobs \union {None}]
  /\ \A w \in Workers : job[w] # None <=> pc[w] \in Working
  /\ None \notin Workers \union Jobs

RedisTypes ==
  /\ queue \subseteq Jobs /\ held \in [Keys -> SUBSET Jobs]
  /\ status \in [Jobs -> Live \union {"new", "coming", "finished", "failed"}]
  /\ owner \in [Jobs -> Workers \union {None}]

\* They follow from the types.
LEMMA Types ==
  ASSUME TypeOK
  PROVE  WorkerTypes /\ RedisTypes
BY GovernorAssumption, Zenon DEF TypeOK, WorkerTypes, RedisTypes

-----------------------------------------------------------------------------
(* Workers and their jobs.                                                   *)

\* A prune leaves the jobs to their workers.
LEMMA PrunesEmployed ==
  ASSUME WorkerTypes, RedisTypes, Employed, NEW w \in Workers, Prunes(w)
  PROVE  Employed'
<1>1. ASSUME NEW k \in Keys, BootPrune(w, k) PROVE Employed'
  BY <1>1, GovernorAssumption DEF BootPrune, Prune, Goto, Employed,
     Sole, Fresh, Again, Slots, Ending, WorkerTypes, RedisTypes, Working
<1>2. ASSUME NEW k \in Keys, OrderPrunes(w, k) PROVE Employed'
  BY <1>2, GovernorAssumption DEF OrderPrunes, Prune, Goto, Employed,
     Sole, Fresh, Again, Slots, Ending, WorkerTypes, RedisTypes, Working
<1>3. CASE PollPrunes(w)
  BY <1>3, GovernorAssumption DEF PollPrunes, Prune, Goto, Employed,
     Sole, Fresh, Again, Slots, Ending, WorkerTypes, RedisTypes, Working
<1>4. ASSUME NEW j \in Jobs, Judge(w, j) PROVE Employed'
  <2>1. CASE Stale(j)
    BY <1>4, <2>1 DEF Judge, Goto, Employed, Sole, Fresh, Again, Slots,
       Ending, WorkerTypes, RedisTypes, Working
  <2>2. CASE ~ Stale(j)
    BY <1>4, <2>2 DEF Judge, Goto, Employed, Sole, Fresh, Again, Slots,
       Ending, WorkerTypes, RedisTypes, Working
  <2> QED
    BY <2>1, <2>2, Zenon
<1>5. ASSUME NEW j \in Jobs, JudgeFails(w, j) PROVE Employed'
  BY <1>5, GovernorAssumption DEF JudgeFails, Fault, Goto, Employed,
     Sole, Fresh, Again, Slots, Ending, WorkerTypes, RedisTypes, Working
<1>6. CASE Drop(w)
  BY <1>6, GovernorAssumption DEF Drop, Goto, Employed, Sole, Fresh,
     Again, Slots, Ending, WorkerTypes, RedisTypes, Working
<1>7. CASE DropTag(w)
  BY <1>7, GovernorAssumption DEF DropTag, Goto, Employed, Sole, Fresh,
     Again, Slots, Ending, WorkerTypes, RedisTypes, Working
<1>8. CASE DropFails(w)
  BY <1>8, GovernorAssumption DEF DropFails, Fault, Goto, Employed,
     Sole, Fresh, Again, Slots, Ending, WorkerTypes, RedisTypes, Working
<1>9. CASE Pruned(w)
  BY <1>9, GovernorAssumption DEF Pruned, Goto, Employed, Sole, Fresh,
     Again, Slots, Ending, WorkerTypes, RedisTypes, Working
<1> QED
  BY <1>1, <1>2, <1>3, <1>4, <1>5, <1>6, <1>7, <1>8, <1>9, Zenon DEF Prunes

\* A pop takes a job that nobody has.
LEMMA PollsEmployed ==
  ASSUME WorkerTypes, RedisTypes, Employed, NEW w \in Workers, Polls(w)
  PROVE  Employed'
<1>1. CASE Boot(w)
  BY <1>1, GovernorAssumption DEF Boot, Goto, Employed, Sole, Fresh,
     Again, Slots, Ending, WorkerTypes, RedisTypes, Working
<1>2. ASSUME NEW p \in BOOLEAN, Poll(w, p) PROVE Employed'
  BY <1>2, GovernorAssumption DEF Poll, Goto, Employed, Sole, Fresh,
     Again, Slots, Ending, WorkerTypes, RedisTypes, Working
<1>3. CASE Order(w)
  BY <1>3, GovernorAssumption DEF Order, Goto, Employed, Sole, Fresh,
     Again, Slots, Ending, WorkerTypes, RedisTypes, Working
<1>4. CASE PopTimeout(w)
  BY <1>4, GovernorAssumption DEF PopTimeout, NextPoll, Goto, Employed,
     Sole, Fresh, Again, Slots, Ending, WorkerTypes, RedisTypes, Working
<1>5. ASSUME NEW j \in Jobs, Pop(w, j) PROVE Employed'
  BY <1>5, GovernorAssumption DEF Pop, Goto, Employed, Sole, Fresh,
     Again, Slots, Ending, WorkerTypes, RedisTypes, Working
<1>6. CASE Expire(w)
  BY <1>6, Zenon DEF Expire, Employed, Sole, Fresh, Again, Slots
<1>7. CASE Heartbeat(w)
  BY <1>7, Zenon DEF Heartbeat, Employed, Sole, Fresh, Again, Slots
<1>8. ASSUME NEW l \in Lanes, BootCollects(w, l) PROVE Employed'
  BY <1>8, Zenon DEF BootCollects, Employed, Sole, Fresh, Again, Slots
<1> QED
  BY <1>1, <1>2, <1>3, <1>4, <1>5, <1>6, <1>7, <1>8, Zenon DEF Polls

\* An admission keeps the job, or gives it back to its list.
LEMMA AdmitsEmployed ==
  ASSUME WorkerTypes, RedisTypes, Employed, NEW w \in Workers, Admits(w)
  PROVE  Employed'
<1>1. CASE Deny(w)
  BY <1>1, GovernorAssumption DEF Deny, Goto, Employed, Sole, Fresh,
     Again, Slots, Ending, WorkerTypes, RedisTypes, Working
<1>2. CASE Reserve(w)
  <2>1. CASE Admissible(job[w])
    BY <1>2, <2>1 DEF Reserve, Goto, Employed, Sole, Fresh, Again,
       Slots, Ending, WorkerTypes, RedisTypes, Working
  <2>2. CASE ~ Admissible(job[w])
    BY <1>2, <2>2 DEF Reserve, Goto, Employed, Sole, Fresh, Again,
       Slots, Ending, WorkerTypes, RedisTypes, Working
  <2> QED
    BY <2>1, <2>2, Zenon
<1>3. CASE ReserveFails(w)
  BY <1>3, GovernorAssumption DEF ReserveFails, Reserved, Fault, Goto,
     Employed, Sole, Fresh, Again, Slots, Ending, WorkerTypes,
     RedisTypes, Working
<1>4. CASE Tag(w)
  BY <1>4, GovernorAssumption DEF Tag, Goto, Employed, Sole, Fresh,
     Again, Slots, Ending, WorkerTypes, RedisTypes, Working
<1>5. CASE TagFails(w)
  BY <1>5, GovernorAssumption DEF TagFails, Fault, Goto, Employed, Sole,
     Fresh, Again, Slots, Ending, WorkerTypes, RedisTypes, Working
<1>6. CASE PushBack(w)
  BY <1>6, GovernorAssumption DEF PushBack, Goto, Employed, Sole, Fresh,
     Again, Slots, Ending, WorkerTypes, RedisTypes, Working
<1>7. CASE Register(w)
  BY <1>7, GovernorAssumption DEF Register, NextPoll, Goto, Employed,
     Sole, Fresh, Again, Slots, Ending, WorkerTypes, RedisTypes, Working
<1>8. CASE RegisterFails(w)
  BY <1>8, GovernorAssumption DEF RegisterFails, NextPoll, Fault, Goto,
     Employed, Sole, Fresh, Again, Slots, Ending, WorkerTypes,
     RedisTypes, Working
<1> QED
  BY <1>1, <1>2, <1>3, <1>4, <1>5, <1>6, <1>7, <1>8, Zenon DEF Admits

\* A run ends with the job at no worker.
LEMMA RunsEmployed ==
  ASSUME WorkerTypes, RedisTypes, Employed, NEW w \in Workers, Runs(w)
  PROVE  Employed'
<1>1. CASE Execute(w)
  BY <1>1, GovernorAssumption DEF Execute, Goto, Employed, Sole, Fresh,
     Again, Slots, Ending, WorkerTypes, RedisTypes, Working
<1>2. CASE Done(w)
  BY <1>2, GovernorAssumption DEF Done, Ended, Goto, Employed, Sole,
     Fresh, Again, Slots, Ending, WorkerTypes, RedisTypes, Working
<1>3. CASE FreeCategory(w)
  BY <1>3, GovernorAssumption DEF FreeCategory, Without, Goto, Employed,
     Sole, Fresh, Again, Slots, Ending, WorkerTypes, RedisTypes, Working
<1>4. CASE FreeHeavy(w)
  BY <1>4, GovernorAssumption DEF FreeHeavy, Without, Goto, Employed,
     Sole, Fresh, Again, Slots, Ending, WorkerTypes, RedisTypes, Working
<1>5. CASE Untag(w)
  BY <1>5, GovernorAssumption DEF Untag, NextPoll, Goto, Employed, Sole,
     Fresh, Again, Slots, Ending, WorkerTypes, RedisTypes, Working
<1>6. CASE FreeFails(w)
  <2>1. CASE pc[w] = "free"
    BY <1>6, <2>1 DEF FreeFails, NextPoll, Goto, Employed, Sole, Fresh,
       Again, Slots, Ending, WorkerTypes, RedisTypes, Working
  <2>2. CASE pc[w] \in {"freeheavy", "untag"} /\ NextPoll(w)
    BY <1>6, <2>2, GovernorAssumption DEF FreeFails, NextPoll, Goto, Employed, Sole, Fresh, Again, Slots, Ending, WorkerTypes, RedisTypes,
       Working
  <2> QED
    BY <1>6, <2>1, <2>2, Zenon DEF FreeFails
<1>7. CASE Crash(w)
  BY <1>7, GovernorAssumption DEF Crash, Fault, Goto, Employed, Sole,
     Fresh, Again, Slots, Ending, WorkerTypes, RedisTypes, Working
<1> QED
  BY <1>1, <1>2, <1>3, <1>4, <1>5, <1>6, <1>7, Zenon DEF Runs

\* The lanes do not matter to the jobs.
LEMMA CollectsEmployed ==
  ASSUME WorkerTypes, RedisTypes, Employed, NEW l \in Lanes, Collects(l)
  PROVE  Employed'
<1>1. CASE RemoveIdleLane(l)
  BY <1>1, GovernorAssumption, Zenon DEF RemoveIdleLane, Employed, Sole,
     Fresh, Again, Slots, Ending, WorkerTypes, RedisTypes, Working
<1>2. CASE RestoreLane(l)
  BY <1>2, GovernorAssumption, Zenon DEF RestoreLane, Employed, Sole,
     Fresh, Again, Slots, Ending, WorkerTypes, RedisTypes, Working
<1>3. CASE ForgetLane(l)
  BY <1>3, Zenon DEF ForgetLane, Employed, Sole, Fresh, Again, Slots
<1> QED
  BY <1>1, <1>2, <1>3, Zenon DEF Collects

\* rq queues a job, or queues it again, when no worker has it.
LEMMA RequeuesEmployed ==
  ASSUME WorkerTypes, RedisTypes, Employed, Unseen, NEW j \in Jobs, Requeues(j)
  PROVE  Employed'
<1>1. CASE Due(j)
  BY <1>1, GovernorAssumption DEF Due, Employed, Sole, Fresh, Again,
     Slots, Ending, WorkerTypes, RedisTypes, Working
<1>2. CASE Rescue(j)
  BY <1>2, GovernorAssumption DEF Rescue, Employed, Sole, Fresh, Again,
     Slots, Ending, WorkerTypes, RedisTypes, Working
<1>3. CASE Announce(j) \/ Enqueue(j)
  <2>1. /\ \A w \in Workers : job[w] # j
        /\ status'[j] \in {"coming", "queued"}
        /\ status[j] \in {"new", "coming"}
        /\ \A i \in Jobs \ {j} : status'[i] = status[i]
        /\ queue' = queue \/ (queue' = queue \union {j} /\ status'[j] = "queued")
        /\ UNCHANGED <<pc, job, slot, retried>>
    BY <1>3, Zenon DEF Announce, Enqueue, Unseen, In, RedisTypes
  <2>2. Fresh'
    BY <2>1 DEF Fresh, Employed, Working, WorkerTypes, RedisTypes
  <2>3. Sole' /\ Again' /\ Slots'
    BY <2>1, Zenon DEF Employed, Sole, Again, Slots
  <2> QED
    BY <2>2, <2>3, Zenon DEF Employed
<1> QED
  BY <1>1, <1>2, <1>3, Zenon DEF Requeues

\* After every step a job has one worker at a time.
LEMMA EmployedStep ==
  ASSUME WorkerTypes, RedisTypes, Employed, Unseen, [Next]_vars
  PROVE  Employed'
<1>1. CASE UNCHANGED vars
  BY <1>1, Zenon DEF vars, Employed, Sole, Fresh, Again, Slots
<1> QED
  BY <1>1, Actions, PrunesEmployed, PollsEmployed, AdmitsEmployed,
     RunsEmployed, CollectsEmployed, RequeuesEmployed, Zenon

-----------------------------------------------------------------------------
(* Jobs that are not enqueued yet.                                           *)

\* A job is new or coming until it is enqueued, and comes by Announce only.
LEMMA StatusStep ==
  ASSUME RedisTypes, [Next]_vars
  PROVE  /\ In({"new", "coming"})' \subseteq In({"new", "coming"})
         /\ \/ In({"coming"})' \subseteq In({"coming"})
            \/ \E j \in Jobs : Announce(j)
<1>1. \/ \E j \in Jobs : Announce(j)
      \/ \A i \in Jobs : status'[i] = status[i] \/ status'[i] \notin {"new", "coming"}
  <2>1. ASSUME NEW w \in Workers, Prunes(w) PROVE status' = status
    BY <2>1, Zenon DEF Prunes, BootPrune, OrderPrunes, Judge, JudgeFails,
       PollPrunes, Drop, DropTag, DropFails, Pruned
  <2>2. ASSUME NEW w \in Workers, Polls(w) PROVE status' = status
    BY <2>2, Zenon DEF Polls, Poll, Pop, BootCollects, Boot, Order, PopTimeout,
       Expire, Heartbeat
  <2>3. ASSUME NEW w \in Workers, Admits(w) PROVE status' = status
    BY <2>3, Zenon DEF Admits, Deny, Reserve, ReserveFails, Tag, TagFails,
       PushBack, Register, RegisterFails
  <2>4. ASSUME NEW w \in Workers,
               \/ FreeCategory(w) \/ FreeHeavy(w) \/ Untag(w) \/ FreeFails(w)
               \/ Crash(w)
        PROVE  status' = status
    BY <2>4, Zenon DEF FreeCategory, FreeHeavy, Untag, FreeFails, Crash
  <2>5. ASSUME NEW w \in Workers, Execute(w) \/ Done(w)
        PROVE  \A i \in Jobs :
                 status'[i] = status[i] \/ status'[i] \notin {"new", "coming"}
    BY <2>5 DEF Execute, Done, Ended, RedisTypes
  <2>6. ASSUME NEW l \in Lanes, Collects(l) PROVE status' = status
    BY <2>6, Zenon DEF Collects, RemoveIdleLane, RestoreLane, ForgetLane
  <2>7. ASSUME NEW j \in Jobs, Enqueue(j) \/ Due(j) \/ Rescue(j)
        PROVE  \A i \in Jobs :
                 status'[i] = status[i] \/ status'[i] \notin {"new", "coming"}
    BY <2>7 DEF Enqueue, Due, Rescue, RedisTypes
  <2>8. CASE UNCHANGED vars
    BY <2>8, Zenon DEF vars
  <2> QED
    BY <2>1, <2>2, <2>3, <2>4, <2>5, <2>6, <2>7, <2>8, Actions, Zenon DEF Runs,
       Requeues
<1>2. ASSUME NEW j \in Jobs, Announce(j)
      PROVE  In({"new", "coming"})' \subseteq In({"new", "coming"})
  BY <1>2, Zenon DEF Announce, In, RedisTypes
<1> QED
  BY <1>1, <1>2, Zenon DEF In

\* Where a job id comes from: a tag or a slot from a worker that has the job, a
\* worker's job from a list, the ids of a prune from a set.
Learns ==
  /\ \A j \in Jobs : owner'[j] \in {owner[j], None} \/ \E w \in Workers : job[w] = j
  /\ \A j \in Jobs, k \in Keys :
       j \in held'[k] => j \in held[k] \/ \E w \in Workers : job[w] = j
  /\ \A j \in Jobs, w \in Workers :
       /\ job'[w] = j => job[w] = j \/ j \in queue
       /\ j \in members'[w] => j \in members[w] \/ \E k \in Keys : j \in held[k]
       /\ target'[w] = j => target[w] = j \/ j \in members[w]

LEMMA LearnsStep ==
  ASSUME TypeOK, WorkerTypes, RedisTypes, [Next]_vars
  PROVE  Learns
<1>1. ASSUME UNCHANGED <<owner, held, job, members, target>> PROVE Learns
  BY <1>1, Zenon DEF Learns
<1>2. ASSUME NEW w \in Workers, NEW k \in Keys, Prune(w, k),
             UNCHANGED <<owner, held, job>>
      PROVE  Learns
  BY <1>2, Zenon DEF Prune, Learns, TypeOK
<1>3. ASSUME NEW w \in Workers, NextPoll(w), UNCHANGED <<held, members, target>>,
             \A j \in Jobs : owner'[j] \in {owner[j], None}
      PROVE  Learns
  BY <1>3, Zenon DEF NextPoll, Learns, WorkerTypes
<1>4. ASSUME NEW w \in Workers, Prunes(w) PROVE Learns
  <2>1. ASSUME NEW j \in Jobs, Judge(w, j) \/ JudgeFails(w, j) PROVE Learns
    <3>1. /\ j \in members[w] /\ UNCHANGED <<owner, held, job>>
          /\ members' = [members EXCEPT ![w] = @ \ {j}]
          /\ target' = target \/ target' = [target EXCEPT ![w] = j]
      BY <2>1, Zenon DEF Judge, JudgeFails
    <3> QED
      BY <3>1, Zenon DEF Learns, TypeOK
  <2>2. CASE Drop(w)
    BY <2>2, Zenon DEF Drop, Learns, TypeOK
  <2>3. CASE DropTag(w) \/ DropFails(w)
    BY <2>3, Zenon DEF DropTag, DropFails, Learns, WorkerTypes, RedisTypes
  <2>4. CASE Pruned(w)
    BY <2>4, <1>1, Zenon DEF Pruned
  <2>5. HeavyKey \in Keys
    BY GovernorAssumption, Zenon
  <2> QED
    BY <1>2, <1>4, <2>1, <2>2, <2>3, <2>4, <2>5, Zenon DEF Prunes, BootPrune,
       OrderPrunes, PollPrunes
<1>5. ASSUME NEW w \in Workers, Polls(w) PROVE Learns
  <2>1. ASSUME NEW j \in Jobs, Pop(w, j) PROVE Learns
    BY <2>1, Zenon DEF Pop, Learns, WorkerTypes
  <2>2. CASE PopTimeout(w)
    BY <2>2, <1>3, Zenon DEF PopTimeout
  <2> QED
    BY <1>1, <1>5, <2>1, <2>2, Zenon DEF Polls, Poll, BootCollects, Boot, Order,
       Expire, Heartbeat
<1>6. ASSUME NEW w \in Workers, Admits(w) PROVE Learns
  <2>1. CASE Reserve(w) \/ ReserveFails(w)
    <3>1. /\ UNCHANGED <<owner, job, members, target>>
          /\ held' = held \/ Reserved(job[w])
      BY <2>1, Zenon DEF Reserve, ReserveFails
    <3>2. \A j \in Jobs, k \in Keys : j \in held'[k] => j \in held[k] \/ job[w] = j
      BY <3>1 DEF Reserved
    <3> QED
      BY <3>1, <3>2, Zenon DEF Learns
  <2>2. CASE Tag(w)
    BY <2>2, Zenon DEF Tag, Learns, RedisTypes
  <2>3. CASE Register(w) \/ RegisterFails(w)
    BY <2>3, <1>3, Zenon DEF Register, RegisterFails
  <2> QED
    BY <1>1, <1>6, <2>1, <2>2, <2>3, Zenon DEF Admits, Deny, TagFails, PushBack
<1>7. ASSUME NEW w \in Workers, Runs(w) PROVE Learns
  <2>1. CASE FreeCategory(w) \/ FreeHeavy(w)
    BY <2>1, Zenon DEF FreeCategory, FreeHeavy, Without, Learns
  <2>2. CASE Untag(w)
    BY <2>2, <1>3, Zenon DEF Untag, RedisTypes
  <2>3. CASE FreeFails(w)
    BY <2>3, <1>1, <1>3, Zenon DEF FreeFails
  <2>4. CASE Crash(w)
    BY <2>4, Zenon DEF Crash, Learns, TypeOK, WorkerTypes
  <2> QED
    BY <1>1, <1>7, <2>1, <2>2, <2>3, <2>4, Zenon DEF Runs, Execute, Done
<1>8. ASSUME \/ \E l \in Lanes : Collects(l)
             \/ \E j \in Jobs : Requeues(j)
             \/ UNCHANGED vars
      PROVE  Learns
  BY <1>1, <1>8, Zenon DEF Collects, RemoveIdleLane, RestoreLane, ForgetLane,
     Requeues, Announce, Enqueue, Due, Rescue, vars
<1> QED
  BY <1>4, <1>5, <1>6, <1>7, <1>8, Actions, Zenon

\* Nobody knows of a job before it is enqueued.
LEMMA UnseenStep ==
  ASSUME TypeOK, WorkerTypes, RedisTypes, Employed, Unseen, [Next]_vars
  PROVE  Unseen'
<1>1. SUFFICES ASSUME NEW j \in In({"new", "coming"})'
               PROVE  /\ owner'[j] = None /\ \A k \in Keys : j \notin held'[k]
                      /\ \A w \in Workers :
                           job'[w] # j /\ j \notin members'[w] /\ target'[w] # j
  BY Zenon DEF Unseen
<1>2. j \in Jobs /\ j \in In({"new", "coming"})
  BY <1>1, StatusStep, Zenon DEF In
<1>3. j \notin queue
  BY <1>2, Zenon DEF In, Employed, Fresh
<1> QED
  BY <1>2, <1>3, LearnsStep, Zenon DEF Learns, Unseen

-----------------------------------------------------------------------------
(* The lanes.                                                                *)

\* The lists and the lanes stay, and so does who is about to register.
Listless ==
  /\ UNCHANGED <<queue, lanes, removed, unlisted>>
  /\ \A w \in Workers :
       pc[w] = "register" => pc'[w] = "register" /\ job'[w] = job[w]

\* A step of a worker that is not about to register a lane.
LEMMA ListlessGoto ==
  ASSUME WorkerTypes, NEW w \in Workers, NEW p, Goto(w, p), pc[w] # "register",
         UNCHANGED <<job, queue, lanes, removed, unlisted>>
  PROVE  Listless
BY Zenon DEF Goto, Listless, WorkerTypes

LEMMA ListlessPoll ==
  ASSUME WorkerTypes, NEW w \in Workers, NextPoll(w), pc[w] # "register",
         UNCHANGED <<queue, lanes, removed, unlisted>>
  PROVE  Listless
BY Zenon DEF NextPoll, Goto, Listless, WorkerTypes

\* The other steps on the lists and the lanes.
LEMMA LaneSteps ==
  ASSUME WorkerTypes, [Next]_vars
  PROVE  \/ Listless
         \/ \E w \in Workers :
              \/ PushBack(w) \/ Register(w) \/ RegisterFails(w)
              \/ Crash(w) \/ \E j \in Jobs : Pop(w, j)
              \/ \E l \in Lanes : BootCollects(w, l)
         \/ \E l \in Lanes : RemoveIdleLane(l) \/ RestoreLane(l) \/ ForgetLane(l)
         \/ \E j \in Jobs : Announce(j) \/ Enqueue(j) \/ Due(j)
<1>1. ASSUME NEW w \in Workers,
             \/ \E k \in Keys : BootPrune(w, k)
             \/ \E k \in Keys : OrderPrunes(w, k)
             \/ PollPrunes(w)
             \/ \E p \in BOOLEAN : Poll(w, p)
             \/ Order(w)
             \/ Pruned(w)
             \/ PopTimeout(w)
             \/ Boot(w)
      PROVE  Listless
  BY <1>1, ListlessGoto, ListlessPoll, Zenon DEF BootPrune, Prune, OrderPrunes,
     PollPrunes, Poll, Order, Pruned, PopTimeout, Boot
<1>2. ASSUME NEW w \in Workers,
             \/ \E j \in Jobs : Judge(w, j)
             \/ \E j \in Jobs : JudgeFails(w, j)
             \/ Drop(w)
             \/ DropTag(w)
             \/ DropFails(w)
      PROVE  Listless
  BY <1>2, ListlessGoto, Zenon DEF Judge, JudgeFails, Fault, Drop, DropTag,
     DropFails, Listless
<1>3. ASSUME NEW w \in Workers,
             \/ Deny(w)
             \/ Reserve(w)
             \/ ReserveFails(w)
             \/ Tag(w)
             \/ TagFails(w)
      PROVE  Listless
  BY <1>3, ListlessGoto, Zenon DEF Deny, Reserve, ReserveFails, Fault, Tag,
     TagFails
<1>4. ASSUME NEW w \in Workers,
             \/ Execute(w)
             \/ Done(w)
             \/ FreeCategory(w)
             \/ FreeHeavy(w)
      PROVE  Listless
  BY <1>4, ListlessGoto, Zenon DEF Execute, Done, FreeCategory, FreeHeavy
<1>5. ASSUME NEW w \in Workers,
             \/ Untag(w)
             \/ FreeFails(w)
             \/ Expire(w)
             \/ Heartbeat(w)
      PROVE  Listless
  BY <1>5, ListlessGoto, ListlessPoll, Zenon DEF Untag, FreeFails, Fault,
     Expire, Heartbeat, Listless
<1>6. CASE UNCHANGED vars
  BY <1>6, Zenon DEF vars, Listless
<1>7. ASSUME NEW j \in Jobs, Rescue(j) PROVE Listless
  BY <1>7, Zenon DEF Rescue, Listless
<1> QED
  BY <1>1, <1>2, <1>3, <1>4, <1>5, <1>6, <1>7, Zenon DEF Next, Step, Faulty

\* A job that is put on a list has its lane registered, or soon; a collector
\* takes a lane only when it has no job, and what it takes amid an enqueue is
\* watched, or lost.
LEMMA LaneStep ==
  ASSUME WorkerTypes, RedisTypes, lanes \subseteq Lanes, LaneFound, Announced,
         [Next]_vars
  PROVE  LaneFound' /\ Announced'
<1> DEFINE Came == In({"coming"})' \subseteq In({"coming"})
<1>1. CASE Listless
  <2>1. LaneFound'
    BY <1>1, Zenon DEF Listless, LaneFound, Findable
  <2>2. ASSUME Came PROVE Announced'
    BY <1>1, <2>2, Zenon DEF Listless, Announced, Findable
  <2>3. ASSUME NEW j \in Jobs, Announce(j) PROVE Announced'
    BY <2>3, Zenon DEF Announce, Announced, Findable, In, RedisTypes
  <2> QED
    BY <2>1, <2>2, <2>3, StatusStep, Zenon
<1>2. ASSUME NEW w \in Workers, NEW l \in Lanes, BootCollects(w, l)
      PROVE  LaneFound' /\ Announced'
  <2>1. /\ \A i \in queue : Lane[i] # l
        /\ \A i \in In({"coming"}) : Lane[i] = l => l \in unlisted'
        /\ lanes' = lanes \ {l} /\ unlisted \subseteq unlisted'
        /\ UNCHANGED <<queue, removed, status, pc, job>>
    BY <1>2, Zenon DEF BootCollects, Drained, On
  <2> QED
    BY <2>1, Zenon DEF LaneFound, Announced, Findable, In
<1>3. ASSUME NEW l \in Lanes, RemoveIdleLane(l) \/ RestoreLane(l)
      PROVE  LaneFound' /\ Announced'
  BY <1>3, Zenon DEF RemoveIdleLane, RestoreLane, LaneFound, Announced, Findable,
     In
<1>4. ASSUME NEW l \in Lanes, ForgetLane(l) PROVE LaneFound' /\ Announced'
  <2>1. /\ l \in lanes \/ \A i \in queue \union In({"coming"}) : Lane[i] # l
        /\ removed' = removed \ {l}
        /\ UNCHANGED <<queue, lanes, unlisted, status, pc, job>>
    BY <1>4, Zenon DEF ForgetLane, Idle, Drained, On
  <2> QED
    BY <2>1, Zenon DEF LaneFound, Announced, Findable, In
<1>5. ASSUME NEW w \in Workers, NEW j \in Jobs, Pop(w, j)
      PROVE  LaneFound' /\ Announced'
  BY <1>5, Zenon DEF Pop, Goto, LaneFound, Announced, Findable, In, WorkerTypes,
     RedisTypes
<1>6. ASSUME NEW w \in Workers, PushBack(w) PROVE LaneFound' /\ Announced'
  BY <1>6, Zenon DEF PushBack, Goto, LaneFound, Announced, Findable, In,
     WorkerTypes, RedisTypes
<1>7. ASSUME NEW w \in Workers, Register(w) PROVE LaneFound' /\ Announced'
  BY <1>7, Zenon DEF Register, NextPoll, Goto, LaneFound, Announced, Findable,
     In, WorkerTypes, RedisTypes
<1>8. ASSUME NEW w \in Workers, RegisterFails(w) PROVE LaneFound' /\ Announced'
  BY <1>8, Zenon DEF RegisterFails, NextPoll, Fault, Goto, LaneFound, Announced,
     Findable, In, WorkerTypes, RedisTypes
<1>9. ASSUME NEW j \in Jobs, Due(j) PROVE LaneFound' /\ Announced'
  BY <1>9, Zenon DEF Due, LaneFound, Announced, Findable, In, WorkerTypes,
     RedisTypes
<1>10. ASSUME NEW w \in Workers, Crash(w) PROVE LaneFound' /\ Announced'
  BY <1>10, Zenon DEF Crash, Fault, Goto, LaneFound, Announced, Findable, In,
     WorkerTypes, RedisTypes
<1>11. ASSUME NEW j \in Jobs, Announce(j) PROVE LaneFound' /\ Announced'
  BY <1>11, Zenon DEF Announce, LaneFound, Announced, Findable, In, WorkerTypes,
     RedisTypes
<1>12. ASSUME NEW j \in Jobs, Enqueue(j) PROVE LaneFound' /\ Announced'
  <2>1. /\ j \in In({"coming"}) /\ In({"coming"})' \subseteq In({"coming"})
        /\ queue' = queue \union {j}
        /\ UNCHANGED <<lanes, removed, unlisted, pc, job>>
    BY <1>12, Zenon DEF Enqueue, In, RedisTypes
  <2> QED
    BY <2>1, Zenon DEF LaneFound, Announced, Findable
<1> QED
  BY LaneSteps, <1>1, <1>2, <1>3, <1>4, <1>5, <1>6, <1>7, <1>8, <1>9, <1>10,
     <1>11, <1>12, Zenon

-----------------------------------------------------------------------------
(* Steps that touch no job.                                                  *)

\* A step that touches no job, no slot and no tag.
Idles ==
  /\ UNCHANGED <<queue, status, held, owner, job, slot, retried, misjudged>>
  /\ \A w \in Workers : pc[w] \in Working \/ pc'[w] \in Working => pc'[w] = pc[w]
  /\ \A w \in Workers : target'[w] # None => target'[w] = target[w]

\* A worker without a job that goes to p.
LEMMA IdleGoto ==
  ASSUME WorkerTypes, NEW w \in Workers, NEW p, Goto(w, p),
         pc[w] \notin Working, p \notin Working,
         UNCHANGED <<queue, status, held, owner, job, slot, target, retried,
                     misjudged>>
  PROVE  Idles
BY Zenon DEF Goto, Idles, WorkerTypes

\* The steps of a prune that read, or that end it.
LEMMA PrunesIdle ==
  ASSUME WorkerTypes, RedisTypes, Employed, NEW w \in Workers,
         \/ \E k \in Keys : BootPrune(w, k)
         \/ \E k \in Keys : OrderPrunes(w, k)
         \/ PollPrunes(w)
         \/ DropFails(w)
         \/ Pruned(w)
  PROVE  Idles
<1>1. ASSUME NEW k \in Keys, BootPrune(w, k) PROVE Idles
  BY <1>1, IdleGoto, Zenon DEF BootPrune, Prune, Working
<1>2. ASSUME NEW k \in Keys, OrderPrunes(w, k) PROVE Idles
  BY <1>2, IdleGoto, Zenon DEF OrderPrunes, Prune, Working
<1>3. CASE PollPrunes(w)
  BY <1>3, IdleGoto, Zenon DEF PollPrunes, Prune, Working
<1>4. CASE DropFails(w)
  BY <1>4, Zenon DEF DropFails, Fault, Goto, Idles, WorkerTypes, Working
<1>5. CASE Pruned(w)
  BY <1>5, IdleGoto, Zenon DEF Pruned, Working
<1> QED
  BY <1>1, <1>2, <1>3, <1>4, <1>5, Zenon

\* A poll until its pop.
LEMMA PollsIdle ==
  ASSUME WorkerTypes, RedisTypes, Employed, NEW w \in Workers,
         \/ Boot(w)
         \/ \E p \in BOOLEAN : Poll(w, p)
         \/ Order(w)
         \/ PopTimeout(w)
         \/ Expire(w)
         \/ Heartbeat(w)
         \/ \E l \in Lanes : BootCollects(w, l)
  PROVE  Idles
<1>1. CASE Boot(w)
  BY <1>1, IdleGoto, Zenon DEF Boot, Working
<1>2. ASSUME NEW p \in BOOLEAN, Poll(w, p) PROVE Idles
  BY <1>2, IdleGoto, Zenon DEF Poll, Working
<1>3. CASE Order(w)
  BY <1>3, IdleGoto, Zenon DEF Order, Working
<1>4. CASE PopTimeout(w)
  <2>1. job[w] = None /\ slot[w] = FALSE
    BY <1>4, Zenon DEF PopTimeout, Employed, Slots, Ending, WorkerTypes,
       Working
  <2>2. job' = job /\ slot' = slot
    BY <1>4, <2>1, Zenon DEF PopTimeout, NextPoll, WorkerTypes
  <2> QED
    BY <1>4, <2>2, IdleGoto, Zenon DEF PopTimeout, NextPoll, Working
<1>5. CASE Expire(w) \/ Heartbeat(w)
  BY <1>5, Zenon DEF Expire, Heartbeat, Idles
<1>6. ASSUME NEW l \in Lanes, BootCollects(w, l) PROVE Idles
  BY <1>6, Zenon DEF BootCollects, Idles
<1> QED
  BY <1>1, <1>2, <1>3, <1>4, <1>5, <1>6, Zenon

\* The collection of a lane.
LEMMA CollectsIdle ==
  ASSUME WorkerTypes, RedisTypes, Employed, NEW l \in Lanes,
         \/ RemoveIdleLane(l)
         \/ RestoreLane(l)
         \/ ForgetLane(l)
  PROVE  Idles
<1>1. CASE RemoveIdleLane(l)
  BY <1>1, Zenon DEF RemoveIdleLane, Idles
<1>2. CASE RestoreLane(l)
  BY <1>2, Zenon DEF RestoreLane, Idles
<1>3. CASE ForgetLane(l)
  BY <1>3, Zenon DEF ForgetLane, Idles
<1> QED
  BY <1>1, <1>2, <1>3, Zenon

-----------------------------------------------------------------------------
(* The caps.                                                                 *)

\* The slot sets are written by five actions.
LEMMA HeldSteps ==
  ASSUME [Next]_vars
  PROVE  \/ held' = held
         \/ \E w \in Workers : \/ Drop(w) \/ Reserve(w) \/ ReserveFails(w)
                              \/ FreeCategory(w) \/ FreeHeavy(w)
<1>1. ASSUME NEW w \in Workers,
             \/ \E k \in Keys : BootPrune(w, k)
             \/ \E k \in Keys : OrderPrunes(w, k)
             \/ PollPrunes(w)
             \/ \E p \in BOOLEAN : Poll(w, p)
             \/ Order(w)
             \/ Pruned(w)
             \/ PopTimeout(w)
             \/ Boot(w)
             \/ \E l \in Lanes : BootCollects(w, l)
             \/ \E j \in Jobs : Pop(w, j)
      PROVE  held' = held
  BY <1>1, Zenon DEF BootPrune, OrderPrunes, PollPrunes, Poll, Order, Pruned,
     PopTimeout, Boot, BootCollects, Pop
<1>2. ASSUME NEW w \in Workers,
             \/ \E j \in Jobs : Judge(w, j)
             \/ \E j \in Jobs : JudgeFails(w, j)
             \/ DropTag(w)
             \/ DropFails(w)
             \/ Deny(w)
             \/ Tag(w)
             \/ TagFails(w)
             \/ PushBack(w)
      PROVE  held' = held
  BY <1>2, Zenon DEF Judge, JudgeFails, DropTag, DropFails, Deny, Tag,
     TagFails, PushBack
<1>3. ASSUME NEW w \in Workers,
             \/ Register(w)
             \/ RegisterFails(w)
             \/ Execute(w)
             \/ Done(w)
             \/ Untag(w)
             \/ FreeFails(w)
             \/ Crash(w)
             \/ Expire(w)
             \/ Heartbeat(w)
      PROVE  held' = held
  BY <1>3, Zenon DEF Register, RegisterFails, Execute, Done, Untag, FreeFails,
     Crash, Expire, Heartbeat
<1>4. ASSUME \/ \E l \in Lanes : Collects(l)
             \/ \E j \in Jobs : Requeues(j)
             \/ UNCHANGED vars
      PROVE  held' = held
  BY <1>4, Zenon DEF Collects, RemoveIdleLane, RestoreLane, ForgetLane, Requeues,
     Announce, Enqueue, Due, Rescue, vars
<1> QED
  BY <1>1, <1>2, <1>3, <1>4, Zenon DEF Next, Step, Faulty, Collects, Requeues

\* The size of a set that one element is put into.
LEMMA OneMore ==
  ASSUME NEW A, NEW x, IsFiniteSet(A)
  PROVE  /\ IsFiniteSet(A \union {x})
         /\ Cardinality(A \union {x}) <= Cardinality(A) + 1
<1>1. /\ IsFiniteSet(A \union {x})
      /\ Cardinality(A \union {x}) = IF x \in A THEN Cardinality(A)
                                    ELSE Cardinality(A) + 1
  BY FS_AddElement, Zenon
<1>2. Cardinality(A) \in Nat
  BY FS_CardinalityType, Zenon
<1> QED
  BY <1>1, <1>2

\* A set grows only by a reservation, which found it below its cap.
LEMMA CappedStep ==
  ASSUME WorkerTypes, RedisTypes, RedisTypes', Capped, [Next]_vars
  PROVE  Capped'
<1>1. \A k \in Keys : /\ IsFiniteSet(held[k]) /\ Cardinality(held[k]) \in Nat
                     /\ Cap[k] \in Nat /\ Cardinality(held[k]) <= Cap[k]
  BY GovernorAssumption, FS_Subset, FS_CardinalityType, Zenon DEF RedisTypes,
     Capped
<1>2. ASSUME \A k \in Keys : held'[k] \subseteq held[k]
      PROVE  Capped'
  <2>1. \A k \in Keys : /\ IsFiniteSet(held'[k]) /\ Cardinality(held'[k]) \in Nat
                       /\ Cardinality(held'[k]) <= Cardinality(held[k])
    BY <1>1, <1>2, FS_Subset, FS_CardinalityType, Zenon
  <2> QED
    BY <1>1, <2>1 DEF Capped
<1>3. ASSUME NEW j \in Jobs, Admissible(j), Reserved(j)
      PROVE  Capped'
  <2>1. SUFFICES ASSUME NEW k \in Keys PROVE Cardinality(held'[k]) <= Cap[k]
    BY Zenon DEF Capped
  <2>2. CASE k \in KeysOf[Lane[j]]
    <3>1. held'[k] = held[k] \union {j}
      BY <1>3, <2>2, Zenon DEF Reserved, RedisTypes
    <3>2. /\ IsFiniteSet(held[k] \union {j})
          /\ Cardinality(held[k] \union {j}) <= Cardinality(held[k]) + 1
      BY <1>1, OneMore, Zenon
    <3>3. Cardinality(held[k]) < Cap[k]
      BY <1>1, <1>3, <2>2 DEF Admissible, AtCap
    <3>4. Cardinality(held[k] \union {j}) \in Nat
      BY <3>2, FS_CardinalityType, Zenon
    <3> QED
      BY <1>1, <3>1, <3>2, <3>3, <3>4
  <2>3. CASE k \notin KeysOf[Lane[j]]
    BY <1>1, <1>3, <2>3, Zenon DEF Reserved, RedisTypes
  <2> QED
    BY <2>2, <2>3, Zenon
<1>4. ASSUME NEW w \in Workers, Reserve(w) \/ ReserveFails(w)
      PROVE  /\ job[w] \in Jobs
             /\ held' = held \/ (Admissible(job[w]) /\ Reserved(job[w]))
  BY <1>4, Zenon DEF Reserve, ReserveFails, WorkerTypes, Working
<1>5. ASSUME NEW w \in Workers, Drop(w) \/ FreeCategory(w) \/ FreeHeavy(w)
      PROVE  \A k \in Keys : held'[k] \subseteq held[k]
  BY <1>5, Zenon DEF Drop, FreeCategory, FreeHeavy, Without, RedisTypes
<1> QED
  BY HeldSteps, <1>2, <1>3, <1>4, <1>5, Zenon

-----------------------------------------------------------------------------
(* The prune.                                                                *)

\* What a step of w leaves of the other workers.
Others(w) ==
  \A v \in Workers \ {w} : /\ pc'[v] = pc[v] /\ job'[v] = job[v]
                          /\ slot'[v] = slot[v] /\ target'[v] = target[v]

\* w goes on with its job: towards the end of it, and on the reservation that
\* it had or has just made.
Begun == {"execute", "busy"} \union Ending
Claimed == {"tag", "execute", "busy"}

GoesOn(w) ==
  /\ Others(w) /\ job'[w] = job[w]
  /\ pc[w] \in Ending \union {"register"} => pc'[w] \in Ending \union {"register"}
  /\ pc[w] \in Begun => pc'[w] \in Begun
  /\ slot'[w] /\ pc'[w] \in Claimed =>
       \/ slot[w] /\ pc[w] \in Claimed
       \/ \A k \in KeysOf[Lane[job[w]]] : job[w] \in held'[k]

\* w drops its job.
Leaves(w) ==
  /\ Others(w) /\ job'[w] = None /\ slot'[w] = FALSE
  /\ target'[w] \in {target[w], None}
  /\ UNCHANGED <<queue, status, held, retried, misjudged>>

\* A step that touches no job frees no slot in use.
LEMMA IdleGuarded ==
  ASSUME WorkerTypes, RedisTypes, Employed, Judged, Backed, Idles
  PROVE  Judged' /\ Backed'
<1>1. \A i \in Jobs : Over(i) => Over(i)'
  BY Zenon DEF Idles, Over, Ending, Working
<1>2. \A i \in Jobs : owner[i] # None /\ Owned(i) => Owned(i)'
  BY DEF Idles, Owned, Ending, Working, WorkerTypes, RedisTypes
<1>3. Judged'
  BY <1>1, <1>2, Zenon DEF Idles, Judged, WorkerTypes, RedisTypes
<1>4. Backed'
  BY Zenon DEF Idles, Backed, Working
<1> QED
  BY <1>3, <1>4, Zenon

\* A worker that goes to p with its job.
LEMMA Goes ==
  ASSUME WorkerTypes, NEW w \in Workers, NEW p, Goto(w, p),
         UNCHANGED <<job, slot, target>>,
         pc[w] \in Ending \union {"register"} => p \in Ending \union {"register"},
         pc[w] \in Begun => p \in Begun,
         p \in Claimed => pc[w] \in Claimed \/ ~ slot[w]
  PROVE  GoesOn(w)
BY Zenon DEF Goto, GoesOn, Others, WorkerTypes

\* A worker that goes to its next poll has no job.
LEMMA NextPollLeaves ==
  ASSUME WorkerTypes, NEW w \in Workers, NextPoll(w),
         UNCHANGED <<target, queue, status, held, retried, misjudged>>
  PROVE  Leaves(w)
BY Zenon DEF NextPoll, Goto, Leaves, Others, WorkerTypes

\* What w may do to its job and to the sets while it goes on with it.
LEMMA GoesOnGuarded ==
  ASSUME WorkerTypes, RedisTypes, Employed, Judged, Backed,
         NEW w \in Workers, GoesOn(w),
         retried \subseteq retried', misjudged \subseteq misjudged',
         \A i \in queue' : i \in queue \/ ~ Over(i),
         \A i \in Jobs \ (retried' \union misjudged') :
           /\ status'[i] = status[i] \/ status'[i] \notin {"finished", "failed"}
                \/ Over(i)'
           /\ owner'[i] \in {owner[i], None} \/ Owned(i)'
           /\ \A v \in Workers : target'[v] = i => target[v] = i \/ Over(i)
           /\ \A k \in Keys : i \in held[k] => i \in held'[k] \/ Over(i)
  PROVE  Judged' /\ Backed'
<1>1. \A i \in Jobs : Over(i) => Over(i)'
  BY DEF GoesOn, Others, Over
<1>2. \A i \in Jobs :
        owner'[i] = owner[i] /\ owner[i] # None /\ Owned(i) => Owned(i)'
  BY DEF GoesOn, Others, Owned, Begun, WorkerTypes, RedisTypes
<1>3. Judged'
  BY <1>1, <1>2, Zenon DEF Judged
<1>4. Backed'
  <2>1. SUFFICES ASSUME NEW v \in Workers, slot'[v], pc'[v] \in Claimed,
                        job'[v] \notin retried' \union misjudged',
                        NEW k \in KeysOf[Lane[job'[v]]]
                 PROVE  job'[v] \in held'[k]
    BY Zenon DEF Backed, Claimed
  <2>2. CASE slot[v] /\ pc[v] \in Claimed
    <3>1. job'[v] = job[v] /\ job[v] \in Jobs /\ k \in Keys
      BY <2>1, <2>2, GovernorAssumption DEF GoesOn, Others, Claimed, Working,
         WorkerTypes
    <3>2. job[v] \in held[k] /\ ~ Over(job[v])
      BY <2>1, <2>2, <3>1, Zenon DEF Backed, Claimed, Over, Ending
    <3> QED
      BY <2>1, <3>1, <3>2, Zenon
  <2>3. CASE ~ (slot[v] /\ pc[v] \in Claimed)
    BY <2>1, <2>3, Zenon DEF GoesOn, Others
  <2> QED
    BY <2>2, <2>3, Zenon
<1> QED
  BY <1>3, <1>4, Zenon

\* w gives up its job, by a push back, at the end of a release or by dying.
LEMMA LeavesGuarded ==
  ASSUME WorkerTypes, RedisTypes, Employed, Judged, Backed,
         NEW w \in Workers, Leaves(w),
         \A i \in Jobs : owner'[i] \in {owner[i], None}
  PROVE  Judged' /\ Backed'
<1>1. \A i \in Jobs : Over(i) => Over(i)'
  BY Zenon DEF Leaves, Others, Over, WorkerTypes
<1>2. \A i \in Jobs :
        owner[i] # None /\ Owned(i) => Owned(i)' \/ Over(i)' \/ owner'[i] = None
  BY DEF Leaves, Others, Owned, Over, Sole, Fresh, Ending, Working, Employed,
     WorkerTypes, RedisTypes
<1>3. Judged'
  BY <1>1, <1>2 DEF Leaves, Others, Judged, WorkerTypes, RedisTypes
<1>4. Backed'
  BY Zenon DEF Leaves, Others, Backed
<1> QED
  BY <1>3, <1>4, Zenon

\* A prune: what it finds stale is over.
LEMMA PrunesGuarded ==
  ASSUME WorkerTypes, RedisTypes, Employed, Unseen, Judged, Backed,
         NEW w \in Workers, Prunes(w)
  PROVE  Judged' /\ Backed'
<1>1. ASSUME NEW j \in Jobs, Judge(w, j) PROVE Judged' /\ Backed'
  <2>1. GoesOn(w) /\ UNCHANGED <<held, queue, status, owner, retried>>
    BY <1>1, Zenon DEF Judge, Goto, GoesOn, Others, Begun, Ending, Claimed,
       Working, WorkerTypes
  <2>2. /\ misjudged \subseteq misjudged'
        /\ j \notin misjudged' => ~ FalselyStale(j)
        /\ status[j] \notin {"new", "coming"}
    BY <1>1, Zenon DEF Judge, Unseen, In
  <2>3. j \notin retried' \union misjudged' /\ Stale(j) => Over(j)
    BY <2>1, <2>2, Zenon DEF Stale, FalselyStale, OwnerAlive, Judged, Owned,
       Ending, Live, RedisTypes
  <2>4. \A v \in Workers, i \in Jobs :
          target'[v] = i => target[v] = i \/ (i = j /\ Stale(j))
    BY <1>1, Zenon DEF Judge, WorkerTypes
  <2> QED
    BY <2>1, <2>2, <2>3, <2>4, GoesOnGuarded, Zenon
<1>2. ASSUME NEW j \in Jobs, JudgeFails(w, j) PROVE Judged' /\ Backed'
  <2>1. GoesOn(w) /\ UNCHANGED <<held, queue, status, owner, retried>>
    BY <1>2, Zenon DEF JudgeFails, Goto, GoesOn, Others, Begun, Ending,
       Claimed, Working, WorkerTypes
  <2>2. /\ misjudged' = misjudged \union {j}
        /\ \A v \in Workers, i \in Jobs : target'[v] = i => target[v] = i \/ i = j
    BY <1>2, Zenon DEF JudgeFails, WorkerTypes
  <2> QED
    BY <2>1, <2>2, GoesOnGuarded, Zenon
<1>3. CASE Drop(w)
  <2>1. GoesOn(w) /\ UNCHANGED <<queue, status, owner, target, retried, misjudged>>
    BY <1>3, Zenon DEF Drop, Goto, GoesOn, Others, Begun, Ending, Claimed,
       Working, WorkerTypes, RedisTypes
  <2>2. \A i \in Jobs \ (retried \union misjudged), k \in Keys :
          i \in held[k] => i \in held'[k] \/ Over(i)
    BY <1>3, Zenon DEF Drop, Judged, WorkerTypes, RedisTypes
  <2> QED
    BY <2>1, <2>2, GoesOnGuarded, Zenon
<1>4. CASE DropTag(w)
  <2>1. GoesOn(w) /\ UNCHANGED <<held, queue, status, retried, misjudged>>
    BY <1>4, Zenon DEF DropTag, Goto, GoesOn, Others, Begun, Ending, Claimed,
       Working, WorkerTypes, RedisTypes
  <2>2. /\ \A i \in Jobs : owner'[i] \in {owner[i], None}
        /\ \A v \in Workers : target'[v] \in {target[v], None}
    BY <1>4, Zenon DEF DropTag, WorkerTypes, RedisTypes
  <2> QED
    BY <2>1, <2>2, GoesOnGuarded, Zenon DEF WorkerTypes
<1> QED
  BY <1>1, <1>2, <1>3, <1>4, IdleGuarded, PrunesIdle, Zenon DEF Prunes

\* A pop: the job was on a list, so it was not over.
LEMMA PollsGuarded ==
  ASSUME WorkerTypes, RedisTypes, Employed, Judged, Backed,
         NEW w \in Workers, Polls(w)
  PROVE  Judged' /\ Backed'
<1>1. ASSUME NEW j \in Jobs, Pop(w, j) PROVE Judged' /\ Backed'
  <2>1. /\ Others(w) /\ pc[w] = "pop" /\ pc'[w] = "admit" /\ target'[w] = target[w]
        /\ job'[w] = j
        /\ slot'[w] = slot[w]
        /\ j \in queue
        /\ queue' = queue \ {j}
        /\ UNCHANGED <<status, held, owner, retried, misjudged>>
    BY <1>1, Zenon DEF Pop, Goto, Others, WorkerTypes, RedisTypes
  <2>2. \A i \in Jobs : Over(i) => Over(i)'
    BY <2>1, Zenon DEF Others, Over, Ending, WorkerTypes
  <2>3. Judged'
    BY <2>1, <2>2 DEF Others, Judged, Owned, Ending, Working, WorkerTypes,
       RedisTypes
  <2>4. Backed'
    BY <2>1, Zenon DEF Others, Backed, Slots, Ending, Employed, WorkerTypes
  <2> QED
    BY <2>3, <2>4, Zenon
<1> QED
  BY <1>1, IdleGuarded, PollsIdle, Zenon DEF Polls

\* The admission of a job.
LEMMA AdmitsGuarded ==
  ASSUME WorkerTypes, RedisTypes, Employed, Judged, Backed,
         NEW w \in Workers, Admits(w)
  PROVE  Judged' /\ Backed'
<1>1. CASE Deny(w)
  <2>1. /\ GoesOn(w)
        /\ UNCHANGED <<held, queue, status, owner, target, retried, misjudged>>
    BY <1>1, Goes, Zenon DEF Deny, Begun, Ending, Claimed
  <2> QED
    BY <2>1, GoesOnGuarded, Zenon
<1>2. CASE Reserve(w)
  <2>1. job[w] \in Jobs /\ KeysOf[Lane[job[w]]] \subseteq Keys
    BY <1>2, GovernorAssumption, Zenon DEF Reserve, Working, WorkerTypes,
       RedisTypes
  <2>2. \A k \in Keys : held[k] \subseteq held'[k]
    BY <1>2, <2>1 DEF Reserve, Reserved, WorkerTypes, RedisTypes
  <2>3. GoesOn(w) /\ UNCHANGED <<queue, status, owner, target, retried, misjudged>>
    BY <1>2, <2>1 DEF Reserve, Reserved, Goto, GoesOn, Others, Begun, Ending,
       Claimed, Slots, Employed, WorkerTypes, RedisTypes
  <2> QED
    BY <2>2, <2>3, GoesOnGuarded, Zenon
<1>3. CASE ReserveFails(w)
  <2>1. job[w] \in Jobs /\ KeysOf[Lane[job[w]]] \subseteq Keys
    BY <1>3, GovernorAssumption, Zenon DEF ReserveFails, Working, WorkerTypes,
       RedisTypes
  <2>2. \A k \in Keys : held[k] \subseteq held'[k]
    <3>1. Reserved(job[w]) \/ UNCHANGED held
      BY <1>3, Zenon DEF ReserveFails
    <3>2. ASSUME Reserved(job[w])
          PROVE  \A k \in Keys : held[k] \subseteq held'[k]
      BY <2>1, <3>2 DEF Reserved, RedisTypes
    <3> QED
      BY <3>1, <3>2, Zenon
  <2>3. GoesOn(w) /\ UNCHANGED <<queue, status, owner, target, retried, misjudged>>
    BY <1>3, <2>1 DEF ReserveFails, Reserved, Goto, GoesOn, Others, Begun,
       Ending, Claimed, Slots, Employed, WorkerTypes, RedisTypes
  <2> QED
    BY <2>2, <2>3, GoesOnGuarded, Zenon
<1>4. CASE Tag(w)
  <2>1. GoesOn(w) /\ UNCHANGED <<held, queue, status, target, retried, misjudged>>
    BY <1>4, Goes, Zenon DEF Tag, Begun, Ending, Claimed
  <2>2. \A i \in Jobs : owner'[i] = owner[i] \/ Owned(i)'
    BY <1>4, Zenon DEF Tag, Goto, Owned, WorkerTypes, RedisTypes
  <2> QED
    BY <2>1, <2>2, GoesOnGuarded, Zenon
<1>5. CASE TagFails(w)
  <2>1. /\ GoesOn(w)
        /\ UNCHANGED <<held, queue, status, owner, target, retried, misjudged>>
    BY <1>5, Goes, Zenon DEF TagFails, Fault, Begun, Ending, Claimed
  <2> QED
    BY <2>1, GoesOnGuarded, Zenon
<1>6. CASE PushBack(w)
  <2>1. GoesOn(w) /\ UNCHANGED <<held, status, owner, target, retried, misjudged>>
    BY <1>6, Goes, Zenon DEF PushBack, Begun, Ending, Claimed
  <2>2. \A i \in queue' : i \in queue \/ ~ Over(i)
    BY <1>6, Zenon DEF PushBack, Over, Ending, WorkerTypes
  <2> QED
    BY <2>1, <2>2, GoesOnGuarded, Zenon
<1>7. CASE Register(w)
  <2>1. Leaves(w) /\ owner' = owner
    BY <1>7, NextPollLeaves, Zenon DEF Register
  <2> QED
    BY <2>1, LeavesGuarded, Zenon
<1>8. CASE RegisterFails(w)
  <2>1. Leaves(w) /\ owner' = owner
    BY <1>8, NextPollLeaves, Zenon DEF RegisterFails, Fault
  <2> QED
    BY <2>1, LeavesGuarded, Zenon
<1> QED
  BY <1>1, <1>2, <1>3, <1>4, <1>5, <1>6, <1>7, <1>8, Zenon DEF Admits

\* The run of a job, and its release.
LEMMA RunsGuarded ==
  ASSUME WorkerTypes, RedisTypes, Employed, Judged, Backed,
         NEW w \in Workers, Runs(w)
  PROVE  Judged' /\ Backed'
<1>1. CASE Execute(w)
  <2>1. GoesOn(w) /\ UNCHANGED <<queue, held, owner, target, retried, misjudged>>
    BY <1>1, Goes, Zenon DEF Execute, Begun, Ending, Claimed
  <2>2. \A i \in Jobs : status'[i] \in {status[i], "started"}
    BY <1>1, Zenon DEF Execute, WorkerTypes, RedisTypes
  <2> QED
    BY <2>1, <2>2, GoesOnGuarded, Zenon
<1>2. CASE Done(w)
  <2>1. GoesOn(w) /\ UNCHANGED <<queue, held, owner, target, misjudged>>
    BY <1>2, Goes, Zenon DEF Done, Begun, Ending, Claimed
  <2>2. /\ retried \subseteq retried'
        /\ \A i \in Jobs : i # job[w] => status'[i] = status[i]
    BY <1>2, Zenon DEF Done, Ended, WorkerTypes, RedisTypes
  <2>3. Over(job[w])'
    BY <1>2, <2>1 DEF Done, Goto, GoesOn, Others, Over, Sole, Fresh, Ending,
       Working, Employed, WorkerTypes, RedisTypes
  <2>4. job'[w] = job[w]
    BY <2>1, Zenon DEF GoesOn
  <2> QED
    BY <2>1, <2>2, <2>3, <2>4, GoesOnGuarded, Zenon DEF Over
<1>3. CASE FreeCategory(w)
  <2>1. GoesOn(w) /\ UNCHANGED <<queue, status, owner, target, retried, misjudged>>
    BY <1>3, Goes, Zenon DEF FreeCategory, Begun, Ending, Claimed
  <2>2. \A i \in Jobs, k \in Keys : i # job[w] /\ i \in held[k] => i \in held'[k]
    BY <1>3, GovernorAssumption, Zenon DEF FreeCategory, Without, WorkerTypes,
       RedisTypes
  <2>3. Over(job[w])
    BY <1>3, Zenon DEF FreeCategory, Over, Sole, Fresh, Ending, Working,
       Employed, WorkerTypes, RedisTypes
  <2> QED
    BY <2>1, <2>2, <2>3, GoesOnGuarded, Zenon
<1>4. CASE FreeHeavy(w)
  <2>1. GoesOn(w) /\ UNCHANGED <<queue, status, owner, target, retried, misjudged>>
    BY <1>4, Goes, Zenon DEF FreeHeavy, Begun, Ending, Claimed
  <2>2. \A i \in Jobs, k \in Keys : i # job[w] /\ i \in held[k] => i \in held'[k]
    BY <1>4, GovernorAssumption, Zenon DEF FreeHeavy, Without, WorkerTypes,
       RedisTypes
  <2>3. Over(job[w])
    BY <1>4, Zenon DEF FreeHeavy, Over, Sole, Fresh, Ending, Working, Employed,
       WorkerTypes, RedisTypes
  <2> QED
    BY <2>1, <2>2, <2>3, GoesOnGuarded, Zenon
<1>5. CASE Untag(w)
  <2>1. Leaves(w)
    BY <1>5, NextPollLeaves, Zenon DEF Untag
  <2>2. \A i \in Jobs : owner'[i] \in {owner[i], None}
    BY <1>5, Zenon DEF Untag, RedisTypes
  <2> QED
    BY <2>1, <2>2, LeavesGuarded, Zenon
<1>6. CASE FreeFails(w)
  <2>1. CASE pc[w] = "free"
    <3>1. /\ GoesOn(w)
          /\ UNCHANGED <<held, queue, status, owner, target, retried, misjudged>>
      BY <1>6, <2>1, Goes, Zenon DEF FreeFails, Fault, Begun, Ending, Claimed
    <3> QED
      BY <3>1, GoesOnGuarded, Zenon
  <2>2. CASE pc[w] # "free"
    <3>1. Leaves(w) /\ owner' = owner
      BY <1>6, <2>2, NextPollLeaves, Zenon DEF FreeFails, Fault
    <3> QED
      BY <3>1, LeavesGuarded, Zenon
  <2> QED
    BY <2>1, <2>2, Zenon
<1>7. CASE Crash(w)
  <2>1. Leaves(w) /\ owner' = owner
    BY <1>7, Zenon DEF Crash, Fault, Goto, Leaves, Others, Working, WorkerTypes
  <2> QED
    BY <2>1, LeavesGuarded, Zenon
<1> QED
  BY <1>1, <1>2, <1>3, <1>4, <1>5, <1>6, <1>7, Zenon DEF Runs

\* rq queues a job that nobody knows, or queues one again that a worker had
\* started: it is retried.
LEMMA RequeuesGuarded ==
  ASSUME WorkerTypes, RedisTypes, Employed, Unseen, Judged, Backed,
         NEW j \in Jobs, Requeues(j)
  PROVE  Judged' /\ Backed'
<1>1. CASE Due(j)
  <2>1. /\ queue' = queue \union {j}
        /\ \A w \in Workers : job[w] # j
        /\ status[j] = "scheduled"
        /\ status'[j] = "queued"
        /\ \A i \in Jobs \ {j} : status'[i] = status[i]
        /\ UNCHANGED <<held, owner, pc, job, slot, target, retried, misjudged>>
    BY <1>1, Zenon DEF Due, Working, WorkerTypes, RedisTypes
  <2>2. \A i \in Jobs \ retried : Over(i) => Over(i)'
    BY <2>1, Zenon DEF Over, Ending, Again, Employed, WorkerTypes
  <2>3. Judged'
    BY <2>1, <2>2, Zenon DEF Judged, Owned, Ending, Working, WorkerTypes,
       RedisTypes
  <2>4. Backed'
    BY <2>1, Zenon DEF Backed, WorkerTypes
  <2> QED
    BY <2>3, <2>4, Zenon
<1>2. CASE Rescue(j)
  <2>1. /\ status[j] = "started"
        /\ \A w \in Workers : job[w] # j
        /\ \A i \in Jobs \ {j} : status'[i] = status[i]
        /\ retried \subseteq retried'
        /\ UNCHANGED <<queue, held, owner, pc, job, slot, target, misjudged>>
    BY <1>2, Zenon DEF Rescue, Working, WorkerTypes, RedisTypes
  <2>2. \A i \in Jobs \ retried : Over(i) => Over(i)'
    BY <2>1, Zenon DEF Over, Ending, WorkerTypes
  <2>3. Judged'
    BY <2>1, <2>2 DEF Judged, Owned, Ending, Working, Over, Fresh, Employed,
       WorkerTypes, RedisTypes
  <2>4. Backed'
    BY <2>1, Zenon DEF Backed, WorkerTypes
  <2> QED
    BY <2>3, <2>4, Zenon
<1>3. CASE Announce(j) \/ Enqueue(j)
  <2>1. /\ \A w \in Workers : target[w] # j
        /\ owner[j] = None
        /\ status'[j] \notin {"finished", "failed"}
        /\ \A i \in Jobs \ {j} : status'[i] = status[i]
        /\ queue' \subseteq queue \union {j}
        /\ UNCHANGED <<held, owner, pc, job, slot, target, retried, misjudged>>
    BY <1>3, Zenon DEF Announce, Enqueue, Unseen, In, RedisTypes
  <2>2. \A i \in Jobs \ {j} : (Over(i) => Over(i)') /\ (Owned(i) => Owned(i)')
    BY <2>1, Zenon DEF Over, Owned
  <2>3. Judged'
    BY <2>1, <2>2, Zenon DEF Judged
  <2>4. Backed'
    BY <2>1, Zenon DEF Backed
  <2> QED
    BY <2>3, <2>4, Zenon
<1> QED
  BY <1>1, <1>2, <1>3, Zenon DEF Requeues

\* A slot that is rightly judged stale is of a job that is over, and stays so; the
\* slots of the jobs that run are not dropped.
LEMMA GuardedStep ==
  ASSUME WorkerTypes, RedisTypes, Employed, Unseen, Judged, Backed, [Next]_vars
  PROVE  Judged' /\ Backed'
<1>1. CASE UNCHANGED vars
  <2>1. Idles
    BY <1>1, Zenon DEF vars, Idles
  <2> QED
    BY <2>1, IdleGuarded, Zenon
<1>2. ASSUME NEW l \in Lanes, Collects(l) PROVE Judged' /\ Backed'
  BY <1>2, CollectsIdle, IdleGuarded, Zenon DEF Collects
<1> QED
  BY <1>1, <1>2, Actions, PrunesGuarded, PollsGuarded, AdmitsGuarded,
     RunsGuarded, RequeuesGuarded, Zenon

-----------------------------------------------------------------------------
(* The theorems.                                                             *)

\* The invariant is inductive.
THEOREM Invariant == Spec => []IInv
<1>1. Init => IInv
  <2> SUFFICES ASSUME Init PROVE IInv
    BY Zenon
  <2>1. Typed
    BY GovernorAssumption DEF Init, Typed, Pruning, TypeOK, Live, Working,
       Places
  <2>2. Employed /\ Unseen
    BY GovernorAssumption, Zenon DEF Init, Employed, Unseen, In, Sole, Fresh,
       Again, Slots, Working
  <2>3. Judged /\ Backed
    BY GovernorAssumption, Zenon DEF Init, Judged, Backed
  <2>4. Capped
    BY GovernorAssumption, FS_EmptySet DEF Init, Capped
  <2>5. LaneFound /\ Announced
    BY DEF Init, LaneFound, Announced, In
  <2> QED
    BY <2>1, <2>2, <2>3, <2>4, <2>5, Zenon DEF IInv
<1>2. IInv /\ [Next]_vars => IInv'
  <2> SUFFICES ASSUME IInv, [Next]_vars PROVE IInv'
    BY Zenon
  <2>1. Typed'
    BY TypeStep, Zenon DEF IInv
  <2>2. /\ WorkerTypes /\ RedisTypes /\ lanes \subseteq Lanes
        /\ RedisTypes'
    <3>1. TypeOK /\ TypeOK'
      BY <2>1, Zenon DEF IInv, Typed
    <3>2. WorkerTypes /\ RedisTypes /\ RedisTypes'
      BY <3>1, GovernorAssumption, Zenon DEF TypeOK, WorkerTypes, RedisTypes
    <3> QED
      BY <3>1, <3>2, Zenon DEF TypeOK
  <2>3. Employed' /\ Unseen'
    BY <2>2, EmployedStep, UnseenStep, Zenon DEF IInv, Typed
  <2>4. Judged' /\ Backed'
    BY <2>2, <2>3, GuardedStep, Zenon DEF IInv
  <2>5. Capped' /\ LaneFound' /\ Announced'
    BY <2>2, CappedStep, LaneStep, Zenon DEF IInv
  <2> QED
    BY <2>1, <2>3, <2>4, <2>5, Zenon DEF IInv
<1> QED
  BY <1>1, <1>2, PTL DEF Spec

\* The types of the governor's state (Governor!TypeOK).
THEOREM TypeCorrect == Spec => []TypeOK
BY Invariant, PTL DEF IInv, Typed

\* No more jobs run on reservations of a slot set than its cap, whatever the
\* prunes free and whichever workers die: the jobs that run are in the set, and
\* the set is within its cap. Excepted are the jobs that were queued twice, and
\* those whose slot a prune freed on a failed read or because the heartbeat of a
\* live worker came too late (Governor!CapKept).
THEOREM CapIsKept == Spec => []CapKept
<1>1. IInv => CapKept
  <2> SUFFICES ASSUME IInv, NEW k \in Keys
               PROVE  Cardinality(Running(k) \ (retried \union misjudged)) <= Cap[k]
    BY Zenon DEF CapKept
  <2> DEFINE R == Running(k) \ (retried \union misjudged)
  <2>1. R \subseteq held[k]
    BY DEF IInv, Backed, Running
  <2>2. IsFiniteSet(held[k]) /\ Cardinality(held[k]) <= Cap[k] /\ Cap[k] \in Nat
    BY GovernorAssumption, FS_Subset DEF IInv, Typed, TypeOK, Capped
  <2>3. /\ Cardinality(R) \in Nat /\ Cardinality(held[k]) \in Nat
        /\ Cardinality(R) <= Cardinality(held[k])
    BY <2>1, <2>2, FS_Subset, FS_CardinalityType, Zenon
  <2> QED
    BY <2>2, <2>3
<1> QED
  BY <1>1, Invariant, PTL

\* A job on a lane is found there, or the lane is to be registered again, however
\* the collectors of the lanes interleave with the two calls of an enqueue and of
\* a push back. Excepted is a lane whose registration failed after a push back, or
\* that a starting worker collected amid an enqueue (Governor!LaneFound).
THEOREM LanesAreFound == Spec => []LaneFound
BY Invariant, PTL DEF IInv
=============================================================================
