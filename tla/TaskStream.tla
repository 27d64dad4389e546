------------------------------ MODULE TaskStream ------------------------------
(***************************************************************************)
(* The result stream between the storage workers and the change-handler:   *)
(* the Redis stream "stream:task-results", its consumer group              *)
(* "change-handler", and the consumer loop of task_results_consumer.py.    *)
(*                                                                         *)
(* Every consumer is one process start (each start takes a fresh name).    *)
(* Its loop reads a batch and settles it, sweeps the Pending Entries List  *)
(* (PEL), and trims the stream; each await between two Redis calls is a    *)
(* step boundary here, so several processes interleave as they really do.  *)
(* What _process_entry does for a chain is the subject of TaskChain; here  *)
(* it only succeeds or fails.                                              *)
(***************************************************************************)
EXTENDS Integers, FiniteSets

CONSTANTS Consumers,      \* consumer names, one per process start
          NoOne,          \* owner of an entry that is not in the PEL
          MaxEntries,     \* bound: how many entries are ever published
          MaxLen,         \* RESULT_STREAM_MAXLEN_FLOOR
          ReadCount,      \* READ_COUNT
          ReclaimBudget,  \* RECLAIM_BUDGET
          MaxDeliveries,  \* MAX_DELIVERIES
          MaxUnreadable,  \* MAX_UNREADABLE_RECLAIMS
          MaxFaults       \* bound: crashes and failed Redis calls

Ids == 1..MaxEntries

ASSUME StreamAssumption ==
  /\ NoOne \notin Consumers
  /\ MaxEntries \in Nat
  /\ MaxLen \in Nat \ {0}
  /\ ReadCount \in Nat \ {0}
  /\ ReclaimBudget \in Nat \ {0}
  /\ MaxDeliveries \in Nat \ {0}
  /\ MaxUnreadable \in Nat
  /\ MaxFaults \in Nat

VARIABLES
  \* Redis: the stream and the consumer group
  published,      \* id of the newest entry ever added
  stream,         \* ids present in the stream
  lastDelivered,  \* the group's last-delivered-id
  owner,          \* the PEL: which consumer an entry is pending for
  delivered,      \* times_delivered of a PEL entry
  idle,           \* PEL entries untouched for RECLAIM_IDLE_MS
  members,        \* consumers registered in the group
  dead,           \* entries in the dead-letter stream
  \* the consumer processes
  pc,             \* where each process is in its loop
  work,           \* entries read or claimed and not yet dispatched
  done,           \* entries to be XACKed
  cursor,         \* XAUTOCLAIM cursor of the running sweep
  budget,         \* entries the running sweep may still settle
  seen,           \* entries the running sweep has settled
  unreadable,     \* _unreadable_reclaims
  floor,          \* last-delivered-id, then trim floor, of the running trim
  doomed,         \* corpses listed and not yet dropped
  \* history
  settled,        \* entries XACKed
  handled,        \* entries some dispatch of which succeeded
  attempts,       \* dispatches decided on with the delivery count known
  evicted,        \* entries dropped by the producer's MAXLEN
  faults          \* crashes and failed calls so far

redisVars == <<published, stream, lastDelivered, owner, delivered, idle,
               members, dead>>
procVars  == <<pc, work, done, cursor, budget, seen, unreadable, floor, doomed>>
histVars  == <<settled, handled, attempts, evicted, faults>>
vars      == <<redisVars, procVars, histVars>>

Pending == {e \in Ids : owner[e] # NoOne}
Unread  == {e \in stream : e > lastDelivered}

\* The first n members of a set of ids, in stream order.
Earliest(S, n) == {e \in S : Cardinality({x \in S : x < e}) < n}

IsLeast(e, S) == e \in S /\ \A x \in S : e <= x
IsGreatest(e, S) == e \in S /\ \A x \in S : x <= e

Running == {"loop", "settle", "claim", "check", "redo", "bury", "reap",
            "drop", "trim", "xtrim"}
Places == Running \union {"down", "crashed", "silent"}

TypeOK ==
  /\ published \in 0..MaxEntries
  /\ stream \subseteq 1..published
  /\ lastDelivered \in 0..published
  /\ owner \in [Ids -> Consumers \union {NoOne}]
  /\ delivered \in [Ids -> Nat]
  /\ idle \subseteq Ids
  /\ members \subseteq Consumers
  /\ dead \subseteq Ids
  /\ pc \in [Consumers -> Places]
  /\ work \in [Consumers -> SUBSET Ids]
  /\ done \in [Consumers -> SUBSET Ids]
  /\ cursor \in [Consumers -> 0..MaxEntries]
  /\ budget \in [Consumers -> Int]
  /\ seen \in [Consumers -> SUBSET Ids]
  /\ unreadable \in [Consumers -> [Ids -> Nat]]
  /\ floor \in [Consumers -> 0..MaxEntries]
  /\ doomed \in [Consumers -> SUBSET Consumers]
  /\ settled \subseteq Ids
  /\ handled \subseteq Ids
  /\ attempts \in [Ids -> Nat]
  /\ evicted \subseteq Ids
  /\ faults \in 0..MaxFaults

Init ==
  /\ published = 0
  /\ stream = {}
  /\ lastDelivered = 0
  /\ owner = [e \in Ids |-> NoOne]
  /\ delivered = [e \in Ids |-> 0]
  /\ idle = {}
  /\ members = {}
  /\ dead = {}
  /\ pc = [c \in Consumers |-> "down"]
  /\ work = [c \in Consumers |-> {}]
  /\ done = [c \in Consumers |-> {}]
  /\ cursor = [c \in Consumers |-> 0]
  /\ budget = [c \in Consumers |-> 0]
  /\ seen = [c \in Consumers |-> {}]
  /\ unreadable = [c \in Consumers |-> [e \in Ids |-> 0]]
  /\ floor = [c \in Consumers |-> 0]
  /\ doomed = [c \in Consumers |-> {}]
  /\ settled = {}
  /\ handled = {}
  /\ attempts = [e \in Ids |-> 0]
  /\ evicted = {}
  /\ faults = 0

Fault == faults < MaxFaults /\ faults' = faults + 1

-----------------------------------------------------------------------------
(* Redis as the other processes see it.                                      *)

\* A worker or Task.cancel XADDs an entry with an approximate MAXLEN: Redis
\* drops a prefix, and never goes below MaxLen entries.
Publish ==
  /\ published < MaxEntries
  /\ published' = published + 1
  /\ \E cut \in 0..published :
       LET kept == {e \in stream : e > cut} \union {published + 1}
           cutOff == {e \in stream : e <= cut}
       IN  /\ cutOff # {} => Cardinality(kept) >= MaxLen
           /\ stream' = kept
           /\ evicted' = evicted \union (cutOff \ settled)
  /\ UNCHANGED <<lastDelivered, owner, delivered, idle, members, dead,
                 procVars, settled, handled, attempts, faults>>

\* RECLAIM_IDLE_MS pass without the entry being delivered or claimed. The
\* process that holds it may be dead, or its handler merely slow.
GrowIdle(e) ==
  /\ e \in Pending \ idle
  /\ idle' = idle \union {e}
  /\ UNCHANGED <<published, stream, lastDelivered, owner, delivered, members,
                 dead, procVars, histVars>>

\* DEAD_CONSUMER_IDLE_MS pass after a crash: XINFO CONSUMERS reports it idle.
GoSilent(c) ==
  /\ pc[c] = "crashed"
  /\ pc' = [pc EXCEPT ![c] = "silent"]
  /\ UNCHANGED <<redisVars, work, done, cursor, budget, seen, unreadable,
                 floor, doomed, histVars>>

\* XREADGROUP and XAUTOCLAIM hand entries to a consumer.
Deliver(S, c) ==
  /\ owner' = [e \in Ids |-> IF e \in S THEN c ELSE owner[e]]
  /\ delivered' = [e \in Ids |-> IF e \in S THEN delivered[e] + 1
                                            ELSE delivered[e]]
  /\ idle' = idle \ S

-----------------------------------------------------------------------------
(* The process: start, crash, _reap_dead_consumers.                          *)

\* Mutant: what is pending for a corpse is not looked at.
ReapableAny(c) == {d \in members \ {c} : pc[d] = "silent"}

\* Consumers whose corpse may be dropped: silent for hours, nothing pending.
Reapable(c) ==
  {d \in members \ {c} : pc[d] = "silent" /\ \A e \in Ids : owner[e] # d}

\* Mutant: corpses are reaped at startup only.
ReapDeadConsumersAtStartOnly(c) ==
  /\ pc[c] \in {"down", "reap"}
  /\ doomed' = [doomed EXCEPT ![c] = IF pc[c] = "down" THEN Reapable(c) ELSE {}]
  /\ pc' = [pc EXCEPT ![c] = "drop"]
  /\ UNCHANGED <<redisVars, work, done, cursor, budget, seen, unreadable, floor,
                 histVars>>

\* XINFO CONSUMERS, when run() starts (the group exists then, created from id 0)
\* and after every sweep.
ReapDeadConsumers(c) ==
  /\ pc[c] \in {"down", "reap"}
  /\ doomed' = [doomed EXCEPT ![c] = Reapable(c)]
  /\ pc' = [pc EXCEPT ![c] = "drop"]
  /\ UNCHANGED <<redisVars, work, done, cursor, budget, seen, unreadable, floor,
                 histVars>>

\* XGROUP DELCONSUMER, one by one, by what the list said: it forgets the consumer
\* and whatever is pending for it by then.
DelConsumer(c, d) ==
  /\ pc[c] = "drop" /\ d \in doomed[c]
  /\ doomed' = [doomed EXCEPT ![c] = @ \ {d}]
  /\ members' = members \ {d}
  /\ owner' = [e \in Ids |-> IF owner[e] = d THEN NoOne ELSE owner[e]]
  /\ UNCHANGED <<published, stream, lastDelivered, delivered, idle, dead, pc,
                 work, done, cursor, budget, seen, unreadable, floor,
                 histVars>>

\* The inner loop, whose first XREADGROUP registers the fresh name.
Loop(c) ==
  /\ pc' = [pc EXCEPT ![c] = "loop"]
  /\ doomed' = [doomed EXCEPT ![c] = {}]
  /\ members' = members \union {c}
  /\ UNCHANGED <<published, stream, lastDelivered, owner, delivered, idle,
                 dead, work, done, cursor, budget, seen, unreadable, floor,
                 settled, handled, attempts, evicted>>

Reaped(c) == pc[c] = "drop" /\ doomed[c] = {} /\ Loop(c) /\ faults' = faults

\* Either call raises: logged, and the rest of the corpses left for the next time.
ReapLost(c) == pc[c] \in {"down", "reap", "drop"} /\ Fault /\ Loop(c)

\* The process dies: everything it held in memory is gone.
Crash(c) ==
  /\ pc[c] \in Running
  /\ Fault
  /\ pc' = [pc EXCEPT ![c] = "crashed"]
  /\ work' = [work EXCEPT ![c] = {}]
  /\ done' = [done EXCEPT ![c] = {}]
  /\ cursor' = [cursor EXCEPT ![c] = 0]
  /\ budget' = [budget EXCEPT ![c] = 0]
  /\ seen' = [seen EXCEPT ![c] = {}]
  /\ unreadable' = [unreadable EXCEPT ![c] = [e \in Ids |-> 0]]
  /\ floor' = [floor EXCEPT ![c] = 0]
  /\ doomed' = [doomed EXCEPT ![c] = {}]
  /\ UNCHANGED <<redisVars, settled, handled, attempts, evicted>>

-----------------------------------------------------------------------------
(* _read_and_dispatch.                                                       *)

\* XREADGROUP ">": the next ReadCount unread entries become pending. The
\* server does that even when the answer never reaches the client.
XReadGroup(c, answered) ==
  LET batch == Earliest(Unread, ReadCount) IN
  /\ pc[c] = "loop"
  /\ \E top \in Ids : IsGreatest(top, batch) /\ lastDelivered' = top
  /\ Deliver(batch, c)
  /\ IF answered
     THEN /\ pc' = [pc EXCEPT ![c] = "settle"]
          /\ work' = [work EXCEPT ![c] = batch]
          /\ faults' = faults
     ELSE Fault /\ UNCHANGED <<pc, work>>
  /\ UNCHANGED <<published, stream, members, dead, done, cursor, budget, seen,
                 unreadable, floor, doomed, settled, handled, attempts,
                 evicted>>

Read(c) == XReadGroup(c, TRUE)

\* RedisTimeoutError: the socket deadline passed, the entries stay pending.
ReadLost(c) == XReadGroup(c, FALSE)

\* _process_entry of one entry, in the gathered batch (any order) or in the
\* sweep (one at a time). It may fail every time it is tried.
ProcessEntry(c, e) ==
  /\ \/ pc[c] = "settle" /\ e \in work[c]
     \/ pc[c] = "redo" /\ IsLeast(e, work[c])
  /\ work' = [work EXCEPT ![c] = @ \ {e}]
  /\ \/ /\ done' = [done EXCEPT ![c] = @ \union {e}]
        /\ handled' = handled \union {e}
        /\ unreadable' = [unreadable EXCEPT ![c][e] =
                            IF pc[c] = "redo" THEN 0 ELSE @]
     \/ UNCHANGED <<done, handled, unreadable>>
  /\ pc' = [pc EXCEPT ![c] = IF @ = "redo" THEN "check" ELSE @]
  /\ attempts' = [attempts EXCEPT ![e] = IF pc[c] = "settle" THEN @ + 1 ELSE @]
  /\ UNCHANGED <<redisVars, cursor, budget, seen, floor, doomed, settled,
                 evicted, faults>>

\* XACK removes the entry from the PEL whoever it is pending for.
Ack(c, e) ==
  /\ e \in done[c]
  /\ done' = [done EXCEPT ![c] = @ \ {e}]
  /\ owner' = [owner EXCEPT ![e] = NoOne]
  /\ idle' = idle \ {e}
  /\ settled' = settled \union {e}
  /\ UNCHANGED <<published, stream, lastDelivered, delivered, members, dead,
                 pc, work, cursor, budget, seen, unreadable, floor, doomed,
                 handled, attempts, evicted, faults>>

\* _ack swallows a failing XACK: the entry stays in the PEL.
AckLost(c, e) ==
  /\ e \in done[c]
  /\ Fault
  /\ done' = [done EXCEPT ![c] = @ \ {e}]
  /\ UNCHANGED <<redisVars, pc, work, cursor, budget, seen, unreadable, floor,
                 doomed, settled, handled, attempts, evicted>>

\* Every entry of the batch has been dispatched and answered.
BatchSettled(c) ==
  /\ pc[c] = "settle" /\ work[c] = {} /\ done[c] = {}
  /\ pc' = [pc EXCEPT ![c] = "loop"]
  /\ UNCHANGED <<redisVars, work, done, cursor, budget, seen, unreadable,
                 floor, doomed, histVars>>

-----------------------------------------------------------------------------
(* _reclaim_pending, _autoclaim_pages, _settle_reclaimed, _dead_letter.      *)

\* RECLAIM_EVERY_S have passed: a sweep starts at the head of the PEL.
StartReclaim(c) ==
  /\ pc[c] = "loop"
  /\ pc' = [pc EXCEPT ![c] = "claim"]
  /\ budget' = [budget EXCEPT ![c] = ReclaimBudget]
  /\ UNCHANGED <<redisVars, work, done, cursor, seen, unreadable, floor, doomed,
                 histVars>>

\* Mutant: only what is pending for the sweeping consumer itself.
PageOfOwn(c) ==
  Earliest({e \in idle : owner[e] = c /\ e >= cursor[c]},
           IF ReadCount < budget[c] THEN ReadCount ELSE budget[c])

\* The first entries of the PEL, from the cursor on, that XAUTOCLAIM takes:
\* those idle long enough, and those whose data is no longer in the stream.
Page(c) ==
  Earliest({e \in Pending : e >= cursor[c] /\ (e \in idle \/ e \notin stream)},
           IF ReadCount < budget[c] THEN ReadCount ELSE budget[c])

\* One XAUTOCLAIM: live entries change owner, entries without data leave the
\* PEL. An unanswered call ends the sweep.
XAutoClaim(c, answered) ==
  LET page  == Page(c)
      claim == page \intersect stream
      rest  == {e \in Pending : \A x \in page : x < e}
  IN
  /\ pc[c] = "claim"
  /\ owner' = [e \in Ids |-> IF e \in claim THEN c
                             ELSE IF e \in page THEN NoOne ELSE owner[e]]
  /\ delivered' = [e \in Ids |-> IF e \in claim THEN delivered[e] + 1
                                                ELSE delivered[e]]
  /\ idle' = idle \ page
  /\ settled' = settled \union (page \ claim)
  /\ pc' = [pc EXCEPT ![c] = "check"]
  /\ IF answered
     THEN /\ work' = [work EXCEPT ![c] = claim]
          /\ seen' = [seen EXCEPT ![c] = @ \union claim]
          /\ budget' = [budget EXCEPT ![c] = @ - Cardinality(claim)]
          /\ \/ claim # {} /\ \E e \in rest :
                  IsLeast(e, rest) /\ cursor' = [cursor EXCEPT ![c] = e]
             \/ (claim = {} \/ rest = {}) /\ cursor' = [cursor EXCEPT ![c] = 0]
          /\ faults' = faults
     ELSE Fault /\ cursor' = [cursor EXCEPT ![c] = 0]
                /\ UNCHANGED <<work, seen, budget>>
  /\ UNCHANGED <<published, stream, lastDelivered, members, dead, done,
                 unreadable, floor, doomed, handled, attempts, evicted>>

Claim(c) == XAutoClaim(c, TRUE)
ClaimLost(c) == XAutoClaim(c, FALSE)

\* Mutants: the claim itself is not counted, or is counted twice.
CountedBeforeClaim(e) == delivered[e] - 1
CountedTwice(e) == delivered[e] + 1

\* The least entry of the page, its count read: 0 once it left the PEL.
Counted(e) == IF owner[e] = NoOne THEN 0 ELSE delivered[e]

\* XPENDING answered: dispatch again, or give up after MAX_DELIVERIES.
CheckReadable(c, e) ==
  /\ pc[c] = "check" /\ IsLeast(e, work[c]) /\ done[c] = {}
  /\ unreadable' = [unreadable EXCEPT ![c][e] = 0]
  /\ IF Counted(e) > MaxDeliveries
     THEN pc' = [pc EXCEPT ![c] = "bury"] /\ UNCHANGED attempts
     ELSE /\ pc' = [pc EXCEPT ![c] = "redo"]
          /\ attempts' = [attempts EXCEPT ![e] = @ + 1]
  /\ UNCHANGED <<redisVars, work, done, cursor, budget, seen, floor, doomed,
                 settled, handled, evicted, faults>>

\* XPENDING raised: count the sweep instead, give up after
\* MAX_UNREADABLE_RECLAIMS of them.
CheckUnreadable(c, e) ==
  LET passes == unreadable[c][e] + 1 IN
  /\ pc[c] = "check" /\ IsLeast(e, work[c]) /\ done[c] = {}
  /\ Fault
  /\ IF passes > MaxUnreadable
     THEN /\ unreadable' = [unreadable EXCEPT ![c][e] = 0]
          /\ pc' = [pc EXCEPT ![c] = "bury"]
     ELSE /\ unreadable' = [unreadable EXCEPT ![c][e] = passes]
          /\ pc' = [pc EXCEPT ![c] = "redo"]
  /\ UNCHANGED <<redisVars, work, done, cursor, budget, seen, floor, doomed,
                 settled, handled, attempts, evicted>>

\* XADD to the dead-letter stream; the XACK follows.
DeadLetter(c, e) ==
  /\ pc[c] = "bury" /\ IsLeast(e, work[c])
  /\ dead' = dead \union {e}
  /\ done' = [done EXCEPT ![c] = @ \union {e}]
  /\ work' = [work EXCEPT ![c] = @ \ {e}]
  /\ pc' = [pc EXCEPT ![c] = "check"]
  /\ UNCHANGED <<published, stream, lastDelivered, owner, delivered, idle,
                 members, cursor, budget, seen, unreadable, floor, doomed,
                 histVars>>

\* Mutant: the XACK is sent although the XADD raised.
DeadLetterLostAcked(c, e) ==
  /\ pc[c] = "bury" /\ IsLeast(e, work[c])
  /\ Fault
  /\ done' = [done EXCEPT ![c] = @ \union {e}]
  /\ work' = [work EXCEPT ![c] = @ \ {e}]
  /\ pc' = [pc EXCEPT ![c] = "check"]
  /\ UNCHANGED <<redisVars, cursor, budget, seen, unreadable, floor, doomed,
                 settled, handled, attempts, evicted>>

\* The XADD raised, done or not by the server: no XACK.
DeadLetterLost(c, e) ==
  /\ pc[c] = "bury" /\ IsLeast(e, work[c])
  /\ Fault
  /\ \/ dead' = dead \union {e}
     \/ dead' = dead
  /\ work' = [work EXCEPT ![c] = @ \ {e}]
  /\ pc' = [pc EXCEPT ![c] = "check"]
  /\ UNCHANGED <<published, stream, lastDelivered, owner, delivered, idle,
                 members, done, cursor, budget, seen, unreadable, floor,
                 doomed, settled, handled, attempts, evicted>>

PageSettled(c) == pc[c] = "check" /\ work[c] = {} /\ done[c] = {}

\* The cursor goes on and the budget is not spent: another page.
NextPage(c) ==
  /\ PageSettled(c)
  /\ cursor[c] # 0 /\ budget[c] > 0
  /\ pc' = [pc EXCEPT ![c] = "claim"]
  /\ UNCHANGED <<redisVars, work, done, cursor, budget, seen, unreadable,
                 floor, doomed, histVars>>

\* The sweep ends: the counts of the entries it did not see are forgotten.
EndReclaim(c) ==
  /\ PageSettled(c)
  /\ cursor[c] = 0 \/ budget[c] <= 0
  /\ unreadable' = [unreadable EXCEPT ![c] =
                      [e \in Ids |-> IF e \in seen[c] THEN @[e] ELSE 0]]
  /\ seen' = [seen EXCEPT ![c] = {}]
  /\ cursor' = [cursor EXCEPT ![c] = 0]
  /\ budget' = [budget EXCEPT ![c] = 0]
  /\ pc' = [pc EXCEPT ![c] = "reap"]
  /\ UNCHANGED <<redisVars, work, done, floor, doomed, histVars>>

-----------------------------------------------------------------------------
(* _trim_to_frontier: three calls, in this order.                            *)

\* Mutant: the stream's last id is taken for the group's.
ReadFrontierOfStream(c) ==
  /\ pc[c] = "loop"
  /\ floor' = [floor EXCEPT ![c] = published]
  /\ pc' = [pc EXCEPT ![c] = "trim"]
  /\ UNCHANGED <<redisVars, work, done, cursor, budget, seen, unreadable,
                 doomed, histVars>>

\* XINFO GROUPS: remember the read frontier.
ReadFrontier(c) ==
  /\ pc[c] = "loop"
  /\ floor' = [floor EXCEPT ![c] = lastDelivered]
  /\ pc' = [pc EXCEPT ![c] = "trim"]
  /\ UNCHANGED <<redisVars, work, done, cursor, budget, seen, unreadable,
                 doomed, histVars>>

\* Mutants: the PEL is ignored; the frontier entry itself is trimmed too.
ComputeTrimFloorNoPel(ld, mp) == ld
ComputeTrimFloorPast(ld, mp) == IF mp # 0 THEN mp ELSE ld + 1

\* compute_trim_floor: the earlier of the read frontier and the oldest pending
\* entry, whichever there is when there is only one; 0 stands for None.
ComputeTrimFloor(ld, mp) ==
  IF mp # 0 /\ (ld = 0 \/ mp <= ld) THEN mp ELSE ld

\* XPENDING (summary form) and compute_trim_floor.
ReadPending(c) ==
  /\ pc[c] = "trim"
  /\ \E mp \in 0..MaxEntries :
       /\ IsLeast(mp, Pending) \/ (Pending = {} /\ mp = 0)
       /\ floor' = [floor EXCEPT ![c] = ComputeTrimFloor(@, mp)]
  /\ pc' = [pc EXCEPT ![c] = "xtrim"]
  /\ UNCHANGED <<redisVars, work, done, cursor, budget, seen, unreadable,
                 doomed, histVars>>

\* XTRIM MINID floor, approximate: drops some prefix below the floor.
XTrim(c) ==
  /\ pc[c] = "xtrim"
  /\ \E cut \in 0..MaxEntries :
       /\ cut <= floor[c]
       /\ stream' = {e \in stream : e >= cut}
  /\ floor' = [floor EXCEPT ![c] = 0]
  /\ pc' = [pc EXCEPT ![c] = "loop"]
  /\ UNCHANGED <<published, lastDelivered, owner, delivered, idle, members,
                 dead, work, done, cursor, budget, seen, unreadable, doomed,
                 histVars>>

-----------------------------------------------------------------------------
Sweep(c) ==
  \/ Claim(c) \/ NextPage(c) \/ EndReclaim(c)
  \/ \E e \in Ids : CheckReadable(c, e) \/ DeadLetter(c, e)

Faulty(c) ==
  \/ Crash(c) \/ ReadLost(c) \/ ClaimLost(c) \/ ReapLost(c)
  \/ \E e \in Ids : AckLost(c, e) \/ CheckUnreadable(c, e)
                                  \/ DeadLetterLost(c, e)

Reap(c) ==
  \/ ReapDeadConsumers(c) \/ Reaped(c)
  \/ \E d \in Consumers : DelConsumer(c, d)

Work(c) ==
  \/ Reap(c) \/ Read(c) \/ BatchSettled(c)
  \/ \E e \in Ids : ProcessEntry(c, e) \/ Ack(c, e)
  \/ ReadPending(c) \/ XTrim(c)
  \/ Sweep(c)

Next ==
  \/ Publish
  \/ \E e \in Ids : GrowIdle(e)
  \/ \E c \in Consumers : \/ Work(c) \/ StartReclaim(c) \/ ReadFrontier(c)
                          \/ GoSilent(c) \/ Faulty(c)

Spec == Init /\ [][Next]_vars

\* The event loop never stops (Work), monotonic time passes (GrowIdle,
\* GoSilent), every iteration begins with an XREADGROUP (Read), and the loop
\* finds RECLAIM_EVERY_S elapsed again and again, although only at its top
\* (StartReclaim).
Fairness ==
  /\ \A c \in Consumers : /\ WF_vars(Work(c)) /\ WF_vars(GoSilent(c))
                           /\ SF_vars(Read(c)) /\ SF_vars(StartReclaim(c))
  /\ \A e \in Ids : WF_vars(GrowIdle(e))

FairSpec == Spec /\ Fairness

-----------------------------------------------------------------------------
(* Properties.                                                               *)

\* An entry that was not dropped by the producer's MAXLEN and not XACKed is
\* still readable: either unread, or in the PEL with its data in the stream.
\* _trim_to_frontier says an unread or un-ACKed result is never trimmed, and
\* _reap_dead_consumers that no entry is lost when a consumer is dropped.
NothingLost ==
  \A e \in 1..published :
    \/ e \in settled \union evicted
    \/ e \in stream /\ (e > lastDelivered \/ e \in Pending)

\* Entries that a consumer will still get: in the stream, and unread or pending.
Waiting == {e \in stream : e > lastDelivered \/ e \in Pending}

Promised == INSTANCE Delivery WITH inbox <- Waiting

\* The stream, its group and all the consumer loops together implement the
\* abstract Delivery: no read, sweep, reap, trim, crash or lost answer takes a
\* result away from the consumers; only the XACK of a result that was handled
\* or dead-lettered does, and the producer's MAXLEN, which spares the newest.
Implements == Promised!Spec

\* What makes NothingLost inductive. Pending entries have been read. Between
\* its three calls a trim remembers a frontier that can only have advanced,
\* and then a floor below which everything is XACKed or dropped for good.
TrimSafe ==
  /\ \A e \in Pending : e <= lastDelivered
  /\ \A c \in Consumers :
       /\ pc[c] \in {"trim", "xtrim"} => floor[c] <= lastDelivered
       /\ pc[c] = "xtrim" =>
            \A e \in 1..published : e < floor[c] => e \in settled \union evicted

\* An XACK is only sent for an entry whose dispatch succeeded, that is in the
\* dead-letter stream, or whose data the MAXLEN had dropped: whatever crashes
\* or call failures intervene, no failed result is dropped silently.
AckedIsDone == settled \subseteq handled \union dead \union evicted

\* An entry still in the PEL was dispatched at most MAX_DELIVERIES times with
\* its delivery count known, over all processes and restarts: a poison entry
\* never loops. (After its XACK a process that claimed it before may dispatch
\* it once more: _delivery_count then answers 0.)
PoisonBounded == \A e \in Ids \ settled : attempts[e] <= MaxDeliveries

\* An entry is dead-lettered only after it was delivered more often than one
\* of the two limits asks for: crashes of other consumers, and count reads
\* that fail, do not make the loop give up early.
GivenUpLate ==
  \A e \in dead : \/ delivered[e] > MaxDeliveries
                  \/ delivered[e] > MaxUnreadable + 1

\* Every published result is eventually XACKed, poison or not, unless the
\* MAXLEN drops it: no PEL entry stays behind a dead process for ever.
EventuallySettled ==
  \A e \in Ids : (e <= published) ~> (e \in settled \union evicted)

\* A process that died is eventually removed from the consumer group, so that
\* the group's size counts live consumers (_reap_dead_consumers).
CorpsesReaped ==
  \A c \in Consumers : (pc[c] = "silent") ~> (c \notin members)

=============================================================================
