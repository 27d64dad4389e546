------------------------------ MODULE TaskChain -------------------------------
(***************************************************************************)
(* A chain of storage tasks and its finalize steps: the rq jobs that the   *)
(* storage workers run, the metadata steps (CoreStep) that the             *)
(* change-handler runs when a job's result arrives (_process_entry), and   *)
(* Task.cancel and the orphan pass of the reconciler beside them.          *)
(*                                                                         *)
(* A step hangs off a job, or off another step. Its mark is kept in the    *)
(* meta of an rq job, its anchor, which is read and written back as one    *)
(* blob. A step may carry a storage job (a knot child) that is created     *)
(* only when the step has run; on a dead chain that child is never made    *)
(* and its own steps are run from a view kept in the carrier's anchor.     *)
(*                                                                         *)
(* The result stream is abstracted to the set of entries that are not      *)
(* acknowledged: TaskStream shows that such an entry is dispatched again.  *)
(*                                                                         *)
(* One change-handler process runs at a time: the anchor locks live in its *)
(* memory (_anchor_locks), and the deployment starts one container of it   *)
(* under a fixed name (docker-compose-parts/change-handler.yml:4). A       *)
(* second process beside it would not see these locks; see LockFree.       *)
(***************************************************************************)
EXTENDS Integers, FiniteSets

CONSTANTS
  Jobs,         \* job ids, as numbers: their order is that of the lock keys
  Steps,
  None,
  Up,           \* Up[j]: the job that j depends on, or None
  Carrier,      \* Carrier[j]: the step that carries j as a knot child, or None
  Under,        \* Under[s]: the job or the step that s waits on
  Of,           \* Of[s]: the job that s hangs off, through the steps above it
  Dispatches,   \* concurrent _process_entry calls of the change-handler
  Cancels,      \* processes that may run Task.cancel
  MaxCancels,   \* bound: cancels requested by users
  MaxFaults     \* bound: failures and crashes

\* What j waits on, as meta["dependency_ids"] has it.
Dep(j) == IF Carrier[j] = None THEN Up[j] ELSE Of[Carrier[j]]

ASSUME ChainAssumption ==
  /\ Jobs \subseteq Nat /\ IsFiniteSet(Jobs)
  /\ None \notin Jobs \union Steps /\ Jobs \intersect Steps = {}
  /\ Up \in [Jobs -> Jobs \union {None}]
  /\ Carrier \in [Jobs -> Steps \union {None}]
  /\ Under \in [Steps -> Jobs \union Steps]
  /\ Of \in [Steps -> Jobs]
  /\ \A s \in Steps : Of[s] = IF Under[s] \in Jobs THEN Under[s] ELSE Of[Under[s]]
  /\ \A j \in Jobs : Carrier[j] # None => /\ Up[j] = None
                                          /\ Carrier[Of[Carrier[j]]] = None
  /\ \A j, k \in Jobs : Carrier[j] = Carrier[k] /\ Carrier[j] # None => j = k
  /\ MaxCancels \in Nat /\ MaxFaults \in Nat

VARIABLES
  status,     \* rq status of each job; "absent": not created
  record,     \* jobs that carry isard_canceled_at
  running,    \* jobs a worker has dequeued and not finished
  meta,       \* meta[j][s]: the mark of s in the meta of job j
  blob,       \* the copy of a job's meta that its worker holds
  entries,    \* result stream entries not yet acknowledged
  disp,       \* the dispatches
  sweep,      \* the cancels
  cancels, faults,
  \* history
  worked,     \* jobs whose body completed
  body,       \* the branch a step's handler last completed with
  made,       \* how often a knot child was put on its queue
  buried,     \* steps whose handler ran for a child that was never built
  settled     \* steps walked by an acknowledged dispatch of a live or dead chain

rqVars   == <<status, record, running, meta, blob>>
histVars == <<worked, body, made, buried, settled>>
vars     == <<rqVars, entries, disp, sweep, cancels, faults, histVars>>

Terminal == {"finished", "failed", "canceled"}
Marks == {"absent", "unstamped", "finished", "failed"}

Entry == [kind : {"result", "canceled"}, job : Jobs,
          outcome : {"finished", "failed", "canceled"}, no : 0..MaxCancels]
NoEntry == [kind |-> "none", job |-> None, outcome |-> "none", no |-> 0]

\* What a dispatch holds between its awaits.
Idle == [pc |-> "free", entry |-> NoEntry, canceled |-> FALSE, want |-> {},
         held |-> {}, retaken |-> FALSE, view |-> [j \in Jobs |-> [s \in Steps |-> "absent"]],
         walk |-> {}, todo |-> {}, cur |-> None, ran |-> TRUE, anchors |-> {},
         ok |-> TRUE]

NoSweep == [stage |-> "idle", left |-> {}, job |-> None, roots |-> {}, no |-> 0]

DispatchState ==
  [pc : {"free", "peek", "put", "discover", "lock", "steps", "mark",
         "knot", "fill", "enqueue"},
   entry : Entry \union {NoEntry}, canceled : BOOLEAN, want : SUBSET Jobs,
   held : SUBSET Jobs, retaken : BOOLEAN, view : [Jobs -> [Steps -> Marks]],
   walk : SUBSET Steps, todo : SUBSET Steps, cur : Steps \union {None},
   ran : BOOLEAN, anchors : SUBSET Jobs, ok : BOOLEAN]
SweepState ==
  [stage : {"idle", "next", "apply", "stamp"}, left : SUBSET Jobs,
   job : Jobs \union {None}, roots : SUBSET Jobs, no : 0..MaxCancels]

TypeOK ==
  /\ status \in [Jobs -> Terminal \union {"absent", "created", "deferred", "queued",
                                          "started"}]
  /\ record \subseteq Jobs /\ running \subseteq Jobs
  /\ meta \in [Jobs -> [Steps -> Marks]] /\ blob \in [Jobs -> [Steps -> Marks]]
  /\ entries \subseteq Entry
  /\ disp \in [Dispatches -> DispatchState]
  /\ sweep \in [Cancels -> SweepState]
  /\ cancels \in 0..MaxCancels /\ faults \in 0..MaxFaults
  /\ worked \subseteq Jobs
  /\ body \in [Steps -> {"none", "success", "failure"}]
  /\ made \in [Jobs -> Nat]
  /\ buried \subseteq Steps /\ settled \subseteq Steps \X {"live", "dead"}

\* The meta of a job as the Task constructor writes it: its own steps, unrun.
Fresh(j) == [s \in Steps |-> IF Of[s] = j THEN "unstamped" ELSE "absent"]
Empty == [s \in Steps |-> "absent"]

\* Task(...): the root is queued, its storage dependents are deferred, the knot
\* children are only declared.
Init ==
  /\ status = [j \in Jobs |-> IF Carrier[j] # None THEN "absent"
                              ELSE IF Up[j] = None THEN "queued" ELSE "deferred"]
  /\ record = {} /\ running = {}
  /\ meta = [j \in Jobs |-> IF Carrier[j] # None THEN Empty ELSE Fresh(j)]
  /\ blob = [j \in Jobs |-> Empty]
  /\ entries = {}
  /\ disp = [d \in Dispatches |-> Idle]
  /\ sweep = [x \in Cancels |-> NoSweep]
  /\ cancels = 0 /\ faults = 0
  /\ worked = {} /\ body = [s \in Steps |-> "none"]
  /\ made = [j \in Jobs |-> 0] /\ buried = {} /\ settled = {}

Fault == faults < MaxFaults /\ faults' = faults + 1
-----------------------------------------------------------------------------
(* The storage workers (rq 2.10 with ResultJob as the job class)             *)

\* A worker takes a queued job, and with it a copy of its meta.
Dequeue(j) ==
  /\ status[j] = "queued"
  /\ status' = [status EXCEPT ![j] = "started"]
  /\ running' = running \union {j}
  /\ blob' = [blob EXCEPT ![j] = meta[j]]
  /\ UNCHANGED <<record, meta, entries, disp, sweep, cancels, faults, histVars>>

\* run_with_progress: job.meta["progress"] = pct; job.save_meta(). The blob that
\* is written is the worker's own, as old as its dequeue.
SaveProgress(j) ==
  /\ j \in running /\ meta[j] # blob[j]
  /\ meta' = [meta EXCEPT ![j] = blob[j]]
  /\ UNCHANGED <<status, record, running, blob, entries, disp, sweep, cancels, faults, histVars>>

\* What rq releases with the success of j: nothing when j reads canceled.
Released(j) == IF status[j] = "canceled" THEN {}
               ELSE {i \in Jobs : status[i] = "deferred" /\ Up[i] = j}

\* As WorkerDone, with the event published for the status read before it.
WorkerDoneStale(j, outcome) ==
  /\ j \in running
  /\ running' = running \ {j}
  /\ blob' = [blob EXCEPT ![j] = Empty]
  /\ entries' = entries \union {[kind |-> "result", job |-> j, outcome |-> status[j], no |-> 0]}
  /\ status' = [i \in Jobs |-> IF i = j THEN outcome
                               ELSE IF outcome = "finished" /\ i \in Released(j)
                               THEN "queued" ELSE status[i]]
  /\ worked' = IF outcome = "finished" THEN worked \union {j} ELSE worked
  /\ UNCHANGED <<record, meta, disp, sweep, cancels, faults, body, made, buried, settled>>

\* ResultJob: the final status and the result event are one transaction. The
\* success of a job that was canceled while it ran rewrites its status.
WorkerDone(j, outcome) ==
  /\ j \in running
  /\ running' = running \ {j}
  /\ blob' = [blob EXCEPT ![j] = Empty]
  /\ entries' = entries \union {[kind |-> "result", job |-> j, outcome |-> outcome, no |-> 0]}
  /\ status' = [i \in Jobs |-> IF i = j THEN outcome
                               ELSE IF outcome = "finished" /\ i \in Released(j)
                               THEN "queued" ELSE status[i]]
  /\ worked' = IF outcome = "finished" THEN worked \union {j} ELSE worked
  /\ UNCHANGED <<record, meta, disp, sweep, cancels, faults, body, made, buried, settled>>

-----------------------------------------------------------------------------
(* Task.cancel                                                               *)

\* _chain_closure and _closure_roots: the members that exist.
Begun(n) == LET closure == {j \in Jobs : status[j] # "absent"}
            IN  [NoSweep EXCEPT !.stage = "next", !.left = closure, !.no = n,
                                !.roots = {j \in closure : Dep(j) \notin closure}]

\* A user cancels the chain.
BeginCancel(x) ==
  /\ sweep[x].stage = "idle" /\ cancels < MaxCancels
  /\ cancels' = cancels + 1
  /\ sweep' = [sweep EXCEPT ![x] = Begun(cancels + 1)]
  /\ UNCHANGED <<rqVars, entries, disp, faults, histVars>>

\* _closure_leaves_first: a member comes after its own dependents.
IsLeaf(x, j) == j \in sweep[x].left /\ \A i \in sweep[x].left : Dep(i) # j

\* A member that reads terminal keeps its history.
CancelRead(x, j) ==
  /\ sweep[x].stage = "next" /\ IsLeaf(x, j)
  /\ sweep' = [sweep EXCEPT ![x].left = @ \ {j},
                            ![x].job = IF status[j] \in Terminal THEN None ELSE j,
                            ![x].stage = IF status[j] \in Terminal THEN "next" ELSE "apply"]
  /\ UNCHANGED <<rqVars, entries, disp, cancels, faults, histVars>>

\* job.cancel(enqueue_dependents=False) takes whatever status the job now has,
\* and raises InvalidJobOperation only for one that is canceled.
CancelApply(x) ==
  LET j == sweep[x].job
      already == status[j] = "canceled"
  IN  /\ sweep[x].stage = "apply"
      /\ status' = [status EXCEPT ![j] = "canceled"]
      /\ sweep' = [sweep EXCEPT ![x].stage = IF already THEN "next" ELSE "stamp",
                                ![x].job = IF already THEN None ELSE j]
      /\ UNCHANGED <<record, running, meta, blob, entries, disp, cancels, faults, histVars>>

\* The cancel of one member fails; the sweep goes on with the others.
CancelFails(x) ==
  /\ Fault /\ sweep[x].stage = "apply"
  /\ sweep' = [sweep EXCEPT ![x].stage = "next", ![x].job = None]
  /\ UNCHANGED <<rqVars, entries, disp, cancels, histVars>>

\* mark_canceled: the durable record on the member.
CancelStamp(x) ==
  /\ sweep[x].stage = "stamp"
  /\ record' = record \union {sweep[x].job}
  /\ sweep' = [sweep EXCEPT ![x].stage = "next", ![x].job = None]
  /\ UNCHANGED <<status, running, meta, blob, entries, disp, cancels, faults, histVars>>

\* publish_canceled_event, for the roots of the closure.
Announce(x) ==
  /\ sweep[x].stage = "next" /\ sweep[x].left = {}
  /\ entries' = entries \union {[kind |-> "canceled", job |-> j, outcome |-> "canceled",
                                 no |-> sweep[x].no] : j \in sweep[x].roots}
  /\ sweep' = [sweep EXCEPT ![x] = NoSweep]
  /\ UNCHANGED <<rqVars, disp, cancels, faults, histVars>>

\* The process dies in the sweep, or the announcement cannot be published.
CancelDies(x) ==
  /\ Fault /\ sweep[x].stage # "idle"
  /\ sweep' = [sweep EXCEPT ![x] = NoSweep]
  /\ UNCHANGED <<rqVars, entries, disp, cancels, histVars>>

-----------------------------------------------------------------------------
(* Pass 1 of the reconciler                                                  *)

\* A deferred job whose dependency has settled, as _reconcile_orphan_deferred
\* finds it; the grace time is abstracted to "at some time after".
Orphan(j) == status[j] = "deferred" /\ status[Dep(j)] \in Terminal

\* _heal_storage_orphan: release it if the parent finished, else cancel its chain.
\* A release is refused while nothing drains the job's lane: the job then stays as
\* it is until the next pass, which is a step that changes nothing.
Heal(x, j) ==
  /\ Orphan(j)
  /\ \/ /\ status[Dep(j)] = "finished"
        /\ status' = [status EXCEPT ![j] = "queued"]
        /\ UNCHANGED <<record, running, meta, blob, sweep>>
     \/ /\ status[Dep(j)] # "finished" /\ sweep[x].stage = "idle"
        /\ sweep' = [sweep EXCEPT ![x] = Begun(0)]
        /\ UNCHANGED rqVars
  /\ UNCHANGED <<entries, disp, cancels, faults, histVars>>
-----------------------------------------------------------------------------
(* The change-handler: _process_entry, one await after another               *)

\* chain_failed: nothing downstream may be advanced.
Dead(d) == disp[d].canceled \/ disp[d].entry.outcome = "failed"

\* The jobs a dead walk passes: from j, through every settled storage member.
Reached(j) ==
  LET Closed(S) == \A i \in Jobs : Dep(i) \in S /\ status[i] \in Terminal => i \in S
  IN  {i \in Jobs : \A S \in SUBSET Jobs : j \in S /\ Closed(S) => i \in S}

\* The step hangs off a knot child that does not exist.
Unbuilt(s) == status[Of[s]] = "absent"

\* The job whose meta holds the mark of s: CoreStep.anchor.
Home(s) == IF Unbuilt(s) THEN Of[Carrier[Of[s]]] ELSE Of[s]

\* As Walk, stopping at the storage boundary on a dead chain too.
WalkAtBoundary(d) == {s \in Steps : Of[s] = disp[d].entry.job}

\* The step is found: the job it hangs off lists it, or does not exist.
Listed(s) == Unbuilt(s) \/ meta[Of[s]][s] # "absent"

\* _walk_core_dependents: a live walk stops at the storage boundary. (Its job
\* ran, so it was queued, and its steps were saved before that.)
Walk(d) ==
  IF Dead(d) THEN {s \in Steps : Listed(s) /\ Home(s) \in Reached(disp[d].entry.job)}
             ELSE {s \in Steps : Of[s] = disp[d].entry.job}

\* _anchor_ids
AnchorIds(steps) == {Home(s) : s \in steps}

\* The marks as the walk leaves them in memory. A dead walk materialises the
\* steps of a child that does not exist, and drops that view once it does.
Hydrated(d) ==
  [j \in Jobs |->
     IF j \notin disp[d].held THEN Empty
     ELSE IF ~Dead(d) THEN meta[j]
     ELSE [s \in Steps |-> IF Of[s] = j THEN meta[j][s]
                           ELSE IF Home(s) # j THEN "absent"
                           ELSE IF meta[j][s] = "absent" THEN "unstamped" ELSE meta[j][s]]]

\* Entry e is delivered, to one dispatch of the one process at a time.
\* was_canceled reads the record of its job.
Take(d, e) ==
  /\ disp[d].pc = "free" /\ e \in entries
  /\ \A o \in Dispatches : disp[o].entry # e
  /\ LET canceled == e.kind = "canceled" \/ e.job \in record
     IN  disp' = [disp EXCEPT ![d].entry = e, ![d].canceled = canceled,
                              ![d].pc = IF canceled THEN "discover" ELSE "peek"]
  /\ UNCHANGED <<rqVars, entries, sweep, cancels, faults, histVars>>

\* _set_job_status reads the status and writes nothing over CANCELED ...
PeekStatus(d) ==
  /\ disp[d].pc = "peek"
  /\ disp' = [disp EXCEPT ![d].pc = IF status[disp[d].entry.job] = "canceled"
                                    THEN "discover" ELSE "put"]
  /\ UNCHANGED <<rqVars, entries, sweep, cancels, faults, histVars>>

\* ... and sets it in a call of its own.
PutStatus(d) ==
  /\ disp[d].pc = "put"
  /\ status' = [status EXCEPT ![disp[d].entry.job] = disp[d].entry.outcome]
  /\ disp' = [disp EXCEPT ![d].pc = "discover"]
  /\ UNCHANGED <<record, running, meta, blob, entries, sweep, cancels, faults, histVars>>

\* Which anchors the dispatch will write to.
Discover(d) ==
  /\ disp[d].pc = "discover"
  /\ disp' = [disp EXCEPT ![d].pc = "lock",
                          ![d].want = IF Dead(d) THEN AnchorIds(Walk(d))
                                                 ELSE {disp[d].entry.job}]
  /\ UNCHANGED <<rqVars, entries, sweep, cancels, faults, histVars>>

\* As NextAnchor, the ids in any order.
NextAnchorUnsorted(d, j) == j \in disp[d].want \ disp[d].held

\* _anchor_lock: sorted by id.
NextAnchor(d, j) ==
  /\ j \in disp[d].want \ disp[d].held
  /\ \A i \in disp[d].want \ disp[d].held : j <= i

\* As LockFree, without the locks: what dispatches of two processes would see.
LockFreeAlways(j) == TRUE

\* The lock of anchor j, in the dictionary that the dispatches of the process
\* share, is not held.
LockFree(j) == \A o \in Dispatches : j \notin disp[o].held

Lock(d, j) ==
  /\ disp[d].pc = "lock" /\ NextAnchor(d, j) /\ LockFree(j)
  /\ disp' = [disp EXCEPT ![d].held = @ \union {j}]
  /\ UNCHANGED <<rqVars, entries, sweep, cancels, faults, histVars>>

\* Under the locks the task is read and walked again. Anchors that were not
\* locked are taken once more, all together; the second time it gives up.
Hydrate(d) ==
  LET walk == Walk(d)
      unlocked == AnchorIds(walk) \ disp[d].held
      view == Hydrated(d)
  IN  /\ disp[d].pc = "lock" /\ disp[d].held = disp[d].want
      /\ \/ /\ unlocked # {} /\ disp[d].retaken
            /\ disp' = [disp EXCEPT ![d] = Idle]
         \/ /\ unlocked # {} /\ ~disp[d].retaken
            /\ disp' = [disp EXCEPT ![d].want = @ \union unlocked, ![d].held = {},
                                    ![d].retaken = TRUE]
         \/ /\ unlocked = {}
            /\ disp' = [disp EXCEPT
                 ![d].pc = "steps", ![d].view = view, ![d].walk = walk,
                 ![d].todo = {s \in walk : Dead(d) => view[Home(s)][s] = "unstamped"}]
      /\ UNCHANGED <<rqVars, entries, sweep, cancels, faults, histVars>>

\* A walk or the second hydration raises: the locks are released and the entry
\* is left pending.
DispatchRaises(d) ==
  /\ Fault /\ disp[d].pc \in {"discover", "lock"}
  /\ disp' = [disp EXCEPT ![d] = Idle]
  /\ UNCHANGED <<rqVars, entries, sweep, cancels, histVars>>

\* The walk yields a step before the ones below it.
NextStep(d, s) ==
  /\ s \in disp[d].todo /\ Under[s] \notin disp[d].todo
  /\ Carrier[Of[s]] \notin disp[d].todo

\* As DependingFinished, with the step that carried the child read in its place.
DependingFinishedOfCarrier(d, s) ==
  IF Under[s] \in Steps THEN disp[d].view[Home(s)][Under[s]] = "finished"
  ELSE IF Unbuilt(s) THEN disp[d].view[Home(s)][Carrier[Under[s]]] = "finished"
  ELSE status[Under[s]] = "finished"

\* depending_status = FINISHED, read now: off a job or off the step above.
DependingFinished(d, s) ==
  IF Under[s] \in Steps THEN disp[d].view[Home(s)][Under[s]] = "finished"
                        ELSE status[Under[s]] = "finished"

\* _run_handler completes: the handler's branch is gated on depending_status.
Handle(d, s) ==
  /\ disp[d].pc = "steps" /\ NextStep(d, s)
  /\ body' = [body EXCEPT ![s] = IF DependingFinished(d, s) THEN "success" ELSE "failure"]
  /\ buried' = IF Unbuilt(s) THEN buried \union {s} ELSE buried
  /\ disp' = [disp EXCEPT ![d].pc = "mark", ![d].cur = s, ![d].todo = @ \ {s},
                          ![d].ran = TRUE]
  /\ UNCHANGED <<rqVars, entries, sweep, cancels, faults, worked, made, settled>>

\* _run_handler: the handler raised.
HandlerRaises(d, s) ==
  /\ Fault /\ disp[d].pc = "steps" /\ NextStep(d, s)
  /\ disp' = [disp EXCEPT ![d].pc = "mark", ![d].cur = s, ![d].todo = @ \ {s},
                          ![d].ran = FALSE, ![d].ok = FALSE]
  /\ UNCHANGED <<rqVars, entries, sweep, cancels, histVars>>

\* The mark of a step, from depending_status read again. Storage children of
\* the step are advanced only on a live chain.
Mark(d) ==
  LET s == disp[d].cur
      fine == disp[d].ran /\ DependingFinished(d, s)
  IN  /\ disp[d].pc = "mark"
      /\ disp' = [disp EXCEPT
           ![d].view[Home(s)][s] = IF fine THEN "finished" ELSE "failed",
           ![d].anchors = @ \union {Home(s)},
           ![d].pc = IF disp[d].ran /\ ~Dead(d) THEN "knot" ELSE "steps",
           ![d].cur = IF disp[d].ran /\ ~Dead(d) THEN s ELSE None]
      /\ UNCHANGED <<rqVars, entries, sweep, cancels, faults, histVars>>

\* The storage children that the step carries.
Children(s) == {k \in Jobs : Carrier[k] = s}

\* As CreateKnot, without the check that the child exists.
CreateKnotAgain(d) ==
  LET new == Children(disp[d].cur)
  IN  /\ disp[d].pc = "knot"
      /\ status' = [k \in Jobs |-> IF k \in new THEN "created" ELSE status[k]]
      /\ disp' = [disp EXCEPT ![d].pc = IF new = {} THEN "steps" ELSE "fill",
                              ![d].cur = IF new = {} THEN None ELSE @]
      /\ UNCHANGED <<record, running, meta, blob, entries, sweep, cancels, faults, histVars>>

\* _enqueue_metadata_storage_dependents: a child that exists is skipped; a new
\* one is saved first, without its finalize steps (job.save()) ...
CreateKnot(d) ==
  LET new == {k \in Children(disp[d].cur) : status[k] = "absent"}
  IN  /\ disp[d].pc = "knot"
      /\ status' = [k \in Jobs |-> IF k \in new THEN "created" ELSE status[k]]
      /\ disp' = [disp EXCEPT ![d].pc = IF new = {} THEN "steps" ELSE "fill",
                              ![d].cur = IF new = {} THEN None ELSE @]
      /\ UNCHANGED <<record, running, meta, blob, entries, sweep, cancels, faults, histVars>>

\* ... which self.job.save_meta() writes in a call of its own ...
SaveKnot(d) ==
  /\ disp[d].pc = "fill"
  /\ meta' = [k \in Jobs |-> IF k \in Children(disp[d].cur) THEN Fresh(k) ELSE meta[k]]
  /\ disp' = [disp EXCEPT ![d].pc = "enqueue"]
  /\ UNCHANGED <<status, record, running, blob, entries, sweep, cancels, faults, histVars>>

\* Mutant: a child that was not made does not hold the entry back.
KnotDeclinedQuietly(d) ==
  /\ Fault /\ disp[d].pc = "knot"
  /\ \E k \in Children(disp[d].cur) : status[k] = "absent"
  /\ disp' = [disp EXCEPT ![d].pc = "steps", ![d].cur = None]
  /\ UNCHANGED <<rqVars, entries, sweep, cancels, histVars>>

\* No consumer on the child's lane, or the child could not be saved.
KnotDeclined(d) ==
  /\ Fault /\ disp[d].pc = "knot"
  /\ \E k \in Children(disp[d].cur) : status[k] = "absent"
  /\ disp' = [disp EXCEPT ![d].pc = "steps", ![d].cur = None, ![d].ok = FALSE]
  /\ UNCHANGED <<rqVars, entries, sweep, cancels, histVars>>

\* ... and then, after the admission wait, put on its queue, whatever happened
\* to it meanwhile.
EnqueueKnot(d) ==
  /\ disp[d].pc = "enqueue"
  /\ status' = [k \in Jobs |-> IF k \in Children(disp[d].cur) THEN "queued" ELSE status[k]]
  /\ made' = [k \in Jobs |-> IF k \in Children(disp[d].cur) THEN made[k] + 1 ELSE made[k]]
  /\ disp' = [disp EXCEPT ![d].pc = "steps", ![d].cur = None]
  /\ UNCHANGED <<record, running, meta, blob, entries, sweep, cancels, faults,
                 worked, body, buried, settled>>

\* The child is saved, and the call that saves its steps or that queues it fails.
EnqueueFails(d) ==
  /\ Fault /\ disp[d].pc \in {"fill", "enqueue"}
  /\ disp' = [disp EXCEPT ![d].pc = "steps", ![d].cur = None, ![d].ok = FALSE]
  /\ UNCHANGED <<rqVars, entries, sweep, cancels, histVars>>

\* All steps have been run.
StepsDone(d) == disp[d].pc = "steps" /\ disp[d].todo = {}

\* Every anchor that was marked is written back, the whole blob.
SaveAnchor(d, j) ==
  /\ StepsDone(d) /\ j \in disp[d].anchors
  /\ meta' = [meta EXCEPT ![j] = disp[d].view[j]]
  /\ disp' = [disp EXCEPT ![d].anchors = @ \ {j}]
  /\ UNCHANGED <<status, record, running, blob, entries, sweep, cancels, faults, histVars>>

SaveFails(d, j) ==
  /\ Fault /\ StepsDone(d) /\ j \in disp[d].anchors
  /\ disp' = [disp EXCEPT ![d].anchors = @ \ {j}, ![d].ok = FALSE]
  /\ UNCHANGED <<rqVars, entries, sweep, cancels, histVars>>

\* As Acknowledged, whatever was returned.
AcknowledgedAlways(d) == TRUE

\* The locks are released; the caller acknowledges the entry if all went well.
Acknowledged(d) == disp[d].ok

Finish(d) ==
  /\ StepsDone(d) /\ disp[d].anchors = {}
  /\ entries' = IF Acknowledged(d) THEN entries \ {disp[d].entry} ELSE entries
  /\ settled' = IF Acknowledged(d)
                THEN settled \union (disp[d].walk \X {IF Dead(d) THEN "dead" ELSE "live"})
                ELSE settled
  /\ disp' = [disp EXCEPT ![d] = Idle]
  /\ UNCHANGED <<rqVars, sweep, cancels, faults, worked, body, made, buried>>

\* The acknowledgement is lost: the entry will be delivered again.
AckLost(d) ==
  /\ Fault /\ StepsDone(d) /\ disp[d].anchors = {} /\ Acknowledged(d)
  /\ disp' = [disp EXCEPT ![d] = Idle]
  /\ UNCHANGED <<rqVars, entries, sweep, cancels, histVars>>

\* The change-handler process dies: its locks and its dispatches with it.
Crash ==
  /\ Fault /\ \E d \in Dispatches : disp[d].pc # "free"
  /\ disp' = [d \in Dispatches |-> Idle]
  /\ UNCHANGED <<rqVars, entries, sweep, cancels, histVars>>

-----------------------------------------------------------------------------
Worker == \E j \in Jobs : \/ Dequeue(j) \/ SaveProgress(j)
                          \/ \E o \in {"finished", "failed"} : WorkerDone(j, o)

Cancel(x) == \/ \E j \in Jobs : CancelRead(x, j)
             \/ CancelApply(x) \/ CancelStamp(x) \/ Announce(x)

Dispatch(d) ==
  \/ \E e \in entries : Take(d, e)
  \/ PeekStatus(d) \/ PutStatus(d) \/ Discover(d)
  \/ \E j \in Jobs : Lock(d, j)
  \/ Hydrate(d)
  \/ \E s \in Steps : Handle(d, s)
  \/ Mark(d) \/ CreateKnot(d) \/ SaveKnot(d) \/ EnqueueKnot(d)
  \/ \E j \in Jobs : SaveAnchor(d, j)
  \/ Finish(d)

Failure ==
  \/ \E x \in Cancels : CancelFails(x) \/ CancelDies(x)
  \/ \E d \in Dispatches : \/ DispatchRaises(d)
                           \/ \E s \in Steps : HandlerRaises(d, s)
                           \/ KnotDeclined(d) \/ EnqueueFails(d)
                           \/ \E j \in Jobs : SaveFails(d, j)
                           \/ AckLost(d)
  \/ Crash

Next ==
  \/ Worker
  \/ \E x \in Cancels : BeginCancel(x) \/ Cancel(x) \/ \E j \in Jobs : Heal(x, j)
  \/ \E d \in Dispatches : Dispatch(d)
  \/ Failure

Spec == Init /\ [][Next]_vars

\* Workers keep taking and ending jobs, the consumer keeps dispatching (rq and
\* the read loop run for ever), a cancel that was begun goes on, and pass 1 of
\* the reconciler comes round again.
Fairness ==
  /\ \A j \in Jobs : /\ WF_vars(Dequeue(j))
                     /\ WF_vars(\E o \in {"finished", "failed"} : WorkerDone(j, o))
  /\ \A x \in Cancels : WF_vars(Cancel(x)) /\ WF_vars(\E j \in Jobs : Heal(x, j))
  /\ \A d \in Dispatches : WF_vars(Dispatch(d))

FairSpec == Spec /\ Fairness

-----------------------------------------------------------------------------
Stamped(m) == m \in {"finished", "failed"}

\* finalize_has_unstamped, over the members of the chain that exist.
HasUnstamped == \E j \in Jobs, s \in Steps : meta[j][s] = "unstamped"

\* Task.chain_pending
ChainPending ==
  \/ HasUnstamped
  \/ \E j \in Jobs : \/ status[j] \in {"started", "queued"}
                     \/ /\ status[j] = "deferred"
                        /\ status[Dep(j)] \in {"started", "queued", "deferred"}

\* _metadata_finalize_orphaned
FinalizeOrphaned ==
  HasUnstamped /\ \A j \in Jobs : status[j] \in Terminal \union {"absent"}

\* Safety. The success branch of a finalize step never runs, and its mark never
\* says finished, for a storage job whose body did not complete: not on a
\* failed or canceled chain, not for a knot child that was never built, not
\* after a redelivery (depending_status, unbuilt_knot_steps).
NoPhantomSuccess ==
  \A s \in Steps :
    (body[s] = "success" \/ \E j \in Jobs : meta[j][s] = "finished") => Of[s] \in worked

\* Safety. The disk operation of a knot child is queued at most once, whatever
\* is redelivered and wherever the handler process dies
\* (_enqueue_metadata_storage_dependents).
KnotOnce == \A k \in Jobs : made[k] <= 1

\* Safety. When the result of a live chain is acknowledged, every step below
\* the job has run to completion and its mark is durable (_process_entry
\* returns True only then).
AckedIsDurable ==
  \A s \in Steps : <<s, "live">> \in settled =>
    body[s] # "none" /\ Stamped(meta[Of[s]][s])

\* Action property. No dispatch erases a mark that another one saved: a stamped
\* step stays stamped, except where the worker of that very job writes its blob
\* or the unbuilt view of a child is dropped because the child exists
\* (_anchor_lock around hydration, marks and save).
MarksKept ==
  [][\A j \in Jobs, s \in Steps :
       Stamped(meta[j][s]) /\ ~Stamped(meta'[j][s]) =>
         j \in running \/ (Of[s] # j /\ status'[Of[s]] # "absent")]_vars

\* Safety. The dispatches that wait for an anchor lock never wait for each other
\* in a circle, the second taking of the locks included (_anchor_lock sorts, and
\* the retake lets go of all before it takes more).
NoCircularWait ==
  \A W \in (SUBSET Dispatches) \ {{}} : \E d \in W :
    \/ disp[d].pc # "lock" \/ disp[d].want \subseteq disp[d].held
    \/ \E j \in Jobs : NextAnchor(d, j) /\ \A o \in W : j \notin disp[o].held

\* "instead of silently stranding the knot": once the result of a live chain is
\* acknowledged, the children its steps carry have been put on their queue, each
\* of them, whatever failed and was delivered again. Excepted is a child whose
\* hash was saved by a dispatch that failed before it queued it: the retry finds
\* the id existing, skips it, and is acknowledged; a cancel may still close it.
KnotFollows ==
  \A k \in Jobs :
    <<Carrier[k], "live">> \in settled =>
      made[k] > 0 \/ (status[k] \in {"created", "canceled"} /\ faults > 0)

\* Liveness. The chain stops being pending, so the row it belongs to accepts
\* operations again; if an event was lost the reconciler's hatch is open
\* (chain_pending, _metadata_finalize_orphaned). Excepted is a knot child that
\* was saved and never queued, see KnotFollows.
ChainSettles ==
  <>[](\/ ~ChainPending
       \/ FinalizeOrphaned /\ faults > 0
       \/ \E k \in Jobs : status[k] = "created")

-----------------------------------------------------------------------------
(* Statements of the repository's comments that the code does not keep       *)

\* "A step whose own dependency succeeded may still not start a disk operation
\* once the chain it belongs to is dead": a knot child whose steps were run as
\* those of a child that will never exist is never created.
DeadStartsNothing == \A s \in buried : Unbuilt(s)

=============================================================================
