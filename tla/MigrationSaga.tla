---------------------------- MODULE MigrationSaga ----------------------------
(***************************************************************************)
(* The migration of one tree of disks (a disk and those that back onto it) *)
(* to another pool: MigrationRunner of lib/storage/migration_run.py, the   *)
(* decisions of lib/storage/migration.py (tree_next and its helpers), the  *)
(* ledger of models/storage_migration.py and the storage worker's tasks.   *)
(*                                                                         *)
(* A driver (the scheduler's backstop or a drain of the change-handler)    *)
(* takes the lease, reads the ledger, decides one step and carries it out, *)
(* with a step boundary after every write another process can see. It may  *)
(* die between any two of them, and its lease may run out under it at any  *)
(* of them: no handler looks at the lease again, so it carries on with     *)
(* what it read, beside the driver that has the lease by then. Workers run *)
(* the tasks; users start desktops; an admin pauses, resumes and cancels.  *)
(***************************************************************************)
EXTENDS Integers, Sequences, FiniteSets, TLC

CONSTANTS Topo,           \* the disks, parents before children (topo_index)
          Parent,         \* disk a disk backs onto, or NoDisk for the root
          NoDisk,
          InPlaceChoices, \* sets of disks that may already be at their destination
          Desktops,       \* disks that a desktop boots from
          Drivers,
          NoOne,
          MaxAbandon,     \* MAX_ABANDON_RESTARTS
          MaxMishaps      \* bound: crashes, stalls, failed calls, lost jobs,
                          \* refused copies, commands of admins, starts by users

Disks == {Topo[i] : i \in DOMAIN Topo}
Kinds == {"pre", "move", "rebase", "verify", "del", "drop"}

VARIABLES
  inPlace,    \* disks whose destination is where they are
  item,       \* the ledger row of every disk
  row,        \* the storage row: status, and which file it points to
  src, dst,   \* the two files of a disk
  backSrc, backDst,  \* which file of the parent each of them backs onto
  dom,        \* status of the desktop of a disk
  job,        \* rq: the tasks of a disk by kind, in order of submission
  fences,     \* how often each task was claimed
  status,     \* status of the migration (pauses by reason)
  lease,      \* the driver that holds the advance lock
  drv,        \* what every driver is doing
  \* history
  doubled,    \* disks of which two copies were under way at a time
  fumbled,    \* a task was sent and not noted, or its status not read
  revived,    \* a tree that was being given up went on
  cut,        \* an exception closed the last open disk of the tree
  overlapped, \* two drivers were in the midst of their writes at a time
  ran,        \* disks whose desktop was started while the tree was on its way
  mishaps

db == <<item, row, dom>>
files == <<src, dst, backSrc, backDst>>
queues == <<job, fences>>
control == <<status, lease, drv>>
history == <<doubled, fumbled, ran, revived, cut, overlapped>>
vars == <<inPlace, db, files, queues, control, history, mishaps>>

NoRef == <<"none", 0>>
Terminal == {"released", "skipped", "failed"}
PhaseADone == {"rebased", "db_updated", "released", "skipped"}
Committed == {"db_updated", "released"}
CopiedUncommitted == {"moving", "moved", "rebased"}

NewItem == [state |-> "pending", pre |-> NoRef, move |-> NoRef,
            rebase |-> NoRef, verify |-> NoRef, passed |-> FALSE, owned |-> FALSE,
            orig |-> "none", parked |-> "none", abandons |-> 0]

Idle == [pc |-> "idle", act |-> "none", disk |-> NoDisk, ref |-> NoRef,
         todo |-> <<>>, was |-> "none", view |-> <<>>]

Init ==
  /\ inPlace \in InPlaceChoices
  /\ item = [d \in Disks |-> NewItem]
  /\ row = [d \in Disks |-> [status |-> "ready", at |-> "src"]]
  /\ src = [d \in Disks |-> "good"]
  /\ dst = [d \in Disks |-> "none"]
  /\ backSrc = [d \in Disks |-> "src"]
  /\ backDst = [d \in Disks |-> "src"]
  /\ dom \in [Desktops -> {"Stopped", "Started"}]
  /\ job = [d \in Disks |-> [k \in Kinds |-> <<>>]]
  /\ fences = [d \in Disks |-> [k \in Kinds |-> 0]]
  /\ status = "running"
  /\ lease = NoOne
  /\ drv = [p \in Drivers |-> Idle]
  /\ doubled = {} /\ fumbled = FALSE /\ ran = {} /\ revived = FALSE
  /\ cut = FALSE /\ overlapped = FALSE
  /\ mishaps = 0

Mishap == mishaps < MaxMishaps /\ mishaps' = mishaps + 1

-----------------------------------------------------------------------------
(* Files and chains.                                                         *)

\* A disk that is in place has one file under both names.
File(d, at) == IF at = "src" \/ d \in inPlace THEN src[d] ELSE dst[d]
Backing(d, at) == IF at = "src" \/ d \in inPlace THEN backSrc[d] ELSE backDst[d]

\* The file is there, it is a sound image, and so is the chain below it.
Sound[d \in Disks, at \in {"src", "dst"}] ==
  /\ File(d, at) \in {"good", "stale"}
  /\ Parent[d] # NoDisk => Sound[Parent[d], Backing(d, at)]

\* Nothing that a desktop wrote is missing in it either.
Current[d \in Disks, at \in {"src", "dst"}] ==
  /\ File(d, at) = "good"
  /\ Parent[d] # NoDisk => Current[Parent[d], Backing(d, at)]

-----------------------------------------------------------------------------
(* The decision: tree_next, decide_item_action, verify_gate_state.           *)

\* job_status of the task an item names: "gone" for none, for a fence, for a
\* job that expired or whose worker died, and when the read raises (blind).
Status(v, d, k, blind) ==
  IF blind \/ v[d][k][1] # "id" THEN "gone" ELSE job[d][k][v[d][k][2]]

IsFailed(st) == st \in {"failed", "floor"}

\* Mutant of Follow: a lost task is waited for.
FollowOnce(v, d, k, blind, done, failed, send) ==
  LET st == Status(v, d, k, blind) IN
  CASE v[d][k] = NoRef  -> send
    [] st = "finished"  -> done
    [] IsFailed(st)     -> failed
    [] OTHER            -> "wait"

\* What to do about a task: its step is done, it failed, it is to be sent
\* (again), or it is under way.
Follow(v, d, k, blind, done, failed, send) ==
  LET st == Status(v, d, k, blind) IN
  CASE v[d][k] = NoRef  -> send
    [] st = "finished"  -> done
    [] IsFailed(st)     -> failed
    [] st = "gone"      -> send
    [] OTHER            -> "wait"

DecideItemAction(v, d, blind) ==
  CASE v[d].state = "failed" -> "blocked"
    [] v[d].state = "pending" ->
         IF d \in inPlace THEN "skip_move"
         ELSE Follow(v, d, "pre", blind, "start_move", "destination_exists",
                     "start_preflight")
    [] v[d].state = "moving" ->
         Follow(v, d, "move", blind, "mark_moved", "fail", "start_move")
    [] v[d].state = "moved" ->
         IF Parent[d] = NoDisk THEN "skip_rebase"
         ELSE Follow(v, d, "rebase", blind, "mark_rebased", "fail",
                     "start_rebase")

\* The first disk in tree order with a property, if there is one.
Least(S) == Topo[CHOOSE i \in DOMAIN Topo :
                   /\ Topo[i] \in S
                   /\ \A j \in DOMAIN Topo : Topo[j] \in S => i <= j]

\* Mutant of Gate: a check that was sent is taken for passed.
GateTrusting(v, d, blind) ==
  IF v[d].verify # NoRef THEN "passed" ELSE "start"

Gate(v, d, blind) ==
  IF v[d].passed THEN "passed"
  ELSE Follow(v, d, "verify", blind, "mark", "fail", "start")

\* Phase A moves and rebases disk by disk; then all destinations are verified,
\* then all rows are repointed, then all sources are released.
TreeNext(v, blind) ==
  LET open    == {d \in Disks : v[d].state \notin PhaseADone}
      rebased == {d \in Disks : v[d].state = "rebased"}
      gated(g) == {d \in rebased \ inPlace : Gate(v, d, blind) = g}
      committed == {d \in Disks : v[d].state = "db_updated"}
  IN  CASE \A d \in Disks : v[d].state \in Terminal -> <<NoDisk, "done">>
        [] open # {} -> <<Least(open), DecideItemAction(v, Least(open), blind)>>
        [] gated("fail") # {}  -> <<Least(gated("fail")), "fail">>
        [] gated("start") # {} -> <<Least(gated("start")), "start_verify">>
        [] gated("mark") # {}  -> <<Least(gated("mark")), "mark_verified">>
        [] gated("wait") # {}  -> <<Least(gated("wait")), "wait">>
        [] rebased # {}   -> <<Least(rebased), "db_update">>
        [] committed # {} -> <<Least(committed),
                               IF Least(committed) \in inPlace
                               THEN "skip_release" ELSE "release">>
        [] OTHER -> <<NoDisk, "done">>

NotStarted(v) == \A d \in Disks : v[d].state = "pending"
\* Mutant of Settled: a failed disk is still to be done.
SettledClean(v) == \A d \in Disks : v[d].state \in {"released", "skipped"}

Settled(v) == \A d \in Disks : v[d].state \in Terminal
InFlight == ~ NotStarted(item) /\ ~ Settled(item)

\* _gate_tree (without force-stop): every disk ready, no desktop running.
Movable == /\ \A d \in Disks : row[d].status = "ready"
           /\ \A d \in Desktops : dom[d] # "Started"

CancelSkipsTree(v, act) ==
  /\ status = "finishing_tree"
  /\ act \in {"start_move", "start_rebase", "start_verify"}
  /\ \A d \in Disks : v[d].state \notin Committed

-----------------------------------------------------------------------------
(* The driver.                                                               *)

Write(d, fields) == item' = [item EXCEPT ![d] = fields @@ @]
Go(p, pc) == drv' = [drv EXCEPT ![p].pc = pc] /\ UNCHANGED lease

\* End of the pass: a settled tree is followed by the end of the job.
Finish(p) ==
  IF Settled(item') /\ drv[p].was # "paused"
  THEN Go(p, "settle")
  ELSE /\ drv' = [drv EXCEPT ![p] = Idle]
       /\ lease' = IF lease = p THEN NoOne ELSE lease

At(p, pc) == drv[p].pc = pc
Doing(p, acts) == At(p, "act") /\ drv[p].act \in acts

StartActs == {"start_preflight", "start_move", "start_rebase", "start_verify"}

\* A driver that is to make writes which nothing guards. One that is at its claim,
\* or at the end of its pass, compares what it read.
Writing(turn) == /\ turn.pc \notin {"idle", "settle", "pause"}
                 /\ turn.pc = "act" => turn.act \notin StartActs
OtherWrites(p) == \E q \in Drivers \ {p} : Writing(drv[q])
Overlaps(p, turn) == Writing(turn) /\ OtherWrites(p)

\* One pass over the tree up to its handler. A tree that has not started is
\* skipped by a cancel and by the gate; a cancel gives up one in which the next
\* step would be a start and nothing is committed.
Turn(blind) ==
  LET next == TreeNext(item, blind)
      turn == [Idle EXCEPT !.was = status, !.view = item]
  IN  CASE NotStarted(item) /\ (status = "finishing_tree" \/ ~ Movable) ->
             [turn EXCEPT !.pc = "skip", !.todo = Topo]
        [] CancelSkipsTree(item, next[2]) ->
             [turn EXCEPT !.pc = "drop", !.act = "cancel", !.todo = Topo]
        [] next[2] = "done" -> [turn EXCEPT !.pc = "settle"]
        [] OTHER -> [turn EXCEPT !.pc = "act", !.act = next[2], !.disk = next[1]]

\* The tree goes forward although one of its disks was given up.
Revives(turn) ==
  /\ turn.pc = "act" /\ turn.act \notin {"fail", "blocked", "destination_exists"}
  /\ \E d \in Disks : \/ item[d].state \in {"skipped", "failed"}
                      \/ job[d]["drop"] # <<>>

\* advance: take the lease and make a pass. One that would only wait, and one
\* over a paused job with nothing in flight, are no steps. The driver may fail
\* to read the status of a task.
Drive(p) ==
  /\ At(p, "idle") /\ lease = NoOne /\ lease' = p
  /\ \/ status \in {"running", "finishing_tree"}
     \/ status \in {"paused", "space"} /\ InFlight
     \/ status = "space" /\ Settled(item)
  /\ \E blind \in BOOLEAN :
       LET turn == Turn(blind) IN
       /\ IF blind THEN Mishap /\ turn # Turn(FALSE) ELSE UNCHANGED mishaps
       /\ turn.act # "wait"
       /\ drv' = [drv EXCEPT ![p] = turn]
       /\ revived' = (revived \/ Revives(turn))
       /\ fumbled' = (fumbled \/ blind)
       /\ overlapped' = (overlapped \/ Overlaps(p, turn))
  /\ UNCHANGED <<inPlace, db, files, queues, status, doubled, ran, cut>>

\* _skip_tree
Skip(p) ==
  /\ At(p, "skip")
  /\ Write(Head(drv[p].todo), [state |-> "skipped"])
  /\ IF Len(drv[p].todo) = 1 THEN Finish(p)
     ELSE drv' = [drv EXCEPT ![p].todo = Tail(@)] /\ UNCHANGED lease
  /\ UNCHANGED <<inPlace, row, dom, files, queues, status, history, mishaps>>

Kind(act) == [start_preflight |-> "pre", start_move |-> "move",
              start_rebase |-> "rebase", start_verify |-> "verify"][act]
\* The state in which each kind of task is claimed and awaited.
From == [pre |-> "pending", move |-> "moving", rebase |-> "moved",
         verify |-> "rebased"]

\* Mutants of Wins: the claim compares the state alone, or the task alone.
WinsByState(d, k, seen) ==
  IF k = "move" /\ seen = NoRef THEN item[d].state \in {"pending", "moving"}
  ELSE item[d].state = From[k]

WinsByTask(d, k, seen) ==
  IF k = "move" /\ seen = NoRef THEN item[d].state = "pending"
  ELSE item[d][k] = seen

\* The claim of _start_*: one atomic update guarded by what the driver saw.
Wins(d, k, seen) ==
  IF k = "move" /\ seen = NoRef THEN item[d].state = "pending"
  ELSE item[d].state = From[k] /\ item[d][k] = seen

Claim(p) ==
  /\ Doing(p, StartActs)
  /\ LET d == drv[p].disk
         k == Kind(drv[p].act)
         seen == drv[p].view[d][k]
         fence == <<"fence", fences[d][k] + 1>>
     IN  IF Wins(d, k, seen)
         THEN /\ Write(d, IF k = "move" /\ seen = NoRef
                          THEN [state |-> "moving", move |-> fence, owned |-> TRUE]
                          ELSE (k :> fence))
              /\ fences' = [fences EXCEPT ![d][k] = @ + 1]
              /\ Go(p, IF seen[1] = "id" THEN "charge"
                       ELSE IF k = "move" THEN "orig" ELSE "send")
         ELSE UNCHANGED <<item, fences>> /\ Finish(p)
  /\ overlapped' = (overlapped \/ Overlaps(p, drv'[p]))
  /\ UNCHANGED <<inPlace, row, dom, files, job, status, doubled, fumbled, ran,
                 revived, cut, mishaps>>

\* _abandon_resume_blocked: a job that was lost counts against the disk.
Charge(p) ==
  /\ At(p, "charge")
  /\ LET d == drv[p].disk
         n == item[d].abandons + 1
     IN  /\ Write(d, [abandons |-> n])
         /\ Go(p, IF n > MaxAbandon THEN "terminalize"
                  ELSE IF drv[p].act = "start_move" THEN "orig" ELSE "send")
  /\ UNCHANGED <<inPlace, row, dom, files, queues, status, history, mishaps>>

\* Mutant of Orig: the status is recorded anew every time.
OrigEachTime(p) ==
  /\ At(p, "orig")
  /\ Write(drv[p].disk, [orig |-> row[drv[p].disk].status])
  /\ Go(p, "maint")
  /\ UNCHANGED <<inPlace, row, dom, files, queues, status, history, mishaps>>

\* _prepare_disk_for_move: the status to go back to, recorded once ...
Orig(p) ==
  /\ At(p, "orig")
  /\ LET d == drv[p].disk IN
     IF item[d].orig # "none"
     THEN UNCHANGED item /\ Go(p, "maint")
     ELSE IF row[d].status # "maintenance"
     THEN Write(d, [orig |-> row[d].status]) /\ Go(p, "maint")
     ELSE UNCHANGED item /\ Go(p, "terminalize")
  /\ UNCHANGED <<inPlace, row, dom, files, queues, status, history, mishaps>>

\* ... the storage row in maintenance, which keeps its desktop from starting
\* (a failure of this write is only logged) ...
Maint(p) ==
  /\ At(p, "maint")
  /\ \/ /\ row' = [row EXCEPT ![drv[p].disk].status = "maintenance"]
        /\ UNCHANGED mishaps
     \/ Mishap /\ UNCHANGED row
  /\ Go(p, "record")
  /\ UNCHANGED <<inPlace, item, dom, files, queues, status, history>>

\* ... _park_domains: recorded first, once, then parked.
Record(p) ==
  /\ At(p, "record")
  /\ LET d == drv[p].disk IN
     IF item[d].parked # "none" THEN UNCHANGED item /\ Go(p, "send")
     ELSE IF d \in Desktops /\ dom[d] = "Stopped"
     THEN Write(d, [parked |-> "yes"]) /\ Go(p, "park")
     ELSE Write(d, [parked |-> "empty"]) /\ Go(p, "send")
  /\ UNCHANGED <<inPlace, row, dom, files, queues, status, history, mishaps>>

Park(p) ==
  /\ At(p, "park")
  /\ dom' = [dom EXCEPT ![drv[p].disk] = "Maintenance"]
  /\ Go(p, "send")
  /\ UNCHANGED <<inPlace, item, row, files, queues, status, history, mishaps>>

\* _enqueue. Without a consumer of its lane a move is put off, its fence left
\* behind; the other kinds look at the lane before their claim.
Submit(d, k) == job' = [job EXCEPT ![d][k] = Append(@, "queued")]
Live(d, k) == {n \in DOMAIN job[d][k] : job[d][k][n] = "queued"}

Send(p) ==
  /\ At(p, "send")
  /\ LET d == drv[p].disk
         k == Kind(drv[p].act)
     IN  \/ /\ Submit(d, k)
            /\ drv' = [drv EXCEPT ![p].pc = "note",
                                  ![p].ref = <<"id", Len(job[d][k]) + 1>>]
            /\ doubled' = IF k = "move" /\ Live(d, k) # {} THEN doubled \cup {d}
                          ELSE doubled
            /\ UNCHANGED <<lease, mishaps>>
         \/ /\ k = "move" /\ Mishap /\ item' = item /\ Finish(p)
            /\ UNCHANGED <<job, doubled>>
  /\ UNCHANGED <<inPlace, db, files, fences, status, fumbled, ran, revived,
                 cut, overlapped>>

\* The write of the task id, which no condition guards.
Note(p) ==
  /\ At(p, "note")
  /\ LET k == Kind(drv[p].act) IN
     Write(drv[p].disk, IF k = "move" THEN [state |-> "moving", move |-> drv[p].ref]
                        ELSE (k :> drv[p].ref))
  /\ Finish(p)
  /\ UNCHANGED <<inPlace, row, dom, files, queues, status, history, mishaps>>

\* _skip_move, _mark_moved, _skip_rebase, _mark_rebased, _mark_verified
Marks == [skip_move     |-> [state |-> "moved"],
          mark_moved    |-> [state |-> "moved", abandons |-> 0],
          skip_rebase   |-> [state |-> "rebased", abandons |-> 0],
          mark_rebased  |-> [state |-> "rebased", abandons |-> 0],
          mark_verified |-> [passed |-> TRUE]]

Mark(p) ==
  /\ Doing(p, DOMAIN Marks)
  /\ Write(drv[p].disk, Marks[drv[p].act])
  /\ Finish(p)
  /\ UNCHANGED <<inPlace, row, dom, files, queues, status, history, mishaps>>

\* _db_update: the storage row, then the ledger.
Repoint(p) ==
  /\ Doing(p, {"db_update"})
  /\ row' = [row EXCEPT ![drv[p].disk].at = IF drv[p].disk \in inPlace THEN @
                                            ELSE "dst"]
  /\ Go(p, "commit")
  /\ UNCHANGED <<inPlace, item, dom, files, queues, status, history, mishaps>>

Commit(p) ==
  /\ At(p, "commit")
  /\ Write(drv[p].disk, [state |-> "db_updated", abandons |-> 0])
  /\ Finish(p)
  /\ UNCHANGED <<inPlace, row, dom, files, queues, status, history, mishaps>>

\* _restore_storage_status: parked domains that still are, then the row.
Restore(d) ==
  /\ dom' = IF item[d].parked = "yes" /\ dom[d] = "Maintenance"
            THEN [dom EXCEPT ![d] = "Stopped"] ELSE dom
  /\ row' = IF item[d].orig # "none"
            THEN [row EXCEPT ![d].status = item[d].orig] ELSE row

\* _release: back in service, the source's removal placed, then the ledger. A
\* source whose lane has no consumer is kept.
Release(p) ==
  /\ Doing(p, {"release"})
  /\ Restore(drv[p].disk)
  /\ Go(p, "erase")
  /\ UNCHANGED <<inPlace, item, files, queues, status, history, mishaps>>

Erase(p) ==
  /\ At(p, "erase")
  /\ \/ Submit(drv[p].disk, "del") /\ UNCHANGED mishaps
     \/ Mishap /\ UNCHANGED job
  /\ Go(p, "released")
  /\ UNCHANGED <<inPlace, db, files, fences, status, history>>

Released(p) ==
  /\ At(p, "released")
  /\ Write(drv[p].disk, [state |-> "released"])
  /\ Finish(p)
  /\ UNCHANGED <<inPlace, row, dom, files, queues, status, history, mishaps>>

\* _skip_release, of a disk in place: nothing to remove, and never parked.
SkipRelease(p) ==
  /\ Doing(p, {"skip_release"})
  /\ Write(drv[p].disk, [state |-> "released"])
  /\ Restore(drv[p].disk)
  /\ Finish(p)
  /\ UNCHANGED <<inPlace, files, queues, status, history, mishaps>>

\* _fail. A copy refused for lack of room puts the disk back (_defer_for_space)
\* and pauses the job; any other failure gives the tree up.
Fail(p) ==
  /\ Doing(p, {"fail"})
  /\ LET d == drv[p].disk IN
     IF drv[p].view[d].state = "moving"
        /\ Status(drv[p].view, d, "move", FALSE) = "floor"
     THEN Restore(d) /\ Go(p, "defer")
     ELSE UNCHANGED <<row, dom>> /\ Go(p, "terminalize")
  /\ UNCHANGED <<inPlace, item, files, queues, status, history, mishaps>>

Defer(p) ==
  /\ At(p, "defer")
  /\ Write(drv[p].disk, [state |-> "pending", move |-> NoRef, owned |-> FALSE,
                         parked |-> "none", orig |-> "none"])
  /\ IF drv[p].was = "finishing_tree" THEN Finish(p) ELSE Go(p, "pause")
  /\ UNCHANGED <<inPlace, row, dom, files, queues, status, history, mishaps>>

\* _terminalize_tree_failure: the disk that failed is put back even if it is
\* terminal already; then every open disk is put back, its copy discarded, its
\* ledger row closed, one after the other.
Terminalize(p) ==
  /\ At(p, "terminalize") \/ Doing(p, {"blocked", "destination_exists"})
  /\ LET v == [drv[p].view EXCEPT ![drv[p].disk] = item[drv[p].disk]] IN
     IF Settled(v) THEN UNCHANGED db /\ Finish(p)
     ELSE /\ Restore(drv[p].disk)
          /\ drv' = [drv EXCEPT ![p].pc = "drop", ![p].view = v,
                       ![p].todo = SelectSeq(Topo, LAMBDA d : v[d].state \notin Terminal)]
          /\ UNCHANGED <<item, lease>>
  /\ UNCHANGED <<inPlace, files, queues, status, history, mishaps>>

\* Mutant of Drop: the disk is not put back.
DropBare(p) ==
  /\ At(p, "drop")
  /\ Go(p, "discard")
  /\ UNCHANGED <<inPlace, db, files, queues, status, history, mishaps>>

\* Also _cancel_skip_tree, which goes through the whole tree.
Drop(p) ==
  /\ At(p, "drop")
  /\ Restore(Head(drv[p].todo))
  /\ Go(p, "discard")
  /\ UNCHANGED <<inPlace, item, files, queues, status, history, mishaps>>

\* _discard_destination: the removal of a copy this attempt made of a disk
\* whose row does not point there. Without a consumer the copy is kept.
Discard(p) ==
  /\ At(p, "discard")
  /\ LET d == Head(drv[p].todo) IN
     IF /\ drv[p].view[d].state \in CopiedUncommitted
        /\ drv[p].view[d].owned
        /\ row[d].at = "src" /\ d \notin inPlace
     THEN \/ Submit(d, "drop") /\ UNCHANGED mishaps
          \/ Mishap /\ UNCHANGED job
     ELSE UNCHANGED <<job, mishaps>>
  /\ Go(p, "abandon")
  /\ UNCHANGED <<inPlace, db, files, fences, status, history>>

Abandon(p) ==
  /\ At(p, "abandon")
  /\ LET d == Head(drv[p].todo) IN
     Write(d, [state |-> IF d = drv[p].disk THEN "failed" ELSE "skipped"])
  /\ IF Len(drv[p].todo) = 1 THEN Finish(p)
     ELSE /\ drv' = [drv EXCEPT ![p].pc = "drop", ![p].todo = Tail(@)]
          /\ UNCHANGED lease
  /\ UNCHANGED <<inPlace, row, dom, files, queues, status, history, mishaps>>

\* _claim_status compares the status, in which the reasons of a pause are one.
Unchanged(was) == \/ status = was
                  \/ {status, was} \subseteq {"paused", "space"}

Leave(p) == /\ drv' = [drv EXCEPT ![p] = Idle]
            /\ lease' = IF lease = p THEN NoOne ELSE lease

\* The end of tick: the pause for lack of room, or the end of the job.
Settle(p) ==
  /\ drv[p].pc \in {"settle", "pause"}
  /\ status' = IF ~ Unchanged(drv[p].was) THEN status
               ELSE IF At(p, "pause") THEN "space"
               ELSE IF Settled(item) THEN "ended" ELSE status
  /\ Leave(p)
  /\ UNCHANGED <<inPlace, db, files, queues, history, mishaps>>

\* _resume_after_space: there is room again.
Resume(p) ==
  /\ At(p, "idle") /\ lease = NoOne
  /\ status = "space" /\ status' = "running"
  /\ UNCHANGED <<inPlace, db, files, queues, lease, drv, history, mishaps>>

-----------------------------------------------------------------------------
(* What may befall a driver.                                                 *)

Drops(p) == fumbled' = (fumbled \/ At(p, "note"))

\* The handler raises: its disk is marked failed (_step_tree). What _release
\* does first raises nothing.
Raise(p) ==
  /\ drv[p].pc \notin {"idle", "skip", "settle", "pause"}
  /\ drv[p].act # "cancel" /\ ~ Doing(p, {"release"})
  /\ Mishap /\ Drops(p)
  /\ Write(drv[p].disk, [state |-> "failed"])
  /\ cut' = (cut \/ Settled(item'))
  /\ overlapped' = (overlapped \/ OtherWrites(p))
  /\ Finish(p)
  /\ UNCHANGED <<inPlace, row, dom, files, queues, status, doubled, ran, revived>>

\* The process dies; its lease runs out.
Crash(p) ==
  /\ ~ At(p, "idle")
  /\ Mishap /\ Drops(p)
  /\ Leave(p)
  /\ UNCHANGED <<inPlace, db, files, queues, status, doubled, ran, revived, cut,
                 overlapped>>

\* The lease runs out under a driver that stalls. When it goes on it does so with
\* what it read: the lease is renewed before the step of a tree, not during it.
Stall(p) ==
  /\ lease = p /\ ~ At(p, "idle")
  /\ Mishap
  /\ lease' = NoOne
  /\ UNCHANGED <<inPlace, db, files, queues, status, drv, history>>

-----------------------------------------------------------------------------
(* The storage workers.                                                      *)

Ends(d, k, n, st) == job' = [job EXCEPT ![d][k][n] = st]

\* migration_verify_destination_absent
RunPreflight(d, n) ==
  /\ Ends(d, "pre", n, IF dst[d] = "none" THEN "finished" ELSE "failed")
  /\ UNCHANGED <<inPlace, db, files, fences, control, history, mishaps>>

\* move by rsync: a good copy (of a disk in use, one that lacks what is written
\* from then on), a bad one that is or is not noticed, or a refusal up front.
RunMove(d, n) ==
  /\ \/ /\ src[d] # "gone"
        /\ dst' = [dst EXCEPT ![d] = IF d \in Desktops /\ dom[d] = "Started"
                                     THEN "stale" ELSE src[d]]
        /\ backDst' = [backDst EXCEPT ![d] = backSrc[d]]
        /\ Ends(d, "move", n, "finished") /\ UNCHANGED mishaps
     \/ /\ src[d] # "gone"
        /\ dst' = [dst EXCEPT ![d] = "bad"] /\ UNCHANGED backDst
        /\ \E st \in {"finished", "failed"} : Ends(d, "move", n, st)
        /\ UNCHANGED mishaps
     \/ /\ src[d] # "gone" /\ Mishap
        /\ Ends(d, "move", n, "floor") /\ UNCHANGED <<dst, backDst>>
     \/ /\ src[d] = "gone"
        /\ Ends(d, "move", n, "failed") /\ UNCHANGED <<dst, backDst, mishaps>>
  /\ UNCHANGED <<inPlace, db, src, backSrc, fences, control, history>>

\* Mutant of NewParent: where the parent is.
NewParentStays(d) == "src"

\* Where the parent of a disk goes.
NewParent(d) == IF Parent[d] \in inPlace THEN "src" ELSE "dst"

\* rebase -u rewrites the header, then checks the chain if config.verify says so;
\* it is refused while the image is open.
RunRebase(d, n) ==
  /\ IF \/ File(d, "dst") \notin {"good", "stale"}
        \/ d \in inPlace \cap Desktops /\ dom[d] = "Started"
     THEN Ends(d, "rebase", n, "failed") /\ UNCHANGED files
     ELSE /\ IF d \in inPlace
             THEN /\ backSrc' = [backSrc EXCEPT ![d] = NewParent(d)]
                  /\ UNCHANGED backDst
             ELSE /\ backDst' = [backDst EXCEPT ![d] = NewParent(d)]
                  /\ UNCHANGED backSrc
          /\ \E verify \in BOOLEAN :
               Ends(d, "rebase", n, IF verify => Sound[Parent[d], NewParent(d)]
                                    THEN "finished" ELSE "failed")
          /\ UNCHANGED <<src, dst>>
  /\ UNCHANGED <<inPlace, db, fences, control, history, mishaps>>

\* migration_verify_destination
RunVerify(d, n) ==
  /\ Ends(d, "verify", n,
          IF /\ Sound[d, "dst"]
             /\ Parent[d] # NoDisk => Backing(d, "dst") = NewParent(d)
          THEN "finished" ELSE "failed")
  /\ UNCHANGED <<inPlace, db, files, fences, control, history, mishaps>>

\* delete or move_delete, of a source or of a copy
RunDelete(d, k, n) ==
  /\ IF k = "del" THEN src' = [src EXCEPT ![d] = "gone"] /\ UNCHANGED dst
                  ELSE dst' = [dst EXCEPT ![d] = "none"] /\ UNCHANGED src
  /\ Ends(d, k, n, "finished")
  /\ UNCHANGED <<inPlace, db, backSrc, backDst, fences, control, history,
                 mishaps>>

Work(d, k, n) == \/ k = "pre" /\ RunPreflight(d, n)
                 \/ k = "move" /\ RunMove(d, n)
                 \/ k = "rebase" /\ RunRebase(d, n)
                 \/ k = "verify" /\ RunVerify(d, n)
                 \/ k \in {"del", "drop"} /\ RunDelete(d, k, n)

\* The worker dies over a task, or its result expires while it is to be read.
Lose(d, k, n) ==
  /\ k \in DOMAIN From
  /\ \/ n \in Live(d, k)
     \/ item[d][k] = <<"id", n>> /\ item[d].state = From[k] /\ job[d][k][n] # "gone"
  /\ Mishap
  /\ Ends(d, k, n, "gone")
  /\ dst' \in IF k = "move" /\ n \in Live(d, k) THEN {dst, [dst EXCEPT ![d] = "bad"]}
             ELSE {dst}
  /\ UNCHANGED <<inPlace, db, src, backSrc, backDst, fences, control, history>>

-----------------------------------------------------------------------------
(* Users and admins.                                                         *)

Busy == InFlight \/ \E p \in Drivers : ~ At(p, "idle")

\* A desktop starts if it is stopped and its disk is ready. What it writes is
\* missing in the other file.
UserStart(d) ==
  /\ Mishap
  /\ dom[d] = "Stopped" /\ row[d].status = "ready"
  /\ dom' = [dom EXCEPT ![d] = "Started"]
  /\ src' = IF row[d].at = "dst" /\ src[d] = "good"
            THEN [src EXCEPT ![d] = "stale"] ELSE src
  /\ dst' = IF row[d].at = "src" /\ dst[d] = "good"
            THEN [dst EXCEPT ![d] = "stale"] ELSE dst
  /\ ran' = IF Busy /\ item[d].state \notin Terminal THEN ran \cup {d} ELSE ran
  /\ UNCHANGED <<inPlace, item, row, backSrc, backDst, queues, control, doubled,
                 fumbled, revived, cut, overlapped>>

UserStop(d) ==
  /\ dom[d] = "Started"
  /\ dom' = [dom EXCEPT ![d] = "Stopped"]
  /\ UNCHANGED <<inPlace, item, row, files, queues, control, history, mishaps>>

\* set_action
Admin ==
  /\ Mishap
  /\ \/ status \in {"running", "space"} /\ status' = "paused"
     \/ status \in {"paused", "space"} /\ status' = "running"
     \/ status \in {"running", "space", "paused"} /\ status' = "finishing_tree"
  /\ UNCHANGED <<inPlace, db, files, queues, lease, drv, history>>

-----------------------------------------------------------------------------
Handle(p) ==
  \/ Skip(p) \/ Claim(p) \/ Charge(p) \/ Orig(p) \/ Maint(p) \/ Record(p)
  \/ Park(p) \/ Send(p) \/ Note(p) \/ Mark(p) \/ Repoint(p) \/ Commit(p)
  \/ Release(p) \/ Erase(p) \/ Released(p) \/ SkipRelease(p) \/ Fail(p)
  \/ Defer(p) \/ Terminalize(p) \/ Drop(p) \/ Discard(p) \/ Abandon(p)
  \/ Settle(p)

Next ==
  \/ \E p \in Drivers : \/ Drive(p) \/ Handle(p) \/ Resume(p)
                        \/ Raise(p) \/ Crash(p) \/ Stall(p)
  \/ \E d \in Disks : \/ \E k \in Kinds : \E n \in Live(d, k) : Work(d, k, n)
                      \/ \E k \in Kinds : \E n \in DOMAIN job[d][k] : Lose(d, k, n)
  \/ \E d \in Desktops : UserStart(d) \/ UserStop(d)
  \/ Admin

Spec == Init /\ [][Next]_vars

\* The scheduler's backstop comes round again and again, a handler goes on, and
\* every lane with work has a consumer. Nothing obliges users, admins or the
\* pool to make room.
FairSpec ==
  /\ Spec
  /\ \A p \in Drivers : WF_vars(Drive(p)) /\ WF_vars(Handle(p))
  /\ \A d \in Disks, k \in Kinds : WF_vars(\E n \in Live(d, k) : Work(d, k, n))

-----------------------------------------------------------------------------
(* What must hold.                                                           *)

Refs == {"none", "fence", "id"} \X Nat
States == {"pending", "moving", "moved", "rebased", "db_updated"} \cup Terminal

\* The ledger, the rows, the files, the queue and the drivers are of the kinds
\* the code gives them.
TypeOK ==
  /\ inPlace \subseteq Disks
  /\ item \in [Disks -> [state : States, pre : Refs, move : Refs, rebase : Refs,
                         verify : Refs, passed : BOOLEAN, owned : BOOLEAN,
                         orig : {"none", "ready"}, parked : {"none", "yes", "empty"},
                         abandons : 0..MaxAbandon + 1]]
  /\ row \in [Disks -> [status : {"ready", "maintenance"}, at : {"src", "dst"}]]
  /\ dom \in [Desktops -> {"Stopped", "Started", "Maintenance"}]
  /\ src \in [Disks -> {"good", "stale", "gone"}]
  /\ dst \in [Disks -> {"none", "good", "stale", "bad"}]
  /\ backSrc \in [Disks -> {"src", "dst"}] /\ backDst \in [Disks -> {"src", "dst"}]
  /\ \A d \in Disks, k \in Kinds :
       job[d][k] \in Seq({"queued", "finished", "failed", "floor", "gone"})
  /\ status \in {"running", "space", "paused", "finishing_tree", "ended"}
  /\ lease \in Drivers \cup {NoOne}
  /\ doubled \subseteq Disks /\ ran \subseteq Disks
  /\ {fumbled, revived, cut, overlapped} \subseteq BOOLEAN
  /\ mishaps \in 0..MaxMishaps

\* A disk in place, or one that backs onto such a disk, whose header was rewritten
\* onto the new file of its parent while the row of the parent is not there.
Ahead[d \in Disks] ==
  /\ Parent[d] # NoDisk
  /\ \/ d \in inPlace /\ backSrc[d] = "dst" /\ row[Parent[d]].at = "src"
     \/ Ahead[Parent[d]]

\* Whatever fails, dies or is withdrawn half-way, the row of every disk points to
\* a file that is there, sound down to the root and up to date (the commit of the
\* tree after its gate, _discard_destination's and _release's order). Not so for a
\* disk whose desktop was started under the copy, nor once two copies ran at a
\* time, two drivers wrote at a time or an abandoned tree was taken up again; and
\* not for a disk in place under one that moves: its header is rewritten before
\* the gate and never back, so it is lost with its parent's copy.
Kept ==
  \A d \in Disks :
    d \notin ran /\ ~ Ahead[d] /\ doubled = {} /\ ~ revived /\ ~ overlapped
      => Current[d, row[d].at]

Back == \A d \in Disks : /\ row[d].status = "ready"
                         /\ d \in Desktops => dom[d] # "Maintenance"

\* A job that ended leaves no disk in maintenance and no desktop parked, whichever
\* way each disk went (_restore_storage_status on release, failure and cancel).
\* Not so when an exception closed the last open disk: that one is left to the
\* reconciler's passes over rows in maintenance; nor when two drivers overlapped.
Restored == status = "ended" /\ ~ revived /\ ~ cut /\ ~ overlapped => Back

\* No row is repointed before the destination of every disk of the tree passed
\* its gate, and no source is removed before every row is (tree_next's phases).
TreeAtOnce ==
  ~ revived /\ ~ overlapped =>
    \A d \in Disks, e \in Disks \ inPlace :
      /\ row[d].at = "dst" => item[e].passed
      /\ job[d]["del"] # <<>> => row[e].at = "dst"

\* Two copies of a disk are never under way at a time, unless one was sent and
\* not noted or its status misread: of two drivers that read the same ledger the
\* claim of _start_move lets one through, whichever held the lease. It does not
\* when one overtakes the other between its claim and its note, where the fence
\* looks like a task that is gone (advance: the lease keeps drains disjoint).
OneCopy == doubled = {} \/ fumbled \/ overlapped

Rank == [pending |-> 0, moving |-> 1, moved |-> 2, rebased |-> 3, db_updated |-> 4,
         released |-> 5, skipped |-> 5, failed |-> 5]

\* A disk never goes back in the ledger, other than to wait for room, and a disk
\* that is done with stays so: a driver that stalled before its claim regresses
\* nothing, for the claim compares the state (_start_move). The writes after it,
\* and those of the other handlers, compare nothing; only the lease keeps the
\* ones of two drivers apart.
Onward ==
  [][\A d \in Disks :
       \/ Rank[item'[d].state] >= Rank[item[d].state]
       \/ item[d].state = "moving" /\ item'[d].state = "pending"
       \/ overlapped]_vars

\* A tree that is on its way does not stay so: it is carried through, given up,
\* or back at its start (paused jobs included).
TreesFinish == InFlight ~> ~ InFlight

\* A job that is driven comes to its end or to a pause.
JobEnds == status \in {"running", "finishing_tree"} ~> status \notin {"running", "finishing_tree"}

\* What the gate of a tree promises: no disk is copied while its desktop runs.
AtRest == \A d \in Desktops : Live(d, "move") # {} /\ ~ revived => dom[d] # "Started"

=============================================================================
