-------------------------- MODULE TaskChainProofs ---------------------------
(***************************************************************************)
(* The safety of TaskChain, for any tree of jobs and steps and any number  *)
(* of dispatches, cancels and faults: no phantom success, one knot child,  *)
(* and what an acknowledged result leaves behind.                          *)
(***************************************************************************)
EXTENDS TaskChainTypeProofs

\* What a dispatch changes outside of its own memory.
LEMMA ActChanges ==
  ASSUME NEW d \in Dispatches, Act(d)
  PROVE  \/ UNCHANGED <<rqVars, entries, sweep, histVars>>
         \/ PutStatus(d) \/ (\E s \in Steps : Handle(d, s)) \/ CreateKnot(d)
         \/ SaveKnot(d) \/ EnqueueKnot(d) \/ (\E j \in Jobs : SaveAnchor(d, j)) \/ Finish(d)
<1> DEFINE quiet == UNCHANGED <<rqVars, entries, sweep, histVars>>
<1>1. ASSUME NEW e \in entries, Take(d, e) PROVE quiet
  BY <1>1, Zenon DEF Take
<1>2. ASSUME PeekStatus(d) \/ Discover(d) \/ Hydrate(d) \/ Mark(d) PROVE quiet
  BY <1>2, Zenon DEF PeekStatus, Discover, Hydrate, Mark
<1>3. ASSUME NEW j \in Jobs, Lock(d, j) \/ SaveFails(d, j) PROVE quiet
  BY <1>3, Zenon DEF Lock, SaveFails
<1>4. ASSUME NEW s \in Steps, HandlerRaises(d, s) PROVE quiet
  BY <1>4, Zenon DEF HandlerRaises
<1>5. ASSUME DispatchRaises(d) \/ KnotDeclined(d) \/ EnqueueFails(d) \/ AckLost(d)
      PROVE  quiet
  BY <1>5, Zenon DEF DispatchRaises, KnotDeclined, EnqueueFails, AckLost
<1> HIDE DEF quiet
<1>6. Act(d) => \/ quiet
                \/ PutStatus(d) \/ (\E s \in Steps : Handle(d, s)) \/ CreateKnot(d)
                \/ SaveKnot(d) \/ EnqueueKnot(d) \/ (\E j \in Jobs : SaveAnchor(d, j)) \/ Finish(d)
  BY <1>1, <1>2, <1>3, <1>4, <1>5, Zenon DEF Act, Dispatch
<1> QED
  BY <1>6, Zenon DEF quiet

\* What becomes of the entry and of the marks that a dispatch has in memory, and
\* what brings it to a child that it has saved and not queued.
LEMMA MemoryMoves ==
  ASSUME Typed, NEW d \in Dispatches, Act(d)
  PROVE  /\ disp'[d].entry = disp[d].entry \/ disp'[d].entry = NoEntry
            \/ disp'[d].entry \in entries
         /\ \/ disp'[d].view = disp[d].view \/ disp'[d].view = [j \in Jobs |-> Empty]
            \/ Hydrate(d) /\ disp'[d].view = Hydrated(d)
            \/ Mark(d)
         /\ disp'[d].pc \in Hatching =>
              \/ CreateKnot(d)
              \/ SaveKnot(d) /\ disp[d].pc \in Hatching /\ disp'[d].cur = disp[d].cur
<1> DEFINE kept == /\ disp'[d].entry = disp[d].entry /\ disp'[d].view = disp[d].view
                   /\ disp'[d].pc \notin Hatching
           idle == /\ disp'[d].entry = NoEntry /\ disp'[d].view = [j \in Jobs |-> Empty]
                   /\ disp'[d].pc \notin Hatching
<1>1. ASSUME NEW e \in entries, Take(d, e)
      PROVE  /\ disp'[d].entry \in entries /\ disp'[d].view = disp[d].view
             /\ disp'[d].pc \notin Hatching
  BY <1>1, TakeMoves, Zenon DEF KeepsWalk, Hatching
<1>2. ASSUME PeekStatus(d) \/ PutStatus(d) PROVE kept
  BY <1>2, StatusMoves, Zenon DEF KeepsEntry, KeepsWalk, Hatching
<1>3. ASSUME Discover(d) PROVE kept
  BY <1>3, DiscoverMoves, Zenon DEF KeepsEntry, KeepsWalk, Hatching
<1>4. ASSUME NEW j \in Jobs, Lock(d, j) PROVE kept
  BY <1>4, LockMoves, Zenon DEF KeepsEntry, KeepsWalk, Hatching
<1>5. ASSUME Hydrate(d)
      PROVE  \/ kept \/ idle
             \/ /\ disp'[d].entry = disp[d].entry /\ disp'[d].view = Hydrated(d)
                /\ disp'[d].pc \notin Hatching
  BY <1>5, HydrateMoves, IdleIs, Zenon DEF KeepsEntry, KeepsWalk, Hatching
<1>6. ASSUME NEW s \in Steps, Handle(d, s) \/ HandlerRaises(d, s) PROVE kept
  BY <1>6, StepMoves, Zenon DEF KeepsEntry, KeepsWalk, Hatching
<1>7. ASSUME Mark(d)
      PROVE  disp'[d].entry = disp[d].entry /\ disp'[d].pc \notin Hatching
  BY <1>7, MarkMoves, Zenon DEF KeepsEntry, Hatching
<1>8. ASSUME CreateKnot(d) \/ KnotDeclined(d) \/ EnqueueKnot(d) \/ EnqueueFails(d)
      PROVE  /\ disp'[d].entry = disp[d].entry /\ disp'[d].view = disp[d].view
             /\ disp'[d].pc \in Hatching => CreateKnot(d)
  BY <1>8, KnotMoves, Zenon DEF KeepsEntry, KeepsWalk, Hatching
<1>9. ASSUME NEW j \in Jobs, SaveAnchor(d, j) \/ SaveFails(d, j) PROVE kept
  BY <1>9, SaveMoves, Zenon DEF KeepsEntry, KeepsWalk, Hatching
<1>10. ASSUME Drops(d) PROVE idle
  BY <1>10, DropsMoves, IdleIs, Zenon DEF Hatching
<1>11. ASSUME SaveKnot(d)
       PROVE  /\ disp'[d].entry = disp[d].entry /\ disp'[d].view = disp[d].view
              /\ disp[d].pc \in Hatching /\ disp'[d].cur = disp[d].cur
  BY <1>11, FillMoves, Zenon DEF KeepsEntry, KeepsWalk, KeepsTurn, Hatching
<1> QED
  BY <1>1, <1>2, <1>3, <1>4, <1>5, <1>6, <1>7, <1>8, <1>9, <1>10, <1>11, Zenon
  DEF Act, Dispatch, Drops

\* One mark of one anchor.
LEMMA MarkAt ==
  ASSUME NEW f \in [Jobs -> [Steps -> Marks]], NEW h \in Jobs, NEW s \in Steps, NEW m,
         NEW j \in Jobs, NEW t \in Steps
  PROVE  [f EXCEPT ![h][s] = m][j][t] = IF j = h /\ t = s THEN m ELSE f[j][t]
<1>1. f[h] \in [Steps -> Marks]
  BY Zenon
<1>2. CASE j = h
  <2>1. [f EXCEPT ![h][s] = m][j] = [f[h] EXCEPT ![s] = m]
    BY <1>2, Zenon
  <2> QED
    BY <1>1, <1>2, <2>1, Zenon
<1>3. CASE j # h
  BY <1>3, Zenon
<1> QED
  BY <1>2, <1>3, Zenon

LEMMA MarkedView ==
  ASSUME Typed, NEW d \in Dispatches, Mark(d)
  PROVE  \E m \in {"finished", "failed"} :
           /\ m = "finished" => DependingFinished(d, disp[d].cur)
           /\ \A j \in Jobs, t \in Steps :
                disp'[d].view[j][t] = IF j = Home(disp[d].cur) /\ t = disp[d].cur
                                      THEN m ELSE disp[d].view[j][t]
<1> DEFINE s == disp[d].cur
           h == Home(s)
<1>1. PICK m \in {"finished", "failed"} :
        /\ m = "finished" => DependingFinished(d, s)
        /\ disp'[d].view = [disp[d].view EXCEPT ![h][s] = m]
  BY MarkMoves, Zenon
<1>2. s \in Steps /\ h \in Jobs
  BY MarkMoves, HomeIsJob, Zenon
<1>3. disp[d] \in DispatchState
  BY Was, Zenon
<1>4. disp[d].view \in [Jobs -> [Steps -> Marks]]
  BY <1>3 DEF DispatchState
<1> HIDE DEF h
<1>5. \A j \in Jobs, t \in Steps :
        disp'[d].view[j][t] = IF j = h /\ t = s THEN m ELSE disp[d].view[j][t]
  <2> SUFFICES ASSUME NEW j \in Jobs, NEW t \in Steps
               PROVE  disp'[d].view[j][t] = IF j = h /\ t = s THEN m ELSE disp[d].view[j][t]
    BY Zenon
  <2> DEFINE f == disp[d].view
  <2>1. f \in [Jobs -> [Steps -> Marks]] /\ disp'[d].view = [f EXCEPT ![h][s] = m]
    BY <1>1, <1>4, Zenon
  <2> HIDE DEF f, s
  <2>2. [f EXCEPT ![h][s] = m][j][t] = IF j = h /\ t = s THEN m ELSE f[j][t]
    BY <1>2, <2>1, MarkAt
  <2> QED
    BY <2>1, <2>2, Zenon DEF f
<1> QED
  BY <1>1, <1>5, Zenon DEF h

\* What a cancel and the reconciler change: one job reads canceled, one orphan
\* is released, or the roots of the closure are announced.
LEMMA SweepChanges ==
  ASSUME Typed, NEW x \in Cancels, Sweeping(x)
  PROVE  /\ UNCHANGED <<running, meta, blob, disp, histVars>>
         /\ \A i \in Jobs : \/ status'[i] = status[i]
                            \/ status'[i] = "canceled" /\ sweep[x].stage = "apply"
                               /\ i = sweep[x].job
                            \/ status'[i] = "queued" /\ status[i] = "deferred"
         /\ \A e \in entries' : e \in entries
                                \/ (e.kind = "canceled" /\ e.outcome = "canceled"
                                    /\ e.job \in sweep[x].roots)
         /\ \E w \in SweepState : Sweeps(x, w) \/ (UNCHANGED sweep /\ w = sweep[x])
         /\ faults' \in Nat /\ faults' >= faults
<1>0. /\ sweep[x] \in SweepState /\ faults \in 0..MaxFaults
      /\ status \in [Jobs -> Statuses]
  BY Zenon DEF Typed, TypeOK, Statuses
<1>1. faults \in Nat /\ faults >= faults /\ (Fault => faults' \in Nat /\ faults' >= faults)
  BY <1>0, ChainAssumption DEF Fault
<1> USE DEF rqVars, histVars
<1>2. CASE BeginCancel(x)
  <2>1. cancels + 1 \in 0..MaxCancels
    BY <1>2, ChainAssumption DEF BeginCancel, Typed, TypeOK
  <2>2. \E w \in SweepState : Sweeps(x, w)
    BY <1>2, <2>1, BeginMoves, Zenon DEF BeginCancel
  <2> QED
    BY <1>0, <1>1, <1>2, <2>2, Zenon DEF BeginCancel
<1>3. CASE CancelFails(x) \/ CancelDies(x)
  <2>1. \E w \in SweepState : Sweeps(x, w)
    BY <1>3, CancelMoves, Zenon
  <2> QED
    BY <1>0, <1>1, <1>3, <2>1, Zenon DEF CancelFails, CancelDies
<1>4. ASSUME NEW j \in Jobs, CancelRead(x, j)
      PROVE  UNCHANGED <<rqVars, entries, disp, faults, histVars>>
  BY <1>4, Zenon DEF CancelRead
<1>5. CASE Cancel(x)
  <2>1. \E w \in SweepState : Sweeps(x, w)
    BY <1>5, CancelMoves, Zenon DEF Cancel
  <2>2. CASE CancelApply(x)
    <3>1. \A i \in Jobs : \/ status'[i] = status[i]
                          \/ status'[i] = "canceled" /\ sweep[x].stage = "apply"
                             /\ i = sweep[x].job
      BY <1>0, <2>2, Zenon DEF CancelApply
    <3> QED
      BY <1>1, <2>1, <2>2, <3>1, Zenon DEF CancelApply
  <2>3. CASE CancelStamp(x)
    BY <1>1, <2>1, <2>3, Zenon DEF CancelStamp
  <2>4. CASE Announce(x)
    <3>1. \A e \in entries' : e \in entries
                              \/ (e.kind = "canceled" /\ e.outcome = "canceled"
                                    /\ e.job \in sweep[x].roots)
      <4>1. ASSUME NEW j \in sweep[x].roots,
                   NEW e, e = [kind |-> "canceled", job |-> j, outcome |-> "canceled",
                               no |-> sweep[x].no]
            PROVE  /\ e.kind = "canceled" /\ e.outcome = "canceled"
                   /\ e.job \in sweep[x].roots
        BY <4>1, Zenon
      <4> QED
        BY <2>4, <4>1, Zenon DEF Announce
    <3> QED
      BY <1>1, <2>1, <2>4, <3>1, Zenon DEF Announce
  <2>5. CASE \E j \in Jobs : CancelRead(x, j)
    BY <1>1, <1>4, <2>1, <2>5, Zenon
  <2> QED
    BY <1>5, <2>2, <2>3, <2>4, <2>5, Zenon DEF Cancel
<1>6. ASSUME NEW j \in Jobs, Heal(x, j)
      PROVE  /\ UNCHANGED <<running, meta, blob, disp, entries, faults, histVars>>
             /\ \/ UNCHANGED status /\ sweep' = [sweep EXCEPT ![x] = Begun(0)]
                \/ /\ UNCHANGED sweep
                   /\ \A i \in Jobs : \/ status'[i] = status[i]
                                      \/ status'[i] = "queued" /\ status[i] = "deferred"
  BY <1>0, <1>6, Zenon DEF Heal, Orphan
<1>7. CASE \E j \in Jobs : Heal(x, j)
  <2>1. 0 \in 0..MaxCancels
    BY ChainAssumption
  <2>2. CASE UNCHANGED status /\ sweep' = [sweep EXCEPT ![x] = Begun(0)]
    <3>1. \E w \in SweepState : Sweeps(x, w)
      BY <2>1, <2>2, BeginMoves, Zenon
    <3> QED
      BY <1>1, <1>6, <1>7, <2>2, <3>1, Zenon
  <2>3. CASE /\ UNCHANGED sweep
             /\ \A i \in Jobs : \/ status'[i] = status[i]
                                \/ status'[i] = "queued" /\ status[i] = "deferred"
    BY <1>0, <1>1, <1>6, <1>7, <2>3, Zenon
  <2> QED
    BY <1>6, <1>7, <2>2, <2>3, Zenon
<1> QED
  BY <1>2, <1>3, <1>5, <1>7, Zenon DEF Sweeping

-----------------------------------------------------------------------------
(* No phantom success: whatever says finished stands on a completed body.    *)

\* The marks f say finished only for jobs in w.
Backed(f, w) == \A j \in Jobs, s \in Steps : f[j][s] = "finished" => Of[s] \in w

\* So do the entry and the view of a dispatch.
Honest(r, w) == (r.entry.outcome = "finished" => r.entry.job \in w) /\ Backed(r.view, w)

Worked ==
  /\ \A j \in Jobs : status[j] = "finished" => j \in worked
  /\ \A e \in entries : e.outcome = "finished" => e.job \in worked
  /\ \A d \in Dispatches : Honest(disp[d], worked)
  /\ Backed(meta, worked) /\ Backed(blob, worked)
  /\ \A s \in Steps : body[s] = "success" => Of[s] \in worked

LEMMA IdleHonest == \A w : Honest(Idle, w)
<1>1. NoEntry.outcome = "none"
  BY Zenon DEF NoEntry
<1> QED
  BY <1>1, IdleIs, Zenon DEF Honest, Backed, Empty

\* depending_status says finished only after the body of the storage job above.
LEMMA DependingWorked ==
  ASSUME Typed, Worked, NEW d \in Dispatches, NEW s \in Steps, DependingFinished(d, s)
  PROVE  Of[s] \in worked
<1>1. CASE Under[s] \in Steps
  <2>1. disp[d].view[Home(s)][Under[s]] = "finished"
    BY <1>1, Zenon DEF DependingFinished
  <2>2. Of[Under[s]] \in worked
    BY <1>1, <2>1, HomeIsJob, Zenon DEF Worked, Honest, Backed
  <2>3. Of[s] = Of[Under[s]]
    BY <1>1, ChainAssumption, Zenon
  <2> QED
    BY <2>2, <2>3, Zenon
<1>2. CASE Under[s] \notin Steps
  <2>1. Under[s] \in Jobs /\ Of[s] = Under[s] /\ status[Under[s]] = "finished"
    BY <1>2, ChainAssumption, Zenon DEF DependingFinished
  <2> QED
    BY <2>1, Zenon DEF Worked
<1> QED
  BY <1>1, <1>2, Zenon

LEMMA HonestAct ==
  ASSUME Typed, Worked, NEW d \in Dispatches, Act(d)
  PROVE  Honest(disp'[d], worked)
<1>0. Honest(disp[d], worked) /\ Backed(meta, worked) /\ Honest(Idle, worked)
  BY IdleHonest, Zenon DEF Worked
<1>1. disp'[d].entry.outcome = "finished" => disp'[d].entry.job \in worked
  <2>1. NoEntry.outcome = "none"
    BY Zenon DEF NoEntry
  <2> QED
    BY <1>0, <2>1, MemoryMoves, Zenon DEF Worked, Honest
<1>2. Backed(Hydrated(d), worked)
  <2> SUFFICES ASSUME NEW j \in Jobs, NEW s \in Steps, Hydrated(d)[j][s] = "finished"
               PROVE  meta[j][s] = "finished"
    BY <1>0, Zenon DEF Backed
  <2> QED
    BY Zenon DEF Hydrated, Empty
<1>3. ASSUME Mark(d) PROVE Backed(disp'[d].view, worked)
  <2>1. PICK m \in {"finished", "failed"} :
          /\ m = "finished" => DependingFinished(d, disp[d].cur)
          /\ \A j \in Jobs, t \in Steps :
               disp'[d].view[j][t] = IF j = Home(disp[d].cur) /\ t = disp[d].cur
                                     THEN m ELSE disp[d].view[j][t]
    BY <1>3, MarkedView, Zenon
  <2>2. disp[d].cur \in Steps
    BY <1>3, MarkMoves, Zenon
  <2>3. m = "finished" => Of[disp[d].cur] \in worked
    BY <2>1, <2>2, DependingWorked, Zenon
  <2>4. ASSUME NEW j \in Jobs, NEW t \in Steps, disp'[d].view[j][t] = "finished"
        PROVE  disp[d].view[j][t] = "finished" \/ (t = disp[d].cur /\ m = "finished")
    BY <2>1, <2>4, Zenon
  <2> QED
    BY <1>0, <2>3, <2>4, Zenon DEF Honest, Backed
<1>4. Backed([j \in Jobs |-> Empty], worked)
  BY Zenon DEF Backed, Empty
<1>5. Backed(disp'[d].view, worked)
  BY <1>0, <1>2, <1>3, <1>4, MemoryMoves, Zenon DEF Honest
<1> QED
  BY <1>1, <1>5, Zenon DEF Honest

LEMMA WorkedAct ==
  ASSUME Typed, Worked, NEW d \in Dispatches, Act(d)
  PROVE  Worked'
<1>0. /\ status \in [Jobs -> Statuses] /\ meta \in [Jobs -> [Steps -> Marks]]
      /\ body \in [Steps -> {"none", "success", "failure"}]
  BY Zenon DEF Typed, TypeOK, Statuses
<1>1. \A o \in Dispatches : Honest(disp'[o], worked)
  <2>1. Others(d) /\ Honest(disp'[d], worked)
    BY HeldMoves, HonestAct, Zenon
  <2> QED
    BY <2>1, Zenon DEF Others, Worked
<1> USE DEF rqVars, histVars
<1>2. ASSUME UNCHANGED <<worked, blob>>, entries' \subseteq entries,
             \A j \in Jobs : status'[j] = "finished" => j \in worked,
             Backed(meta', worked),
             \A s \in Steps : body'[s] = "success" => Of[s] \in worked
      PROVE  Worked'
  BY <1>1, <1>2, Zenon DEF Worked
<1>3. CASE UNCHANGED <<rqVars, entries, sweep, histVars>> \/ Finish(d)
  BY <1>2, <1>3, Zenon DEF Worked, Finish
<1>4. CASE PutStatus(d)
  <2>1. \A j \in Jobs : status'[j] = "finished" => j \in worked
    BY <1>0, <1>4, Zenon DEF PutStatus, Worked, Honest
  <2> QED
    BY <1>2, <1>4, <2>1, Zenon DEF Worked, PutStatus
<1>5. ASSUME NEW s \in Steps, Handle(d, s) PROVE Worked'
  <2>1. DependingFinished(d, s) => Of[s] \in worked
    BY DependingWorked, Zenon
  <2>2. \A t \in Steps : body'[t] = "success" => Of[t] \in worked
    BY <1>0, <1>5, <2>1, Zenon DEF Handle, Worked
  <2> QED
    BY <1>2, <1>5, <2>2, Zenon DEF Worked, Handle
<1>6. CASE CreateKnot(d)
  <2>1. \A j \in Jobs : status'[j] = "finished" => status[j] = "finished"
    BY <1>0, <1>6, Zenon DEF CreateKnot
  <2> QED
    BY <1>2, <1>6, <2>1, Zenon DEF Worked, CreateKnot
<1>7. CASE EnqueueKnot(d)
  <2>1. \A j \in Jobs : status'[j] = "finished" => status[j] = "finished"
    BY <1>0, <1>7, Zenon DEF EnqueueKnot
  <2> QED
    BY <1>2, <1>7, <2>1, Zenon DEF Worked, EnqueueKnot
<1>8. ASSUME NEW j \in Jobs, SaveAnchor(d, j) PROVE Worked'
  <2>1. Backed(meta', worked)
    BY <1>0, <1>8, Zenon DEF SaveAnchor, Backed, Worked, Honest
  <2> QED
    BY <1>2, <1>8, <2>1, Zenon DEF Worked, SaveAnchor
<1>9. CASE SaveKnot(d)
  <2>1. Backed(meta', worked)
    BY <1>0, <1>9, Zenon DEF SaveKnot, Backed, Fresh, Worked
  <2> QED
    BY <1>2, <1>9, <2>1, Zenon DEF Worked, SaveKnot
<1> QED
  BY <1>3, <1>4, <1>5, <1>6, <1>7, <1>8, <1>9, ActChanges, Zenon

LEMMA WorkedWorker ==
  ASSUME Typed, Worked, Worker
  PROVE  Worked'
<1>0. /\ status \in [Jobs -> Statuses] /\ meta \in [Jobs -> [Steps -> Marks]]
      /\ blob \in [Jobs -> [Steps -> Marks]]
  BY Zenon DEF Typed, TypeOK, Statuses
<1> USE DEF histVars
<1>1. ASSUME NEW j \in Jobs, Dequeue(j) PROVE Worked'
  <2>1. \A i \in Jobs : status'[i] = "finished" => status[i] = "finished"
    BY <1>0, <1>1, Zenon DEF Dequeue
  <2>2. Backed(blob', worked)
    BY <1>0, <1>1, Zenon DEF Dequeue, Backed, Worked
  <2> QED
    BY <1>1, <2>1, <2>2, Zenon DEF Dequeue, Worked
<1>2. ASSUME NEW j \in Jobs, SaveProgress(j) PROVE Worked'
  <2>1. Backed(meta', worked)
    BY <1>0, <1>2, Zenon DEF SaveProgress, Backed, Worked
  <2> QED
    BY <1>2, <2>1, Zenon DEF SaveProgress, Worked
<1>3. ASSUME NEW j \in Jobs, NEW o \in {"finished", "failed"}, WorkerDone(j, o)
      PROVE  Worked'
  <2>1. worked \subseteq worked' /\ (o = "finished" => j \in worked')
    BY <1>3, Zenon DEF WorkerDone
  <2>2. \A i \in Jobs : status'[i] = "finished" => i \in worked'
    BY <1>0, <1>3, <2>1, Zenon DEF WorkerDone, Worked
  <2>3. \A e \in entries' : e.outcome = "finished" => e.job \in worked'
    <3>1. ASSUME NEW e, e = [kind |-> "result", job |-> j, outcome |-> o, no |-> 0]
          PROVE  e.outcome = o /\ e.job = j
      BY <3>1, Zenon
    <3> QED
      BY <1>3, <2>1, <3>1, Zenon DEF WorkerDone, Worked
  <2>4. Backed(meta', worked') /\ \A d \in Dispatches : Honest(disp'[d], worked')
    BY <1>3, <2>1, Zenon DEF WorkerDone, Worked, Backed, Honest
  <2>5. Backed(blob', worked')
    BY <1>0, <1>3, <2>1, Zenon DEF WorkerDone, Worked, Backed, Empty
  <2>6. \A s \in Steps : body'[s] = "success" => Of[s] \in worked'
    BY <1>3, <2>1, Zenon DEF WorkerDone, Worked
  <2> QED
    BY <2>2, <2>3, <2>4, <2>5, <2>6, Zenon DEF Worked
<1> QED
  BY <1>1, <1>2, <1>3, Zenon DEF Worker

LEMMA WorkedAlways == Spec => []Worked
<1>1. Init => Worked
  <2> SUFFICES ASSUME Init PROVE Worked
    BY Zenon
  <2>1. Backed(meta, worked) /\ Backed(blob, worked)
    BY Zenon DEF Init, Backed, Fresh, Empty
  <2>2. \A d \in Dispatches : Honest(disp[d], worked)
    BY IdleHonest, Zenon DEF Init
  <2>3. \A j \in Jobs : status[j] # "finished"
    BY Zenon DEF Init
  <2> QED
    BY <2>1, <2>2, <2>3, Zenon DEF Init, Worked
<1>2. Typed /\ Worked /\ [Next]_vars => Worked'
  <2> SUFFICES ASSUME Typed, Worked, [Next]_vars PROVE Worked'
    BY Zenon
  <2>1. CASE Crash
    <3>1. \A d \in Dispatches : Honest(disp'[d], worked)
      BY <2>1, CrashMoves, IdleHonest, Zenon
    <3> QED
      BY <2>1, <3>1, Zenon DEF Crash, Worked, rqVars, histVars
  <2>2. ASSUME NEW x \in Cancels, Sweeping(x) PROVE Worked'
    <3>1. \A j \in Jobs : status'[j] = "finished" => status[j] = "finished"
      BY <2>2, SweepChanges, Zenon
    <3>2. \A e \in entries' : e.outcome = "finished" => e \in entries
      BY <2>2, SweepChanges, Zenon
    <3>3. UNCHANGED <<meta, blob, disp, worked, body>>
      BY <2>2, SweepChanges, Zenon DEF histVars
    <3> QED
      BY <3>1, <3>2, <3>3, Zenon DEF Worked
  <2>3. CASE UNCHANGED vars
    BY <2>3, Zenon DEF vars, rqVars, histVars, Worked
  <2> QED
    BY <2>1, <2>2, <2>3, StepKinds, WorkedWorker, WorkedAct, Zenon
<1> QED
  BY <1>1, <1>2, TypedAlways, PTL DEF Spec

\* A finalize step never runs its success branch, and is never marked finished,
\* for a storage job whose body did not complete: what says finished in a status,
\* an event, a saved mark or one in memory always goes back to a completed body.
THEOREM NoPhantom == Spec => []NoPhantomSuccess
<1>1. Worked => NoPhantomSuccess
  BY Zenon DEF Worked, Backed, NoPhantomSuccess
<1> QED
  BY <1>1, WorkedAlways, PTL

-----------------------------------------------------------------------------
(* One knot child.                                                           *)

\* A live dispatch locks the anchor of its own job, and walks its steps.
Own(r) ==
  ~ Failed(r) =>
    /\ r.pc = "lock" => r.entry.job \in r.want
    /\ r.pc \in Working => /\ r.entry.job \in r.held
                           /\ r.walk = {s \in Steps : Of[s] = r.entry.job}

Owns == \A d \in Dispatches : Own(disp[d])

\* The job has ended, and if a step carries it, it was put on its queue.
Closed(j, run, st, mk) ==
  j \notin run /\ st[j] \in Terminal /\ (Carrier[j] # None => mk[j] # 0)

Kid ==
  /\ \A k \in Jobs : made[k] = 0 \/ (made[k] = 1 /\ Carrier[k] # None)
  /\ \A k \in Jobs : Carrier[k] # None =>
       /\ made[k] = 0 => status[k] \in {"absent", "created", "canceled"} /\ k \notin running
       /\ status[k] = "absent" => made[k] = 0

\* Between the calls that save a child and the one that queues it, nothing has
\* queued it.
Pending(r, st, mk) ==
  r.pc \in Hatching =>
    \A k \in Children(r.cur) : mk[k] = 0 /\ st[k] \in {"created", "canceled"}

Knots == \A d \in Dispatches : Pending(disp[d], status, made)

\* A result event speaks of a job that has ended.
Ended ==
  /\ \A e \in entries : e.kind = "result" => Closed(e.job, running, status, made)
  /\ \A d \in Dispatches : disp[d].entry.kind = "result" =>
       Closed(disp[d].entry.job, running, status, made)

Knit == Kid /\ Knots /\ Ended

\* A step carries one child at most.
LEMMA OneChild ==
  ASSUME NEW s \in Steps
  PROVE  /\ \A k \in Children(s) : k \in Jobs /\ Carrier[k] = s /\ Carrier[k] # None
         /\ \A j, k \in Children(s) : j = k
<1>1. s # None
  BY ChainAssumption, Zenon
<1>2. \A k \in Children(s) : k \in Jobs /\ Carrier[k] = s
  BY Zenon DEF Children
<1>3. \A j, k \in Jobs : Carrier[j] = Carrier[k] /\ Carrier[j] # None => j = k
  BY ChainAssumption, Zenon
<1>4. ASSUME NEW j \in Children(s), NEW k \in Children(s) PROVE j = k
  BY <1>1, <1>2, <1>3, Zenon
<1> QED
  BY <1>1, <1>2, <1>4, Zenon

LEMMA OwnAct ==
  ASSUME Typed, Owns, NEW d \in Dispatches, Act(d)
  PROVE  Own(disp'[d])
<1>0. Own(disp[d]) /\ (Failed(disp[d]) <=> Dead(d)) /\ Own(Idle)
  BY Was, IdleIs, Zenon DEF Owns, Own, Working
<1>1. ASSUME KeepsEntry(d) PROVE Failed(disp'[d]) <=> Failed(disp[d])
  BY <1>1, Zenon DEF KeepsEntry, Failed
<1>2. ASSUME KeepsEntry(d), disp[d].pc \in Working, KeepsLocks(d),
             disp'[d].walk = disp[d].walk, disp'[d].pc # "lock"
      PROVE  Own(disp'[d])
  BY <1>0, <1>1, <1>2, Zenon DEF Own, KeepsEntry, KeepsLocks
<1>3. ASSUME disp'[d].pc \notin Working \union {"lock"} PROVE Own(disp'[d])
  BY <1>3, Zenon DEF Own, Working
<1>4. ASSUME NEW e \in entries, Take(d, e) PROVE Own(disp'[d])
  BY <1>3, <1>4, TakeMoves, Zenon DEF Working
<1>5. ASSUME PeekStatus(d) \/ PutStatus(d) PROVE Own(disp'[d])
  BY <1>3, <1>5, StatusMoves, Zenon DEF Working
<1>6. ASSUME Discover(d) PROVE Own(disp'[d])
  BY <1>0, <1>1, <1>6, DiscoverMoves, Zenon DEF Own, Working, KeepsEntry
<1>7. ASSUME NEW j \in Jobs, Lock(d, j) PROVE Own(disp'[d])
  BY <1>0, <1>1, <1>7, LockMoves, Zenon DEF Own, Working, KeepsEntry
<1>8. ASSUME Hydrate(d) PROVE Own(disp'[d])
  <2>1. CASE disp'[d] = Idle
    BY <1>0, <2>1, Zenon
  <2>2. CASE disp'[d].pc = "lock" /\ disp[d].want \subseteq disp'[d].want /\ KeepsEntry(d)
    BY <1>0, <1>1, <1>8, <2>2, HydrateMoves, Zenon DEF Own, Working, KeepsEntry
  <2>3. CASE /\ disp'[d].pc = "steps" /\ disp[d].held = disp[d].want
             /\ disp'[d].walk = Walk(d) /\ KeepsEntry(d) /\ KeepsLocks(d)
    BY <1>0, <1>1, <1>8, <2>3, HydrateMoves, Zenon DEF Own, Working, KeepsEntry, KeepsLocks, Walk
  <2> QED
    BY <1>8, <2>1, <2>2, <2>3, HydrateMoves, Zenon
<1>9. ASSUME NEW s \in Steps, Handle(d, s) \/ HandlerRaises(d, s) PROVE Own(disp'[d])
  BY <1>2, <1>9, StepMoves, Zenon DEF KeepsWalk, Working
<1>10. ASSUME Mark(d) PROVE Own(disp'[d])
  BY <1>2, <1>10, MarkMoves, Zenon DEF Working
<1>11. ASSUME CreateKnot(d) \/ KnotDeclined(d) \/ EnqueueKnot(d) \/ EnqueueFails(d)
       PROVE  Own(disp'[d])
  BY <1>2, <1>11, KnotMoves, Zenon DEF KeepsWalk, Working
<1>12. ASSUME NEW j \in Jobs, SaveAnchor(d, j) \/ SaveFails(d, j) PROVE Own(disp'[d])
  BY <1>2, <1>12, SaveMoves, Zenon DEF KeepsWalk, Working
<1>13. ASSUME Drops(d) PROVE Own(disp'[d])
  BY <1>0, <1>13, DropsMoves, Zenon
<1>14. ASSUME SaveKnot(d) PROVE Own(disp'[d])
  BY <1>2, <1>14, FillMoves, Zenon DEF KeepsWalk, Working
<1> QED
  BY <1>4, <1>5, <1>6, <1>7, <1>8, <1>9, <1>10, <1>11, <1>12, <1>13, <1>14, Zenon
  DEF Act, Dispatch, Drops

LEMMA OwnsAlways == Spec => []Owns
<1>1. Init => Owns
  BY IdleIs, Zenon DEF Init, Owns, Own, Working
<1>2. Typed /\ Owns /\ [Next]_vars => Owns'
  <2> SUFFICES ASSUME Typed, Owns, [Next]_vars PROVE Owns'
    BY Zenon
  <2>1. CASE Crash
    BY <2>1, CrashMoves, IdleIs, Zenon DEF Owns, Own, Working
  <2>2. CASE disp' = disp
    BY <2>2, Zenon DEF Owns
  <2>3. ASSUME NEW d \in Dispatches, Act(d) PROVE Owns'
    BY <2>3, OwnAct, HeldMoves, Zenon DEF Owns, Others
  <2> QED
    BY <2>1, <2>2, <2>3, StepKinds, DispKept, Zenon
<1> QED
  BY <1>1, <1>2, TypedAlways, PTL DEF Spec

LEMMA Entries ==
  ASSUME Typed
  PROVE  /\ \A e \in entries : e.job \in Jobs
         /\ \A d \in Dispatches : disp[d].entry.kind = "result" => disp[d].entry.job \in Jobs
         /\ \A d \in Dispatches : disp[d].pc \in {"mark", "knot", "fill", "enqueue"} =>
              disp[d].cur \in Steps
<1>1. \A e \in entries : e.job \in Jobs
  BY Zenon DEF Typed, TypeOK, Entry
<1>2. ASSUME NEW d \in Dispatches
      PROVE  /\ disp[d].entry.kind = "result" => disp[d].entry.job \in Jobs
             /\ disp[d].pc \in {"mark", "knot", "fill", "enqueue"} => disp[d].cur \in Steps
  <2>1. disp[d] \in DispatchState /\ Shaped(disp[d])
    BY Was, Zenon
  <2>2. disp[d].entry \in Entry \union {NoEntry} /\ disp[d].walk \subseteq Steps
    BY <2>1 DEF DispatchState
  <2>3. NoEntry.kind = "none"
    BY Zenon DEF NoEntry
  <2> QED
    BY <2>1, <2>2, <2>3, Zenon DEF Entry, Shaped
<1> QED
  BY <1>1, <1>2, Zenon

\* The event that a dispatch writes over the status is a result.
LEMMA PutWrites ==
  ASSUME Typed, NEW d \in Dispatches, PutStatus(d)
  PROVE  /\ disp[d].entry.kind = "result" /\ disp[d].entry.job \in Jobs
         /\ disp[d].entry.outcome \in {"finished", "failed"}
         /\ \A i \in Jobs : status'[i] = IF i = disp[d].entry.job THEN disp[d].entry.outcome
                                         ELSE status[i]
<1>1. disp[d].pc = "put" /\ Shaped(disp[d])
  BY Was, Zenon DEF PutStatus
<1>2. disp[d].entry \in Entry /\ disp[d].entry.kind # "canceled"
      /\ disp[d].entry.outcome # "canceled"
  BY <1>1, Zenon DEF Shaped
<1>3. status \in [Jobs -> Statuses]
  BY Zenon DEF Typed, TypeOK, Statuses
<1> QED
  BY <1>2, <1>3, Zenon DEF Entry, PutStatus

\* The children that a dispatch queues were not queued before.
LEMMA QueuedKids ==
  ASSUME Typed, Knots, NEW d \in Dispatches, EnqueueKnot(d)
  PROVE  /\ disp[d].pc = "enqueue" /\ disp[d].cur \in Steps
         /\ \A k \in Children(disp[d].cur) :
              /\ k \in Jobs /\ Carrier[k] = disp[d].cur /\ Carrier[k] # None
              /\ made[k] = 0 /\ status[k] \in {"created", "canceled"}
              /\ made'[k] = 1 /\ status'[k] = "queued"
         /\ \A k \in Jobs : k \notin Children(disp[d].cur) =>
              made'[k] = made[k] /\ status'[k] = status[k]
<1> DEFINE kids == Children(disp[d].cur)
<1>1. /\ \A k \in Jobs : status'[k] = IF k \in kids THEN "queued" ELSE status[k]
      /\ \A k \in Jobs : made'[k] = IF k \in kids THEN made[k] + 1 ELSE made[k]
      /\ disp[d].pc = "enqueue"
  BY Zenon DEF EnqueueKnot
<1>2. disp[d].cur \in Steps
  BY <1>1, Entries, Zenon
<1>3. \A k \in kids : k \in Jobs /\ Carrier[k] = disp[d].cur /\ Carrier[k] # None
  BY <1>2, OneChild, Zenon
<1>4. \A k \in kids : made[k] = 0 /\ status[k] \in {"created", "canceled"}
  BY <1>1, Zenon DEF Knots, Pending, Hatching
<1> HIDE DEF kids
<1>5. \A k \in kids : made'[k] = 1 /\ status'[k] = "queued"
  BY <1>1, <1>3, <1>4
<1>6. \A k \in Jobs : k \notin kids => made'[k] = made[k] /\ status'[k] = status[k]
  BY <1>1, Zenon
<1> QED
  BY <1>1, <1>2, <1>3, <1>4, <1>5, <1>6, Zenon DEF kids

\* A job that has ended stays ended.
LEMMA ClosedStays ==
  ASSUME Typed, Knit, [Next]_vars, NEW j \in Jobs, Closed(j, running, status, made)
  PROVE  Closed(j, running', status', made')
<1>0. status \in [Jobs -> Statuses] /\ Kid /\ Knots
  BY Zenon DEF Typed, TypeOK, Statuses, Knit
<1>1. ASSUME UNCHANGED <<running, status, made>> PROVE Closed(j, running', status', made')
  BY <1>1, Zenon
<1> USE DEF rqVars, histVars
<1>2. ASSUME NEW d \in Dispatches, Act(d) PROVE Closed(j, running', status', made')
  <2>1. CASE PutStatus(d)
    <3>1. UNCHANGED <<running, made>>
      BY <2>1, Zenon DEF PutStatus
    <3> QED
      BY <2>1, <3>1, PutWrites, Zenon DEF Closed, Terminal
  <2>2. CASE CreateKnot(d)
    BY <1>0, <2>2, Zenon DEF CreateKnot, Closed, Terminal
  <2>3. CASE EnqueueKnot(d)
    <3>1. running' = running
      BY <2>3, Zenon DEF EnqueueKnot
    <3> QED
      BY <1>0, <2>3, <3>1, QueuedKids, Zenon DEF Closed
  <2>4. CASE \/ UNCHANGED <<rqVars, entries, sweep, histVars>>
             \/ (\E s \in Steps : Handle(d, s)) \/ (\E i \in Jobs : SaveAnchor(d, i))
             \/ SaveKnot(d) \/ Finish(d)
    BY <1>1, <2>4, Zenon DEF Handle, SaveAnchor, SaveKnot, Finish
  <2> QED
    BY <1>2, <2>1, <2>2, <2>3, <2>4, ActChanges, Zenon
<1>3. ASSUME NEW i \in Jobs, Dequeue(i) PROVE Closed(j, running', status', made')
  BY <1>0, <1>3, Zenon DEF Dequeue, Closed, Terminal
<1>4. ASSUME NEW i \in Jobs, SaveProgress(i) PROVE Closed(j, running', status', made')
  BY <1>1, <1>4, Zenon DEF SaveProgress
<1>5. ASSUME NEW i \in Jobs, NEW o \in {"finished", "failed"}, WorkerDone(i, o)
      PROVE  Closed(j, running', status', made')
  BY <1>0, <1>5, Zenon DEF WorkerDone, Released, Closed, Terminal
<1>6. ASSUME NEW x \in Cancels, Sweeping(x) PROVE Closed(j, running', status', made')
  BY <1>6, SweepChanges, Zenon DEF Closed, Terminal
<1>7. CASE Crash \/ UNCHANGED vars
  BY <1>1, <1>7, Zenon DEF Crash, vars
<1> QED
  BY <1>2, <1>3, <1>4, <1>5, <1>6, <1>7, StepKinds, Zenon DEF Worker

\* Two live dispatches are never at work on the children of the same step: each
\* holds the anchor that the step hangs off.
LEMMA OneCarrier ==
  ASSUME Typed, Locks, Owns, NEW d \in Dispatches, NEW o \in Dispatches, d # o,
         disp[d].pc \in {"knot", "fill", "enqueue"},
         disp[o].pc \in {"knot", "fill", "enqueue"}
  PROVE  disp[d].cur # disp[o].cur
<1>1. ASSUME NEW c \in Dispatches, disp[c].pc \in {"knot", "fill", "enqueue"}
      PROVE  Of[disp[c].cur] \in disp[c].held
  <2>1. Shaped(disp[c]) /\ Own(disp[c])
    BY Was, Zenon DEF Owns
  <2>2. disp[c].cur \in disp[c].walk /\ ~ Failed(disp[c]) /\ disp[c].pc \in Working
    BY <1>1, <2>1, Zenon DEF Shaped, Working
  <2> QED
    BY <2>1, <2>2, Zenon DEF Own
<1>2. Of[disp[d].cur] \in disp[d].held /\ Of[disp[o].cur] \in disp[o].held
  BY <1>1, Zenon
<1>3. disp[d].held \intersect disp[o].held = {}
  BY Zenon DEF Locks, Exclusive
<1>4. Of[disp[d].cur] # Of[disp[o].cur]
  BY <1>2, <1>3, Zenon
<1> QED
  BY <1>4, Zenon

LEMMA EndedAct ==
  ASSUME Typed, Knit, [Next]_vars, NEW d \in Dispatches, Act(d)
  PROVE  Ended'
<1>1. Others(d)
  BY HeldMoves, Zenon
<1>2. ASSUME NEW o \in Dispatches, disp'[o].entry.kind = "result"
      PROVE  /\ Closed(disp'[o].entry.job, running, status, made)
             /\ disp'[o].entry.job \in Jobs
  <2>1. CASE disp'[o].entry \in entries
    BY <1>2, <2>1, Zenon DEF Typed, TypeOK, Entry, Knit, Ended
  <2>2. CASE disp'[o].entry = disp[o].entry
    <3>1. disp[o] \in DispatchState
      BY Was, Zenon
    <3>2. disp[o].entry \in Entry \union {NoEntry} /\ NoEntry.kind # "result"
      BY <3>1 DEF DispatchState, NoEntry
    <3> QED
      BY <1>2, <2>2, <3>2, Zenon DEF Entry, Knit, Ended
  <2>3. disp'[o].entry # NoEntry
    <3>1. NoEntry.kind = "none"
      BY Zenon DEF NoEntry
    <3> QED
      BY <1>2, <3>1, Zenon
  <2> QED
    BY <1>1, <2>1, <2>2, <2>3, MemoryMoves, Zenon DEF Others
<1>3. entries' \subseteq entries
  BY ActChanges, Zenon
  DEF rqVars, PutStatus, Handle, CreateKnot, SaveKnot, EnqueueKnot, SaveAnchor, Finish
<1>4. \A e \in entries' : e.kind = "result" =>
        Closed(e.job, running, status, made) /\ e.job \in Jobs
  BY <1>3, Entries, Zenon DEF Knit, Ended
<1> QED
  BY <1>2, <1>4, ClosedStays, Zenon DEF Ended

LEMMA KnitAct ==
  ASSUME Typed, Locks, Owns, Knit, [Next]_vars, NEW d \in Dispatches, Act(d)
  PROVE  Knit'
<1>0. /\ status \in [Jobs -> Statuses]
      /\ Kid /\ Knots /\ Ended /\ Others(d) /\ running' = running /\ Ended'
  <2>1. running' = running
    BY ActChanges, Zenon
    DEF rqVars, PutStatus, Handle, CreateKnot, SaveKnot, EnqueueKnot, SaveAnchor, Finish
  <2> QED
    BY <2>1, HeldMoves, EndedAct, Zenon DEF Typed, TypeOK, Statuses, Knit
<1>1. ASSUME UNCHANGED <<status, made>>, ~ CreateKnot(d)
      PROVE  Knit'
  <2>1. Knots'
    BY <1>0, <1>1, MemoryMoves, Zenon DEF Knots, Pending, Others
  <2> QED
    BY <1>0, <1>1, <2>1, Zenon DEF Knit, Kid
<1>2. CASE PutStatus(d)
  <2> DEFINE j == disp[d].entry.job
  <2>1. /\ disp[d].entry.outcome \in {"finished", "failed"} /\ j \in Jobs
        /\ \A i \in Jobs : status'[i] = IF i = j THEN disp[d].entry.outcome ELSE status[i]
        /\ made' = made
    BY <1>2, PutWrites, Zenon DEF PutStatus, histVars
  <2>2. Carrier[j] # None => made[j] # 0
    BY <1>0, <1>2, PutWrites, Zenon DEF Ended, Closed
  <2> HIDE DEF j
  <2>3. Kid'
    BY <1>0, <2>1, <2>2, Zenon DEF Kid
  <2>4. Knots'
    <3> SUFFICES ASSUME NEW o \in Dispatches, disp'[o].pc \in Hatching,
                        NEW k \in Children(disp'[o].cur)
                 PROVE  made'[k] = 0 /\ status'[k] \in {"created", "canceled"}
      BY Zenon DEF Knots, Pending
    <3>1. disp'[o] = disp[o]
      BY <1>0, <1>2, StatusMoves, Zenon DEF Others, Hatching
    <3>2. k \in Jobs /\ Carrier[k] # None
      BY <3>1, Entries, OneChild, Zenon DEF Hatching
    <3>3. made[k] = 0 /\ status[k] \in {"created", "canceled"}
      BY <1>0, <3>1, Zenon DEF Knots, Pending
    <3> QED
      BY <2>1, <2>2, <3>2, <3>3, Zenon
  <2> QED
    BY <1>0, <2>3, <2>4, Zenon DEF Knit
<1>3. CASE CreateKnot(d)
  <2> DEFINE new == {k \in Children(disp[d].cur) : status[k] = "absent"}
  <2>1. /\ \A k \in Jobs : status'[k] = IF k \in new THEN "created" ELSE status[k]
        /\ made' = made /\ disp[d].pc = "knot"
    BY <1>3, Zenon DEF CreateKnot, histVars
  <2>2. \A k \in Jobs : k \in new => status[k] = "absent" /\ Carrier[k] # None
    BY Zenon DEF Typed, Formed
  <2>3. disp'[d].pc \in Hatching => disp'[d].cur = disp[d].cur /\ new # {}
    BY <1>3, KnotMoves, Zenon DEF Hatching
  <2>4. \A k \in Children(disp[d].cur) : new # {} => k \in new
    <3>1. disp[d].cur \in Steps
      BY <2>1, Entries, Zenon
    <3>2. ASSUME NEW k \in Children(disp[d].cur), NEW i \in new PROVE k \in new
      BY <3>1, OneChild, Zenon
    <3> QED
      BY <3>2, Zenon
  <2>5. \A o \in Dispatches : Children(disp[o].cur) \subseteq Jobs
    BY Zenon DEF Children
  <2> HIDE DEF new
  <2>6. Kid'
    BY <1>0, <2>1, <2>2, Zenon DEF Kid
  <2>7. Pending(disp'[d], status', made')
    BY <1>0, <2>1, <2>2, <2>3, <2>4, <2>5, Zenon DEF Pending, Kid
  <2>8. \A o \in Dispatches : Pending(disp[o], status', made')
    BY <1>0, <2>1, <2>2, <2>5, Zenon DEF Pending, Knots
  <2>9. Knots'
    BY <1>0, <2>7, <2>8, Zenon DEF Knots, Others
  <2> QED
    BY <1>0, <2>6, <2>9, Zenon DEF Knit
<1>4. CASE EnqueueKnot(d)
  <2> DEFINE kids == Children(disp[d].cur)
  <2>1. /\ disp[d].pc = "enqueue" /\ disp[d].cur \in Steps
        /\ \A k \in kids : /\ k \in Jobs /\ Carrier[k] = disp[d].cur /\ Carrier[k] # None
                           /\ made'[k] = 1 /\ status'[k] = "queued"
        /\ \A k \in Jobs : k \notin kids => made'[k] = made[k] /\ status'[k] = status[k]
    BY <1>0, <1>4, QueuedKids, Zenon
  <2> HIDE DEF kids
  <2>2. Kid'
    <3> SUFFICES ASSUME NEW k \in Jobs
                 PROVE  /\ made'[k] = 0 \/ (made'[k] = 1 /\ Carrier[k] # None)
                        /\ Carrier[k] # None /\ made'[k] = 0 =>
                             /\ status'[k] \in {"absent", "created", "canceled"}
                             /\ k \notin running'
                        /\ Carrier[k] # None /\ status'[k] = "absent" => made'[k] = 0
      BY Zenon DEF Kid
    <3>1. CASE k \in kids
      BY <2>1, <3>1
    <3>2. CASE k \notin kids
      BY <1>0, <2>1, <3>2, Zenon DEF Kid
    <3> QED
      BY <3>1, <3>2, Zenon
  <2>3. Knots'
    <3> SUFFICES ASSUME NEW o \in Dispatches, disp'[o].pc \in Hatching,
                        NEW k \in Children(disp'[o].cur)
                 PROVE  made'[k] = 0 /\ status'[k] \in {"created", "canceled"}
      BY Zenon DEF Knots, Pending
    <3>1. o # d
      <4>1. ~ CreateKnot(d) /\ ~ SaveKnot(d)
        BY <2>1, Zenon DEF CreateKnot, SaveKnot
      <4> QED
        BY <4>1, MemoryMoves, Zenon
    <3>2. disp'[o] = disp[o]
      BY <1>0, <3>1, Zenon DEF Others
    <3>3. k \in Jobs /\ Carrier[k] = disp[o].cur /\ made[k] = 0
          /\ status[k] \in {"created", "canceled"}
      BY <1>0, <3>2, Zenon DEF Children, Knots, Pending
    <3>4. k \notin kids
      <4>1. disp[o].pc \in {"knot", "fill", "enqueue"}
        BY <3>2, Zenon DEF Hatching
      <4>2. disp[d].cur # disp[o].cur
        BY <2>1, <3>1, <4>1, OneCarrier, Zenon
      <4> QED
        BY <2>1, <3>3, <4>2, Zenon
    <3> QED
      BY <2>1, <3>3, <3>4, Zenon
  <2> QED
    BY <1>0, <2>2, <2>3, Zenon DEF Knit
<1>5. CASE UNCHANGED <<rqVars, entries, sweep, histVars>>
  BY <1>1, <1>3, <1>5, Zenon DEF rqVars, histVars
<1>6. CASE \/ \E s \in Steps : Handle(d, s)
           \/ \E j \in Jobs : SaveAnchor(d, j)
           \/ SaveKnot(d) \/ Finish(d)
  <2>1. UNCHANGED <<status, made>> /\ ~ CreateKnot(d)
    BY <1>6, Zenon
    DEF Handle, SaveAnchor, SaveKnot, Finish, StepsDone, CreateKnot, rqVars, histVars
  <2> QED
    BY <1>1, <2>1, Zenon
<1> QED
  BY <1>2, <1>3, <1>4, <1>5, <1>6, ActChanges, Zenon

\* What the workers and a cancel need to keep.
LEMMA KnitBeside ==
  ASSUME Typed, Knit, [Next]_vars, UNCHANGED <<disp, made>>,
         \A e \in entries' : e.kind = "result" =>
           e \in entries \/ Closed(e.job, running', status', made'),
         \A k \in Jobs : Carrier[k] # None =>
           /\ made[k] = 0 => /\ status'[k] = status[k] \/ status'[k] = "canceled"
                             /\ k \in running' => k \in running
           /\ status'[k] = "absent" => status[k] = "absent"
  PROVE  Knit'
<1>1. Ended'
  BY Entries, ClosedStays, Zenon DEF Knit, Ended
<1>2. Kid'
  BY Zenon DEF Knit, Kid
<1>3. Knots'
  <2> SUFFICES ASSUME NEW d \in Dispatches, disp[d].pc \in Hatching,
                      NEW k \in Children(disp[d].cur)
               PROVE  made[k] = 0 /\ status'[k] \in {"created", "canceled"}
    BY Zenon DEF Knots, Pending
  <2>1. made[k] = 0 /\ status[k] \in {"created", "canceled"}
    BY Zenon DEF Knit, Knots, Pending
  <2>2. k \in Jobs /\ Carrier[k] # None
    <3>1. disp[d].cur \in Steps
      BY Entries, Zenon DEF Hatching
    <3> QED
      BY <3>1, OneChild, Zenon
  <2> QED
    BY <2>1, <2>2, Zenon
<1> QED
  BY <1>1, <1>2, <1>3, Zenon DEF Knit

LEMMA KnitWorker ==
  ASSUME Typed, Knit, [Next]_vars, Worker
  PROVE  Knit'
<1>0. status \in [Jobs -> Statuses] /\ Kid
  BY Zenon DEF Typed, TypeOK, Statuses, Knit
<1> USE DEF histVars
<1>1. ASSUME NEW j \in Jobs, Dequeue(j) PROVE Knit'
  <2>1. /\ status[j] = "queued" /\ running' = running \union {j}
        /\ \A i \in Jobs : status'[i] = IF i = j THEN "started" ELSE status[i]
        /\ UNCHANGED <<disp, made, entries>>
    BY <1>0, <1>1, Zenon DEF Dequeue
  <2>3. \A k \in Jobs : Carrier[k] # None =>
          /\ made[k] = 0 => /\ status'[k] = status[k] \/ status'[k] = "canceled"
                            /\ k \in running' => k \in running
          /\ status'[k] = "absent" => status[k] = "absent"
    BY <1>0, <2>1, Zenon DEF Kid
  <2> QED
    BY <2>1, <2>3, KnitBeside, Zenon
<1>2. ASSUME NEW j \in Jobs, SaveProgress(j) PROVE Knit'
  BY <1>2, Zenon DEF SaveProgress, Knit, Kid, Knots, Ended
<1>3. ASSUME NEW j \in Jobs, NEW o \in {"finished", "failed"}, WorkerDone(j, o) PROVE Knit'
  <2>1. /\ j \in running /\ running' = running \ {j}
        /\ \A i \in Jobs : \/ i = j /\ status'[i] = o
                           \/ i # j /\ status'[i] = status[i]
                           \/ i # j /\ status[i] = "deferred" /\ status'[i] = "queued"
        /\ UNCHANGED <<disp, made>>
    BY <1>0, <1>3, Zenon DEF WorkerDone, Released
  <2>3. Closed(j, running', status', made')
    BY <1>0, <2>1, Zenon DEF Closed, Terminal, Kid
  <2>4. \A e \in entries' : e.kind = "result" =>
          e \in entries \/ Closed(e.job, running', status', made')
    <3>1. ASSUME NEW e, e = [kind |-> "result", job |-> j, outcome |-> o, no |-> 0]
          PROVE  e.job = j
      BY <3>1, Zenon
    <3> QED
      BY <1>3, <2>3, <3>1, Zenon DEF WorkerDone
  <2>5. \A k \in Jobs : Carrier[k] # None =>
          /\ made[k] = 0 => /\ status'[k] = status[k] \/ status'[k] = "canceled"
                            /\ k \in running' => k \in running
          /\ status'[k] = "absent" => status[k] = "absent"
    BY <1>0, <2>1, Zenon DEF Kid
  <2> QED
    BY <2>1, <2>4, <2>5, KnitBeside, Zenon
<1> QED
  BY <1>1, <1>2, <1>3, Zenon DEF Worker

LEMMA KnitSweep ==
  ASSUME Typed, Knit, [Next]_vars, NEW x \in Cancels, Sweeping(x)
  PROVE  Knit'
<1>1. /\ UNCHANGED <<running, disp, made>>
      /\ \A i \in Jobs : \/ status'[i] = status[i]
                         \/ status'[i] = "canceled"
                         \/ status'[i] = "queued" /\ status[i] = "deferred"
      /\ \A e \in entries' : e \in entries \/ e.kind = "canceled"
  BY SweepChanges, Zenon DEF histVars
<1>3. \A k \in Jobs : Carrier[k] # None =>
        /\ made[k] = 0 => /\ status'[k] = status[k] \/ status'[k] = "canceled"
                          /\ k \in running' => k \in running
        /\ status'[k] = "absent" => status[k] = "absent"
  BY <1>1, Zenon DEF Knit, Kid
<1>4. \A e \in entries' : e.kind = "result" =>
        e \in entries \/ Closed(e.job, running', status', made')
  BY <1>1, Zenon
<1> QED
  BY <1>1, <1>3, <1>4, KnitBeside, Zenon

LEMMA KnitAlways == Spec => []Knit
<1>1. Init => Knit
  <2> SUFFICES ASSUME Init PROVE Knit
    BY Zenon
  <2>1. Kid
    BY Zenon DEF Init, Kid
  <2>2. Knots
    BY IdleIs, Zenon DEF Init, Knots, Pending, Hatching
  <2>3. Ended
    <3>1. NoEntry.kind = "none"
      BY Zenon DEF NoEntry
    <3> QED
      BY <3>1, IdleIs, Zenon DEF Init, Ended
  <2> QED
    BY <2>1, <2>2, <2>3, Zenon DEF Knit
<1>2. Typed /\ Locks /\ Owns /\ Knit /\ [Next]_vars => Knit'
  <2> SUFFICES ASSUME Typed, Locks, Owns, Knit, [Next]_vars PROVE Knit'
    BY Zenon
  <2>1. CASE Crash
    <3>1. UNCHANGED <<status, running, made, entries>>
      BY <2>1, Zenon DEF Crash, rqVars, histVars
    <3>2. \A d \in Dispatches : disp'[d].pc = "free" /\ disp'[d].entry.kind = "none"
      <4>1. NoEntry.kind = "none"
        BY Zenon DEF NoEntry
      <4> QED
        BY <2>1, <4>1, CrashMoves, IdleIs, Zenon
    <3> QED
      BY <3>1, <3>2, Zenon DEF Knit, Kid, Knots, Pending, Ended, Hatching
  <2>2. CASE UNCHANGED vars
    BY <2>2, Zenon DEF vars, rqVars, histVars, Knit, Kid, Knots, Ended
  <2> QED
    BY <2>1, <2>2, StepKinds, KnitWorker, KnitSweep, KnitAct, Zenon
<1> QED
  BY <1>1, <1>2, TypedAlways, LocksAlways, OwnsAlways, PTL DEF Spec

\* The disk operation of a knot child is queued at most once: a live dispatch
\* holds the anchor of the step that carries the child from before it looks for
\* the child until after it has queued it, and a child that was saved is skipped.
THEOREM KnotIsOnce == Spec => []KnotOnce
<1>1. ASSUME Typed, Knit PROVE KnotOnce
  <2> SUFFICES ASSUME NEW k \in Jobs PROVE made[k] <= 1
    BY Zenon DEF KnotOnce
  <2>1. made[k] \in {0, 1}
    BY <1>1, Zenon DEF Knit, Kid
  <2> QED
    BY <2>1
<1> QED
  BY <1>1, TypedAlways, KnitAlways, PTL

-----------------------------------------------------------------------------
(* Where marks are kept.                                                     *)

\* The mark of a step is kept by the job it hangs off or, while that is a child
\* that does not exist, by the job that the step carrying the child hangs off.
Placed(j, s) == Of[s] = j \/ (Carrier[Of[s]] # None /\ Of[Carrier[Of[s]]] = j)

Seated(f) == \A j \in Jobs, s \in Steps : f[j][s] # "absent" => Placed(j, s)

Placement == Seated(meta) /\ Seated(blob) /\ \A d \in Dispatches : Seated(disp[d].view)

LEMMA HomePlaced ==
  ASSUME Typed, NEW s \in Steps
  PROVE  Placed(Home(s), s)
<1>1. Of[s] \in Jobs
  BY ChainAssumption, Zenon
<1> QED
  BY <1>1, Zenon DEF Placed, Home, Unbuilt, Typed, Formed

LEMMA NoneSeated == Seated([j \in Jobs |-> Empty])
  BY Zenon DEF Seated, Empty

LEMMA SeatedAct ==
  ASSUME Typed, Placement, NEW d \in Dispatches, Act(d)
  PROVE  Seated(disp'[d].view)
<1>1. ASSUME Mark(d) PROVE Seated(disp'[d].view)
  <2>1. PICK m \in {"finished", "failed"} :
          \A j \in Jobs, t \in Steps :
            disp'[d].view[j][t] = IF j = Home(disp[d].cur) /\ t = disp[d].cur
                                  THEN m ELSE disp[d].view[j][t]
    BY <1>1, MarkedView, Zenon
  <2>2. disp[d].cur \in Steps
    BY <1>1, MarkMoves, Zenon
  <2>3. Placed(Home(disp[d].cur), disp[d].cur)
    BY <2>2, HomePlaced, Zenon
  <2>4. ASSUME NEW j \in Jobs, NEW t \in Steps, disp'[d].view[j][t] # "absent"
        PROVE  disp[d].view[j][t] # "absent" \/ (j = Home(disp[d].cur) /\ t = disp[d].cur)
    BY <2>1, <2>4, Zenon
  <2> QED
    BY <2>3, <2>4, Zenon DEF Seated, Placement
<1>2. Seated(Hydrated(d))
  <2>1. ASSUME NEW j \in Jobs, NEW s \in Steps, Hydrated(d)[j][s] # "absent"
        PROVE  meta[j][s] # "absent" \/ Of[s] = j \/ Home(s) = j
    BY <2>1, Zenon DEF Hydrated, Empty
  <2>2. ASSUME NEW j \in Jobs, NEW s \in Steps, meta[j][s] # "absent" \/ Of[s] = j \/ Home(s) = j
        PROVE  Placed(j, s)
    <3>1. meta[j][s] # "absent" => Placed(j, s)
      BY Zenon DEF Seated, Placement
    <3>2. Of[s] = j => Placed(j, s)
      BY Zenon DEF Placed
    <3>3. Placed(Home(s), s)
      BY HomePlaced, Zenon
    <3> QED
      BY <2>2, <3>1, <3>2, <3>3, Zenon
  <2> QED
    BY <2>1, <2>2, Zenon DEF Seated
<1> QED
  BY <1>1, <1>2, NoneSeated, MemoryMoves, Zenon DEF Placement

LEMMA PlacementAlways == Spec => []Placement
<1>1. Init => Placement
  <2> SUFFICES ASSUME Init PROVE Placement
    BY Zenon
  <2>1. Seated(meta) /\ Seated(blob)
    BY Zenon DEF Init, Seated, Fresh, Empty, Placed
  <2>2. \A d \in Dispatches : Seated(disp[d].view)
    BY IdleIs, NoneSeated, Zenon DEF Init
  <2> QED
    BY <2>1, <2>2, Zenon DEF Placement
<1>2. Typed /\ Placement /\ [Next]_vars => Placement'
  <2> SUFFICES ASSUME Typed, Placement, [Next]_vars PROVE Placement'
    BY Zenon
  <2>0. meta \in [Jobs -> [Steps -> Marks]] /\ blob \in [Jobs -> [Steps -> Marks]]
    BY Zenon DEF Typed, TypeOK
  <2> USE DEF rqVars, histVars
  <2>1. CASE Crash
    <3>1. \A d \in Dispatches : Seated(disp'[d].view)
      BY <2>1, CrashMoves, IdleIs, NoneSeated, Zenon
    <3> QED
      BY <2>1, <3>1, Zenon DEF Crash, Placement
  <2>2. ASSUME NEW x \in Cancels, Sweeping(x) PROVE Placement'
    BY <2>2, SweepChanges, Zenon DEF Placement
  <2>3. CASE UNCHANGED vars
    BY <2>3, Zenon DEF vars, Placement
  <2>4. ASSUME NEW j \in Jobs, Dequeue(j) PROVE Placement'
    <3>1. Seated(blob')
      BY <2>0, <2>4, Zenon DEF Dequeue, Seated, Placement
    <3> QED
      BY <2>4, <3>1, Zenon DEF Dequeue, Placement
  <2>5. ASSUME NEW j \in Jobs, SaveProgress(j) PROVE Placement'
    <3>1. Seated(meta')
      BY <2>0, <2>5, Zenon DEF SaveProgress, Seated, Placement
    <3> QED
      BY <2>5, <3>1, Zenon DEF SaveProgress, Placement
  <2>6. ASSUME NEW j \in Jobs, NEW o \in {"finished", "failed"}, WorkerDone(j, o)
        PROVE  Placement'
    <3>1. Seated(blob')
      BY <2>0, <2>6, Zenon DEF WorkerDone, Seated, Placement, Empty
    <3> QED
      BY <2>6, <3>1, Zenon DEF WorkerDone, Placement
  <2>7. ASSUME NEW d \in Dispatches, Act(d) PROVE Placement'
    <3>1. Others(d) /\ Seated(disp'[d].view)
      BY <2>7, HeldMoves, SeatedAct, Zenon
    <3>2. ASSUME Seated(meta'), blob' = blob PROVE Placement'
      BY <3>1, <3>2, Zenon DEF Placement, Others
    <3>3. CASE SaveKnot(d)
      <4>1. Seated(meta')
        BY <2>0, <3>3, Zenon DEF SaveKnot, Seated, Placement, Fresh, Placed
      <4> QED
        BY <3>2, <3>3, <4>1, Zenon DEF SaveKnot
    <3>4. ASSUME NEW j \in Jobs, SaveAnchor(d, j) PROVE Placement'
      <4>1. Seated(meta')
        BY <2>0, <3>4, Zenon DEF SaveAnchor, Seated, Placement
      <4> QED
        BY <3>2, <3>4, <4>1, Zenon DEF SaveAnchor
    <3>5. CASE \/ UNCHANGED <<rqVars, entries, sweep, histVars>>
               \/ PutStatus(d) \/ (\E s \in Steps : Handle(d, s)) \/ CreateKnot(d)
               \/ EnqueueKnot(d) \/ Finish(d)
      BY <3>2, <3>5, Zenon DEF PutStatus, Handle, CreateKnot, EnqueueKnot, Finish, Placement
    <3> QED
      BY <2>7, <3>3, <3>4, <3>5, ActChanges, Zenon
  <2> QED
    BY <2>1, <2>2, <2>3, <2>4, <2>5, <2>6, <2>7, StepKinds, Zenon DEF Worker
<1> QED
  BY <1>1, <1>2, TypedAlways, PTL DEF Spec

-----------------------------------------------------------------------------
(* What exists, and which anchors a dispatch may write.                      *)

Built(j, st) == st[j] # "absent"

\* Home, with the statuses st.
HomeIn(s, st) == IF Built(Of[s], st) THEN Of[s] ELSE Of[Carrier[Of[s]]]

\* A cancel visits and announces jobs that exist.
Swept(w, st) ==
  /\ \A j \in w.left \union w.roots : Built(j, st)
  /\ w.stage \in {"apply", "stamp"} => Built(w.job, st)

\* The locks of a dispatch are on jobs that exist, and they are the homes of the
\* steps it walks.
Rooted(r, st) ==
  /\ \A j \in r.want : Built(j, st)
  /\ r.pc \in Working => \A s \in r.walk : HomeIn(s, st) \in r.held
  /\ r.anchors \subseteq r.held

Exists == \A x \in Cancels : Swept(sweep[x], status)

Roots == \A d \in Dispatches : Rooted(disp[d], status)

LEMMA HomeIs ==
  ASSUME NEW s \in Steps
  PROVE  Home(s) = HomeIn(s, status)
  BY Zenon DEF Home, HomeIn, Built, Unbuilt

LEMMA HomeBuilt ==
  ASSUME Typed, NEW s \in Steps
  PROVE  Built(Home(s), status)
<1>1. CASE ~ Unbuilt(s)
  BY <1>1, Zenon DEF Home, Unbuilt, Built
<1>2. CASE Unbuilt(s)
  <2>1. Of[s] \in Jobs /\ Carrier[Of[s]] # None
    BY <1>2, ChainAssumption, Zenon DEF Unbuilt, Typed, Formed
  <2>2. Carrier[Of[s]] \in Steps
    <3>1. Carrier \in [Jobs -> Steps \union {None}]
      BY ChainAssumption, Zenon
    <3> QED
      BY <2>1, <3>1, Zenon
  <2>3. Of[Carrier[Of[s]]] \in Jobs /\ Carrier[Of[Carrier[Of[s]]]] = None
    BY <2>1, <2>2, ChainAssumption, Zenon
  <2>4. status[Of[Carrier[Of[s]]]] # "absent"
    BY <2>3, Zenon DEF Typed, Formed
  <2> QED
    BY <1>2, <2>4, Zenon DEF Home, Built
<1> QED
  BY <1>1, <1>2, Zenon

\* A job that exists stays, and only CreateKnot makes one.
LEMMA BirthsAct ==
  ASSUME Typed, Knit, NEW d \in Dispatches, Act(d), ~ CreateKnot(d), NEW j \in Jobs
  PROVE  Built(j, status') <=> Built(j, status)
<1> USE DEF Built, rqVars, histVars
<1>1. CASE PutStatus(d)
  <2>1. status[disp[d].entry.job] \in Terminal
    BY <1>1, PutWrites, Zenon DEF Knit, Ended, Closed
  <2> QED
    BY <1>1, <2>1, PutWrites, Zenon DEF Terminal
<1>2. CASE EnqueueKnot(d)
  BY <1>2, QueuedKids, Zenon DEF Knit
<1>3. CASE \/ UNCHANGED <<rqVars, entries, sweep, histVars>>
           \/ (\E s \in Steps : Handle(d, s)) \/ (\E i \in Jobs : SaveAnchor(d, i))
           \/ SaveKnot(d) \/ Finish(d)
  BY <1>3, Zenon DEF Handle, SaveAnchor, SaveKnot, Finish
<1> QED
  BY <1>1, <1>2, <1>3, ActChanges, Zenon

LEMMA Births ==
  ASSUME Typed, Knit, Exists, [Next]_vars, NEW j \in Jobs
  PROVE  /\ Built(j, status) => Built(j, status')
         /\ Built(j, status') => \/ Built(j, status)
                                 \/ \E d \in Dispatches : /\ CreateKnot(d)
                                                          /\ j \in Children(disp[d].cur)
<1>0. status \in [Jobs -> Statuses] /\ Kid
  BY Zenon DEF Typed, TypeOK, Statuses, Knit
<1> USE DEF Built, rqVars, histVars
<1>1. ASSUME NEW i \in Jobs, Dequeue(i) PROVE Built(j, status') <=> Built(j, status)
  BY <1>0, <1>1, Zenon DEF Dequeue
<1>2. ASSUME NEW i \in Jobs, SaveProgress(i) PROVE Built(j, status') <=> Built(j, status)
  BY <1>2, Zenon DEF SaveProgress
<1>3. ASSUME NEW i \in Jobs, NEW o \in {"finished", "failed"}, WorkerDone(i, o)
      PROVE  Built(j, status') <=> Built(j, status)
  <2>1. status[i] # "absent"
    BY <1>0, <1>3, Zenon DEF WorkerDone, Kid, Typed, Formed
  <2> QED
    BY <1>0, <1>3, <2>1, Zenon DEF WorkerDone, Released
<1>4. ASSUME NEW x \in Cancels, Sweeping(x) PROVE Built(j, status') <=> Built(j, status)
  <2>1. \/ status'[j] = status[j]
        \/ status'[j] = "canceled" /\ sweep[x].stage = "apply" /\ j = sweep[x].job
        \/ status'[j] = "queued" /\ status[j] = "deferred"
    BY <1>4, SweepChanges, Zenon
  <2> QED
    BY <2>1, Zenon DEF Exists, Swept
<1>5. ASSUME NEW d \in Dispatches, CreateKnot(d)
      PROVE  /\ Built(j, status) => Built(j, status')
             /\ Built(j, status') => Built(j, status) \/ j \in Children(disp[d].cur)
  BY <1>0, <1>5, Zenon DEF CreateKnot
<1>6. CASE Crash \/ UNCHANGED vars
  BY <1>6, Zenon DEF Crash, vars
<1> QED
  BY <1>1, <1>2, <1>3, <1>4, <1>5, <1>6, BirthsAct, StepKinds, Zenon DEF Worker

LEMMA ExistsAlways == Spec => []Exists
<1>1. Init => Exists
  <2>1. NoSweep.left = {} /\ NoSweep.roots = {} /\ NoSweep.stage = "idle"
    BY DEF NoSweep
  <2>2. Swept(NoSweep, status)
    BY <2>1, Zenon DEF Swept
  <2> QED
    BY <2>2, Zenon DEF Init, Exists
<1>2. Typed /\ Knit /\ Exists /\ [Next]_vars => Exists'
  <2> SUFFICES ASSUME Typed, Knit, Exists, [Next]_vars PROVE Exists'
    BY Zenon
  <2>1. ASSUME NEW x \in Cancels
        PROVE  /\ sweep[x].left \union sweep[x].roots \subseteq Jobs
               /\ sweep[x].stage \in {"apply", "stamp"} => sweep[x].job \in Jobs
    <3>1. sweep[x] \in SweepState
      BY Zenon DEF Typed, TypeOK
    <3>2. sweep[x].left \subseteq Jobs /\ sweep[x].roots \subseteq Jobs
      BY <3>1 DEF SweepState
    <3> QED
      BY <3>2, Zenon DEF Typed, Formed
  <2>2. \A x \in Cancels : Swept(sweep[x], status')
    BY <2>1, Births, Zenon DEF Exists, Swept
  <2>3. ASSUME sweep' = sweep PROVE Exists'
    BY <2>2, <2>3, Zenon DEF Exists
  <2>4. ASSUME NEW x \in Cancels, Sweeping(x) PROVE Exists'
    <3>1. PICK w \in SweepState : Sweeps(x, w) \/ (UNCHANGED sweep /\ w = sweep[x])
      BY <2>4, SweepChanges, Zenon
    <3>2. CASE Sweeps(x, w)
      <4>1. \A j \in w.left \union w.roots : j \in Jobs /\ Built(j, status)
        <5>1. w.left \union w.roots \subseteq
                sweep[x].left \union sweep[x].roots \union {j \in Jobs : status[j] # "absent"}
          BY <3>2, Zenon DEF Sweeps
        <5>2. \A j \in sweep[x].left \union sweep[x].roots : j \in Jobs /\ Built(j, status)
          BY <2>1, Zenon DEF Exists, Swept
        <5> QED
          BY <5>1, <5>2, Zenon DEF Built
      <4>2. w.stage \in {"apply", "stamp"} => w.job \in Jobs /\ Built(w.job, status)
        BY <2>1, <3>2, Zenon DEF Sweeps, Exists, Swept
      <4>3. Swept(w, status')
        BY <4>1, <4>2, Births, Zenon DEF Swept
      <4>4. sweep' = [sweep EXCEPT ![x] = w]
        BY <3>2, Zenon DEF Sweeps
      <4>5. \A y \in Cancels : sweep'[y] = IF y = x THEN w ELSE sweep[y]
        BY <4>4, Zenon DEF Typed, TypeOK
      <4> QED
        BY <2>2, <4>3, <4>5, Zenon DEF Exists
    <3> QED
      BY <2>3, <3>1, <3>2, Zenon
  <2>5. ASSUME NEW d \in Dispatches, Act(d) PROVE sweep' = sweep
    BY <2>5, ActChanges, Zenon
    DEF PutStatus, Handle, CreateKnot, SaveKnot, EnqueueKnot, SaveAnchor, Finish
  <2>6. CASE Crash \/ Worker \/ UNCHANGED vars
    BY <2>3, <2>6, Zenon DEF Crash, Worker, Dequeue, SaveProgress, WorkerDone, vars
  <2> QED
    BY <2>3, <2>4, <2>5, <2>6, StepKinds, Zenon
<1> QED
  BY <1>1, <1>2, TypedAlways, KnitAlways, PTL DEF Spec

\* A live dispatch is about a result, of a job that has ended.
LEMMA LiveJob ==
  ASSUME Typed, Knit, NEW d \in Dispatches, disp[d].pc # "free", ~ Failed(disp[d])
  PROVE  /\ disp[d].entry.job \in Jobs /\ Built(disp[d].entry.job, status)
         /\ Closed(disp[d].entry.job, running, status, made)
<1>1. Shaped(disp[d])
  BY Was, Zenon
<1>2. disp[d].entry \in Entry /\ disp[d].entry.kind # "canceled"
  BY <1>1, Zenon DEF Shaped, Failed
<1>3. disp[d].entry.kind = "result" /\ disp[d].entry.job \in Jobs
  BY <1>2, Zenon DEF Entry
<1>4. Closed(disp[d].entry.job, running, status, made)
  BY <1>3, Zenon DEF Knit, Ended
<1> QED
  BY <1>3, <1>4, Zenon DEF Closed, Terminal, Built

LEMMA RootedAct ==
  ASSUME Typed, Knit, Roots, NEW d \in Dispatches, Act(d)
  PROVE  Rooted(disp'[d], status)
<1>0. /\ Rooted(disp[d], status) /\ Shaped(disp[d]) /\ (Failed(disp[d]) <=> Dead(d))
      /\ Rooted(Idle, status)
  BY Was, IdleIs, Zenon DEF Roots, Rooted, Working
<1>1. \A j \in AnchorIds(Walk(d)) : Built(j, status)
  BY HomeBuilt, Zenon DEF AnchorIds, Walk
<1>2. ASSUME KeepsLocks(d), disp'[d].walk = disp[d].walk,
             disp'[d].anchors \subseteq disp[d].anchors,
             disp'[d].pc \in Working => disp[d].pc \in Working
      PROVE  Rooted(disp'[d], status)
  BY <1>0, <1>2, Zenon DEF Rooted, KeepsLocks
<1>3. ASSUME NEW e \in entries, Take(d, e) PROVE Rooted(disp'[d], status)
  BY <1>2, <1>3, TakeMoves, Zenon DEF KeepsWalk, KeepsYield, Working
<1>4. ASSUME PeekStatus(d) \/ PutStatus(d) PROVE Rooted(disp'[d], status)
  BY <1>2, <1>4, StatusMoves, Zenon DEF KeepsWalk, KeepsYield, Working
<1>5. ASSUME Discover(d) PROVE Rooted(disp'[d], status)
  <2>1. ~ Dead(d) => Built(disp[d].entry.job, status)
    BY <1>0, <1>5, DiscoverMoves, LiveJob, Zenon
  <2>2. \A j \in disp'[d].want : Built(j, status)
    BY <1>1, <1>5, <2>1, DiscoverMoves, Zenon
  <2> QED
    BY <1>0, <1>5, <2>2, DiscoverMoves, Zenon DEF Rooted, KeepsYield, Working
<1>6. ASSUME NEW j \in Jobs, Lock(d, j) PROVE Rooted(disp'[d], status)
  BY <1>0, <1>6, LockMoves, Zenon DEF Rooted, KeepsYield, Working
<1>7. ASSUME Hydrate(d) PROVE Rooted(disp'[d], status)
  <2>0. disp[d].anchors = {} /\ disp[d].pc = "lock"
    BY <1>0, <1>7, HydrateMoves, Zenon DEF Shaped, Working
  <2>1. CASE disp'[d] = Idle
    BY <1>0, <2>1, Zenon
  <2>2. CASE /\ disp'[d].pc = "lock"
             /\ disp'[d].want \subseteq disp[d].want \union AnchorIds(Walk(d))
             /\ KeepsYield(d)
    BY <1>0, <1>1, <2>0, <2>2, Zenon DEF Rooted, KeepsYield, Working
  <2>3. CASE /\ AnchorIds(Walk(d)) \subseteq disp[d].held /\ disp'[d].walk = Walk(d)
             /\ KeepsLocks(d) /\ KeepsYield(d)
    <3>1. \A s \in Walk(d) : HomeIn(s, status) \in disp[d].held
      <4>1. \A s \in Walk(d) : Home(s) \in AnchorIds(Walk(d)) /\ s \in Steps
        BY Zenon DEF AnchorIds, Walk
      <4> QED
        BY <2>3, <4>1, HomeIs, Zenon
    <3> QED
      BY <1>0, <2>0, <2>3, <3>1, Zenon DEF Rooted, KeepsLocks, KeepsYield
  <2> QED
    BY <1>7, <2>1, <2>2, <2>3, HydrateMoves, Zenon
<1>8. ASSUME NEW s \in Steps, Handle(d, s) \/ HandlerRaises(d, s)
      PROVE  Rooted(disp'[d], status)
  BY <1>2, <1>8, StepMoves, Zenon DEF KeepsWalk, Working
<1>9. ASSUME Mark(d) PROVE Rooted(disp'[d], status)
  <2>1. disp[d].cur \in disp[d].walk /\ disp[d].pc \in Working /\ disp[d].cur \in Steps
    BY <1>0, <1>9, MarkMoves, Zenon DEF Shaped, Working
  <2>2. Home(disp[d].cur) \in disp[d].held
    BY <1>0, <2>1, HomeIs, Zenon DEF Rooted
  <2>3. /\ disp'[d].anchors = disp[d].anchors \union {Home(disp[d].cur)}
        /\ disp'[d].walk = disp[d].walk
        /\ disp'[d].want = disp[d].want /\ disp'[d].held = disp[d].held
    BY <1>9, MarkMoves, Zenon DEF KeepsLocks
  <2>4. disp'[d].anchors \subseteq disp'[d].held
    BY <1>0, <2>2, <2>3, Zenon DEF Rooted
  <2> QED
    BY <1>0, <2>1, <2>3, <2>4, Zenon DEF Rooted
<1>10. ASSUME CreateKnot(d) \/ KnotDeclined(d) \/ EnqueueKnot(d) \/ EnqueueFails(d)
       PROVE  Rooted(disp'[d], status)
  BY <1>2, <1>10, KnotMoves, Zenon DEF KeepsWalk, Working
<1>11. ASSUME NEW j \in Jobs, SaveAnchor(d, j) \/ SaveFails(d, j)
       PROVE  Rooted(disp'[d], status)
  <2>1. disp'[d].anchors \subseteq disp[d].anchors
    BY <1>11, SaveMoves, Zenon
  <2> QED
    BY <1>2, <1>11, <2>1, SaveMoves, Zenon DEF KeepsWalk, Working
<1>12. ASSUME Drops(d) PROVE Rooted(disp'[d], status)
  BY <1>0, <1>12, DropsMoves, Zenon
<1>13. ASSUME SaveKnot(d) PROVE Rooted(disp'[d], status)
  BY <1>2, <1>13, FillMoves, Zenon DEF KeepsWalk, KeepsYield, Working
<1> QED
  BY <1>3, <1>4, <1>5, <1>6, <1>7, <1>8, <1>9, <1>10, <1>11, <1>12, <1>13, Zenon
  DEF Act, Dispatch, Drops

\* No dispatch is walking the steps of a child at the moment it is made.
LEMMA BornUnseen ==
  ASSUME Typed, Locks, Owns, Knit, Roots, NEW d \in Dispatches, CreateKnot(d),
         NEW k \in Children(disp[d].cur), ~ Built(k, status),
         NEW o \in Dispatches, disp[o].pc \in Working, NEW s \in disp[o].walk
  PROVE  Of[s] # k
<1>1. disp[d].pc = "knot" /\ Shaped(disp[d]) /\ Own(disp[d])
  BY Was, Zenon DEF CreateKnot, Owns
<1>2. disp[d].cur \in disp[d].walk /\ ~ Failed(disp[d]) /\ disp[d].cur \in Steps
  BY <1>1, Entries, Zenon DEF Shaped
<1>3. /\ disp[d].entry.job \in disp[d].held /\ Of[disp[d].cur] = disp[d].entry.job
      /\ disp[d].walk = {t \in Steps : Of[t] = disp[d].entry.job}
  BY <1>1, <1>2, Zenon DEF Own, Working
<1>4. CASE o = d
  BY <1>1, <1>2, <1>3, <1>4, LiveJob, Zenon
<1>5. CASE o # d
  <2> SUFFICES ASSUME Of[s] = k PROVE FALSE
    BY Zenon
  <2>1. HomeIn(s, status) \in disp[o].held
    BY Zenon DEF Roots, Rooted
  <2>2. Carrier[k] = disp[d].cur
    BY <1>2, OneChild, Zenon
  <2>3. HomeIn(s, status) = Of[disp[d].cur]
    BY <2>2, Zenon DEF HomeIn
  <2>4. disp[d].held \intersect disp[o].held = {}
    BY <1>5, Zenon DEF Locks, Exclusive
  <2> QED
    BY <1>3, <2>1, <2>3, <2>4, Zenon
<1> QED
  BY <1>4, <1>5, Zenon

LEMMA RootsAlways == Spec => []Roots
<1>1. Init => Roots
  BY IdleIs, Zenon DEF Init, Roots, Rooted, Working
<1>2. Typed /\ Locks /\ Owns /\ Knit /\ Exists /\ Roots /\ [Next]_vars => Roots'
  <2> SUFFICES ASSUME Typed, Locks, Owns, Knit, Exists, Roots, [Next]_vars PROVE Roots'
    BY Zenon
  <2>1. ASSUME NEW r \in DispatchState, Rooted(r, status),
               \A d \in Dispatches, k \in Jobs, s \in r.walk :
                 r.pc \in Working /\ CreateKnot(d) /\ k \in Children(disp[d].cur)
                 /\ ~ Built(k, status) => Of[s] # k
        PROVE  Rooted(r, status')
    <3>1. r.want \subseteq Jobs /\ r.walk \subseteq Steps
      BY DEF DispatchState
    <3>2. \A j \in r.want : Built(j, status')
      BY <2>1, <3>1, Births, Zenon DEF Rooted
    <3>3. ASSUME r.pc \in Working, NEW s \in r.walk PROVE HomeIn(s, status') = HomeIn(s, status)
      <4>1. Of[s] \in Jobs
        BY <3>1, ChainAssumption, Zenon
      <4>2. Built(Of[s], status') <=> Built(Of[s], status)
        BY <2>1, <3>3, <4>1, Births, Zenon
      <4> QED
        BY <4>2, Zenon DEF HomeIn
    <3> QED
      BY <2>1, <3>2, <3>3, Zenon DEF Rooted
  <2>2. ASSUME NEW o \in Dispatches, Rooted(disp[o], status) PROVE Rooted(disp[o], status')
    <3>1. disp[o] \in DispatchState
      BY Was, Zenon
    <3>2. \A d \in Dispatches, k \in Jobs, s \in disp[o].walk :
            disp[o].pc \in Working /\ CreateKnot(d) /\ k \in Children(disp[d].cur)
            /\ ~ Built(k, status) => Of[s] # k
      BY BornUnseen, Zenon
    <3> QED
      BY <2>1, <2>2, <3>1, <3>2, Zenon
  <2>3. CASE disp' = disp
    BY <2>2, <2>3, Zenon DEF Roots
  <2>4. CASE Crash
    <3>1. Rooted(Idle, status')
      BY IdleIs, Zenon DEF Rooted, Working
    <3> QED
      BY <2>4, <3>1, CrashMoves, Zenon DEF Roots
  <2>5. ASSUME NEW d \in Dispatches, Act(d) PROVE Roots'
    <3>1. Others(d) /\ Rooted(disp'[d], status)
      BY <2>5, HeldMoves, RootedAct, Zenon
    <3>2. Rooted(disp'[d], status')
      <4>1. CASE CreateKnot(d)
        <5>1. /\ disp'[d].walk = disp[d].walk /\ disp[d].pc \in Working
              /\ disp'[d] \in DispatchState
          BY <4>1, KnotMoves, Zenon DEF KeepsWalk, Working
        <5>2. \A c \in Dispatches, k \in Jobs, s \in disp'[d].walk :
                disp'[d].pc \in Working /\ CreateKnot(c) /\ k \in Children(disp[c].cur)
                /\ ~ Built(k, status) => Of[s] # k
          BY <5>1, BornUnseen, Zenon
        <5> QED
          BY <2>1, <3>1, <5>1, <5>2, Zenon
      <4>2. CASE ~ CreateKnot(d)
        <5>1. \A j \in Jobs : Built(j, status') <=> Built(j, status)
          BY <2>5, <4>2, BirthsAct, Zenon
        <5>2. disp'[d].want \subseteq Jobs /\ disp'[d].walk \subseteq Steps
          <6>1. disp' \in [Dispatches -> DispatchState]
            BY <2>5, TypedDispatch, Zenon DEF Typed, TypeOK
          <6> QED
            BY <6>1 DEF DispatchState
        <5>3. \A s \in Steps : HomeIn(s, status') = HomeIn(s, status)
          BY <5>1, ChainAssumption, Zenon DEF HomeIn
        <5> QED
          BY <3>1, <5>1, <5>2, <5>3, Zenon DEF Rooted
      <4> QED
        BY <4>1, <4>2, Zenon
    <3>3. \A o \in Dispatches : Rooted(disp[o], status')
      BY <2>2, Zenon DEF Roots
    <3> QED
      BY <3>1, <3>2, <3>3, Zenon DEF Roots, Others
  <2> QED
    BY <2>3, <2>4, <2>5, StepKinds, DispKept, Zenon
<1> QED
  BY <1>1, <1>2, TypedAlways, LocksAlways, OwnsAlways, KnitAlways, ExistsAlways, PTL DEF Spec

-----------------------------------------------------------------------------
(* No dispatch erases a mark.                                                *)

\* The mark of s is not kept by j any more: the child it hangs off exists.
Gone(j, s, st) == Of[s] # j /\ Built(Of[s], st)

\* The marks b have every stamp that the marks a of job j have.
Kept(a, b, j, st) ==
  \A s \in Steps : Stamped(a[s]) => Stamped(b[s]) \/ Gone(j, s, st)

\* Nothing is saved for the steps of j.
Blank(j, mt) == \A s \in Steps : mt[j][s] = "absent"

\* A child that does not exist has nothing saved. While its maker has yet to save
\* its steps, nor has the child, and nobody means to lock it: no walk finds it.
Bare ==
  /\ \A j \in Jobs : ~ Built(j, status) => Blank(j, meta)
  /\ \A d \in Dispatches : disp[d].pc = "fill" =>
       \A k \in Children(disp[d].cur) :
         Blank(k, meta) /\ \A o \in Dispatches : k \notin disp[o].want

\* No worker holds a stamp that was not saved, and a dispatch at work has in
\* memory every stamp of the anchors it holds.
Copied == \A j \in running : Kept(blob[j], meta[j], j, status)

Sees(r, mt, st) ==
  r.pc \in Working => \A j \in r.held : Kept(mt[j], r.view[j], j, st)

Views == Copied /\ \A d \in Dispatches : Sees(disp[d], meta, status)

LEMMA KeptOn ==
  ASSUME NEW a, NEW b, NEW c, NEW j, NEW st
  PROVE  /\ Kept(a, a, j, st)
         /\ Kept(a, b, j, st) /\ Kept(b, c, j, st) => Kept(a, c, j, st)
  BY Zenon DEF Kept

LEMMA KeptLater ==
  ASSUME Typed, Knit, Exists, [Next]_vars, NEW a, NEW b, NEW j, Kept(a, b, j, status)
  PROVE  Kept(a, b, j, status')
<1>1. \A s \in Steps : Of[s] \in Jobs
  BY ChainAssumption, Zenon
<1> QED
  BY <1>1, Births, Zenon DEF Kept, Gone

\* Who writes the meta of a job.
LEMMA MetaMoves ==
  ASSUME Typed, [Next]_vars, NEW j \in Jobs
  PROVE  \/ meta'[j] = meta[j]
         \/ \E d \in Dispatches : SaveAnchor(d, j) /\ meta'[j] = disp[d].view[j]
         \/ j \in running /\ SaveProgress(j) /\ meta'[j] = blob[j]
         \/ \E d \in Dispatches : /\ SaveKnot(d) /\ j \in Children(disp[d].cur)
                                  /\ meta'[j] = Fresh(j)
<1>0. meta \in [Jobs -> [Steps -> Marks]]
  BY Zenon DEF Typed, TypeOK
<1> USE DEF rqVars, histVars
<1>1. ASSUME NEW i \in Jobs, NEW d \in Dispatches, SaveAnchor(d, i)
      PROVE  meta'[j] = meta[j] \/ (i = j /\ meta'[j] = disp[d].view[j])
  BY <1>0, <1>1, Zenon DEF SaveAnchor
<1>2. ASSUME NEW d \in Dispatches, SaveKnot(d)
      PROVE  meta'[j] = meta[j] \/ (j \in Children(disp[d].cur) /\ meta'[j] = Fresh(j))
  BY <1>0, <1>2, Zenon DEF SaveKnot
<1>3. ASSUME NEW d \in Dispatches, Act(d)
      PROVE  \/ meta'[j] = meta[j] \/ SaveKnot(d)
             \/ \E i \in Jobs : SaveAnchor(d, i)
  BY <1>3, ActChanges, Zenon DEF PutStatus, Handle, CreateKnot, EnqueueKnot, Finish
<1>4. ASSUME NEW i \in Jobs, SaveProgress(i)
      PROVE  meta'[j] = meta[j] \/ (i = j /\ j \in running /\ meta'[j] = blob[j])
  BY <1>0, <1>4, Zenon DEF SaveProgress
<1>5. ASSUME NEW i \in Jobs, Dequeue(i) \/ \E o \in {"finished", "failed"} : WorkerDone(i, o)
      PROVE  meta' = meta
  BY <1>5, Zenon DEF Dequeue, WorkerDone
<1>6. ASSUME NEW x \in Cancels, Sweeping(x) PROVE meta' = meta
  BY <1>6, SweepChanges, Zenon
<1>7. CASE Crash \/ UNCHANGED vars
  BY <1>7, Zenon DEF Crash, vars
<1>8. CASE \E d \in Dispatches : Act(d)
  BY <1>1, <1>2, <1>3, <1>8, Zenon
<1>9. CASE Worker
  BY <1>4, <1>5, <1>9, Zenon DEF Worker
<1> QED
  BY <1>6, <1>7, <1>8, <1>9, StepKinds, Zenon

LEMMA FreshBare == \A j \in Jobs, s \in Steps : ~ Stamped(Fresh(j)[s]) /\ ~ Stamped(Empty[s])
  BY Zenon DEF Stamped, Fresh, Empty

LEMMA RunningBuilt ==
  ASSUME Typed, Knit, NEW j \in running
  PROVE  j \in Jobs /\ Built(j, status)
<1>1. j \in Jobs
  BY Zenon DEF Typed, TypeOK
<1> QED
  BY <1>1, Zenon DEF Typed, Formed, Knit, Kid, Built

\* What a dispatch writes is an anchor that it holds, of a job that exists.
LEMMA SavedAnchor ==
  ASSUME Typed, Roots, NEW d \in Dispatches, NEW j \in Jobs, SaveAnchor(d, j)
  PROVE  /\ disp[d].pc \in Working /\ j \in disp[d].held /\ Built(j, status)
         /\ disp'[d].view = disp[d].view /\ Others(d) /\ disp'[d].held = disp[d].held
<1>1. /\ disp[d].pc = "steps" /\ j \in disp[d].anchors
      /\ disp'[d].view = disp[d].view /\ Others(d) /\ disp'[d].held = disp[d].held
  BY SaveMoves, Zenon DEF KeepsWalk, KeepsLocks
<1>2. j \in disp[d].held /\ disp[d].held \subseteq disp[d].want
  BY <1>1, Was, Zenon DEF Roots, Rooted, Shaped
<1> QED
  BY <1>1, <1>2, Zenon DEF Roots, Rooted, Working

\* The child whose steps are being saved is not running: it was not queued.
LEMMA FilledKids ==
  ASSUME Typed, Knit, NEW d \in Dispatches, disp[d].pc = "fill",
         NEW k \in Children(disp[d].cur)
  PROVE  /\ k \in Jobs /\ Carrier[k] = disp[d].cur /\ Carrier[k] # None
         /\ made[k] = 0 /\ Built(k, status) /\ k \notin running
<1>1. disp[d].cur \in Steps /\ disp[d].pc \in Hatching
  BY Entries, Zenon DEF Hatching
<1>2. k \in Jobs /\ Carrier[k] = disp[d].cur /\ Carrier[k] # None
  BY <1>1, OneChild, Zenon
<1>3. made[k] = 0 /\ status[k] \in {"created", "canceled"}
  BY <1>1, Zenon DEF Knit, Knots, Pending
<1> QED
  BY <1>2, <1>3, Zenon DEF Knit, Kid, Built

\* No walk leads to a child with nothing saved that was never queued.
LEMMA BlankUnseen ==
  ASSUME Typed, Knit, NEW o \in Dispatches, disp[o].pc # "free", NEW k \in Jobs,
         Carrier[k] # None, made[k] = 0, Built(k, status), Blank(k, meta)
  PROVE  /\ k \notin AnchorIds(Walk(o))
         /\ ~ Dead(o) => k # disp[o].entry.job
<1>1. ~ Dead(o) => disp[o].entry.job \in Jobs /\ disp[o].entry.job # k
                   /\ Built(disp[o].entry.job, status)
  <2>1. Failed(disp[o]) <=> Dead(o)
    BY Was, Zenon
  <2> QED
    BY <2>1, LiveJob, Zenon DEF Closed
<1>2. ASSUME NEW s \in Walk(o) PROVE Home(s) # k
  <2>1. s \in Steps /\ Of[s] \in Jobs
    BY ChainAssumption, Zenon DEF Walk
  <2>2. ASSUME Unbuilt(s) PROVE Home(s) # k
    <3>1. Carrier[Of[s]] # None
      BY <2>1, <2>2, Zenon DEF Unbuilt, Typed, Formed
    <3>2. Carrier \in [Jobs -> Steps \union {None}]
      BY ChainAssumption, Zenon
    <3>3. Carrier[Of[s]] \in Steps
      BY <2>1, <3>1, <3>2, Zenon
    <3>4. Carrier[Of[Carrier[Of[s]]]] = None
      BY <2>1, <3>1, <3>3, ChainAssumption, Zenon
    <3> QED
      BY <2>2, <3>4, Zenon DEF Home
  <2>3. CASE Dead(o)
    <3>1. Listed(s)
      BY <2>3, Zenon DEF Walk
    <3> QED
      BY <2>1, <2>2, <3>1, Zenon DEF Listed, Home, Blank
  <2>4. CASE ~ Dead(o)
    <3>1. Of[s] = disp[o].entry.job
      BY <2>4, Zenon DEF Walk
    <3> QED
      BY <1>1, <2>2, <2>4, <3>1, Zenon DEF Home
  <2> QED
    BY <2>3, <2>4, Zenon
<1> QED
  BY <1>1, <1>2, Zenon DEF AnchorIds

\* What a dispatch means to lock, it meant to lock before, or its walk led there.
LEMMA WantMoves ==
  ASSUME Typed, NEW d \in Dispatches, Act(d), NEW k \in disp'[d].want
  PROVE  \/ k \in disp[d].want
         \/ disp[d].pc # "free" /\ k \in AnchorIds(Walk(d))
         \/ disp[d].pc # "free" /\ ~ Dead(d) /\ k = disp[d].entry.job
<1> DEFINE led == \/ k \in disp[d].want
                  \/ disp[d].pc # "free" /\ k \in AnchorIds(Walk(d))
                  \/ disp[d].pc # "free" /\ ~ Dead(d) /\ k = disp[d].entry.job
<1>1. ASSUME KeepsLocks(d) PROVE led
  BY <1>1, Zenon DEF KeepsLocks
<1>2. disp'[d] # Idle
  BY IdleIs, Zenon
<1>3. ASSUME Discover(d) PROVE led
  BY <1>3, DiscoverMoves, Zenon
<1>4. ASSUME Hydrate(d) PROVE led
  BY <1>2, <1>4, HydrateMoves, Zenon DEF KeepsLocks
<1>5. ASSUME NEW j \in Jobs, Lock(d, j) PROVE led
  BY <1>5, LockMoves, Zenon
<1>6. ASSUME NEW e \in entries, Take(d, e) PROVE led
  BY <1>1, <1>6, TakeMoves, Zenon
<1>7. ASSUME PeekStatus(d) \/ PutStatus(d) PROVE led
  BY <1>1, <1>7, StatusMoves, Zenon
<1>8. ASSUME NEW s \in Steps, Handle(d, s) \/ HandlerRaises(d, s) PROVE led
  BY <1>1, <1>8, StepMoves, Zenon
<1>9. ASSUME Mark(d) PROVE led
  BY <1>1, <1>9, MarkMoves, Zenon
<1>10. ASSUME CreateKnot(d) \/ KnotDeclined(d) \/ EnqueueKnot(d) \/ EnqueueFails(d) PROVE led
  BY <1>1, <1>10, KnotMoves, Zenon
<1>11. ASSUME SaveKnot(d) PROVE led
  BY <1>1, <1>11, FillMoves, Zenon
<1>12. ASSUME NEW j \in Jobs, SaveAnchor(d, j) \/ SaveFails(d, j) PROVE led
  BY <1>1, <1>12, SaveMoves, Zenon
<1>13. ~ Drops(d)
  BY <1>2, DropsMoves, Zenon
<1> HIDE DEF led
<1>14. led
  BY <1>3, <1>4, <1>5, <1>6, <1>7, <1>8, <1>9, <1>10, <1>11, <1>12, <1>13, Zenon
  DEF Act, Dispatch, Drops
<1> QED
  BY <1>14, Zenon DEF led

\* A child that was just saved, or whose steps are still to be saved, stays blank
\* and out of reach until they are.
LEMMA FilledBare ==
  ASSUME Typed, Locks, Owns, Knit, Roots, Bare, [Next]_vars,
         NEW d \in Dispatches, disp'[d].pc = "fill", NEW k \in Children(disp'[d].cur)
  PROVE  Blank(k, meta') /\ \A o \in Dispatches : k \notin disp'[o].want
<1>1. CASE CreateKnot(d)
  <2>1. /\ disp[d].pc = "knot" /\ disp'[d].cur = disp[d].cur /\ Others(d) /\ KeepsLocks(d)
        /\ \E i \in Children(disp[d].cur) : status[i] = "absent"
    BY <1>1, KnotMoves, Zenon
  <2>2. disp[d].cur \in Steps
    BY <2>1, Entries, Zenon
  <2>3. k \in Jobs /\ ~ Built(k, status)
    BY <2>1, <2>2, OneChild, Zenon DEF Built
  <2>4. meta' = meta
    BY <1>1, Zenon DEF CreateKnot
  <2>5. \A o \in Dispatches : k \notin disp[o].want
    BY <2>3, Zenon DEF Roots, Rooted
  <2> QED
    BY <2>1, <2>3, <2>4, <2>5, Zenon DEF Bare, Others, KeepsLocks
<1>2. CASE ~ CreateKnot(d)
  <2>1. ~ Act(d) /\ ~ Crash
    <3>1. ~ Crash
      BY CrashMoves, IdleIs, Zenon
    <3>2. SaveKnot(d) => disp'[d].pc = "enqueue"
      BY FillMoves, Zenon
    <3> QED
      BY <1>2, <3>1, <3>2, MemoryMoves, Zenon DEF Hatching
  <2>2. disp'[d] = disp[d]
    <3>1. ASSUME NEW o \in Dispatches, Act(o), o # d PROVE disp'[d] = disp[d]
      BY <3>1, HeldMoves, Zenon DEF Others
    <3> QED
      BY <2>1, <3>1, StepKinds, DispKept, Zenon
  <2>3. /\ disp[d].pc = "fill" /\ k \in Children(disp[d].cur)
        /\ Blank(k, meta) /\ \A o \in Dispatches : k \notin disp[o].want
    BY <2>2, Zenon DEF Bare
  <2>4. /\ k \in Jobs /\ Carrier[k] = disp[d].cur /\ Carrier[k] # None
        /\ made[k] = 0 /\ Built(k, status) /\ k \notin running
    BY <2>3, FilledKids, Zenon
  <2>5. \A o \in Dispatches : ~ SaveAnchor(o, k)
    <3>1. ASSUME NEW o \in Dispatches, SaveAnchor(o, k) PROVE k \in disp[o].want
      BY <2>4, <3>1, SavedAnchor, Was, Zenon DEF Shaped
    <3> QED
      BY <2>3, <3>1, Zenon
  <2>6. \A o \in Dispatches : ~ (SaveKnot(o) /\ k \in Children(disp[o].cur))
    <3> SUFFICES ASSUME NEW o \in Dispatches, SaveKnot(o), k \in Children(disp[o].cur)
                 PROVE  FALSE
      BY Zenon
    <3>1. disp[o].pc = "fill" /\ o # d
      BY <2>1, Zenon DEF SaveKnot, Act, Dispatch
    <3>2. Carrier[k] = disp[o].cur
      BY <3>1, FilledKids, Zenon
    <3> QED
      BY <2>3, <2>4, <3>1, <3>2, OneCarrier, Zenon
  <2>7. meta'[k] = meta[k]
    BY <2>4, <2>5, <2>6, MetaMoves, Zenon
  <2>8. ASSUME NEW o \in Dispatches, Act(o) PROVE k \notin disp'[o].want
    BY <2>3, <2>4, <2>8, BlankUnseen, WantMoves, Zenon
  <2>9. ASSUME NEW o \in Dispatches, disp'[o] = disp[o] PROVE k \notin disp'[o].want
    BY <2>3, <2>9, Zenon
  <2>10. ASSUME NEW o \in Dispatches PROVE k \notin disp'[o].want
    <3>1. ASSUME NEW c \in Dispatches, Act(c), c # o PROVE disp'[o] = disp[o]
      BY <3>1, HeldMoves, Zenon DEF Others
    <3> QED
      BY <2>1, <2>8, <2>9, <3>1, StepKinds, DispKept, Zenon
  <2> QED
    BY <2>3, <2>7, <2>10, Zenon DEF Blank
<1> QED
  BY <1>1, <1>2, Zenon

LEMMA BareAlways == Spec => []Bare
<1>1. Init => Bare
  <2> SUFFICES ASSUME Init PROVE Bare
    BY Zenon
  <2>1. \A d \in Dispatches : disp[d].pc # "fill"
    BY IdleIs, Zenon DEF Init
  <2>2. \A j \in Jobs : ~ Built(j, status) => Blank(j, meta)
    BY Zenon DEF Init, Built, Blank, Empty
  <2> QED
    BY <2>1, <2>2, Zenon DEF Bare
<1>2. Typed /\ Locks /\ Owns /\ Knit /\ Exists /\ Roots /\ Bare /\ [Next]_vars => Bare'
  <2> SUFFICES ASSUME Typed, Locks, Owns, Knit, Exists, Roots, Bare, [Next]_vars PROVE Bare'
    BY Zenon
  <2>1. ASSUME NEW j \in Jobs, ~ Built(j, status') PROVE Blank(j, meta')
    <3>1. ~ Built(j, status)
      BY <2>1, Births, Zenon
    <3>2. \A d \in Dispatches : ~ SaveAnchor(d, j)
      BY <3>1, SavedAnchor, Zenon
    <3>3. j \notin running
      BY <3>1, RunningBuilt, Zenon
    <3>4. \A d \in Dispatches : ~ (SaveKnot(d) /\ j \in Children(disp[d].cur))
      BY <3>1, FilledKids, Zenon DEF SaveKnot
    <3>5. meta'[j] = meta[j]
      BY <3>2, <3>3, <3>4, MetaMoves, Zenon
    <3> QED
      BY <3>1, <3>5, Zenon DEF Bare, Blank
  <2> QED
    BY <2>1, FilledBare, Zenon DEF Bare
<1> QED
  BY <1>1, <1>2, TypedAlways, LocksAlways, OwnsAlways, KnitAlways, ExistsAlways, RootsAlways,
     PTL DEF Spec

\* A dispatch gets to work by hydrating the anchors that it holds, and then keeps
\* its locks, its walk and its entry.
LEMMA WorkingMoves ==
  ASSUME Typed, NEW d \in Dispatches, Act(d), disp'[d].pc \in Working
  PROVE  /\ KeepsLocks(d) /\ KeepsEntry(d)
         /\ \/ /\ Hydrate(d) /\ disp'[d].view = Hydrated(d) /\ disp'[d].pc = "steps"
               /\ ~ Dead(d) => disp'[d].todo = disp'[d].walk
            \/ /\ disp[d].pc \in Working /\ disp'[d].walk = disp[d].walk
               /\ disp'[d].view = disp[d].view \/ Mark(d)
               /\ disp'[d].ok => disp[d].ok
<1> DEFINE works == /\ KeepsLocks(d) /\ KeepsEntry(d)
                    /\ disp[d].pc \in Working /\ disp'[d].walk = disp[d].walk
                    /\ disp'[d].view = disp[d].view \/ Mark(d)
                    /\ disp'[d].ok => disp[d].ok
<1>1. ASSUME NEW e \in entries, Take(d, e) PROVE FALSE
  BY <1>1, TakeMoves, Zenon DEF Working
<1>2. ASSUME PeekStatus(d) \/ PutStatus(d) PROVE FALSE
  BY <1>2, StatusMoves, Zenon DEF Working
<1>3. ASSUME Discover(d) PROVE FALSE
  BY <1>3, DiscoverMoves, Zenon DEF Working
<1>4. ASSUME NEW j \in Jobs, Lock(d, j) PROVE FALSE
  BY <1>4, LockMoves, Zenon DEF Working
<1>5. ASSUME Hydrate(d)
      PROVE  /\ KeepsLocks(d) /\ KeepsEntry(d)
             /\ disp'[d].view = Hydrated(d) /\ disp'[d].pc = "steps"
             /\ ~ Dead(d) => disp'[d].todo = disp'[d].walk
  <2>1. disp'[d] # Idle /\ disp'[d].pc # "lock"
    BY IdleIs, Zenon DEF Working
  <2>2. /\ KeepsLocks(d) /\ KeepsEntry(d)
        /\ disp'[d].view = Hydrated(d) /\ disp'[d].pc = "steps" /\ disp'[d].walk = Walk(d)
        /\ disp'[d].todo = {s \in Walk(d) :
                            Dead(d) => Hydrated(d)[Home(s)][s] = "unstamped"}
    BY <1>5, <2>1, HydrateMoves, Zenon
  <2>3. ~ Dead(d) => disp'[d].todo = disp'[d].walk
    BY <2>2, Zenon
  <2> QED
    BY <2>2, <2>3, Zenon
<1>6. ASSUME NEW s \in Steps, Handle(d, s) \/ HandlerRaises(d, s) PROVE works
  BY <1>6, StepMoves, Zenon DEF KeepsWalk, Working
<1>7. ASSUME Mark(d) PROVE works
  BY <1>7, MarkMoves, Zenon DEF Working
<1>8. ASSUME CreateKnot(d) \/ KnotDeclined(d) \/ EnqueueKnot(d) \/ EnqueueFails(d)
      PROVE  works
  BY <1>8, KnotMoves, Zenon DEF KeepsWalk, Working
<1>9. ASSUME NEW j \in Jobs, SaveAnchor(d, j) \/ SaveFails(d, j) PROVE works
  BY <1>9, SaveMoves, Zenon DEF KeepsWalk, Working
<1>10. ASSUME Drops(d) PROVE FALSE
  BY <1>10, DropsMoves, IdleIs, Zenon DEF Working
<1>11. ASSUME SaveKnot(d) PROVE works
  BY <1>11, FillMoves, Zenon DEF KeepsWalk, KeepsYield, Working
<1> QED
  BY <1>1, <1>2, <1>3, <1>4, <1>5, <1>6, <1>7, <1>8, <1>9, <1>10, <1>11, Zenon
  DEF Act, Dispatch, Drops

\* Hydration loses no stamp of an anchor that is held.
LEMMA HydratedKeeps ==
  ASSUME Typed, Placement, NEW d \in Dispatches, NEW j \in disp[d].held
  PROVE  Kept(meta[j], Hydrated(d)[j], j, status)
<1>1. j \in Jobs
  <2>1. disp[d] \in DispatchState
    BY Was, Zenon
  <2> QED
    BY <2>1 DEF DispatchState
<1> SUFFICES ASSUME NEW s \in Steps, Stamped(meta[j][s])
             PROVE  Stamped(Hydrated(d)[j][s]) \/ Gone(j, s, status)
  BY Zenon DEF Kept
<1>2. CASE ~ Dead(d)
  BY <1>1, <1>2, Zenon DEF Hydrated
<1>3. CASE Dead(d)
  <2>1. meta[j][s] # "absent"
    BY Zenon DEF Stamped
  <2>2. CASE Of[s] = j \/ Home(s) = j
    <3>1. Hydrated(d)[j][s] = meta[j][s]
      BY <1>1, <1>3, <2>1, <2>2, Zenon DEF Hydrated
    <3> QED
      BY <3>1, Zenon
  <2>3. CASE Of[s] # j /\ Home(s) # j
    <3>1. Of[Carrier[Of[s]]] = j
      BY <1>1, <2>1, <2>3, Zenon DEF Placement, Seated, Placed
    <3> QED
      BY <2>3, <3>1, Zenon DEF Home, Unbuilt, Gone, Built
  <2> QED
    BY <2>2, <2>3, Zenon
<1> QED
  BY <1>2, <1>3, Zenon

LEMMA SeesAct ==
  ASSUME Typed, Placement, Views, NEW d \in Dispatches, Act(d)
  PROVE  Sees(disp'[d], meta, status)
<1> SUFFICES ASSUME disp'[d].pc \in Working, NEW j \in disp'[d].held
             PROVE  Kept(meta[j], disp'[d].view[j], j, status)
  BY Zenon DEF Sees
<1>1. j \in disp[d].held
  BY WorkingMoves, Zenon DEF KeepsLocks
<1>2. j \in Jobs
  <2>1. disp[d] \in DispatchState
    BY Was, Zenon
  <2> QED
    BY <1>1, <2>1 DEF DispatchState
<1>3. CASE Hydrate(d) /\ disp'[d].view = Hydrated(d)
  BY <1>1, <1>3, HydratedKeeps, Zenon
<1>4. CASE disp[d].pc \in Working
  <2>1. Kept(meta[j], disp[d].view[j], j, status)
    BY <1>1, <1>4, Zenon DEF Views, Sees
  <2>2. CASE disp'[d].view = disp[d].view
    BY <2>1, <2>2, Zenon
  <2>3. CASE Mark(d)
    <3>1. PICK m \in {"finished", "failed"} :
            \A t \in Steps : disp'[d].view[j][t] = IF j = Home(disp[d].cur) /\ t = disp[d].cur
                                                   THEN m ELSE disp[d].view[j][t]
      BY <1>2, <2>3, MarkedView, Zenon
    <3>2. Stamped(m)
      BY Zenon DEF Stamped
    <3>3. \A t \in Steps : Stamped(disp[d].view[j][t]) => Stamped(disp'[d].view[j][t])
      BY <3>1, <3>2, Zenon
    <3> QED
      BY <2>1, <3>3, Zenon DEF Kept
  <2>4. disp'[d].view = disp[d].view \/ Mark(d) \/ (Hydrate(d) /\ disp'[d].view = Hydrated(d))
    BY WorkingMoves, Zenon
  <2> QED
    BY <1>3, <2>2, <2>3, <2>4, Zenon
<1> QED
  BY <1>3, <1>4, WorkingMoves, Zenon

LEMMA CopiedStep ==
  ASSUME Typed, Knit, Exists, Roots, Views, [Next]_vars
  PROVE  Copied'
<1>0. /\ blob \in [Jobs -> [Steps -> Marks]] /\ running \subseteq Jobs
      /\ running' \subseteq Jobs
  BY TypedStep, Zenon DEF Typed, TypeOK
<1> SUFFICES ASSUME NEW j \in running' PROVE Kept(blob'[j], meta'[j], j, status')
  BY Zenon DEF Copied
<1> USE DEF rqVars, histVars
<1>1. CASE Dequeue(j)
  <2>1. blob'[j] = meta[j] /\ meta' = meta
    BY <1>0, <1>1, Zenon DEF Dequeue
  <2> QED
    BY <2>1, KeptOn, Zenon
<1>2. ASSUME j \in running, blob'[j] = blob[j] PROVE Kept(blob'[j], meta'[j], j, status')
  <2>1. Kept(blob[j], meta[j], j, status) /\ j \in Jobs
    BY <1>0, <1>2, Zenon DEF Views, Copied
  <2>2. ASSUME NEW d \in Dispatches, SaveAnchor(d, j), meta'[j] = disp[d].view[j]
        PROVE  Kept(blob[j], meta'[j], j, status)
    <3>1. Kept(meta[j], disp[d].view[j], j, status)
      BY <2>1, <2>2, SavedAnchor, Zenon DEF Views, Sees
    <3> QED
      BY <2>1, <2>2, <3>1, KeptOn, Zenon
  <2>3. \A d \in Dispatches : ~ (SaveKnot(d) /\ j \in Children(disp[d].cur))
    BY <1>2, <2>1, FilledKids, Zenon DEF SaveKnot
  <2>4. Kept(blob[j], meta'[j], j, status)
    BY <2>1, <2>2, <2>3, MetaMoves, KeptOn, Zenon
  <2> QED
    BY <1>2, <2>4, KeptLater, Zenon
<1>3. ASSUME NEW i \in Jobs, Dequeue(i), i # j PROVE j \in running /\ blob'[j] = blob[j]
  BY <1>0, <1>3, Zenon DEF Dequeue
<1>4. ASSUME NEW i \in Jobs, NEW o \in {"finished", "failed"}, WorkerDone(i, o)
      PROVE  j \in running /\ blob'[j] = blob[j]
  BY <1>0, <1>4, Zenon DEF WorkerDone
<1>5. ASSUME NEW d \in Dispatches, Act(d) PROVE running' = running /\ blob' = blob
  BY <1>5, ActChanges, Zenon
  DEF PutStatus, Handle, CreateKnot, SaveKnot, EnqueueKnot, SaveAnchor, Finish
<1>6. ASSUME NEW x \in Cancels, Sweeping(x) PROVE running' = running /\ blob' = blob
  BY <1>6, SweepChanges, Zenon
<1>7. ASSUME Crash \/ (\E i \in Jobs : SaveProgress(i)) \/ UNCHANGED vars
      PROVE  running' = running /\ blob' = blob
  BY <1>7, Zenon DEF Crash, SaveProgress, vars
<1> QED
  BY <1>1, <1>2, <1>3, <1>4, <1>5, <1>6, <1>7, StepKinds, Zenon DEF Worker

LEMMA SeesStep ==
  ASSUME Typed, Locks, Knit, Placement, Exists, Roots, Views, [Next]_vars,
         NEW d \in Dispatches
  PROVE  Sees(disp'[d], meta', status')
<1>1. Sees(disp'[d], meta, status)
  <2>1. CASE disp'[d] = disp[d]
    BY <2>1, Zenon DEF Views
  <2>2. CASE Act(d)
    BY <2>2, SeesAct, Zenon
  <2>3. CASE Crash
    BY <2>3, CrashMoves, IdleIs, Zenon DEF Sees, Working
  <2>4. ASSUME NEW o \in Dispatches, Act(o), o # d PROVE disp'[d] = disp[d]
    BY <2>4, HeldMoves, Zenon DEF Others
  <2> QED
    BY <2>1, <2>2, <2>3, <2>4, StepKinds, DispKept, Zenon
<1> SUFFICES ASSUME disp'[d].pc \in Working, NEW j \in disp'[d].held
             PROVE  Kept(meta'[j], disp'[d].view[j], j, status)
  BY KeptLater, Zenon DEF Sees
<1>2. Kept(meta[j], disp'[d].view[j], j, status)
  BY <1>1, Zenon DEF Sees
<1>3. j \in Jobs
  <2>1. disp' \in [Dispatches -> DispatchState]
    BY TypedStep, Zenon DEF Typed, TypeOK
  <2> QED
    BY <2>1 DEF DispatchState
<1>4. ASSUME NEW o \in Dispatches, SaveAnchor(o, j), meta'[j] = disp[o].view[j]
      PROVE  Kept(meta'[j], disp'[d].view[j], j, status)
  <2>1. /\ j \in disp[o].held /\ Others(o) /\ disp'[o].view = disp[o].view
    BY <1>3, <1>4, SavedAnchor, Zenon
  <2>2. o = d
    <3> SUFFICES ASSUME o # d PROVE FALSE
      BY Zenon
    <3>1. j \in disp[d].held
      BY <2>1, Zenon DEF Others
    <3>2. disp[d].held \intersect disp[o].held = {}
      BY Zenon DEF Locks, Exclusive
    <3> QED
      BY <2>1, <3>1, <3>2, Zenon
  <2>3. meta'[j] = disp'[d].view[j]
    BY <1>4, <2>1, <2>2, Zenon
  <2> QED
    BY <2>3, KeptOn, Zenon
<1>5. ASSUME j \in running, meta'[j] = blob[j]
      PROVE  Kept(meta'[j], disp'[d].view[j], j, status)
  <2>1. Kept(blob[j], meta[j], j, status)
    BY <1>5, Zenon DEF Views, Copied
  <2> QED
    BY <1>2, <1>5, <2>1, KeptOn, Zenon
<1>6. ASSUME meta'[j] = Fresh(j) PROVE Kept(meta'[j], disp'[d].view[j], j, status)
  BY <1>3, <1>6, FreshBare, Zenon DEF Kept
<1> QED
  BY <1>2, <1>3, <1>4, <1>5, <1>6, MetaMoves, Zenon

LEMMA ViewsAlways == Spec => []Views
<1>1. Init => Views
  <2> SUFFICES ASSUME Init PROVE Views
    BY Zenon
  <2>1. running = {} /\ \A d \in Dispatches : disp[d] = Idle
    BY Zenon DEF Init
  <2>2. Sees(Idle, meta, status)
    BY IdleIs, Zenon DEF Sees, Working
  <2>3. Copied
    BY <2>1, Zenon DEF Copied
  <2> QED
    BY <2>1, <2>2, <2>3, Zenon DEF Views
<1>2. /\ Typed /\ Locks /\ Knit /\ Placement /\ Exists /\ Roots /\ Views /\ [Next]_vars
      => Views'
  BY CopiedStep, SeesStep, Zenon DEF Views
<1> QED
  BY <1>1, <1>2, TypedAlways, LocksAlways, KnitAlways, PlacementAlways, ExistsAlways,
     RootsAlways, PTL DEF Spec

\* One step does not erase a stamp.
LEMMA StampStays ==
  ASSUME Typed, Knit, Exists, Roots, Bare, Views, [Next]_vars,
         NEW j \in Jobs, NEW s \in Steps, Stamped(meta[j][s]), j \notin running
  PROVE  Stamped(meta'[j][s]) \/ Gone(j, s, status')
<1>1. \A d \in Dispatches : ~ (SaveKnot(d) /\ j \in Children(disp[d].cur))
  <2>1. ~ Blank(j, meta)
    BY Zenon DEF Blank, Stamped
  <2> QED
    BY <2>1, Zenon DEF Bare, SaveKnot
<1>2. ASSUME NEW d \in Dispatches, SaveAnchor(d, j), meta'[j] = disp[d].view[j]
      PROVE  Stamped(meta'[j][s]) \/ Gone(j, s, status)
  BY <1>2, SavedAnchor, Zenon DEF Views, Sees, Kept
<1>3. Stamped(meta'[j][s]) \/ Gone(j, s, status)
  BY <1>1, <1>2, MetaMoves, Zenon
<1>4. Of[s] \in Jobs
  BY ChainAssumption, Zenon
<1> QED
  BY <1>3, <1>4, Births, Zenon DEF Gone

\* No dispatch erases a mark that another one saved (_anchor_lock): it holds the
\* lock of the anchor from the hydration to the save, so nobody but the worker of
\* that very job writes the blob in between, and what it writes back has every
\* stamp that it read, but for those of a child that exists by then.
THEOREM MarksAreKept == Spec => MarksKept
<1>1. ASSUME Typed, Knit, Exists, Roots, Bare, Views, [Next]_vars
      PROVE  [\A j \in Jobs, s \in Steps :
                Stamped(meta[j][s]) /\ ~Stamped(meta'[j][s]) =>
                  j \in running \/ (Of[s] # j /\ status'[Of[s]] # "absent")]_vars
  BY <1>1, StampStays, Zenon DEF Gone, Built
<1> QED
  BY <1>1, TypedAlways, KnitAlways, ExistsAlways, RootsAlways, BareAlways, ViewsAlways, PTL
  DEF Spec, MarksKept

-----------------------------------------------------------------------------
(* What an acknowledged result leaves behind.                                *)

\* A step that was taken from the walk has run; unless it is about to be marked,
\* its stamp is in memory, and the anchor is saved or will be.
Lasts(s, r, mt, bd) ==
  /\ bd[s] # "none"
  /\ \/ r.pc = "mark" /\ r.cur = s
     \/ /\ Stamped(r.view[Of[s]][s])
        /\ Of[s] \in r.anchors \/ Stamped(mt[Of[s]][s])

\* A live dispatch that will be acknowledged.
Live(r) == r.pc \in Working /\ ~ Failed(r) /\ r.ok

Durable ==
  \A d \in Dispatches : Live(disp[d]) =>
    \A s \in disp[d].walk \ disp[d].todo : Lasts(s, disp[d], meta, body)

Settled ==
  \A s \in Steps : <<s, "live">> \in settled =>
    /\ Closed(Of[s], running, status, made)
    /\ body[s] # "none" /\ Stamped(meta[Of[s]][s])

\* The steps that a live dispatch walks hang off a job that has ended.
LEMMA LiveWalk ==
  ASSUME Typed, Owns, Knit, NEW d \in Dispatches, Live(disp[d]), NEW s \in disp[d].walk
  PROVE  /\ s \in Steps /\ Of[s] \in Jobs /\ Built(Of[s], status) /\ Home(s) = Of[s]
         /\ Closed(Of[s], running, status, made)
<1>1. disp[d].pc \in Working /\ ~ Failed(disp[d]) /\ disp[d].pc # "free" /\ Own(disp[d])
  BY Zenon DEF Live, Working, Owns
<1>2. s \in Steps /\ Of[s] = disp[d].entry.job
  BY <1>1, Zenon DEF Own
<1>3. Built(Of[s], status) /\ Closed(Of[s], running, status, made) /\ Of[s] \in Jobs
  BY <1>1, <1>2, LiveJob, Zenon
<1> QED
  BY <1>2, <1>3, Zenon DEF Home, Unbuilt, Built

LEMMA BodyStays ==
  ASSUME Typed, [Next]_vars, NEW s \in Steps, body[s] # "none"
  PROVE  body'[s] # "none"
<1>0. body \in [Steps -> {"none", "success", "failure"}]
  BY Zenon DEF Typed, TypeOK
<1> USE DEF rqVars, histVars
<1>1. ASSUME NEW d \in Dispatches, NEW t \in Steps, Handle(d, t) PROVE body'[s] # "none"
  BY <1>0, <1>1, Zenon DEF Handle
<1>2. ASSUME NEW d \in Dispatches, Act(d) PROVE body'[s] # "none"
  BY <1>1, <1>2, ActChanges, Zenon
  DEF PutStatus, CreateKnot, SaveKnot, EnqueueKnot, SaveAnchor, Finish
<1>3. ASSUME NEW x \in Cancels, Sweeping(x) PROVE body' = body
  BY <1>3, SweepChanges, Zenon
<1>4. ASSUME Crash \/ Worker \/ UNCHANGED vars PROVE body' = body
  BY <1>4, Zenon DEF Crash, Worker, Dequeue, SaveProgress, WorkerDone, vars
<1> QED
  BY <1>2, <1>3, <1>4, StepKinds, Zenon

\* The stamp of a step that hangs off a job that has ended is there for good.
LEMMA HomeStampStays ==
  ASSUME Typed, Knit, Exists, Roots, Bare, Views, [Next]_vars, NEW s \in Steps,
         Closed(Of[s], running, status, made), Stamped(meta[Of[s]][s])
  PROVE  Stamped(meta'[Of[s]][s])
<1>1. Of[s] \in Jobs /\ Of[s] \notin running
  BY ChainAssumption, Zenon DEF Closed
<1> QED
  BY <1>1, StampStays, Zenon DEF Gone

\* What a dispatch does while it works.
LEMMA WorkKinds ==
  ASSUME Typed, NEW d \in Dispatches, Act(d), disp[d].pc \in Working,
         disp'[d].pc \in Working
  PROVE  \/ \E s \in Steps : Handle(d, s) \/ HandlerRaises(d, s)
         \/ Mark(d)
         \/ CreateKnot(d) \/ KnotDeclined(d) \/ EnqueueKnot(d) \/ EnqueueFails(d)
         \/ SaveKnot(d)
         \/ \E j \in Jobs : SaveAnchor(d, j) \/ SaveFails(d, j)
<1>1. disp[d].pc \notin {"free", "peek", "put", "discover", "lock"}
  BY Zenon DEF Working
<1>2. \A e \in entries : ~ Take(d, e)
  BY <1>1, Zenon DEF Take
<1>3. ~ PeekStatus(d) /\ ~ PutStatus(d) /\ ~ Discover(d) /\ ~ Hydrate(d)
  BY <1>1, Zenon DEF PeekStatus, PutStatus, Discover, Hydrate
<1>4. \A j \in Jobs : ~ Lock(d, j)
  BY <1>1, Zenon DEF Lock
<1>5. ~ Drops(d)
  BY DropsMoves, IdleIs, Zenon DEF Working
<1> QED
  BY <1>2, <1>3, <1>4, <1>5, Zenon DEF Act, Dispatch, Drops

\* A live dispatch was live before, unless it has only just begun its walk.
LEMMA LiveBefore ==
  ASSUME Typed, NEW d \in Dispatches, Act(d), Live(disp'[d]),
         disp'[d].walk \ disp'[d].todo # {}
  PROVE  Live(disp[d]) /\ disp'[d].walk = disp[d].walk
<1>1. disp'[d].pc \in Working /\ ~ Failed(disp'[d]) /\ disp'[d].ok
  BY Zenon DEF Live
<1>2. ~ Failed(disp[d]) /\ ~ Dead(d)
  <2>1. KeepsEntry(d)
    BY <1>1, WorkingMoves, Zenon
  <2>2. ~ Failed(disp[d])
    BY <1>1, <2>1, Zenon DEF KeepsEntry, Failed
  <2> QED
    BY <2>2, Was, Zenon
<1>3. disp'[d].todo # disp'[d].walk
  BY Zenon
<1> QED
  BY <1>1, <1>2, <1>3, WorkingMoves, Zenon DEF Live

LEMMA LastsAct ==
  ASSUME Typed, Owns, Knit, Exists, Roots, Bare, Views, Durable, [Next]_vars,
         NEW d \in Dispatches, Act(d), Live(disp'[d]), Live(disp[d]),
         disp'[d].walk = disp[d].walk, NEW s \in disp[d].walk \ disp'[d].todo
  PROVE  Lasts(s, disp'[d], meta', body')
<1>1. /\ s \in Steps /\ Of[s] \in Jobs /\ Home(s) = Of[s]
      /\ Closed(Of[s], running, status, made)
  BY LiveWalk, Zenon
<1>2. s \notin disp[d].todo => Lasts(s, disp[d], meta, body)
  BY Zenon DEF Durable
<1>3. /\ body[s] # "none" => body'[s] # "none"
      /\ Stamped(meta[Of[s]][s]) => Stamped(meta'[Of[s]][s])
  BY <1>1, BodyStays, HomeStampStays, Zenon
<1>4. ASSUME s \notin disp[d].todo, disp[d].pc # "mark" \/ disp[d].cur # s,
             Of[s] \in disp[d].anchors =>
               Of[s] \in disp'[d].anchors \/ Stamped(meta'[Of[s]][s]),
             Stamped(disp[d].view[Of[s]][s]) => Stamped(disp'[d].view[Of[s]][s])
      PROVE  Lasts(s, disp'[d], meta', body')
  BY <1>2, <1>3, <1>4, Zenon DEF Lasts
<1>5. ASSUME NEW t \in Steps, Handle(d, t) \/ HandlerRaises(d, t)
      PROVE  Lasts(s, disp'[d], meta', body')
  <2>1. /\ disp[d].pc = "steps" /\ disp'[d].pc = "mark" /\ disp'[d].cur = t
        /\ disp'[d].todo = disp[d].todo \ {t} /\ disp'[d].anchors = disp[d].anchors
        /\ disp'[d].view = disp[d].view /\ Handle(d, t)
    BY <1>5, StepMoves, Zenon DEF KeepsWalk, Live
  <2>2. CASE s = t
    <3>1. body'[s] # "none"
      BY <1>1, <2>1, <2>2, Zenon DEF Handle, Typed, TypeOK
    <3> QED
      BY <2>1, <2>2, <3>1, Zenon DEF Lasts
  <2>3. CASE s # t
    BY <1>4, <2>1, <2>3, Zenon
  <2> QED
    BY <2>2, <2>3, Zenon
<1>6. ASSUME Mark(d) PROVE Lasts(s, disp'[d], meta', body')
  <2>1. PICK m \in {"finished", "failed"} :
          \A j \in Jobs, t \in Steps :
            disp'[d].view[j][t] = IF j = Home(disp[d].cur) /\ t = disp[d].cur
                                  THEN m ELSE disp[d].view[j][t]
    BY <1>6, MarkedView, Zenon
  <2>2. Stamped(m)
    BY Zenon DEF Stamped
  <2>3. /\ disp'[d].todo = disp[d].todo /\ disp[d].pc = "mark"
        /\ disp'[d].anchors = disp[d].anchors \union {Home(disp[d].cur)}
    BY <1>6, MarkMoves, Zenon
  <2>4. Stamped(disp[d].view[Of[s]][s]) => Stamped(disp'[d].view[Of[s]][s])
    BY <1>1, <2>1, <2>2, Zenon
  <2>5. CASE disp[d].cur = s
    <3>1. Stamped(disp'[d].view[Of[s]][s]) /\ Of[s] \in disp'[d].anchors
      BY <1>1, <2>1, <2>2, <2>3, <2>5, Zenon
    <3>2. body'[s] # "none"
      BY <1>2, <1>3, <2>3, Zenon DEF Lasts
    <3> QED
      BY <3>1, <3>2, Zenon DEF Lasts
  <2>6. CASE disp[d].cur # s
    BY <1>4, <2>3, <2>4, <2>6, Zenon
  <2> QED
    BY <2>5, <2>6, Zenon
<1>7. ASSUME CreateKnot(d) \/ KnotDeclined(d) \/ EnqueueKnot(d) \/ EnqueueFails(d)
      PROVE  Lasts(s, disp'[d], meta', body')
  <2>1. /\ disp'[d].todo = disp[d].todo /\ disp[d].pc # "mark"
        /\ disp'[d].anchors = disp[d].anchors /\ disp'[d].view = disp[d].view
    BY <1>7, KnotMoves, Zenon DEF KeepsWalk
  <2> QED
    BY <1>4, <2>1, Zenon
<1>8. ASSUME SaveKnot(d) PROVE Lasts(s, disp'[d], meta', body')
  <2>1. /\ disp'[d].todo = disp[d].todo /\ disp[d].pc # "mark"
        /\ disp'[d].anchors = disp[d].anchors /\ disp'[d].view = disp[d].view
    BY <1>8, FillMoves, Zenon DEF KeepsWalk, KeepsTurn, KeepsYield
  <2> QED
    BY <1>4, <2>1, Zenon
<1>9. ASSUME NEW j \in Jobs, SaveAnchor(d, j) \/ SaveFails(d, j)
      PROVE  Lasts(s, disp'[d], meta', body')
  <2>1. /\ disp'[d].todo = disp[d].todo /\ disp[d].pc # "mark"
        /\ disp'[d].anchors = disp[d].anchors \ {j} /\ disp'[d].view = disp[d].view
        /\ SaveAnchor(d, j)
    BY <1>9, SaveMoves, Zenon DEF KeepsWalk, KeepsTurn, Live
  <2>2. meta'[j] = disp[d].view[j]
    BY <2>1, Zenon DEF SaveAnchor, Typed, TypeOK
  <2>3. CASE Of[s] = j
    <3>1. Lasts(s, disp[d], meta, body)
      BY <1>2, <2>1, Zenon
    <3>2. Stamped(meta'[Of[s]][s])
      BY <2>1, <2>2, <2>3, <3>1, Zenon DEF Lasts
    <3> QED
      BY <1>4, <2>1, <3>2, Zenon
  <2>4. CASE Of[s] # j
    BY <1>4, <2>1, <2>4, Zenon
  <2> QED
    BY <2>3, <2>4, Zenon
<1>10. disp[d].pc \in Working /\ disp'[d].pc \in Working
  BY Zenon DEF Live
<1> QED
  BY <1>5, <1>6, <1>7, <1>8, <1>9, <1>10, WorkKinds, Zenon

LEMMA DurableAlways == Spec => []Durable
<1>1. Init => Durable
  <2>1. ~ Live(Idle)
    BY IdleIs, Zenon DEF Live, Working
  <2> QED
    BY <2>1, Zenon DEF Init, Durable
<1>2. /\ Typed /\ Owns /\ Knit /\ Exists /\ Roots /\ Bare /\ Views /\ Durable /\ [Next]_vars
      => Durable'
  <2> SUFFICES ASSUME Typed, Owns, Knit, Exists, Roots, Bare, Views, Durable, [Next]_vars,
                      NEW d \in Dispatches, Live(disp'[d]),
                      NEW s \in disp'[d].walk \ disp'[d].todo
               PROVE  Lasts(s, disp'[d], meta', body')
    BY Zenon DEF Durable
  <2>1. CASE disp'[d] = disp[d]
    <3>1. /\ Lasts(s, disp[d], meta, body) /\ s \in Steps
          /\ Closed(Of[s], running, status, made)
      BY <2>1, LiveWalk, Zenon DEF Durable
    <3>2. /\ body[s] # "none" => body'[s] # "none"
          /\ Stamped(meta[Of[s]][s]) => Stamped(meta'[Of[s]][s])
      BY <3>1, BodyStays, HomeStampStays, Zenon
    <3> QED
      BY <2>1, <3>1, <3>2, Zenon DEF Lasts
  <2>2. CASE Act(d)
    <3>1. Live(disp[d]) /\ disp'[d].walk = disp[d].walk
      BY <2>2, LiveBefore, Zenon
    <3> QED
      BY <2>2, <3>1, LastsAct, Zenon
  <2>3. CASE Crash
    BY <2>3, CrashMoves, IdleIs, Zenon DEF Live, Working
  <2>4. ASSUME NEW o \in Dispatches, Act(o), o # d PROVE disp'[d] = disp[d]
    BY <2>4, HeldMoves, Zenon DEF Others
  <2> QED
    BY <2>1, <2>2, <2>3, <2>4, StepKinds, DispKept, Zenon
<1> QED
  BY <1>1, <1>2, TypedAlways, OwnsAlways, KnitAlways, ExistsAlways, RootsAlways, BareAlways,
     ViewsAlways, PTL DEF Spec

\* A step is settled by a live dispatch that has walked it, marked it and saved.
LEMMA Settles ==
  ASSUME Typed, [Next]_vars, NEW s \in Steps, <<s, "live">> \in settled'
  PROVE  \/ <<s, "live">> \in settled
         \/ \E d \in Dispatches : /\ Live(disp[d]) /\ s \in disp[d].walk \ disp[d].todo
                                  /\ disp[d].pc = "steps" /\ disp[d].anchors = {}
<1> USE DEF rqVars, histVars
<1>1. ASSUME NEW d \in Dispatches, Finish(d), <<s, "live">> \notin settled
      PROVE  /\ Live(disp[d]) /\ s \in disp[d].walk \ disp[d].todo
             /\ disp[d].pc = "steps" /\ disp[d].anchors = {}
  <2>1. /\ disp[d].pc = "steps" /\ disp[d].todo = {} /\ disp[d].anchors = {}
        /\ settled' = IF disp[d].ok
                      THEN settled \union (disp[d].walk \X {IF Dead(d) THEN "dead" ELSE "live"})
                      ELSE settled
    BY <1>1, Zenon DEF Finish, StepsDone, Acknowledged
  <2>2. disp[d].ok /\ <<s, "live">> \in disp[d].walk \X {IF Dead(d) THEN "dead" ELSE "live"}
    BY <1>1, <2>1, Zenon
  <2>3. s \in disp[d].walk /\ ~ Dead(d)
    BY <2>2
  <2> QED
    BY <2>1, <2>2, <2>3, Was, Zenon DEF Live, Working
<1>2. ASSUME NEW d \in Dispatches, Act(d), ~ Finish(d) PROVE settled' = settled
  BY <1>2, ActChanges, Zenon
  DEF PutStatus, Handle, CreateKnot, SaveKnot, EnqueueKnot, SaveAnchor
<1>3. ASSUME NEW x \in Cancels, Sweeping(x) PROVE settled' = settled
  BY <1>3, SweepChanges, Zenon
<1>4. ASSUME Crash \/ Worker \/ UNCHANGED vars PROVE settled' = settled
  BY <1>4, Zenon DEF Crash, Worker, Dequeue, SaveProgress, WorkerDone, vars
<1> QED
  BY <1>1, <1>2, <1>3, <1>4, StepKinds, Zenon

LEMMA SettledAlways == Spec => []Settled
<1>1. Init => Settled
  BY Zenon DEF Init, Settled
<1>2. /\ Typed /\ Owns /\ Knit /\ Exists /\ Roots /\ Bare /\ Views /\ Durable /\ Settled
      /\ [Next]_vars
      => Settled'
  <2> SUFFICES ASSUME Typed, Owns, Knit, Exists, Roots, Bare, Views, Durable, Settled,
                      [Next]_vars, NEW s \in Steps, <<s, "live">> \in settled'
               PROVE  /\ Closed(Of[s], running', status', made')
                      /\ body'[s] # "none" /\ Stamped(meta'[Of[s]][s])
    BY Zenon DEF Settled
  <2>1. ASSUME NEW d \in Dispatches, Live(disp[d]), s \in disp[d].walk \ disp[d].todo,
               disp[d].pc = "steps", disp[d].anchors = {}
        PROVE  /\ Closed(Of[s], running, status, made)
               /\ body[s] # "none" /\ Stamped(meta[Of[s]][s])
    <3>1. Closed(Of[s], running, status, made)
      BY <2>1, LiveWalk, Zenon
    <3>2. Lasts(s, disp[d], meta, body)
      BY <2>1, Zenon DEF Durable
    <3> QED
      BY <2>1, <3>1, <3>2, Zenon DEF Lasts
  <2>2. /\ Closed(Of[s], running, status, made)
        /\ body[s] # "none" /\ Stamped(meta[Of[s]][s])
    BY <2>1, Settles, Zenon DEF Settled
  <2>3. Of[s] \in Jobs
    BY ChainAssumption, Zenon
  <2> QED
    BY <2>2, <2>3, ClosedStays, BodyStays, HomeStampStays, Zenon
<1> QED
  BY <1>1, <1>2, TypedAlways, OwnsAlways, KnitAlways, ExistsAlways, RootsAlways, BareAlways,
     ViewsAlways, DurableAlways, PTL DEF Spec

\* What _process_entry acknowledges is durable: each step it took from the walk
\* has run and is stamped in memory, its anchor is written back before it returns
\* True, and no later step erases a stamp of a job that has ended.
THEOREM AcknowledgedIsDurable == Spec => []AckedIsDurable
<1>1. Settled => AckedIsDurable
  BY Zenon DEF Settled, AckedIsDurable
<1> QED
  BY <1>1, SettledAlways, PTL

-----------------------------------------------------------------------------
(* No knot is stranded silently.                                             *)

\* The child k was queued, or a failure left it saved and not queued.
Follow(k, mk, st, f) == mk[k] # 0 \/ (Built(k, st) /\ f # 0)

\* Without a failure, a child that is saved and not queued is at the hands of
\* the dispatch that saved it.
Stranded ==
  \A k \in Jobs :
    Carrier[k] # None /\ Built(k, status) /\ made[k] = 0 /\ faults = 0 =>
      \E o \in Dispatches : disp[o].pc \in Hatching /\ disp[o].cur = Carrier[k]

\* A live dispatch has looked after the child of each step it is done with.
Busy(r, s) == r.pc \in {"mark", "knot", "fill", "enqueue"} /\ r.cur = s

Follows ==
  \A d \in Dispatches : Live(disp[d]) =>
    \A k \in Jobs : Carrier[k] \in disp[d].walk \ disp[d].todo /\ ~ Busy(disp[d], Carrier[k])
                    => Follow(k, made, status, faults)

Followed ==
  \A k \in Jobs : <<Carrier[k], "live">> \in settled => Follow(k, made, status, faults)

LEMMA FaultsGrow ==
  ASSUME Typed, [Next]_vars
  PROVE  /\ faults # 0 => faults' # 0
         /\ Fault => faults' # 0
<1>0. faults \in Nat
  BY ChainAssumption DEF Typed, TypeOK
<1>1. Fault => faults' # 0
  BY <1>0 DEF Fault
<1>2. ASSUME NEW x \in Cancels, Sweeping(x), faults # 0 PROVE faults' # 0
  <2>1. faults' \in Nat /\ faults' >= faults
    BY <1>2, SweepChanges, Zenon
  <2> QED
    BY <1>0, <1>2, <2>1
<1>3. ASSUME NEW d \in Dispatches, Dispatch(d) PROVE faults' = faults
  BY <1>3, Zenon
  DEF Dispatch, Take, PeekStatus, PutStatus, Discover, Lock, Hydrate, Handle, Mark,
      CreateKnot, SaveKnot, EnqueueKnot, SaveAnchor, Finish
<1>4. ASSUME NEW d \in Dispatches, Act(d) PROVE faults' = faults \/ Fault
  BY <1>3, <1>4, Zenon
  DEF Act, DispatchRaises, KnotDeclined, EnqueueFails, AckLost, HandlerRaises, SaveFails
<1>5. ASSUME Worker \/ UNCHANGED vars PROVE faults' = faults
  BY <1>5, Zenon DEF Worker, Dequeue, SaveProgress, WorkerDone, vars
<1>6. Crash => Fault
  BY Zenon DEF Crash
<1> QED
  BY <1>1, <1>2, <1>4, <1>5, <1>6, StepKinds, Zenon

LEMMA MadeStays ==
  ASSUME Typed, Knit, [Next]_vars, NEW k \in Jobs, made[k] # 0
  PROVE  made'[k] # 0
<1> USE DEF rqVars, histVars
<1>1. ASSUME NEW d \in Dispatches, EnqueueKnot(d) PROVE made'[k] # 0
  BY <1>1, QueuedKids, Zenon DEF Knit
<1>2. ASSUME NEW d \in Dispatches, Act(d), ~ EnqueueKnot(d) PROVE made' = made
  BY <1>2, ActChanges, Zenon DEF PutStatus, Handle, CreateKnot, SaveKnot, SaveAnchor, Finish
<1>3. ASSUME NEW x \in Cancels, Sweeping(x) PROVE made' = made
  BY <1>3, SweepChanges, Zenon
<1>4. ASSUME Crash \/ Worker \/ UNCHANGED vars PROVE made' = made
  BY <1>4, Zenon DEF Crash, Worker, Dequeue, SaveProgress, WorkerDone, vars
<1> QED
  BY <1>1, <1>2, <1>3, <1>4, StepKinds, Zenon

LEMMA FollowStays ==
  ASSUME Typed, Knit, Exists, [Next]_vars, NEW k \in Jobs, Follow(k, made, status, faults)
  PROVE  Follow(k, made', status', faults')
  BY FaultsGrow, MadeStays, Births, Zenon DEF Follow

\* A dispatch that has saved a child saves its steps and queues it, or fails.
LEMMA EnqueueLeft ==
  ASSUME Typed, NEW d \in Dispatches, Act(d), disp[d].pc \in Hatching
  PROVE  SaveKnot(d) \/ EnqueueKnot(d) \/ EnqueueFails(d)
<1> USE DEF Hatching
<1>1. \A e \in entries : ~ Take(d, e)
  BY Zenon DEF Take
<1>2. /\ ~ PeekStatus(d) /\ ~ PutStatus(d) /\ ~ Discover(d) /\ ~ Hydrate(d)
      /\ ~ Mark(d) /\ ~ CreateKnot(d) /\ ~ KnotDeclined(d)
  BY Zenon DEF PeekStatus, PutStatus, Discover, Hydrate, Mark, CreateKnot, KnotDeclined
<1>3. \A j \in Jobs : ~ Lock(d, j) /\ ~ SaveAnchor(d, j) /\ ~ SaveFails(d, j)
  BY Zenon DEF Lock, SaveAnchor, SaveFails, StepsDone
<1>4. \A s \in Steps : ~ Handle(d, s) /\ ~ HandlerRaises(d, s)
  BY Zenon DEF Handle, HandlerRaises
<1>5. ~ Finish(d) /\ ~ AckLost(d) /\ ~ DispatchRaises(d)
  BY Zenon DEF Finish, AckLost, DispatchRaises, StepsDone
<1> QED
  BY <1>1, <1>2, <1>3, <1>4, <1>5, Zenon DEF Act, Dispatch

LEMMA StrandedAlways == Spec => []Stranded
<1>1. Init => Stranded
  BY Zenon DEF Init, Stranded, Built
<1>2. Typed /\ Knit /\ Exists /\ Stranded /\ [Next]_vars => Stranded'
  <2> SUFFICES ASSUME Typed, Knit, Exists, Stranded, [Next]_vars,
                      NEW k \in Jobs, Carrier[k] # None, Built(k, status'),
                      made'[k] = 0, faults' = 0
               PROVE  \E o \in Dispatches :
                        disp'[o].pc \in Hatching /\ disp'[o].cur = Carrier[k]
    BY Zenon DEF Stranded
  <2>1. made[k] = 0 /\ faults = 0 /\ ~ Fault
    BY FaultsGrow, MadeStays, Zenon
  <2>2. CASE Built(k, status)
    <3>1. PICK o \in Dispatches : disp[o].pc \in Hatching /\ disp[o].cur = Carrier[k]
      BY <2>1, <2>2, Zenon DEF Stranded
    <3>2. ~ Crash
      BY <2>1, Zenon DEF Crash
    <3>3. Act(o) => SaveKnot(o)
      <4>1. ~ EnqueueFails(o)
        BY <2>1, Zenon DEF EnqueueFails
      <4>2. ~ EnqueueKnot(o)
        <5>1. k \in Children(disp[o].cur)
          BY <3>1, Zenon DEF Children
        <5> SUFFICES ASSUME EnqueueKnot(o) PROVE FALSE
          BY Zenon
        <5>2. made'[k] = 1
          BY <5>1, QueuedKids, Zenon DEF Knit
        <5> QED
          BY <5>2
      <4> QED
        BY <3>1, <4>1, <4>2, EnqueueLeft, Zenon
    <3>4. disp'[o] = disp[o] \/ SaveKnot(o)
      <4>1. ASSUME NEW d \in Dispatches, Act(d), d # o PROVE disp'[o] = disp[o]
        BY <4>1, HeldMoves, Zenon DEF Others
      <4> QED
        BY <3>2, <3>3, <4>1, StepKinds, DispKept, Zenon
    <3>5. SaveKnot(o) => disp'[o].pc \in Hatching /\ disp'[o].cur = disp[o].cur
      BY FillMoves, Zenon DEF KeepsTurn, Hatching
    <3> QED
      BY <3>1, <3>4, <3>5, Zenon
  <2>3. CASE ~ Built(k, status)
    <3>1. PICK d \in Dispatches : CreateKnot(d) /\ k \in Children(disp[d].cur)
      BY <2>3, Births, Zenon
    <3>2. disp'[d].pc \in Hatching /\ disp'[d].cur = disp[d].cur
      BY <2>3, <3>1, KnotMoves, Zenon DEF Built, Hatching
    <3> QED
      BY <3>1, <3>2, Zenon DEF Children
  <2> QED
    BY <2>2, <2>3, Zenon
<1> QED
  BY <1>1, <1>2, TypedAlways, KnitAlways, ExistsAlways, PTL DEF Spec

LEMMA FollowsAct ==
  ASSUME Typed, Locks, Owns, Knit, Exists, Stranded, Follows, [Next]_vars,
         NEW d \in Dispatches, Act(d), Live(disp'[d]), Live(disp[d]),
         disp'[d].walk = disp[d].walk, NEW k \in Jobs,
         Carrier[k] \in disp[d].walk \ disp'[d].todo, ~ Busy(disp'[d], Carrier[k])
  PROVE  Follow(k, made', status', faults')
<1>1. ASSUME Carrier[k] \notin disp[d].todo, ~ Busy(disp[d], Carrier[k])
      PROVE  Follow(k, made', status', faults')
  BY <1>1, FollowStays, Zenon DEF Follows
<1>2. ASSUME NEW s \in Steps, Handle(d, s) \/ HandlerRaises(d, s)
      PROVE  Follow(k, made', status', faults')
  <2>1. /\ disp[d].pc = "steps" /\ disp'[d].pc = "mark" /\ disp'[d].cur = s
        /\ disp'[d].todo = disp[d].todo \ {s}
    BY <1>2, StepMoves, Zenon
  <2>2. Carrier[k] # s
    BY <2>1, Zenon DEF Busy
  <2>3. Carrier[k] \notin disp[d].todo /\ ~ Busy(disp[d], Carrier[k])
    BY <2>1, <2>2, Zenon DEF Busy
  <2> QED
    BY <1>1, <2>3, Zenon
<1>3. ASSUME Mark(d) PROVE Follow(k, made', status', faults')
  <2>1. disp[d].ran /\ ~ Dead(d)
    BY <1>3, MarkMoves, Was, Zenon DEF Live, Shaped
  <2>2. /\ disp'[d].pc = "knot" /\ disp'[d].cur = disp[d].cur
        /\ disp'[d].todo = disp[d].todo
    BY <1>3, <2>1, MarkMoves, Zenon
  <2> QED
    BY <1>1, <2>2, Zenon DEF Busy
<1>4. ASSUME CreateKnot(d) \/ KnotDeclined(d) \/ EnqueueKnot(d) \/ EnqueueFails(d)
      PROVE  Follow(k, made', status', faults')
  <2>1. /\ CreateKnot(d) \/ EnqueueKnot(d)
        /\ disp'[d].todo = disp[d].todo
        /\ disp[d].pc \in {"knot", "fill", "enqueue"} /\ disp'[d].pc \in {"steps", "fill"}
        /\ disp'[d].pc = "fill" => disp'[d].cur = disp[d].cur
    BY <1>4, KnotMoves, Zenon DEF Live
  <2>2. CASE disp[d].cur # Carrier[k]
    BY <1>1, <2>1, <2>2, Zenon DEF Busy
  <2>3. CASE disp[d].cur = Carrier[k]
    <3>1. k \in Children(disp[d].cur) /\ disp'[d].pc = "steps"
      BY <2>1, <2>3, Zenon DEF Children, Busy
    <3>2. CASE EnqueueKnot(d)
      <4>1. made'[k] = 1
        BY <3>1, <3>2, QueuedKids, Zenon DEF Knit
      <4>2. made'[k] # 0
        BY <4>1
      <4> QED
        BY <4>2, Zenon DEF Follow
    <3>3. CASE CreateKnot(d)
      <4>0. disp[d].pc = "knot"
        BY <3>3, Zenon DEF CreateKnot
      <4>1. Built(k, status) /\ disp[d].pc = "knot"
        BY <3>1, <3>3, <4>0, KnotMoves, Zenon DEF Built
      <4>2. ~ \E o \in Dispatches : disp[o].pc \in Hatching /\ disp[o].cur = Carrier[k]
        BY <2>3, <4>1, OneCarrier, Zenon DEF Hatching
      <4>3. disp[d].cur \in Steps
        BY <4>1, Entries, Zenon
      <4>4. Carrier[k] # None
        BY <3>1, <4>3, OneChild, Zenon
      <4>5. Follow(k, made, status, faults)
        BY <4>1, <4>2, <4>4, Zenon DEF Stranded, Follow
      <4> QED
        BY <4>5, FollowStays, Zenon
    <3> QED
      BY <2>1, <3>2, <3>3, Zenon
  <2> QED
    BY <2>2, <2>3, Zenon
<1>5. ASSUME NEW j \in Jobs, SaveAnchor(d, j) \/ SaveFails(d, j)
      PROVE  Follow(k, made', status', faults')
  <2>1. disp[d].pc = "steps" /\ disp'[d].todo = disp[d].todo
    BY <1>5, SaveMoves, Zenon DEF KeepsTurn
  <2> QED
    BY <1>1, <2>1, Zenon DEF Busy
<1>6. ASSUME SaveKnot(d) PROVE Follow(k, made', status', faults')
  BY <1>1, <1>6, FillMoves, Zenon DEF KeepsTurn, Busy
<1>7. disp[d].pc \in Working /\ disp'[d].pc \in Working
  BY Zenon DEF Live
<1> QED
  BY <1>2, <1>3, <1>4, <1>5, <1>6, <1>7, WorkKinds, Zenon

LEMMA FollowsAlways == Spec => []Follows
<1>1. Init => Follows
  <2>1. ~ Live(Idle)
    BY IdleIs, Zenon DEF Live, Working
  <2> QED
    BY <2>1, Zenon DEF Init, Follows
<1>2. Typed /\ Locks /\ Owns /\ Knit /\ Exists /\ Stranded /\ Follows /\ [Next]_vars => Follows'
  <2> SUFFICES ASSUME Typed, Locks, Owns, Knit, Exists, Stranded, Follows, [Next]_vars,
                      NEW d \in Dispatches, Live(disp'[d]), NEW k \in Jobs,
                      Carrier[k] \in disp'[d].walk \ disp'[d].todo,
                      ~ Busy(disp'[d], Carrier[k])
               PROVE  Follow(k, made', status', faults')
    BY Zenon DEF Follows
  <2>1. CASE disp'[d] = disp[d]
    BY <2>1, FollowStays, Zenon DEF Follows
  <2>2. CASE Act(d)
    <3>1. Live(disp[d]) /\ disp'[d].walk = disp[d].walk
      BY <2>2, LiveBefore, Zenon
    <3> QED
      BY <2>2, <3>1, FollowsAct, Zenon
  <2>3. CASE Crash
    BY <2>3, CrashMoves, IdleIs, Zenon DEF Live, Working
  <2>4. ASSUME NEW o \in Dispatches, Act(o), o # d PROVE disp'[d] = disp[d]
    BY <2>4, HeldMoves, Zenon DEF Others
  <2> QED
    BY <2>1, <2>2, <2>3, <2>4, StepKinds, DispKept, Zenon
<1> QED
  BY <1>1, <1>2, TypedAlways, LocksAlways, OwnsAlways, KnitAlways, ExistsAlways,
     StrandedAlways, PTL DEF Spec

LEMMA FollowedAlways == Spec => []Followed
<1>1. Init => Followed
  BY Zenon DEF Init, Followed
<1>2. Typed /\ Knit /\ Exists /\ Follows /\ Followed /\ [Next]_vars => Followed'
  <2> SUFFICES ASSUME Typed, Knit, Exists, Follows, Followed, [Next]_vars,
                      NEW k \in Jobs, <<Carrier[k], "live">> \in settled'
               PROVE  Follow(k, made', status', faults')
    BY Zenon DEF Followed
  <2>1. Carrier[k] \in Steps
    <3>1. settled' \subseteq Steps \X {"live", "dead"}
      BY TypedStep, Zenon DEF Typed, TypeOK
    <3> QED
      BY <3>1
  <2>2. ASSUME NEW d \in Dispatches, Live(disp[d]),
               Carrier[k] \in disp[d].walk \ disp[d].todo, disp[d].pc = "steps"
        PROVE  Follow(k, made, status, faults)
    BY <2>2, Zenon DEF Follows, Busy
  <2>3. Follow(k, made, status, faults)
    BY <2>1, <2>2, Settles, Zenon DEF Followed
  <2> QED
    BY <2>3, FollowStays, Zenon
<1> QED
  BY <1>1, <1>2, TypedAlways, KnitAlways, ExistsAlways, FollowsAlways, PTL DEF Spec

\* "instead of silently stranding the knot": an acknowledged live result has
\* queued the children of its steps, unless a failure came between saving one and
\* queueing it. The dispatch that saves a child holds the anchor of its carrier
\* until it has queued the child or failed, so whoever later finds the child
\* saved and not queued finds it after that failure.
THEOREM KnotsFollow == Spec => []KnotFollows
<1>1. ASSUME Typed, Knit, Followed PROVE KnotFollows
  <2> SUFFICES ASSUME NEW k \in Jobs, <<Carrier[k], "live">> \in settled
               PROVE  made[k] > 0 \/ (status[k] \in {"created", "canceled"} /\ faults > 0)
    BY Zenon DEF KnotFollows
  <2>1. Carrier[k] \in Steps
    <3>1. settled \subseteq Steps \X {"live", "dead"}
      BY <1>1, Zenon DEF Typed, TypeOK
    <3> QED
      BY <3>1
  <2>2. Carrier[k] # None
    BY <2>1, ChainAssumption, Zenon
  <2>3. made[k] # 0 \/ (status[k] \in {"created", "canceled"} /\ faults # 0)
    BY <1>1, <2>2, Zenon DEF Followed, Follow, Knit, Kid, Built
  <2>4. made[k] \in Nat /\ faults \in Nat
    BY <1>1, ChainAssumption DEF Typed, TypeOK
  <2> QED
    BY <2>3, <2>4
<1> QED
  BY <1>1, TypedAlways, KnitAlways, FollowedAlways, PTL
=============================================================================
