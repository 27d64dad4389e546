------------------------ MODULE TaskChainTypeProofs -------------------------
(***************************************************************************)
(* TaskChain, for any tree of jobs and steps and any number of dispatches, *)
(* cancels and faults: its types, the shape of a dispatch at each of its   *)
(* awaits, and the order in which it takes the anchor locks.               *)
(***************************************************************************)
EXTENDS TaskChain, FiniteSetTheorems, NaturalsInduction, WellFoundedInduction, TLAPS

\* The awaits at which a dispatch holds its locks and a walk.
Working == {"steps", "mark", "knot", "fill", "enqueue"}

\* The awaits at which it has saved a child and has not queued it.
Hatching == {"fill", "enqueue"}

\* chain_failed of the record of a dispatch.
Failed(r) == r.canceled \/ r.entry.outcome = "failed"

\* What a dispatch holds at each of its awaits.
Shaped(r) ==
  /\ r.pc = "free" => r = Idle
  /\ r.pc # "free" => r.entry \in Entry
  /\ r.pc \notin Working =>
       /\ r.walk = {} /\ r.cur = None /\ r.anchors = {} /\ r.ok
       /\ r.pc # "lock" => r.held = {}
  /\ r.pc \in {"mark", "knot", "fill", "enqueue"} => r.cur \in r.walk \ r.todo
  /\ r.pc = "mark" /\ r.ok => r.ran
  /\ r.pc \in {"knot", "fill", "enqueue"} => ~ Failed(r)
  /\ r.todo \subseteq r.walk /\ r.held \subseteq r.want
  /\ r.pc # "free" /\ r.entry.kind = "canceled" => r.canceled
  /\ r.pc \in {"peek", "put"} => ~ r.canceled
  /\ r.pc # "free" => (r.entry.kind = "canceled" <=> r.entry.outcome = "canceled")

\* A canceled event says canceled, and nothing else does; a child that is not
\* there is carried by a step; a cancel that is about to write has a job.
Formed ==
  /\ \A d \in Dispatches : Shaped(disp[d])
  /\ \A e \in entries : e.kind = "canceled" <=> e.outcome = "canceled"
  /\ \A j \in Jobs : status[j] = "absent" => Carrier[j] # None
  /\ \A x \in Cancels : sweep[x].stage \in {"apply", "stamp"} => sweep[x].job \in Jobs

Typed == TypeOK /\ Formed

-----------------------------------------------------------------------------
(* One dispatch moves and the others stand still.                            *)

Others(d) == \A o \in Dispatches \ {d} : disp'[o] = disp[o]

\* Parts of a dispatch that a step leaves alone.
KeepsEntry(d) ==
  disp'[d].entry = disp[d].entry /\ disp'[d].canceled = disp[d].canceled
KeepsLocks(d) ==
  disp'[d].want = disp[d].want /\ disp'[d].held = disp[d].held
KeepsWalk(d) ==
  disp'[d].view = disp[d].view /\ disp'[d].walk = disp[d].walk
KeepsTurn(d) ==
  disp'[d].todo = disp[d].todo /\ disp'[d].cur = disp[d].cur
  /\ disp'[d].ran = disp[d].ran
KeepsYield(d) ==
  disp'[d].anchors = disp[d].anchors /\ disp'[d].ok = disp[d].ok

LEMMA IdleTyped == Idle \in DispatchState /\ Shaped(Idle)
<1>1. NoEntry \in Entry \union {NoEntry}
  BY Zenon
<1>2. Idle \in DispatchState
  BY <1>1, Zenon DEF Idle, DispatchState, Marks
<1> QED
  BY <1>2, Zenon DEF Idle, Shaped, Working

LEMMA IdleIs ==
  /\ Idle.pc = "free" /\ Idle.held = {} /\ Idle.want = {} /\ Idle.walk = {}
  /\ Idle.todo = {} /\ Idle.cur = None /\ Idle.anchors = {} /\ Idle.ok /\ ~ Idle.canceled
  /\ Idle.view = [j \in Jobs |-> Empty] /\ Idle.entry = NoEntry
  BY Zenon DEF Idle, Empty

LEMMA HomeIsJob ==
  ASSUME Typed, NEW s \in Steps
  PROVE  Home(s) \in Jobs /\ Of[s] \in Jobs
<1>1. Of[s] \in Jobs
  BY ChainAssumption, Zenon
<1>2. Unbuilt(s) => Carrier[Of[s]] \in Steps
  BY <1>1, ChainAssumption, Zenon DEF Unbuilt, Typed, Formed
<1> QED
  BY <1>1, <1>2, ChainAssumption, Zenon DEF Home

\* A dispatch takes the record r.
LEMMA Moved ==
  ASSUME Typed, NEW d \in Dispatches, NEW r \in DispatchState,
         disp' = [disp EXCEPT ![d] = r]
  PROVE  disp' \in [Dispatches -> DispatchState] /\ disp'[d] = r /\ Others(d)
  BY Zenon DEF Typed, TypeOK, Others

\* What holds of a dispatch before its step.
LEMMA Was ==
  ASSUME Typed, NEW d \in Dispatches
  PROVE  disp[d] \in DispatchState /\ Shaped(disp[d]) /\ Failed(disp[d]) = Dead(d)
  BY Zenon DEF Typed, TypeOK, Formed, Failed, Dead

\* An entry is taken.
LEMMA TakeMoves ==
  ASSUME Typed, NEW d \in Dispatches, NEW e \in entries, Take(d, e)
  PROVE  /\ disp' \in [Dispatches -> DispatchState] /\ Others(d) /\ Shaped(disp'[d])
         /\ disp[d].pc = "free" /\ disp'[d].pc \in {"peek", "discover"}
         /\ disp'[d].entry = e
         /\ disp'[d].canceled <=> (e.kind = "canceled" \/ e.job \in record)
         /\ KeepsLocks(d) /\ KeepsWalk(d) /\ KeepsTurn(d) /\ KeepsYield(d)
<1> DEFINE q == disp[d]
<1>0. q \in DispatchState /\ Shaped(q) /\ (Failed(q) <=> Dead(d))
  BY Was, Zenon
<1> DEFINE c == e.kind = "canceled" \/ e.job \in record
<1>1. e \in Entry /\ c \in BOOLEAN /\ (e.kind = "canceled" <=> e.outcome = "canceled")
  BY Zenon DEF Typed, TypeOK, Formed
<1>2. q.pc = "free"
  BY Zenon DEF Take
<1> DEFINE r == [q EXCEPT !.entry = e, !.canceled = c, !.pc = IF c THEN "discover" ELSE "peek"]
<1>3. disp' = [disp EXCEPT ![d] = r]
  BY Zenon DEF Take
<1> HIDE DEF q
<1>4. r \in DispatchState
  BY <1>0, <1>1, Zenon DEF DispatchState, Marks
<1>5. /\ r.pc = (IF c THEN "discover" ELSE "peek") /\ r.entry = e
      /\ r.canceled = c /\ r.want = q.want /\ r.held = q.held
      /\ r.view = q.view /\ r.walk = q.walk /\ r.todo = q.todo
      /\ r.cur = q.cur /\ r.ran = q.ran /\ r.anchors = q.anchors
      /\ r.ok = q.ok
  BY <1>0 DEF DispatchState
<1> HIDE DEF r
<1>6. Shaped(r)
  BY <1>0, <1>1, <1>2, <1>5 DEF Shaped, Working, Failed
<1>7. disp' \in [Dispatches -> DispatchState] /\ disp'[d] = r /\ Others(d)
  BY <1>3, <1>4, Moved, Zenon
<1> QED
  BY <1>2, <1>5, <1>6, <1>7, Zenon DEF q, KeepsLocks, KeepsWalk, KeepsTurn, KeepsYield

\* _set_job_status: the read of the status, and the write.
LEMMA StatusMoves ==
  ASSUME Typed, NEW d \in Dispatches, PeekStatus(d) \/ PutStatus(d)
  PROVE  /\ disp' \in [Dispatches -> DispatchState] /\ Others(d) /\ Shaped(disp'[d])
         /\ disp[d].pc \in {"peek", "put"} /\ disp'[d].pc \in {"put", "discover"}
         /\ disp'[d].pc = "put" => disp[d].pc = "peek"
         /\ KeepsEntry(d) /\ KeepsLocks(d) /\ KeepsWalk(d) /\ KeepsTurn(d) /\ KeepsYield(d)
<1> DEFINE q == disp[d]
<1>0. q \in DispatchState /\ Shaped(q) /\ (Failed(q) <=> Dead(d))
  BY Was, Zenon
<1>1. PICK p \in {"put", "discover"} :
        /\ disp' = [disp EXCEPT ![d] = [disp[d] EXCEPT !.pc = p]]
        /\ disp[d].pc = "peek" \/ (disp[d].pc = "put" /\ p = "discover")
  BY Zenon DEF PeekStatus, PutStatus
<1>2. q.pc = "peek" \/ (q.pc = "put" /\ p = "discover")
  BY <1>1, Zenon
<1> DEFINE r == [q EXCEPT !.pc = p]
<1>3. disp' = [disp EXCEPT ![d] = r]
  BY <1>1, Zenon
<1> HIDE DEF q
<1>4. r \in DispatchState
  BY <1>0, Zenon DEF DispatchState, Marks
<1>5. /\ r.pc = p /\ r.entry = q.entry /\ r.canceled = q.canceled
      /\ r.want = q.want /\ r.held = q.held /\ r.view = q.view
      /\ r.walk = q.walk /\ r.todo = q.todo /\ r.cur = q.cur
      /\ r.ran = q.ran /\ r.anchors = q.anchors /\ r.ok = q.ok
  BY <1>0 DEF DispatchState
<1> HIDE DEF r
<1>6. Shaped(r)
  BY <1>0, <1>2, <1>5 DEF Shaped, Working, Failed
<1>7. disp' \in [Dispatches -> DispatchState] /\ disp'[d] = r /\ Others(d)
  BY <1>3, <1>4, Moved, Zenon
<1> QED
  BY <1>2, <1>5, <1>6, <1>7, Zenon DEF q, KeepsEntry, KeepsLocks, KeepsWalk, KeepsTurn, KeepsYield

\* The walk that finds out which anchors to lock.
LEMMA DiscoverMoves ==
  ASSUME Typed, NEW d \in Dispatches, Discover(d)
  PROVE  /\ disp' \in [Dispatches -> DispatchState] /\ Others(d) /\ Shaped(disp'[d])
         /\ disp[d].pc = "discover" /\ disp'[d].pc = "lock"
         /\ disp'[d].held = disp[d].held
         /\ disp'[d].want = IF Dead(d) THEN AnchorIds(Walk(d)) ELSE {disp[d].entry.job}
         /\ KeepsEntry(d) /\ KeepsWalk(d) /\ KeepsTurn(d) /\ KeepsYield(d)
<1> DEFINE q == disp[d]
<1>0. q \in DispatchState /\ Shaped(q) /\ (Failed(q) <=> Dead(d))
  BY Was, Zenon
<1> DEFINE W == IF Dead(d) THEN AnchorIds(Walk(d)) ELSE {q.entry.job}
<1>1. W \in SUBSET Jobs
  <2>1. AnchorIds(Walk(d)) \subseteq Jobs
    BY HomeIsJob, Zenon DEF AnchorIds, Walk
  <2>2. q.entry.job \in Jobs
    BY <1>0, Zenon DEF Discover, Shaped, Entry
  <2> QED
    BY <2>1, <2>2, Zenon
<1>2. q.pc = "discover"
  BY Zenon DEF Discover
<1> DEFINE r == [q EXCEPT !.pc = "lock", !.want = W]
<1>3. disp' = [disp EXCEPT ![d] = r]
  BY Zenon DEF Discover
<1> HIDE DEF q, W
<1>4. r \in DispatchState
  BY <1>0, <1>1, Zenon DEF DispatchState, Marks
<1>5. /\ r.pc = "lock" /\ r.entry = q.entry /\ r.canceled = q.canceled
      /\ r.want = W /\ r.held = q.held /\ r.view = q.view /\ r.walk = q.walk
      /\ r.todo = q.todo /\ r.cur = q.cur /\ r.ran = q.ran
      /\ r.anchors = q.anchors /\ r.ok = q.ok
  BY <1>0 DEF DispatchState
<1> HIDE DEF r
<1>6. Shaped(r)
  BY <1>0, <1>2, <1>5 DEF Shaped, Working, Failed
<1>7. disp' \in [Dispatches -> DispatchState] /\ disp'[d] = r /\ Others(d)
  BY <1>3, <1>4, Moved, Zenon
<1> QED
  BY <1>2, <1>5, <1>6, <1>7, Zenon DEF q, W, KeepsEntry, KeepsWalk, KeepsTurn, KeepsYield

\* One more anchor lock.
LEMMA LockMoves ==
  ASSUME Typed, NEW d \in Dispatches, NEW j \in Jobs, Lock(d, j)
  PROVE  /\ disp' \in [Dispatches -> DispatchState] /\ Others(d) /\ Shaped(disp'[d])
         /\ disp[d].pc = "lock" /\ disp'[d].pc = "lock"
         /\ disp'[d].held = disp[d].held \union {j} /\ disp'[d].want = disp[d].want
         /\ KeepsEntry(d) /\ KeepsWalk(d) /\ KeepsTurn(d) /\ KeepsYield(d)
<1> DEFINE q == disp[d]
<1>0. q \in DispatchState /\ Shaped(q) /\ (Failed(q) <=> Dead(d))
  BY Was, Zenon
<1>2. q.pc = "lock" /\ j \in q.want
  BY Zenon DEF Lock, NextAnchor
<1> DEFINE r == [q EXCEPT !.held = @ \union {j}]
<1>3. disp' = [disp EXCEPT ![d] = r]
  BY Zenon DEF Lock
<1> HIDE DEF q
<1>4. r \in DispatchState
  BY <1>0, Zenon DEF DispatchState, Marks
<1>5. /\ r.pc = q.pc /\ r.entry = q.entry /\ r.canceled = q.canceled
      /\ r.want = q.want /\ r.held = q.held \union {j} /\ r.view = q.view
      /\ r.walk = q.walk /\ r.todo = q.todo /\ r.cur = q.cur
      /\ r.ran = q.ran /\ r.anchors = q.anchors /\ r.ok = q.ok
  BY <1>0 DEF DispatchState
<1> HIDE DEF r
<1>6. Shaped(r)
  BY <1>0, <1>2, <1>5 DEF Shaped, Working, Failed
<1>7. disp' \in [Dispatches -> DispatchState] /\ disp'[d] = r /\ Others(d)
  BY <1>3, <1>4, Moved, Zenon
<1> QED
  BY <1>2, <1>5, <1>6, <1>7, Zenon DEF q, KeepsEntry, KeepsWalk, KeepsTurn, KeepsYield

\* A handler completes or raises.
LEMMA StepMoves ==
  ASSUME Typed, NEW d \in Dispatches, NEW s \in Steps,
         Handle(d, s) \/ HandlerRaises(d, s)
  PROVE  /\ disp' \in [Dispatches -> DispatchState] /\ Others(d) /\ Shaped(disp'[d])
         /\ disp[d].pc = "steps" /\ disp'[d].pc = "mark"
         /\ s \in disp[d].todo /\ disp'[d].todo = disp[d].todo \ {s}
         /\ disp'[d].cur = s /\ disp'[d].anchors = disp[d].anchors
         /\ disp'[d].ok => disp[d].ok /\ Handle(d, s)
         /\ KeepsEntry(d) /\ KeepsLocks(d) /\ KeepsWalk(d)
<1> DEFINE q == disp[d]
<1>0. q \in DispatchState /\ Shaped(q) /\ (Failed(q) <=> Dead(d))
  BY Was, Zenon
<1>1. PICK b \in BOOLEAN, k \in BOOLEAN :
        /\ disp' = [disp EXCEPT ![d] = [disp[d] EXCEPT
                      !.pc = "mark", !.cur = s, !.todo = @ \ {s}, !.ran = b, !.ok = k]]
        /\ k => b /\ disp[d].ok /\ Handle(d, s)
  <2>1. CASE Handle(d, s)
    <3>1. disp' = [disp EXCEPT ![d] = [disp[d] EXCEPT
                     !.pc = "mark", !.cur = s, !.todo = @ \ {s}, !.ran = TRUE]]
      BY <2>1, Zenon DEF Handle
    <3>2. [disp[d] EXCEPT !.pc = "mark", !.cur = s, !.todo = @ \ {s}, !.ran = TRUE]
          = [disp[d] EXCEPT !.pc = "mark", !.cur = s, !.todo = @ \ {s}, !.ran = TRUE,
                            !.ok = disp[d].ok]
      BY <1>0 DEF DispatchState
    <3>3. disp[d].ok \in BOOLEAN
      BY <1>0, Zenon DEF DispatchState
    <3> QED
      BY <2>1, <3>1, <3>2, <3>3, Zenon
  <2>2. CASE HandlerRaises(d, s)
    BY <2>2, Zenon DEF HandlerRaises
  <2> QED
    BY <2>1, <2>2, Zenon
<1>2. q.pc = "steps" /\ s \in q.todo
  BY Zenon DEF Handle, HandlerRaises, NextStep
<1> DEFINE r == [q EXCEPT !.pc = "mark", !.cur = s, !.todo = @ \ {s}, !.ran = b, !.ok = k]
<1>3. disp' = [disp EXCEPT ![d] = r]
  BY <1>1, Zenon
<1> HIDE DEF q
<1>4. r \in DispatchState
  BY <1>0, Zenon DEF DispatchState, Marks
<1>5. /\ r.pc = "mark" /\ r.entry = q.entry /\ r.canceled = q.canceled
      /\ r.want = q.want /\ r.held = q.held /\ r.view = q.view
      /\ r.walk = q.walk /\ r.todo = q.todo \ {s} /\ r.cur = s /\ r.ran = b
      /\ r.anchors = q.anchors /\ r.ok = k
  BY <1>0 DEF DispatchState
<1> HIDE DEF r
<1>6. Shaped(r)
  BY <1>0, <1>1, <1>2, <1>5 DEF Shaped, Working, Failed
<1>7. disp' \in [Dispatches -> DispatchState] /\ disp'[d] = r /\ Others(d)
  BY <1>3, <1>4, Moved, Zenon
<1> QED
  BY <1>1, <1>2, <1>5, <1>6, <1>7, Zenon DEF q, KeepsEntry, KeepsLocks, KeepsWalk

\* The mark of a step, in the view of its anchor.
LEMMA MarkMoves ==
  ASSUME Typed, NEW d \in Dispatches, Mark(d)
  PROVE  /\ disp' \in [Dispatches -> DispatchState] /\ Others(d) /\ Shaped(disp'[d])
         /\ disp[d].pc = "mark" /\ disp[d].cur \in Steps
         /\ disp'[d].pc = IF disp[d].ran /\ ~ Dead(d) THEN "knot" ELSE "steps"
         /\ disp'[d].pc = "knot" => disp'[d].cur = disp[d].cur
         /\ disp'[d].walk = disp[d].walk /\ disp'[d].todo = disp[d].todo
         /\ \E m \in {"finished", "failed"} :
              /\ m = "finished" => DependingFinished(d, disp[d].cur)
              /\ disp'[d].view = [disp[d].view EXCEPT ![Home(disp[d].cur)][disp[d].cur] = m]
         /\ disp'[d].anchors = disp[d].anchors \union {Home(disp[d].cur)}
         /\ disp'[d].ok = disp[d].ok
         /\ KeepsEntry(d) /\ KeepsLocks(d)
<1> DEFINE q == disp[d]
<1>0. q \in DispatchState /\ Shaped(q) /\ (Failed(q) <=> Dead(d))
  BY Was, Zenon
<1> DEFINE s == disp[d].cur
           n == disp[d].ran /\ ~ Dead(d)
<1>1. PICK m \in {"finished", "failed"} :
        /\ m = "finished" => DependingFinished(d, s)
        /\ disp' = [disp EXCEPT ![d] = [disp[d] EXCEPT
                      !.view[Home(s)][s] = m, !.anchors = @ \union {Home(s)},
                      !.pc = IF n THEN "knot" ELSE "steps",
                      !.cur = IF n THEN s ELSE None]]
  BY Zenon DEF Mark
<1>2. q.pc = "mark" /\ s = q.cur /\ s \in q.walk \ q.todo /\ (n <=> q.ran /\ ~ Failed(q))
  BY <1>0, Zenon DEF Mark, Shaped
<1>8. s \in Steps /\ Home(s) \in Jobs
  BY <1>0, <1>2, HomeIsJob, Zenon DEF DispatchState
<1> DEFINE h == Home(s)
<1> HIDE DEF s, n, h
<1> DEFINE r == [q EXCEPT !.view[h][s] = m, !.anchors = @ \union {h}, !.pc = IF n THEN "knot" ELSE "steps", !.cur = IF n THEN s ELSE None]
<1>3. disp' = [disp EXCEPT ![d] = r]
  BY <1>1, Zenon DEF h
<1> HIDE DEF q
<1>4. r \in DispatchState
  <2>1. h \in Jobs /\ m \in Marks
    BY <1>1, <1>8, Zenon DEF h, Marks
  <2> QED
    BY <1>0, <1>8, <2>1, Zenon DEF DispatchState
<1>5. /\ r.pc = (IF n THEN "knot" ELSE "steps") /\ r.entry = q.entry
      /\ r.canceled = q.canceled /\ r.want = q.want /\ r.held = q.held
      /\ r.view = [q.view EXCEPT ![h][s] = m] /\ r.walk = q.walk
      /\ r.todo = q.todo /\ r.cur = (IF n THEN s ELSE None) /\ r.ran = q.ran
      /\ r.anchors = q.anchors \union {h} /\ r.ok = q.ok
  BY <1>0 DEF DispatchState
<1> HIDE DEF r
<1>6. Shaped(r)
  BY <1>0, <1>2, <1>5 DEF Shaped, Working, Failed
<1>7. disp' \in [Dispatches -> DispatchState] /\ disp'[d] = r /\ Others(d)
  BY <1>3, <1>4, Moved, Zenon
<1>9. \E m_1 \in {"finished", "failed"} :
        /\ m_1 = "finished" => DependingFinished(d, s)
        /\ disp'[d].view = [disp[d].view EXCEPT ![h][s] = m_1]
  BY <1>1, <1>5, <1>7, Zenon DEF q
<1> QED
  BY <1>2, <1>5, <1>6, <1>7, <1>8, <1>9 DEF q, s, n, h, KeepsEntry, KeepsLocks

\* The children of the step are made, declined or queued.
LEMMA KnotMoves ==
  ASSUME Typed, NEW d \in Dispatches,
         CreateKnot(d) \/ KnotDeclined(d) \/ EnqueueKnot(d) \/ EnqueueFails(d)
  PROVE  /\ disp' \in [Dispatches -> DispatchState] /\ Others(d) /\ Shaped(disp'[d])
         /\ disp[d].pc \in {"knot", "fill", "enqueue"} /\ disp'[d].pc \in {"steps", "fill"}
         /\ disp'[d].pc = "fill" => /\ disp[d].pc = "knot" /\ CreateKnot(d)
                                    /\ disp'[d].cur = disp[d].cur
                                    /\ \E k \in Children(disp[d].cur) : status[k] = "absent"
         /\ CreateKnot(d) /\ disp'[d].pc = "steps" =>
              \A k \in Children(disp[d].cur) : status[k] # "absent"
         /\ disp'[d].todo = disp[d].todo /\ disp'[d].anchors = disp[d].anchors
         /\ disp'[d].ok => disp[d].ok /\ (CreateKnot(d) \/ EnqueueKnot(d))
         /\ KeepsEntry(d) /\ KeepsLocks(d) /\ KeepsWalk(d)
<1> DEFINE q == disp[d]
<1>0. q \in DispatchState /\ Shaped(q) /\ (Failed(q) <=> Dead(d))
  BY Was, Zenon
<1> DEFINE new == \E k \in Children(disp[d].cur) : status[k] = "absent"
<1>1. PICK b \in BOOLEAN, k \in BOOLEAN :
        /\ disp' = [disp EXCEPT ![d] = [disp[d] EXCEPT
                      !.pc = IF b THEN "fill" ELSE "steps",
                      !.cur = IF b THEN @ ELSE None, !.ok = k]]
        /\ b => CreateKnot(d) /\ new
        /\ CreateKnot(d) /\ ~ b => ~ new
        /\ k => disp[d].ok /\ (CreateKnot(d) \/ EnqueueKnot(d))
  <2>1. CASE CreateKnot(d)
    <3> DEFINE b == {k \in Children(disp[d].cur) : status[k] = "absent"} # {}
               p == [disp[d] EXCEPT !.pc = IF b THEN "fill" ELSE "steps",
                                    !.cur = IF b THEN @ ELSE None]
    <3>1. b \in BOOLEAN /\ (b <=> new)
      BY Zenon
    <3>2. disp' = [disp EXCEPT ![d] = [disp[d] EXCEPT
                     !.pc = IF ~ b THEN "steps" ELSE "fill",
                     !.cur = IF ~ b THEN None ELSE @]]
      BY <2>1, Zenon DEF CreateKnot
    <3> HIDE DEF b
    <3>3. disp' = [disp EXCEPT ![d] = p]
      BY <3>1, <3>2, Zenon
    <3>4. disp[d].ok \in BOOLEAN
      BY <1>0, Zenon DEF DispatchState
    <3>5. p = [disp[d] EXCEPT !.pc = IF b THEN "fill" ELSE "steps",
                              !.cur = IF b THEN @ ELSE None, !.ok = disp[d].ok]
      BY <1>0 DEF DispatchState
    <3> QED
      BY <2>1, <3>1, <3>3, <3>4, <3>5, Zenon
  <2>2. CASE EnqueueKnot(d)
    <3>1. disp' = [disp EXCEPT ![d] = [disp[d] EXCEPT !.pc = "steps", !.cur = None]]
      BY <2>2, Zenon DEF EnqueueKnot
    <3>2. disp[d].ok \in BOOLEAN /\ ~ CreateKnot(d)
      BY <1>0, <2>2, Zenon DEF DispatchState, CreateKnot, EnqueueKnot
    <3>3. [disp[d] EXCEPT !.pc = "steps", !.cur = None]
          = [disp[d] EXCEPT !.pc = IF FALSE THEN "fill" ELSE "steps",
                            !.cur = IF FALSE THEN @ ELSE None, !.ok = disp[d].ok]
      BY <1>0 DEF DispatchState
    <3> QED
      BY <2>2, <3>1, <3>2, <3>3, Zenon
  <2>3. CASE ~ CreateKnot(d) /\ (KnotDeclined(d) \/ EnqueueFails(d))
    <3>1. disp' = [disp EXCEPT ![d] = [disp[d] EXCEPT
                     !.pc = IF FALSE THEN "fill" ELSE "steps",
                     !.cur = IF FALSE THEN @ ELSE None, !.ok = FALSE]]
      BY <2>3, Zenon DEF KnotDeclined, EnqueueFails
    <3> QED
      BY <2>3, <3>1, Zenon
  <2> QED
    BY <2>1, <2>2, <2>3, Zenon
<1>2. q.pc \in {"knot", "fill", "enqueue"} /\ (b => q.pc = "knot")
  BY <1>1, Zenon DEF CreateKnot, KnotDeclined, EnqueueKnot, EnqueueFails
<1> DEFINE r == [q EXCEPT !.pc = IF b THEN "fill" ELSE "steps", !.cur = IF b THEN @ ELSE None, !.ok = k]
<1>3. disp' = [disp EXCEPT ![d] = r]
  BY <1>1, Zenon
<1> HIDE DEF q
<1>4. r \in DispatchState
  BY <1>0, <1>1, Zenon DEF DispatchState, Marks
<1>5. /\ r.pc = (IF b THEN "fill" ELSE "steps") /\ r.entry = q.entry
      /\ r.canceled = q.canceled /\ r.want = q.want /\ r.held = q.held
      /\ r.view = q.view /\ r.walk = q.walk /\ r.todo = q.todo
      /\ r.cur = (IF b THEN q.cur ELSE None) /\ r.ran = q.ran
      /\ r.anchors = q.anchors /\ r.ok = k
  BY <1>0 DEF DispatchState
<1> HIDE DEF r
<1>6. Shaped(r)
  BY <1>0, <1>2, <1>5 DEF Shaped, Working, Failed
<1>7. disp' \in [Dispatches -> DispatchState] /\ disp'[d] = r /\ Others(d)
  BY <1>3, <1>4, Moved, Zenon
<1> QED
  BY <1>1, <1>2, <1>5, <1>6, <1>7, Zenon DEF q, KeepsEntry, KeepsLocks, KeepsWalk

\* The steps of the child are saved.
LEMMA FillMoves ==
  ASSUME Typed, NEW d \in Dispatches, SaveKnot(d)
  PROVE  /\ disp' \in [Dispatches -> DispatchState] /\ Others(d) /\ Shaped(disp'[d])
         /\ disp[d].pc = "fill" /\ disp'[d].pc = "enqueue"
         /\ KeepsEntry(d) /\ KeepsLocks(d) /\ KeepsWalk(d) /\ KeepsTurn(d) /\ KeepsYield(d)
<1> DEFINE q == disp[d]
           r == [q EXCEPT !.pc = "enqueue"]
<1>0. q \in DispatchState /\ Shaped(q) /\ q.pc = "fill"
  BY Was, Zenon DEF SaveKnot
<1>1. disp' = [disp EXCEPT ![d] = r]
  BY Zenon DEF SaveKnot
<1> HIDE DEF q
<1>2. r \in DispatchState
  BY <1>0, Zenon DEF DispatchState
<1>3. /\ r.pc = "enqueue" /\ r.entry = q.entry
      /\ r.canceled = q.canceled /\ r.want = q.want /\ r.held = q.held
      /\ r.view = q.view /\ r.walk = q.walk /\ r.todo = q.todo
      /\ r.cur = q.cur /\ r.ran = q.ran
      /\ r.anchors = q.anchors /\ r.ok = q.ok
  BY <1>0 DEF DispatchState
<1> HIDE DEF r
<1>4. Shaped(r)
  BY <1>0, <1>3 DEF Shaped, Working, Failed
<1>5. disp' \in [Dispatches -> DispatchState] /\ disp'[d] = r /\ Others(d)
  BY <1>1, <1>2, Moved, Zenon
<1> QED
  BY <1>0, <1>3, <1>4, <1>5, Zenon
  DEF q, KeepsEntry, KeepsLocks, KeepsWalk, KeepsTurn, KeepsYield

\* One marked anchor is written back, or its write fails.
LEMMA SaveMoves ==
  ASSUME Typed, NEW d \in Dispatches, NEW j \in Jobs,
         SaveAnchor(d, j) \/ SaveFails(d, j)
  PROVE  /\ disp' \in [Dispatches -> DispatchState] /\ Others(d) /\ Shaped(disp'[d])
         /\ disp[d].pc = "steps" /\ disp'[d].pc = "steps" /\ j \in disp[d].anchors
         /\ disp'[d].anchors = disp[d].anchors \ {j} /\ disp[d].todo = {}
         /\ disp'[d].ok => disp[d].ok /\ SaveAnchor(d, j)
         /\ KeepsEntry(d) /\ KeepsLocks(d) /\ KeepsWalk(d) /\ KeepsTurn(d)
<1> DEFINE q == disp[d]
<1>0. q \in DispatchState /\ Shaped(q) /\ (Failed(q) <=> Dead(d))
  BY Was, Zenon
<1>1. PICK k \in BOOLEAN :
        /\ disp' = [disp EXCEPT ![d] = [disp[d] EXCEPT !.anchors = @ \ {j}, !.ok = k]]
        /\ k => disp[d].ok /\ SaveAnchor(d, j)
  <2>1. CASE SaveAnchor(d, j)
    <3>1. disp' = [disp EXCEPT ![d] = [disp[d] EXCEPT !.anchors = @ \ {j}]]
      BY <2>1, Zenon DEF SaveAnchor
    <3>2. [disp[d] EXCEPT !.anchors = @ \ {j}]
          = [disp[d] EXCEPT !.anchors = @ \ {j}, !.ok = disp[d].ok]
      BY <1>0 DEF DispatchState
    <3>3. disp[d].ok \in BOOLEAN
      BY <1>0, Zenon DEF DispatchState
    <3> QED
      BY <2>1, <3>1, <3>2, <3>3, Zenon
  <2>2. CASE SaveFails(d, j)
    BY <2>2, Zenon DEF SaveFails
  <2> QED
    BY <2>1, <2>2, Zenon
<1>2. q.pc = "steps" /\ j \in q.anchors /\ q.todo = {}
  BY Zenon DEF SaveAnchor, SaveFails, StepsDone
<1> DEFINE r == [q EXCEPT !.anchors = @ \ {j}, !.ok = k]
<1>3. disp' = [disp EXCEPT ![d] = r]
  BY <1>1, Zenon
<1> HIDE DEF q
<1>4. r \in DispatchState
  BY <1>0, <1>1, Zenon DEF DispatchState, Marks
<1>5. /\ r.pc = q.pc /\ r.entry = q.entry /\ r.canceled = q.canceled
      /\ r.want = q.want /\ r.held = q.held /\ r.view = q.view
      /\ r.walk = q.walk /\ r.todo = q.todo /\ r.cur = q.cur
      /\ r.ran = q.ran /\ r.anchors = q.anchors \ {j} /\ r.ok = k
  BY <1>0 DEF DispatchState
<1> HIDE DEF r
<1>6. Shaped(r)
  BY <1>0, <1>2, <1>5 DEF Shaped, Working, Failed
<1>7. disp' \in [Dispatches -> DispatchState] /\ disp'[d] = r /\ Others(d)
  BY <1>3, <1>4, Moved, Zenon
<1> QED
  BY <1>1, <1>2, <1>5, <1>6, <1>7, Zenon DEF q, KeepsEntry, KeepsLocks, KeepsWalk, KeepsTurn

\* Marks in memory are marks.
LEMMA HydratedTyped ==
  ASSUME Typed, NEW d \in Dispatches
  PROVE  Hydrated(d) \in [Jobs -> [Steps -> Marks]]
<1>1. meta \in [Jobs -> [Steps -> Marks]] /\ Empty \in [Steps -> Marks]
      /\ {"absent", "unstamped"} \subseteq Marks
  BY Zenon DEF Typed, TypeOK, Empty, Marks
<1> DEFINE row(j) == IF j \notin disp[d].held THEN Empty
              ELSE IF ~Dead(d) THEN meta[j]
              ELSE [s \in Steps |-> IF Of[s] = j THEN meta[j][s]
                           ELSE IF Home(s) # j THEN "absent"
                           ELSE IF meta[j][s] = "absent" THEN "unstamped" ELSE meta[j][s]]
<1>2. ASSUME NEW j \in Jobs PROVE row(j) \in [Steps -> Marks]
  BY <1>1, Zenon
<1>3. Hydrated(d) = [j \in Jobs |-> row(j)]
  BY Zenon DEF Hydrated
<1> HIDE DEF row
<1> QED
  BY <1>2, <1>3, Zenon

\* The walk under the locks: give up, take more locks, or go to work.
LEMMA HydrateMoves ==
  ASSUME Typed, NEW d \in Dispatches, Hydrate(d)
  PROVE  /\ disp' \in [Dispatches -> DispatchState] /\ Others(d) /\ Shaped(disp'[d])
         /\ disp[d].pc = "lock"
         /\ \/ disp'[d] = Idle
            \/ /\ disp'[d].pc = "lock" /\ disp'[d].held = {}
               /\ disp[d].want \subseteq disp'[d].want
               /\ disp'[d].want \subseteq disp[d].want \union AnchorIds(Walk(d))
               /\ KeepsEntry(d) /\ KeepsWalk(d) /\ KeepsTurn(d) /\ KeepsYield(d)
            \/ /\ disp'[d].pc = "steps" /\ disp[d].held = disp[d].want
               /\ AnchorIds(Walk(d)) \subseteq disp[d].held
               /\ disp'[d].view = Hydrated(d) /\ disp'[d].walk = Walk(d)
               /\ disp'[d].todo = {s \in Walk(d) :
                                    Dead(d) => Hydrated(d)[Home(s)][s] = "unstamped"}
               /\ KeepsEntry(d) /\ KeepsLocks(d) /\ KeepsYield(d)
<1> DEFINE q == disp[d]
           unlocked == AnchorIds(Walk(d)) \ disp[d].held
           todo == {s \in Walk(d) : Dead(d) => Hydrated(d)[Home(s)][s] = "unstamped"}
<1>0. q \in DispatchState /\ Shaped(q) /\ (Failed(q) <=> Dead(d))
  BY Was, Zenon
<1>1. q.pc = "lock" /\ q.held = q.want
  BY Zenon DEF Hydrate
<1>2. unlocked \subseteq Jobs /\ Walk(d) \subseteq Steps /\ todo \subseteq Walk(d)
  BY HomeIsJob, Zenon DEF AnchorIds, Walk
<1>3. \/ disp' = [disp EXCEPT ![d] = Idle]
      \/ disp' = [disp EXCEPT ![d] = [disp[d] EXCEPT !.want = @ \union unlocked,
                                       !.held = {}, !.retaken = TRUE]]
      \/ /\ unlocked = {}
         /\ disp' = [disp EXCEPT ![d] = [disp[d] EXCEPT !.pc = "steps",
                       !.view = Hydrated(d), !.walk = Walk(d), !.todo = todo]]
  BY Zenon DEF Hydrate
<1>4. CASE disp' = [disp EXCEPT ![d] = Idle]
  BY <1>1, <1>4, IdleTyped, Moved, Zenon
<1>5. CASE disp' = [disp EXCEPT ![d] = [disp[d] EXCEPT !.want = @ \union unlocked,
                                       !.held = {}, !.retaken = TRUE]]
  <2> DEFINE r == [q EXCEPT !.want = @ \union unlocked, !.held = {}, !.retaken = TRUE]
  <2>1. disp' = [disp EXCEPT ![d] = r]
    BY <1>5, Zenon
  <2> HIDE DEF q, unlocked
  <2>2. r \in DispatchState
    BY <1>0, <1>2, Zenon DEF DispatchState
  <2>3. /\ r.pc = q.pc /\ r.entry = q.entry /\ r.canceled = q.canceled
        /\ r.want = q.want \union unlocked /\ r.held = {} /\ r.view = q.view
        /\ r.walk = q.walk /\ r.todo = q.todo /\ r.cur = q.cur
        /\ r.ran = q.ran /\ r.anchors = q.anchors /\ r.ok = q.ok
    BY <1>0 DEF DispatchState
  <2> HIDE DEF r
  <2>4. Shaped(r)
    BY <1>0, <1>1, <2>3 DEF Shaped, Working, Failed
  <2>5. disp' \in [Dispatches -> DispatchState] /\ disp'[d] = r /\ Others(d)
    BY <2>1, <2>2, Moved, Zenon
  <2>6. /\ q.want \subseteq q.want \union unlocked
        /\ q.want \union unlocked \subseteq q.want \union AnchorIds(Walk(d))
    BY Zenon DEF unlocked
  <2> QED
    BY <1>1, <2>3, <2>4, <2>5, <2>6, Zenon
    DEF q, KeepsEntry, KeepsWalk, KeepsTurn, KeepsYield
<1>6. CASE /\ unlocked = {}
           /\ disp' = [disp EXCEPT ![d] = [disp[d] EXCEPT !.pc = "steps",
                         !.view = Hydrated(d), !.walk = Walk(d), !.todo = todo]]
  <2> DEFINE r == [q EXCEPT !.pc = "steps", !.view = Hydrated(d), !.walk = Walk(d),
                            !.todo = todo]
  <2>1. disp' = [disp EXCEPT ![d] = r] /\ AnchorIds(Walk(d)) \subseteq q.held
    BY <1>6, Zenon
  <2>2. Hydrated(d) \in [Jobs -> [Steps -> Marks]]
    BY HydratedTyped, Zenon
  <2> HIDE DEF q, unlocked, todo
  <2>3. r \in DispatchState
    BY <1>0, <1>2, <2>2, Zenon DEF DispatchState
  <2>4. /\ r.pc = "steps" /\ r.entry = q.entry /\ r.canceled = q.canceled
        /\ r.want = q.want /\ r.held = q.held /\ r.view = Hydrated(d)
        /\ r.walk = Walk(d) /\ r.todo = todo /\ r.cur = q.cur /\ r.ran = q.ran
        /\ r.anchors = q.anchors /\ r.ok = q.ok
    BY <1>0 DEF DispatchState
  <2> HIDE DEF r
  <2>5. Shaped(r)
    BY <1>0, <1>1, <1>2, <2>4 DEF Shaped, Working, Failed
  <2>6. disp' \in [Dispatches -> DispatchState] /\ disp'[d] = r /\ Others(d)
    BY <2>1, <2>3, Moved, Zenon
  <2>7. KeepsEntry(d) /\ KeepsLocks(d) /\ KeepsYield(d)
    BY <2>4, <2>6, Zenon DEF q, KeepsEntry, KeepsLocks, KeepsYield
  <2> QED
    BY <1>1, <2>1, <2>4, <2>5, <2>6, <2>7, Zenon DEF q, todo
<1> QED
  BY <1>3, <1>4, <1>5, <1>6, Zenon

\* A dispatch ends: it gives up, raises, or returns.
LEMMA DropMoves ==
  ASSUME Typed, NEW d \in Dispatches, disp' = [disp EXCEPT ![d] = Idle]
  PROVE  /\ disp' \in [Dispatches -> DispatchState] /\ Others(d) /\ Shaped(disp'[d])
         /\ disp'[d] = Idle
  BY IdleTyped, Moved, Zenon

LEMMA CrashMoves ==
  ASSUME Typed, Crash
  PROVE  /\ disp' \in [Dispatches -> DispatchState]
         /\ \A d \in Dispatches : disp'[d] = Idle
  BY IdleTyped, Zenon DEF Crash

-----------------------------------------------------------------------------
(* Types.                                                                    *)

Statuses == Terminal \union {"absent", "created", "deferred", "queued", "started"}

\* What a step of the workers, of a cancel or of a dispatch leaves well-formed.
LEMMA DispTyped ==
  ASSUME Typed, NEW d \in Dispatches,
         disp' \in [Dispatches -> DispatchState], Others(d), Shaped(disp'[d])
  PROVE  \A o \in Dispatches : Shaped(disp'[o])
  BY Zenon DEF Typed, Formed, Others

LEMMA TypedWorker ==
  ASSUME Typed, NEW j \in Jobs,
         \/ Dequeue(j) \/ SaveProgress(j)
         \/ \E o \in {"finished", "failed"} : WorkerDone(j, o)
  PROVE  Typed'
<1>0. TypeOK /\ Formed
  BY Zenon DEF Typed
<1> USE DEF histVars
<1>1. CASE Dequeue(j)
  <2>1. TypeOK'
    BY <1>0, <1>1, Zenon DEF Dequeue, TypeOK
  <2>2. Formed'
    BY <1>0, <1>1, Zenon DEF Dequeue, TypeOK, Formed
  <2> QED
    BY <2>1, <2>2, Zenon DEF Typed
<1>2. CASE SaveProgress(j)
  <2>1. TypeOK'
    BY <1>0, <1>2, Zenon DEF SaveProgress, TypeOK
  <2>2. Formed'
    BY <1>0, <1>2, Zenon DEF SaveProgress, Formed
  <2> QED
    BY <2>1, <2>2, Zenon DEF Typed
<1>3. ASSUME NEW o \in {"finished", "failed"}, WorkerDone(j, o) PROVE Typed'
  <2> DEFINE e == [kind |-> "result", job |-> j, outcome |-> o, no |-> 0]
  <2>1. e \in Entry /\ e.kind = "result" /\ e.outcome = o /\ entries' = entries \union {e}
    <3>1. 0 \in 0..MaxCancels
      BY ChainAssumption
    <3> QED
      BY <1>3, <3>1, Zenon DEF Entry, WorkerDone
  <2> HIDE DEF e
  <2>2. status' \in [Jobs -> Statuses]
        /\ \A i \in Jobs : status'[i] = "absent" => status[i] = "absent"
    BY <1>0, <1>3, Zenon DEF WorkerDone, TypeOK, Statuses, Terminal
  <2>3. /\ running' \subseteq Jobs /\ blob' \in [Jobs -> [Steps -> Marks]]
        /\ worked' \subseteq Jobs /\ entries' \subseteq Entry
    BY <1>0, <1>3, <2>1, Zenon DEF WorkerDone, TypeOK, Empty, Marks
  <2>4. UNCHANGED <<record, meta, disp, sweep, cancels, faults, body, made, buried, settled>>
    BY <1>3, Zenon DEF WorkerDone
  <2>5. TypeOK'
    BY <1>0, <2>2, <2>3, <2>4, Zenon DEF TypeOK, Statuses
  <2>6. \A f \in entries' : f.kind = "canceled" <=> f.outcome = "canceled"
    BY <1>0, <2>1, Zenon DEF Formed
  <2>7. Formed'
    BY <1>0, <2>2, <2>4, <2>6, Zenon DEF Formed
  <2> QED
    BY <2>5, <2>7, Zenon DEF Typed
<1> QED
  BY <1>1, <1>2, <1>3, Zenon

\* What a cancel writes: its own sweep, and a job's status or record.
LEMMA TypedSweep ==
  ASSUME Typed, NEW x \in Cancels, NEW w \in SweepState,
         sweep' = [sweep EXCEPT ![x] = w],
         w.stage \in {"apply", "stamp"} => w.job \in Jobs,
         status' \in [Jobs -> Statuses],
         \A i \in Jobs : status'[i] = "absent" => status[i] = "absent",
         record' \subseteq Jobs, cancels' \in 0..MaxCancels, faults' \in 0..MaxFaults,
         entries' \subseteq Entry,
         \A e \in entries' : e.kind = "canceled" <=> e.outcome = "canceled",
         UNCHANGED <<running, meta, blob, disp, histVars>>
  PROVE  Typed'
<1>1. TypeOK /\ Formed
  BY Zenon DEF Typed
<1>2. sweep' \in [Cancels -> SweepState]
      /\ \A y \in Cancels : sweep'[y].stage \in {"apply", "stamp"} => sweep'[y].job \in Jobs
  <2>1. ASSUME NEW y \in Cancels
        PROVE  sweep'[y].stage \in {"apply", "stamp"} => sweep'[y].job \in Jobs
    <3>1. CASE y = x
      BY <1>1, <3>1, Zenon DEF TypeOK
    <3>2. CASE y # x
      BY <1>1, <3>2, Zenon DEF TypeOK, Formed
    <3> QED
      BY <3>1, <3>2, Zenon
  <2> QED
    BY <1>1, <2>1, Zenon DEF TypeOK
<1>3. TypeOK'
  BY <1>1, <1>2, Zenon DEF TypeOK, Statuses, histVars
<1>4. Formed'
  BY <1>1, <1>2, Zenon DEF Formed
<1> QED
  BY <1>3, <1>4, Zenon DEF Typed

\* A sweep only names members it found, or finds now.
Sweeps(x, w) ==
  /\ sweep' = [sweep EXCEPT ![x] = w]
  /\ w.left \union w.roots \subseteq
       sweep[x].left \union sweep[x].roots \union {j \in Jobs : status[j] # "absent"}
  /\ w.stage \in {"apply", "stamp"} =>
       w.job \in sweep[x].left \/ (sweep[x].stage = "apply" /\ w.job = sweep[x].job)

LEMMA NoSweepTyped == NoSweep \in SweepState
<1>1. 0 \in 0..MaxCancels
  BY ChainAssumption
<1> QED
  BY <1>1, Zenon DEF SweepState, NoSweep

LEMMA BeginMoves ==
  ASSUME Typed, NEW x \in Cancels, NEW n \in 0..MaxCancels,
         sweep' = [sweep EXCEPT ![x] = Begun(n)]
  PROVE  \E w \in SweepState : Sweeps(x, w)
<1> DEFINE closure == {j \in Jobs : status[j] # "absent"}
           roots == {j \in closure : Dep(j) \notin closure}
           w == [NoSweep EXCEPT !.stage = "next", !.left = closure, !.no = n,
                                !.roots = roots]
<1>1. Begun(n) = w
  BY Zenon DEF Begun
<1>2. closure \subseteq Jobs /\ roots \subseteq closure
  BY Zenon
<1> HIDE DEF closure, roots
<1>3. NoSweep \in SweepState
  BY NoSweepTyped, Zenon
<1>4. w \in SweepState
  BY <1>2, <1>3, Zenon DEF SweepState
<1>5. w.left = closure /\ w.roots = roots /\ w.stage = "next"
  BY <1>3 DEF SweepState
<1> HIDE DEF w
<1> QED
  BY <1>1, <1>2, <1>4, <1>5, Zenon DEF Sweeps, closure

\* One step of the sweep.
LEMMA CancelMoves ==
  ASSUME Typed, NEW x \in Cancels,
         \/ \E j \in Jobs : CancelRead(x, j)
         \/ CancelApply(x) \/ CancelFails(x) \/ CancelStamp(x) \/ Announce(x)
         \/ CancelDies(x)
  PROVE  \E w \in SweepState : Sweeps(x, w)
<1> DEFINE q == sweep[x]
<1>1. q \in SweepState
      /\ (q.stage \in {"apply", "stamp"} => q.job \in Jobs)
  BY Zenon DEF Typed, TypeOK, Formed
<1>2. ASSUME NEW g \in {"next", "apply", "stamp"}, NEW L \in SUBSET q.left,
             NEW k \in Jobs \union {None},
             sweep' = [sweep EXCEPT ![x] = [q EXCEPT !.left = L, !.job = k, !.stage = g]],
             g \in {"apply", "stamp"} => k \in q.left \/ (q.stage = "apply" /\ k = q.job)
      PROVE  \E w \in SweepState : Sweeps(x, w)
  <2> DEFINE w == [q EXCEPT !.left = L, !.job = k, !.stage = g]
  <2> HIDE DEF q
  <2>1. w \in SweepState
    BY <1>1, <1>2, Zenon DEF SweepState
  <2>2. w.left = L /\ w.roots = q.roots /\ w.stage = g /\ w.job = k
    BY <1>1 DEF SweepState
  <2> HIDE DEF w
  <2> QED
    BY <1>2, <2>1, <2>2, Zenon DEF Sweeps, q, w
<1>3. ASSUME sweep' = [sweep EXCEPT ![x] = NoSweep]
      PROVE  \E w \in SweepState : Sweeps(x, w)
  BY <1>3, NoSweepTyped, Zenon DEF Sweeps, NoSweep
<1>5. ASSUME NEW j \in Jobs, CancelRead(x, j) PROVE \E w \in SweepState : Sweeps(x, w)
  <2> DEFINE t == status[j] \in Terminal
  <2>1. sweep' = [sweep EXCEPT ![x] = [q EXCEPT !.left = q.left \ {j},
                     !.job = IF t THEN None ELSE j, !.stage = IF t THEN "next" ELSE "apply"]]
        /\ j \in q.left
    BY <1>5, Zenon DEF CancelRead, IsLeaf
  <2> HIDE DEF t, q
  <2> DEFINE g == IF t THEN "next" ELSE "apply"
             k == IF t THEN None ELSE j
  <2>2. /\ g \in {"next", "apply", "stamp"} /\ q.left \ {j} \in SUBSET q.left
        /\ k \in Jobs \union {None} /\ (g \in {"apply", "stamp"} => k \in q.left)
    BY <2>1, Zenon
  <2> HIDE DEF g, k
  <2>3. sweep' = [sweep EXCEPT ![x] = [q EXCEPT !.left = q.left \ {j}, !.job = k, !.stage = g]]
    BY <2>1, Zenon DEF g, k
  <2> QED
    BY <1>2, <2>2, <2>3, Zenon
<1>6. ASSUME CancelApply(x) PROVE \E w \in SweepState : Sweeps(x, w)
  <2> DEFINE t == status[q.job] = "canceled"
  <2>1. sweep' = [sweep EXCEPT ![x] = [q EXCEPT !.stage = IF t THEN "next" ELSE "stamp",
                                                !.job = IF t THEN None ELSE q.job]]
        /\ q.stage = "apply"
    BY <1>6, Zenon DEF CancelApply
  <2> HIDE DEF t, q
  <2> DEFINE g == IF t THEN "next" ELSE "stamp"
             k == IF t THEN None ELSE q.job
  <2>2. /\ g \in {"next", "apply", "stamp"} /\ q.left \in SUBSET q.left
        /\ k \in Jobs \union {None}
        /\ g \in {"apply", "stamp"} => k \in q.left \/ (q.stage = "apply" /\ k = q.job)
    BY <1>1, <2>1, Zenon
  <2> HIDE DEF g, k
  <2>3. [q EXCEPT !.stage = g, !.job = k] = [q EXCEPT !.left = q.left, !.job = k, !.stage = g]
    BY <1>1 DEF SweepState
  <2>4. sweep' = [sweep EXCEPT ![x] = [q EXCEPT !.stage = g, !.job = k]]
    BY <2>1, Zenon DEF g, k
  <2>5. sweep' = [sweep EXCEPT ![x] = [q EXCEPT !.left = q.left, !.job = k, !.stage = g]]
    BY <2>3, <2>4, Zenon
  <2> QED
    BY <1>2, <2>2, <2>5, Zenon
<1>7. ASSUME CancelFails(x) \/ CancelStamp(x) PROVE \E w \in SweepState : Sweeps(x, w)
  <2>1. sweep' = [sweep EXCEPT ![x] = [q EXCEPT !.stage = "next", !.job = None]]
    BY <1>7, Zenon DEF CancelFails, CancelStamp
  <2>2. [q EXCEPT !.stage = "next", !.job = None]
        = [q EXCEPT !.left = q.left, !.job = None, !.stage = "next"]
    BY <1>1 DEF SweepState
  <2>3. q.left \in SUBSET q.left
    BY Zenon
  <2> QED
    BY <1>2, <2>1, <2>2, <2>3, Zenon
<1>8. CASE Announce(x) \/ CancelDies(x)
  BY <1>3, <1>8, Zenon DEF Announce, CancelDies
<1> QED
  BY <1>5, <1>6, <1>7, <1>8, Zenon

\* A step of the process that runs Task.cancel, or of the reconciler.
Sweeping(x) ==
  \/ BeginCancel(x) \/ Cancel(x) \/ CancelFails(x) \/ CancelDies(x)
  \/ \E j \in Jobs : Heal(x, j)

LEMMA TypedCancel ==
  ASSUME Typed, NEW x \in Cancels, Sweeping(x)
  PROVE  Typed'
<1>0. TypeOK /\ Formed
  BY Zenon DEF Typed
<1>1. ASSUME NEW w \in SweepState, Sweeps(x, w)
      PROVE  w.stage \in {"apply", "stamp"} => w.job \in Jobs
  BY <1>0, <1>1, Zenon DEF Sweeps, TypeOK, SweepState, Formed
<1> USE DEF rqVars, histVars
<1>2. ASSUME UNCHANGED <<status, record, entries, running, meta, blob, disp, histVars>>,
             cancels' \in 0..MaxCancels, faults' \in 0..MaxFaults,
             NEW w \in SweepState, Sweeps(x, w)
      PROVE  Typed'
  <2>1. /\ status' \in [Jobs -> Statuses] /\ record' \subseteq Jobs /\ entries' \subseteq Entry
        /\ \A i \in Jobs : status'[i] = "absent" => status[i] = "absent"
        /\ \A e \in entries' : e.kind = "canceled" <=> e.outcome = "canceled"
    BY <1>0, <1>2, Zenon DEF TypeOK, Formed, Statuses
  <2> QED
    BY <1>1, <1>2, <2>1, TypedSweep, Zenon DEF Sweeps
<1>3. CASE BeginCancel(x)
  <2>1. cancels' \in 0..MaxCancels /\ cancels + 1 \in 0..MaxCancels /\ faults' \in 0..MaxFaults
    BY <1>0, <1>3, ChainAssumption DEF BeginCancel, TypeOK
  <2>2. \E w \in SweepState : Sweeps(x, w)
    BY <1>3, <2>1, BeginMoves, Zenon DEF BeginCancel
  <2> QED
    BY <1>2, <1>3, <2>1, <2>2, Zenon DEF BeginCancel
<1>4. ASSUME NEW j \in Jobs, CancelRead(x, j) PROVE Typed'
  <2>1. \E w \in SweepState : Sweeps(x, w)
    BY <1>4, CancelMoves, Zenon
  <2> QED
    BY <1>0, <1>2, <1>4, <2>1, Zenon DEF CancelRead, TypeOK
<1>5. CASE CancelFails(x) \/ CancelDies(x)
  <2>1. \E w \in SweepState : Sweeps(x, w)
    BY <1>5, CancelMoves, Zenon
  <2>2. cancels' = cancels /\ faults' \in 0..MaxFaults /\ cancels \in 0..MaxCancels
    BY <1>0, <1>5, ChainAssumption DEF CancelFails, CancelDies, Fault, TypeOK
  <2> QED
    BY <1>2, <1>5, <2>1, <2>2, Zenon DEF CancelFails, CancelDies
<1>6. CASE CancelApply(x)
  <2>1. PICK w \in SweepState : Sweeps(x, w)
    BY <1>6, CancelMoves, Zenon
  <2>2. /\ status' \in [Jobs -> Statuses]
        /\ \A i \in Jobs : status'[i] = "absent" => status[i] = "absent"
    BY <1>0, <1>6, Zenon DEF CancelApply, TypeOK, Statuses, Terminal
  <2>3. /\ UNCHANGED <<running, meta, blob, disp, histVars>>
        /\ record' \subseteq Jobs /\ entries' \subseteq Entry
        /\ cancels' \in 0..MaxCancels /\ faults' \in 0..MaxFaults
        /\ \A e \in entries' : e.kind = "canceled" <=> e.outcome = "canceled"
    BY <1>0, <1>6, Zenon DEF CancelApply, TypeOK, Formed
  <2> QED
    BY <1>1, <2>1, <2>2, <2>3, TypedSweep, Zenon DEF Sweeps
<1>7. CASE CancelStamp(x)
  <2>1. PICK w \in SweepState : Sweeps(x, w)
    BY <1>7, CancelMoves, Zenon
  <2>2. /\ status' \in [Jobs -> Statuses]
        /\ \A i \in Jobs : status'[i] = "absent" => status[i] = "absent"
    BY <1>0, <1>7, Zenon DEF CancelStamp, TypeOK, Statuses, Terminal
  <2>3. /\ UNCHANGED <<running, meta, blob, disp, histVars>>
        /\ record' \subseteq Jobs /\ entries' \subseteq Entry
        /\ cancels' \in 0..MaxCancels /\ faults' \in 0..MaxFaults
        /\ \A e \in entries' : e.kind = "canceled" <=> e.outcome = "canceled"
    BY <1>0, <1>7, Zenon DEF CancelStamp, TypeOK, Formed
  <2> QED
    BY <1>1, <2>1, <2>2, <2>3, TypedSweep, Zenon DEF Sweeps
<1>8. CASE Announce(x)
  <2>1. PICK w \in SweepState : Sweeps(x, w)
    BY <1>8, CancelMoves, Zenon
  <2>2. /\ status' \in [Jobs -> Statuses]
        /\ \A i \in Jobs : status'[i] = "absent" => status[i] = "absent"
    BY <1>0, <1>8, Zenon DEF Announce, TypeOK, Statuses, Terminal
  <2>3. sweep[x].roots \subseteq Jobs /\ sweep[x].no \in 0..MaxCancels
    BY <1>0, Zenon DEF TypeOK, SweepState
  <2>4. ASSUME NEW j \in sweep[x].roots
        PROVE  LET e == [kind |-> "canceled", job |-> j, outcome |-> "canceled",
                         no |-> sweep[x].no]
               IN  e \in Entry /\ (e.kind = "canceled" <=> e.outcome = "canceled")
    BY <2>3, Zenon DEF Entry
  <2>5. /\ entries' \subseteq Entry
        /\ \A e \in entries' : e.kind = "canceled" <=> e.outcome = "canceled"
    BY <1>0, <1>8, <2>4, Zenon DEF Announce, TypeOK, Formed
  <2>6. /\ UNCHANGED <<running, meta, blob, disp, histVars>>
        /\ record' \subseteq Jobs
        /\ cancels' \in 0..MaxCancels /\ faults' \in 0..MaxFaults
    BY <1>0, <1>8, Zenon DEF Announce, TypeOK
  <2> QED
    BY <1>1, <2>1, <2>2, <2>5, <2>6, TypedSweep, Zenon DEF Sweeps
<1>9. ASSUME NEW j \in Jobs, Heal(x, j) PROVE Typed'
  <2>1. CASE sweep' = [sweep EXCEPT ![x] = Begun(0)] /\ UNCHANGED rqVars
    <3>1. 0 \in 0..MaxCancels
      BY ChainAssumption
    <3>2. \E w \in SweepState : Sweeps(x, w)
      BY <2>1, <3>1, BeginMoves, Zenon
    <3> QED
      BY <1>0, <1>2, <1>9, <2>1, <3>2, Zenon DEF Heal, TypeOK
  <2>2. CASE /\ status' = [status EXCEPT ![j] = "queued"]
             /\ UNCHANGED <<record, running, meta, blob, sweep>>
    <3>1. status' \in [Jobs -> Statuses]
          /\ \A i \in Jobs : status'[i] = "absent" => status[i] = "absent"
      BY <1>0, <2>2, Zenon DEF TypeOK, Statuses
    <3>2. TypeOK'
      BY <1>0, <1>9, <2>2, <3>1, Zenon DEF Heal, TypeOK, Statuses
    <3>3. Formed'
      BY <1>0, <1>9, <2>2, <3>1, Zenon DEF Heal, Formed
    <3> QED
      BY <3>2, <3>3, Zenon DEF Typed
  <2> QED
    BY <1>9, <2>1, <2>2, Zenon DEF Heal
<1> QED
  BY <1>3, <1>4, <1>5, <1>6, <1>7, <1>8, <1>9, Zenon DEF Sweeping, Cancel

\* A dispatch moves on, and with it perhaps a status, a meta or a history.
LEMMA TypedMove ==
  ASSUME Typed, NEW d \in Dispatches,
         disp' \in [Dispatches -> DispatchState], Others(d), Shaped(disp'[d]),
         status' \in [Jobs -> Statuses],
         \A i \in Jobs : status'[i] = "absent" => status[i] = "absent",
         meta' \in [Jobs -> [Steps -> Marks]], entries' \subseteq entries,
         faults' \in 0..MaxFaults, body' \in [Steps -> {"none", "success", "failure"}],
         made' \in [Jobs -> Nat], buried' \subseteq Steps,
         settled' \subseteq Steps \X {"live", "dead"},
         UNCHANGED <<record, running, blob, sweep, cancels, worked>>
  PROVE  Typed'
<1>1. TypeOK /\ Formed
  BY Zenon DEF Typed
<1>2. \A o \in Dispatches : Shaped(disp'[o])
  BY DispTyped, Zenon
<1>3. TypeOK'
  BY <1>1, Zenon DEF TypeOK, Statuses
<1>4. Formed'
  BY <1>1, <1>2, Zenon DEF Formed
<1> QED
  BY <1>3, <1>4, Zenon DEF Typed

\* The steps of a dispatch that raise, give up or return.
Drops(d) ==
  \/ DispatchRaises(d) \/ Finish(d) \/ AckLost(d)

LEMMA DropsMoves ==
  ASSUME Typed, NEW d \in Dispatches, Drops(d)
  PROVE  /\ disp' \in [Dispatches -> DispatchState] /\ Others(d) /\ Shaped(disp'[d])
         /\ disp'[d] = Idle
<1>1. disp' = [disp EXCEPT ![d] = Idle]
  BY Zenon DEF Drops, DispatchRaises, Finish, AckLost
<1> QED
  BY <1>1, DropMoves, Zenon

\* A step of one dispatch, failures of it included.
Act(d) ==
  \/ Dispatch(d) \/ DispatchRaises(d) \/ KnotDeclined(d) \/ EnqueueFails(d)
  \/ AckLost(d) \/ \E s \in Steps : HandlerRaises(d, s)
  \/ \E j \in Jobs : SaveFails(d, j)

LEMMA TypedDispatch ==
  ASSUME Typed, NEW d \in Dispatches, Act(d)
  PROVE  Typed'
<1>0. TypeOK /\ Formed
  BY Zenon DEF Typed
<1>1. /\ status \in [Jobs -> Statuses] /\ meta \in [Jobs -> [Steps -> Marks]]
      /\ faults \in 0..MaxFaults /\ body \in [Steps -> {"none", "success", "failure"}]
      /\ made \in [Jobs -> Nat] /\ buried \subseteq Steps
      /\ settled \subseteq Steps \X {"live", "dead"}
  BY <1>0, Zenon DEF TypeOK, Statuses
<1>2. Fault => faults' \in 0..MaxFaults
  BY <1>1, ChainAssumption DEF Fault
<1> USE DEF rqVars, histVars
<1>3. ASSUME disp' \in [Dispatches -> DispatchState], Others(d), Shaped(disp'[d]),
             UNCHANGED <<rqVars, entries, sweep, cancels, histVars>>,
             faults' \in 0..MaxFaults
      PROVE  Typed'
  BY <1>1, <1>3, TypedMove, Zenon
<1>4. ASSUME NEW e \in entries, Take(d, e) PROVE Typed'
  BY <1>1, <1>3, <1>4, TakeMoves, Zenon DEF Take
<1>5. CASE PeekStatus(d)
  BY <1>1, <1>3, <1>5, StatusMoves, Zenon DEF PeekStatus
<1>6. CASE PutStatus(d)
  <2>1. disp' \in [Dispatches -> DispatchState] /\ Others(d) /\ Shaped(disp'[d])
    BY <1>6, StatusMoves, Zenon
  <2>2. disp[d].entry.outcome \in Terminal
    <3>1. disp[d].pc = "put" /\ Shaped(disp[d])
      BY <1>0, <1>6, Zenon DEF PutStatus, Formed
    <3>2. disp[d].entry \in Entry
      BY <3>1, Zenon DEF Shaped
    <3> QED
      BY <3>2, Zenon DEF Entry, Terminal
  <2>3. /\ status' \in [Jobs -> Statuses]
        /\ \A i \in Jobs : status'[i] = "absent" => status[i] = "absent"
    BY <1>1, <1>6, <2>2, Zenon DEF PutStatus, Statuses, Terminal
  <2>4. UNCHANGED <<record, running, meta, blob, entries, sweep, cancels, faults, histVars>>
    BY <1>6, Zenon DEF PutStatus
  <2> QED
    BY <1>1, <2>1, <2>3, <2>4, TypedMove, Zenon
<1>7. CASE Discover(d)
  BY <1>1, <1>3, <1>7, DiscoverMoves, Zenon DEF Discover
<1>8. ASSUME NEW j \in Jobs, Lock(d, j) PROVE Typed'
  BY <1>1, <1>3, <1>8, LockMoves, Zenon DEF Lock
<1>9. CASE Hydrate(d)
  <2>1. UNCHANGED <<rqVars, entries, sweep, cancels, faults, histVars>>
    BY <1>9, Zenon DEF Hydrate
  <2> QED
    BY <1>1, <1>3, <1>9, <2>1, HydrateMoves, Zenon
<1>10. ASSUME NEW s \in Steps, Handle(d, s) PROVE Typed'
  <2>1. disp' \in [Dispatches -> DispatchState] /\ Others(d) /\ Shaped(disp'[d])
    BY <1>10, StepMoves, Zenon
  <2>2. body' \in [Steps -> {"none", "success", "failure"}] /\ buried' \subseteq Steps
    BY <1>1, <1>10, Zenon DEF Handle
  <2>3. UNCHANGED <<rqVars, entries, sweep, cancels, faults, worked, made, settled>>
    BY <1>10, Zenon DEF Handle
  <2> QED
    BY <1>1, <2>1, <2>2, <2>3, TypedMove, Zenon
<1>11. ASSUME NEW s \in Steps, HandlerRaises(d, s) PROVE Typed'
  BY <1>2, <1>3, <1>11, StepMoves, Zenon DEF HandlerRaises
<1>12. CASE Mark(d)
  <2>1. UNCHANGED <<rqVars, entries, sweep, cancels, faults, histVars>>
    BY <1>12, Zenon DEF Mark
  <2> QED
    BY <1>1, <1>3, <1>12, <2>1, MarkMoves, Zenon
<1>13. CASE CreateKnot(d)
  <2>1. disp' \in [Dispatches -> DispatchState] /\ Others(d) /\ Shaped(disp'[d])
    BY <1>13, KnotMoves, Zenon
  <2>2. /\ status' \in [Jobs -> Statuses]
        /\ \A i \in Jobs : status'[i] = "absent" => status[i] = "absent"
    BY <1>1, <1>13, Zenon DEF CreateKnot, Statuses
  <2>3. UNCHANGED <<record, running, meta, blob, entries, sweep, cancels, faults, histVars>>
    BY <1>13, Zenon DEF CreateKnot
  <2> QED
    BY <1>1, <2>1, <2>2, <2>3, TypedMove, Zenon
<1>14. CASE KnotDeclined(d) \/ EnqueueFails(d)
  BY <1>2, <1>3, <1>14, KnotMoves, Zenon DEF KnotDeclined, EnqueueFails
<1>15. CASE EnqueueKnot(d)
  <2>1. disp' \in [Dispatches -> DispatchState] /\ Others(d) /\ Shaped(disp'[d])
    BY <1>15, KnotMoves, Zenon
  <2>2. made' \in [Jobs -> Nat]
    BY <1>1, <1>15 DEF EnqueueKnot
  <2>3. /\ status' \in [Jobs -> Statuses]
        /\ \A i \in Jobs : status'[i] = "absent" => status[i] = "absent"
    BY <1>1, <1>15, Zenon DEF EnqueueKnot, Statuses
  <2>4. UNCHANGED <<record, running, meta, blob, entries, sweep, cancels, faults, worked,
                    body, buried, settled>>
    BY <1>15, Zenon DEF EnqueueKnot
  <2> QED
    BY <1>1, <2>1, <2>2, <2>3, <2>4, TypedMove, Zenon
<1>16. ASSUME NEW j \in Jobs, SaveAnchor(d, j) PROVE Typed'
  <2>1. disp' \in [Dispatches -> DispatchState] /\ Others(d) /\ Shaped(disp'[d])
    BY <1>16, SaveMoves, Zenon
  <2>2. disp[d].view[j] \in [Steps -> Marks]
    <3>1. disp[d] \in DispatchState
      BY <1>0, Zenon DEF TypeOK
    <3>2. disp[d].view \in [Jobs -> [Steps -> Marks]]
      BY <3>1 DEF DispatchState
    <3> QED
      BY <3>2, Zenon
  <2>3. meta' \in [Jobs -> [Steps -> Marks]]
    BY <1>1, <1>16, <2>2, Zenon DEF SaveAnchor
  <2>4. UNCHANGED <<status, record, running, blob, entries, sweep, cancels, faults, histVars>>
    BY <1>16, Zenon DEF SaveAnchor
  <2> QED
    BY <1>1, <2>1, <2>3, <2>4, TypedMove, Zenon
<1>17. ASSUME NEW j \in Jobs, SaveFails(d, j) PROVE Typed'
  BY <1>2, <1>3, <1>17, SaveMoves, Zenon DEF SaveFails
<1>18. CASE DispatchRaises(d) \/ AckLost(d)
  BY <1>2, <1>3, <1>18, DropsMoves, Zenon DEF Drops, DispatchRaises, AckLost
<1>19. CASE Finish(d)
  <2>1. disp' \in [Dispatches -> DispatchState] /\ Others(d) /\ Shaped(disp'[d])
    BY <1>19, DropsMoves, Zenon DEF Drops
  <2>2. disp[d].walk \subseteq Steps
    BY <1>0, Zenon DEF TypeOK, DispatchState
  <2>3. settled' \subseteq Steps \X {"live", "dead"}
    BY <1>1, <1>19, <2>2, Zenon DEF Finish
  <2>4. entries' \subseteq entries
        /\ UNCHANGED <<rqVars, sweep, cancels, faults, worked, body, made, buried>>
    BY <1>19, Zenon DEF Finish
  <2> QED
    BY <1>1, <2>1, <2>3, <2>4, TypedMove, Zenon
<1>20. CASE SaveKnot(d)
  <2>1. disp' \in [Dispatches -> DispatchState] /\ Others(d) /\ Shaped(disp'[d])
    BY <1>20, FillMoves, Zenon
  <2>2. \A k \in Jobs : Fresh(k) \in [Steps -> Marks]
    BY Zenon DEF Fresh, Marks
  <2>3. meta' \in [Jobs -> [Steps -> Marks]]
    BY <1>1, <1>20, <2>2, Zenon DEF SaveKnot
  <2>4. UNCHANGED <<status, record, running, blob, entries, sweep, cancels, faults, histVars>>
    BY <1>20, Zenon DEF SaveKnot
  <2> QED
    BY <1>1, <2>1, <2>3, <2>4, TypedMove, Zenon
<1> QED
  BY <1>4, <1>5, <1>6, <1>7, <1>8, <1>9, <1>10, <1>11, <1>12, <1>13, <1>14, <1>15,
     <1>16, <1>17, <1>18, <1>19, <1>20, Zenon DEF Act, Dispatch

\* Every step is one of the workers, of a cancel, of a dispatch or a crash.
LEMMA StepKinds ==
  ASSUME [Next]_vars
  PROVE  \/ \E d \in Dispatches : Act(d)
         \/ Crash \/ Worker
         \/ \E x \in Cancels : Sweeping(x)
         \/ UNCHANGED vars
  BY Zenon DEF Next, Failure, Act, Sweeping

LEMMA TypedStep ==
  ASSUME Typed, [Next]_vars
  PROVE  Typed'
<1>1. CASE Crash
  <2>1. /\ disp' \in [Dispatches -> DispatchState]
        /\ \A d \in Dispatches : Shaped(disp'[d])
    BY <1>1, CrashMoves, IdleTyped, Zenon
  <2>2. faults' \in 0..MaxFaults
    BY <1>1, ChainAssumption DEF Crash, Fault, Typed, TypeOK
  <2>3. UNCHANGED <<rqVars, entries, sweep, cancels, histVars>>
    BY <1>1, Zenon DEF Crash
  <2> QED
    BY <2>1, <2>2, <2>3, Zenon DEF Typed, TypeOK, Formed, rqVars, histVars
<1>2. CASE UNCHANGED vars
  BY <1>2, Zenon DEF vars, rqVars, histVars, Typed, TypeOK, Formed
<1> QED
  BY <1>1, <1>2, StepKinds, TypedWorker, TypedCancel, TypedDispatch, Zenon DEF Worker

LEMMA TypedAlways == Spec => []Typed
<1>1. Init => Typed
  <2> SUFFICES ASSUME Init PROVE Typed
    BY Zenon
  <2>1. \A j \in Jobs : Fresh(j) \in [Steps -> Marks] /\ Empty \in [Steps -> Marks]
    BY Zenon DEF Fresh, Empty, Marks
  <2>2. status \in [Jobs -> Statuses]
        /\ \A j \in Jobs : status[j] = "absent" => Carrier[j] # None
    BY Zenon DEF Init, Statuses
  <2>3. cancels \in 0..MaxCancels /\ faults \in 0..MaxFaults /\ made \in [Jobs -> Nat]
    BY ChainAssumption DEF Init
  <2>4. /\ meta \in [Jobs -> [Steps -> Marks]] /\ blob \in [Jobs -> [Steps -> Marks]]
        /\ disp \in [Dispatches -> DispatchState]
        /\ \A d \in Dispatches : Shaped(disp[d])
    BY <2>1, IdleTyped, Zenon DEF Init
  <2>5. sweep \in [Cancels -> SweepState]
        /\ \A x \in Cancels : sweep[x].stage \notin {"apply", "stamp"}
    BY NoSweepTyped, Zenon DEF Init, NoSweep
  <2>6. TypeOK
    BY <2>2, <2>3, <2>4, <2>5, Zenon DEF Init, TypeOK, Statuses
  <2>7. Formed
    BY <2>2, <2>4, <2>5, Zenon DEF Init, Formed
  <2> QED
    BY <2>6, <2>7, Zenon DEF Typed
<1> QED
  BY <1>1, TypedStep, PTL DEF Spec

\* Every variable keeps its type, and every record of a dispatch and of a
\* cancel its fields.
THEOREM TypeCorrect == Spec => []TypeOK
<1>1. Typed => TypeOK
  BY Zenon DEF Typed
<1> QED
  BY <1>1, TypedAlways, PTL

-----------------------------------------------------------------------------
(* The anchor locks.                                                         *)

\* An anchor is locked by one dispatch at a time.
Exclusive ==
  \A d, o \in Dispatches : d # o => disp[d].held \intersect disp[o].held = {}

\* A dispatch that takes its locks holds the lower ones first.
Ordered(r) == r.pc = "lock" => \A i \in r.held, j \in r.want \ r.held : i < j

Locks == Exclusive /\ \A d \in Dispatches : Ordered(disp[d])

\* Only Lock adds to the locks of a dispatch.
LEMMA HeldMoves ==
  ASSUME Typed, NEW d \in Dispatches, Act(d)
  PROVE  /\ Others(d)
         /\ \/ \E j \in Jobs : Lock(d, j)
            \/ /\ disp'[d].held = {} \/ disp'[d].held = disp[d].held
               /\ disp'[d].pc = "lock" => disp'[d].held = {}
<1>0. Shaped(disp[d])
  BY Was, Zenon
<1>1. ASSUME NEW e \in entries, Take(d, e)
      PROVE  Others(d) /\ disp'[d].held = disp[d].held /\ disp'[d].pc # "lock"
  BY <1>1, TakeMoves, Zenon DEF KeepsLocks
<1>2. ASSUME PeekStatus(d) \/ PutStatus(d)
      PROVE  Others(d) /\ disp'[d].held = disp[d].held /\ disp'[d].pc # "lock"
  BY <1>2, StatusMoves, Zenon DEF KeepsLocks
<1>3. ASSUME Discover(d) PROVE Others(d) /\ disp'[d].held = {}
  BY <1>0, <1>3, DiscoverMoves, Zenon DEF Shaped, Working
<1>4. ASSUME NEW j \in Jobs, Lock(d, j) PROVE Others(d)
  BY <1>4, LockMoves, Zenon
<1>5. ASSUME Hydrate(d)
      PROVE  /\ Others(d)
             /\ disp'[d].held = {} \/ (disp'[d].held = disp[d].held /\ disp'[d].pc # "lock")
  BY <1>5, HydrateMoves, IdleIs, Zenon DEF KeepsLocks
<1>6. ASSUME NEW s \in Steps, Handle(d, s) \/ HandlerRaises(d, s)
      PROVE  Others(d) /\ disp'[d].held = disp[d].held /\ disp'[d].pc # "lock"
  BY <1>6, StepMoves, Zenon DEF KeepsLocks
<1>7. ASSUME Mark(d)
      PROVE  Others(d) /\ disp'[d].held = disp[d].held /\ disp'[d].pc # "lock"
  BY <1>7, MarkMoves, Zenon DEF KeepsLocks
<1>8. ASSUME CreateKnot(d) \/ KnotDeclined(d) \/ EnqueueKnot(d) \/ EnqueueFails(d)
      PROVE  Others(d) /\ disp'[d].held = disp[d].held /\ disp'[d].pc # "lock"
  BY <1>8, KnotMoves, Zenon DEF KeepsLocks
<1>9. ASSUME SaveKnot(d)
      PROVE  Others(d) /\ disp'[d].held = disp[d].held /\ disp'[d].pc # "lock"
  BY <1>9, FillMoves, Zenon DEF KeepsLocks
<1>10. ASSUME NEW j \in Jobs, SaveAnchor(d, j) \/ SaveFails(d, j)
      PROVE  Others(d) /\ disp'[d].held = disp[d].held /\ disp'[d].pc # "lock"
  BY <1>10, SaveMoves, Zenon DEF KeepsLocks
<1>11. ASSUME Drops(d) PROVE Others(d) /\ disp'[d].held = {}
  BY <1>11, DropsMoves, IdleIs, Zenon
<1>12. CASE Dispatch(d)
  <2>1. CASE \E j \in Jobs : Lock(d, j)
    BY <1>4, <2>1, Zenon
  <2>2. CASE \/ \E e \in entries : Take(d, e)
             \/ PeekStatus(d) \/ PutStatus(d)
             \/ \E s \in Steps : Handle(d, s)
             \/ Mark(d) \/ CreateKnot(d) \/ SaveKnot(d) \/ EnqueueKnot(d)
             \/ \E j \in Jobs : SaveAnchor(d, j)
    BY <1>1, <1>2, <1>6, <1>7, <1>8, <1>9, <1>10, <2>2, Zenon
  <2>3. CASE Discover(d) \/ Hydrate(d) \/ Finish(d)
    BY <1>3, <1>5, <1>11, <2>3, Zenon DEF Drops
  <2> QED
    BY <1>12, <2>1, <2>2, <2>3, Zenon DEF Dispatch
<1>13. CASE \/ DispatchRaises(d) \/ KnotDeclined(d) \/ EnqueueFails(d)
            \/ AckLost(d) \/ \E s \in Steps : HandlerRaises(d, s)
            \/ \E j \in Jobs : SaveFails(d, j)
  BY <1>6, <1>8, <1>10, <1>11, <1>13, Zenon DEF Drops
<1> QED
  BY <1>12, <1>13, Zenon DEF Act

LEMMA LocksAct ==
  ASSUME Typed, Locks, NEW d \in Dispatches, Act(d)
  PROVE  Locks'
<1>0. Others(d)
  BY HeldMoves, Zenon
<1>1. ASSUME disp'[d].held = {} \/ disp'[d].held = disp[d].held,
             disp'[d].pc = "lock" => disp'[d].held = {}
      PROVE  Locks'
  <2>1. Exclusive'
    BY <1>0, <1>1, Zenon DEF Locks, Exclusive, Others
  <2>2. \A o \in Dispatches : Ordered(disp'[o])
    BY <1>0, <1>1, Zenon DEF Locks, Ordered, Others
  <2> QED
    BY <2>1, <2>2, Zenon DEF Locks
<1>2. ASSUME NEW j \in Jobs, Lock(d, j) PROVE Locks'
  <2>1. /\ disp'[d].held = disp[d].held \union {j} /\ disp'[d].want = disp[d].want
        /\ disp[d].pc = "lock" /\ disp[d].want \subseteq Jobs
    BY <1>2, LockMoves, Was, Zenon DEF DispatchState
  <2>2. NextAnchor(d, j) /\ LockFree(j)
    BY <1>2, Zenon DEF Lock
  <2>3. Exclusive'
    <3>1. \A o \in Dispatches \ {d} : disp'[d].held \intersect disp'[o].held = {}
      BY <1>0, <2>1, <2>2, Zenon DEF Locks, Exclusive, Others, LockFree
    <3>2. \A c, o \in Dispatches \ {d} : c # o => disp'[c].held \intersect disp'[o].held = {}
      BY <1>0, Zenon DEF Locks, Exclusive, Others
    <3>3. \A c, o \in Dispatches : c # o => disp'[c].held \intersect disp'[o].held = {}
      BY <3>1, <3>2, Zenon
    <3> QED
      BY <3>3, Zenon DEF Exclusive
  <2>4. Ordered(disp'[d])
    <3> SUFFICES ASSUME NEW i \in disp[d].held \union {j},
                        NEW k \in disp[d].want \ (disp[d].held \union {j})
                 PROVE  i < k
      BY <2>1, Zenon DEF Ordered
    <3>1. CASE i = j
      <4>1. j <= k /\ j # k /\ j \in Nat /\ k \in Nat
        BY <2>1, <2>2, ChainAssumption, Zenon DEF NextAnchor
      <4> QED
        BY <3>1, <4>1
    <3>2. CASE i \in disp[d].held
      BY <2>1, <3>2, Zenon DEF Locks, Ordered
    <3> QED
      BY <3>1, <3>2, Zenon
  <2> QED
    BY <1>0, <2>3, <2>4, Zenon DEF Locks, Others
<1> QED
  BY <1>1, <1>2, HeldMoves, Zenon

\* Nobody but the change-handler touches a dispatch.
LEMMA DispKept ==
  ASSUME Worker \/ (\E x \in Cancels : Sweeping(x)) \/ UNCHANGED vars
  PROVE  disp' = disp
<1>1. ASSUME Worker PROVE disp' = disp
  BY <1>1, Zenon DEF Worker, Dequeue, SaveProgress, WorkerDone
<1>2. ASSUME NEW x \in Cancels, BeginCancel(x) \/ CancelFails(x) \/ CancelDies(x)
      PROVE  disp' = disp
  BY <1>2, Zenon DEF BeginCancel, CancelFails, CancelDies
<1>3. ASSUME NEW x \in Cancels, Cancel(x) PROVE disp' = disp
  BY <1>3, Zenon DEF Cancel, CancelRead, CancelApply, CancelStamp, Announce
<1>4. ASSUME NEW x \in Cancels, NEW j \in Jobs, Heal(x, j) PROVE disp' = disp
  BY <1>4, Zenon DEF Heal
<1> QED
  BY <1>1, <1>2, <1>3, <1>4, Zenon DEF Sweeping, vars

LEMMA LocksAlways == Spec => []Locks
<1>1. Init => Locks
  <2> SUFFICES ASSUME Init PROVE Locks
    BY Zenon
  <2>1. \A d \in Dispatches : disp[d].held = {} /\ disp[d].pc = "free"
    BY IdleIs, Zenon DEF Init
  <2> QED
    BY <2>1, Zenon DEF Locks, Exclusive, Ordered
<1>2. Typed /\ Locks /\ [Next]_vars => Locks'
  <2> SUFFICES ASSUME Typed, Locks, [Next]_vars PROVE Locks'
    BY Zenon
  <2>1. CASE Crash
    <3>1. \A d \in Dispatches : disp'[d].held = {} /\ disp'[d].pc = "free"
      BY <2>1, CrashMoves, IdleIs, Zenon
    <3> QED
      BY <3>1, Zenon DEF Locks, Exclusive, Ordered
  <2>2. CASE disp' = disp
    BY <2>2, Zenon DEF Locks, Exclusive, Ordered
  <2> QED
    BY <2>1, <2>2, StepKinds, DispKept, LocksAct, Zenon
<1> QED
  BY <1>1, <1>2, TypedAlways, PTL DEF Spec

LEMMA LeastOf ==
  ASSUME NEW S \in SUBSET Nat, S # {}
  PROVE  \E m \in S : \A i \in S : m <= i
<1> DEFINE R == OpToRel(<, Nat)
<1>1. IsWellFoundedOn(R, Nat)
  BY NatLessThanWellFounded
<1> HIDE DEF R
<1>2. PICK m \in S : \A i \in S : ~ (<<i, m>> \in R)
  BY <1>1, WFMin, Zenon
<1>3. ASSUME NEW i \in S PROVE m <= i
  <2>1. <<i, m>> \in Nat \X Nat /\ <<i, m>>[1] = i /\ <<i, m>>[2] = m
    OBVIOUS
  <2>2. ~ (i < m)
    BY <1>2, <2>1, Zenon DEF R, OpToRel
  <2> QED
    BY <2>2
<1> QED
  BY <1>3, Zenon

\* The greatest member is the one with the fewest above it.
LEMMA GreatestOf ==
  ASSUME NEW S \in SUBSET Nat, S # {}, IsFiniteSet(S)
  PROVE  \E m \in S : \A i \in S : i <= m
<1> DEFINE above(x) == {y \in S : y > x}
           ranks == {Cardinality(above(x)) : x \in S}
<1>1. ASSUME NEW x \in S
      PROVE  IsFiniteSet(above(x)) /\ Cardinality(above(x)) \in Nat
  <2>1. above(x) \in SUBSET S
    BY Zenon
  <2>2. IsFiniteSet(above(x))
    BY <2>1, FS_Subset, Zenon
  <2> QED
    BY <2>2, FS_CardinalityType, Zenon
<1>2. ranks \in SUBSET Nat /\ ranks # {}
  BY <1>1, Zenon
<1>3. PICK m \in S : \A r \in ranks : Cardinality(above(m)) <= r
  BY <1>2, LeastOf, Zenon
<1>4. ASSUME NEW i \in S, ~ (i <= m) PROVE FALSE
  <2>0. i > m /\ ~ (i > i) /\ \A y \in S : y > i => y > m
    BY <1>4
  <2>1. above(i) \in SUBSET above(m) /\ i \in above(m) /\ i \notin above(i)
    BY <2>0, Zenon
  <2> HIDE DEF above
  <2>2. Cardinality(above(i)) <= Cardinality(above(m))
        /\ (Cardinality(above(m)) = Cardinality(above(i)) => above(m) = above(i))
    BY <1>1, <2>1, FS_Subset, Zenon
  <2>3. Cardinality(above(m)) <= Cardinality(above(i))
    BY <1>3, Zenon
  <2>4. Cardinality(above(m)) = Cardinality(above(i))
    BY <1>1, <2>2, <2>3
  <2> QED
    BY <2>1, <2>2, <2>4, Zenon
<1> QED
  BY <1>4, Zenon

\* However many dispatches wait for anchor locks, one of any group of them waits
\* for a lock that nobody in the group holds: the highest anchor that one of them
\* waits for cannot be held by another, which would wait for a higher one.
THEOREM NoDeadlock == Spec => []NoCircularWait
<1>1. ASSUME Typed, Locks PROVE NoCircularWait
  <2> SUFFICES ASSUME NEW W \in (SUBSET Dispatches) \ {{}},
                      \A d \in W : /\ disp[d].pc = "lock"
                                   /\ ~ (disp[d].want \subseteq disp[d].held)
                                   /\ \A j \in Jobs : NextAnchor(d, j) =>
                                        \E o \in W : j \in disp[o].held
               PROVE  FALSE
    BY Zenon DEF NoCircularWait
  <2>1. ASSUME NEW d \in W PROVE \E j \in Jobs : NextAnchor(d, j)
    <3> DEFINE left == disp[d].want \ disp[d].held
    <3>1. left \in SUBSET Nat /\ left # {} /\ left \subseteq Jobs
      <4>1. disp[d].want \subseteq Jobs
        BY <1>1, Was, Zenon DEF DispatchState
      <4> QED
        BY <4>1, ChainAssumption, Zenon
    <3>2. \E m \in left : \A i \in left : m <= i
      <4> HIDE DEF left
      <4> QED
        BY <3>1, LeastOf, Zenon
    <3> QED
      BY <3>1, <3>2, Zenon DEF NextAnchor
  <2> DEFINE M == {j \in Jobs : \E d \in W : NextAnchor(d, j)}
  <2>2. M \in SUBSET Nat /\ M # {} /\ IsFiniteSet(M)
    <3>0. W # {}
      OBVIOUS
    <3>1. PICK d \in W : TRUE
      BY <3>0, Zenon
    <3>2. M \in SUBSET Jobs /\ M # {}
      BY <2>1, <3>1, Zenon
    <3> HIDE DEF M
    <3> QED
      BY <3>2, ChainAssumption, FS_Subset, Zenon
  <2>3. PICK m \in M : \A i \in M : i <= m
    <3> HIDE DEF M
    <3> QED
      BY <2>2, GreatestOf, Zenon
  <2>4. PICK o \in W : m \in disp[o].held
    BY <2>3, Zenon
  <2>5. PICK j \in Jobs : NextAnchor(o, j)
    BY <2>1, Zenon
  <2>6. j <= m /\ m < j
    <3>1. j \in disp[o].want \ disp[o].held
      BY <2>5, Zenon DEF NextAnchor
    <3> QED
      BY <1>1, <2>3, <2>4, <2>5, <3>1, Zenon DEF Locks, Ordered
  <2> QED
    BY <2>2, <2>6, ChainAssumption
<1> QED
  BY <1>1, TypedAlways, LocksAlways, PTL
=============================================================================
