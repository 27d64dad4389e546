------------------------- MODULE OrchestratorProofs -------------------------
(***************************************************************************)
(* The orchestrator destroys only what is condemned, for any pool of       *)
(* machines, any configuration and any number of faults.                   *)
(*                                                                         *)
(* What it is about to destroy was condemned when it was read, and the     *)
(* invariant says why it still is: from the read to the decision no        *)
(* operation runs and no limit is left to set or lift, and while a         *)
(* destruction runs the limits that the next cycle is about to set or lift *)
(* are those of other hypervisors, for it read them after the sentence.    *)
(***************************************************************************)
EXTENDS Orchestrator, TLAPS

\* From the read to the decision: no operation, no limit to set or lift.
Quiet == loop.pc \in {"list", "clean"} => op = NoOp /\ loop.limits = {}

\* What was chosen for destruction is condemned, and no zombie.
Chosen ==
  loop.pc = "clean" /\ loop.plan = "destroy" =>
    \A m \in loop.ids : Condemned(m) /\ m \notin loop.zombies

\* What is being destroyed is condemned, and no limit of it is about to change.
Doomed ==
  op.kind = "destroy" =>
    Condemned(op.id) /\ \A l \in loop.limits : l.id # op.id

IInv == TypeOK /\ Quiet /\ Chosen /\ Doomed

-----------------------------------------------------------------------------
\* What NeedToScaleHypervisors says is to be done, on which machines: those it
\* would destroy are the ones of bestHyperToDestroy.
LEMMA PlanIsKnown ==
  ASSUME NEW v \in [Machines -> Row], NEW f \in SUBSET Machines
  PROVE  /\ Scale(v, f)[1] \in {"sentence"} \cup Operations
         /\ Scale(v, f)[2] \in SUBSET Machines
         /\ Scale(v, f)[1] = "destroy" => Scale(v, f)[2] = ToDestroy(v)
<1>1. ToHandle(v) \subseteq Machines
  BY Zenon DEF ToHandle, Online
<1>2. /\ ToPardon(v) \subseteq Machines /\ ToUnlimit(v) \subseteq Machines
      /\ ToCreate(v, f) \subseteq Machines /\ ToDestroy(v) \subseteq Machines
      /\ ToSentence(v) \subseteq Machines
  <2>1. ToPardon(v) \subseteq Machines
    BY <1>1, Zenon DEF ToPardon, Most, OnDeadRow
  <2>2. ToUnlimit(v) \subseteq Machines
    BY <1>1, Zenon DEF ToUnlimit, Most, Limited
  <2>3. ToCreate(v, f) \subseteq Machines
    BY Zenon DEF ToCreate, Most
  <2>4. ToDestroy(v) \subseteq Machines
    BY <1>1, Zenon DEF ToDestroy, OnDeadRow
  <2>5. ToSentence(v) \subseteq Machines
    BY <1>1, Zenon DEF ToSentence, Most
  <2> QED BY <2>1, <2>2, <2>3, <2>4, <2>5, Zenon
<1>3. CASE Short(v)
  BY <1>2, <1>3, Zenon DEF Scale, Operations
<1>4. CASE ~ Short(v) /\ ToDestroy(v) # {}
  BY <1>2, <1>4, Zenon DEF Scale, Operations
<1>5. CASE ~ Short(v) /\ ToDestroy(v) = {}
  BY <1>2, <1>5, Zenon DEF Scale, Operations
<1> QED BY <1>3, <1>4, <1>5, Zenon

\* It holds at the start.
LEMMA InitIInv == Init => IInv
  BY PoolAssumption DEF Init, IInv, TypeOK, Quiet, Chosen, Doomed, Row,
                        NoRow, Running, Asleep, NoOp, Operations

\* The row of a machine that is not registered is one.
LEMMA NoRowIsRow == NoRow \in Row
  BY Zenon DEF NoRow, Row

\* A step of the loop keeps the invariant ...
LEMMA CycleIInv == IInv /\ Cycle => IInv'
<1> SUFFICES ASSUME TypeOK, Quiet, Chosen, Doomed, Cycle PROVE IInv'
  BY Zenon DEF IInv
<1>0. hyper \in [Machines -> Row]
  BY Zenon DEF TypeOK
<1> USE DEF NoOp
<1>1. CASE ListHypers
  <2>1. Limits(hyper) \in SUBSET [id : Machines, forced : BOOLEAN]
    <3>1. \A l \in Limits(hyper) : \E m \in Machines :
            l = [id |-> m, forced |-> TRUE] \/ l = [id |-> m, forced |-> FALSE]
      BY Zenon DEF Limits, ToHandle, Limited, Online
    <3>2. ASSUME NEW l \in Limits(hyper)
          PROVE  l \in [id : Machines, forced : BOOLEAN]
      <4>1. PICK m \in Machines :
              l = [id |-> m, forced |-> TRUE] \/ l = [id |-> m, forced |-> FALSE]
        BY <3>1, Zenon
      <4>2. /\ [id |-> m, forced |-> TRUE] \in [id : Machines, forced : BOOLEAN]
            /\ [id |-> m, forced |-> FALSE] \in [id : Machines, forced : BOOLEAN]
        BY Zenon
      <4> QED BY <4>1, <4>2, Zenon
    <3> QED BY <3>2, Zenon
  <2>2. TypeOK'
    BY <1>1, <2>1, Zenon DEF ListHypers, Asleep, TypeOK, Operations
  <2>3. Quiet'
    BY <1>1, Zenon DEF ListHypers, Asleep, TypeOK, Row, Operations, Quiet
  <2>4. Chosen'
    BY <1>1, Zenon DEF ListHypers, Asleep, TypeOK, Row, Operations, Quiet,
       Chosen, Condemned
  <2>5. op.kind = "destroy" => \A l \in Limits(hyper) : l.id # op.id
    BY DEF Limits, ToHandle, OnDeadRow, Limited, Doomed, Condemned, Online
  <2>6. Doomed'
    BY <1>1, <2>5, Zenon DEF ListHypers, Asleep, Doomed, Condemned
  <2> QED BY <2>2, <2>3, <2>4, <2>6, Zenon DEF IInv
<1>2. CASE ExtraOperation
  <2>1. TypeOK'
    BY <1>2 DEF ExtraOperation, Asleep, TypeOK, Row, Operations
  <2>2. Quiet'
    BY <1>2 DEF ExtraOperation, Asleep, TypeOK, Row, Operations, Quiet
  <2>3. Chosen'
    BY <1>2 DEF ExtraOperation, Asleep, TypeOK, Row, Operations, Quiet,
                Chosen, Condemned
  <2>4. Doomed'
    BY <1>2 DEF ExtraOperation, Asleep, TypeOK, Row, Operations, Quiet,
                Chosen, Doomed, Condemned
  <2> QED BY <2>1, <2>2, <2>3, <2>4, Zenon DEF IInv
<1>3. CASE Gate
  <2>1. TypeOK'
    BY <1>3 DEF Gate, Goto, Asleep, TypeOK, Row, Operations
  <2>2. Quiet'
    BY <1>3 DEF Gate, Goto, Asleep, TypeOK, Row, Operations, Quiet
  <2>3. Chosen'
    BY <1>3 DEF Gate, Goto, Asleep, TypeOK, Row, Operations, Quiet, Chosen,
                Condemned
  <2>4. Doomed'
    BY <1>3, Zenon DEF Gate, Goto, Asleep, TypeOK, Row, Operations, Quiet,
       Chosen, Doomed, Condemned
  <2> QED BY <2>1, <2>2, <2>3, <2>4, Zenon DEF IInv
<1>4. CASE ListAgain
  <2> DEFINE scale == Scale(hyper, listed \ up)
             gone == {m \in Machines \ listed :
                        hyper[m].managed /\ hyper[m].status = "offline"}
  <2>1. /\ scale[1] \in {"sentence"} \cup Operations
        /\ scale[2] \in SUBSET Machines
        /\ scale[1] = "destroy" => scale[2] = ToDestroy(hyper)
    BY <1>0, PlanIsKnown, Zenon DEF TypeOK
  <2>2. \A m \in ToDestroy(hyper) : Condemned(m) /\ m \notin gone
    BY <1>0, Zenon DEF ToDestroy, OnDeadRow, ToHandle, Online, Condemned, Row
  <2>3. loop' = [loop EXCEPT !.pc = "clean", !.plan = scale[1],
                             !.ids = scale[2], !.zombies = gone]
    BY <1>4, Zenon DEF ListAgain
  <2>4. gone \in SUBSET (Machines \ listed)
    BY Zenon
  <2> HIDE DEF scale, gone
  <2>5. TypeOK'
    BY <1>4, <2>1, <2>3, <2>4, Zenon DEF ListAgain, TypeOK, Operations
  <2>6. Quiet'
    BY <1>4, <2>3, Zenon DEF ListAgain, Quiet, TypeOK
  <2>7. Chosen'
    <3>1. loop'.plan = scale[1] /\ loop'.ids = scale[2] /\ loop'.zombies = gone
      BY <2>3, Zenon DEF TypeOK
    <3>2. hyper' = hyper /\ restarted' = restarted
      BY <1>4, Zenon DEF ListAgain
    <3> QED BY <2>1, <2>2, <3>1, <3>2, Zenon DEF Chosen, Condemned
  <2>8. Doomed'
    BY <1>4, <2>3 DEF ListAgain, Doomed, Quiet, TypeOK
  <2> QED BY <2>5, <2>6, <2>7, <2>8, Zenon DEF IInv
<1>5. CASE Cleanup
  <2>1. hyper' \in [Machines -> Row]
    BY <1>0, <1>5, NoRowIsRow, Zenon DEF Cleanup
  <2>2. \A n \in Machines : hyper'[n].used <= Ram[n]
    BY <1>5, PoolAssumption DEF Cleanup, NoRow, TypeOK, Row, Operations
  <2>3. TypeOK'
    BY <1>5, <2>1, <2>2 DEF Cleanup, NoRow, TypeOK, Row, Operations
  <2>4. Quiet'
    BY <1>5, Zenon DEF Cleanup, NoRow, TypeOK, Row, Operations, Quiet
  <2>5. Chosen'
    BY <1>5 DEF Cleanup, NoRow, TypeOK, Row, Operations, Quiet, Chosen,
                Condemned
  <2>6. Doomed'
    BY <1>5 DEF Cleanup, NoRow, TypeOK, Row, Operations, Quiet, Chosen,
                Doomed, Condemned
  <2> QED BY <2>3, <2>4, <2>5, <2>6, Zenon DEF IInv
<1>6. CASE Decide
  <2>1. TypeOK'
    BY <1>6 DEF Decide, Asleep, TypeOK, Row, Operations
  <2>2. Quiet'
    BY <1>6, Zenon DEF Decide, Asleep, TypeOK, Row, Operations, Quiet
  <2>3. Chosen'
    BY <1>6, Zenon DEF Decide, Asleep, TypeOK, Row, Operations, Quiet, Chosen,
       Condemned
  <2>4. Doomed'
    BY <1>6 DEF Decide, Asleep, TypeOK, Row, Operations, Quiet, Chosen,
                Doomed, Condemned
  <2> QED BY <2>1, <2>2, <2>3, <2>4, Zenon DEF IInv
<1> QED BY <1>1, <1>2, <1>3, <1>4, <1>5, <1>6, Zenon DEF Cycle

\* ... so does a step of the operation under way, during which the loop has not
\* read the hypervisors again ...
LEMMA OperateIInv == IInv /\ Operate => IInv'
<1> SUFFICES ASSUME TypeOK, Quiet, Chosen, Doomed, Operate PROVE IInv'
  BY Zenon DEF IInv
<1>0. hyper \in [Machines -> Row]
  BY Zenon DEF TypeOK
<1> USE DEF NoOp, Doing, Then
<1>1. CASE Pardon
  <2>1. op.id \in Machines
    BY <1>1 DEF Pardon, TypeOK, Operations
  <2>2. hyper' \in [Machines -> Row]
    BY <1>0, <1>1, <2>1 DEF Pardon, Row
  <2>3. \A n \in Machines : hyper'[n].used <= Ram[n]
    BY <1>1, <2>1 DEF Pardon, TypeOK, Row, Operations
  <2>4. TypeOK'
    BY <1>1, <2>1, <2>2, <2>3, Zenon DEF Pardon, TypeOK, Row, Operations
  <2>5. Quiet'
    BY <1>1, Zenon DEF Pardon, TypeOK, Row, Operations, Quiet
  <2>6. Chosen'
    BY <1>1 DEF Pardon, TypeOK, Row, Operations, Quiet, Chosen, Condemned
  <2>7. Doomed'
    BY <1>1, Zenon DEF Pardon, TypeOK, Row, Operations, Quiet, Chosen, Doomed,
       Condemned
  <2> QED BY <2>4, <2>5, <2>6, <2>7, Zenon DEF IInv
<1>2. CASE Unlimit
  <2>1. op.id \in Machines
    BY <1>2 DEF Unlimit, TypeOK, Operations
  <2>2. hyper' \in [Machines -> Row]
    BY <1>0, <1>2, <2>1, Zenon DEF Unlimit, Row
  <2>3. \A n \in Machines : hyper'[n].used <= Ram[n]
    BY <1>2, <2>1 DEF Unlimit, TypeOK, Row, Operations
  <2>4. TypeOK'
    BY <1>2, <2>1, <2>2, <2>3, Zenon DEF Unlimit, TypeOK, Row, Operations
  <2>5. Quiet'
    BY <1>2, Zenon DEF Unlimit, TypeOK, Row, Operations, Quiet
  <2>6. Chosen'
    BY <1>2 DEF Unlimit, TypeOK, Row, Operations, Quiet, Chosen, Condemned
  <2>7. Doomed'
    BY <1>2, Zenon DEF Unlimit, TypeOK, Row, Operations, Quiet, Chosen, Doomed,
       Condemned
  <2> QED BY <2>4, <2>5, <2>6, <2>7, Zenon DEF IInv
<1>3. CASE StopDesktops
  <2>1. op.id \in Machines
    BY <1>3 DEF StopDesktops, TypeOK, Operations
  <2>2. hyper' \in [Machines -> Row]
    BY <1>0, <1>3, <2>1 DEF StopDesktops, Row
  <2>3. \A n \in Machines : hyper'[n].used <= Ram[n]
    BY <1>3, <2>1, PoolAssumption DEF StopDesktops, TypeOK, Row, Operations
  <2>4. TypeOK'
    BY <1>3, <2>1, <2>2, <2>3, Zenon DEF StopDesktops, TypeOK, Row, Operations
  <2>5. Quiet'
    BY <1>3 DEF StopDesktops, TypeOK, Row, Operations, Quiet
  <2>6. Chosen'
    BY <1>3 DEF StopDesktops, TypeOK, Row, Operations, Quiet, Chosen, Condemned
  <2>7. Doomed'
    BY <1>3 DEF StopDesktops, TypeOK, Row, Operations, Quiet, Chosen, Doomed,
                Condemned
  <2> QED BY <2>4, <2>5, <2>6, <2>7, Zenon DEF IInv
<1>4. CASE Destroy
  <2>1. op.id \in Machines
    BY <1>4 DEF Destroy, TypeOK, Operations
  <2>2. hyper' \in [Machines -> Row]
    BY <1>0, <1>4, <2>1, NoRowIsRow, Zenon DEF Destroy
  <2>3. \A n \in Machines : hyper'[n].used <= Ram[n]
    BY <1>4, <2>1, PoolAssumption DEF Destroy, NoRow, TypeOK, Row, Operations
  <2>4. TypeOK'
    BY <1>4, <2>1, <2>2, <2>3, Zenon DEF Destroy, NoRow, TypeOK, Row,
       Operations
  <2>5. Quiet'
    BY <1>4, Zenon DEF Destroy, NoRow, TypeOK, Row, Operations, Quiet
  <2>6. Chosen'
    BY <1>4 DEF Destroy, NoRow, TypeOK, Row, Operations, Quiet, Chosen,
                Condemned
  <2>7. Doomed'
    BY <1>4, Zenon DEF Destroy, NoRow, TypeOK, Row, Operations, Quiet, Chosen,
       Doomed, Condemned
  <2> QED BY <2>4, <2>5, <2>6, <2>7, Zenon DEF IInv
<1>5. CASE OpenBuffer
  <2>1. op.id \in Machines
    BY <1>5 DEF OpenBuffer, TypeOK, Operations
  <2>2. TypeOK'
    BY <1>5, <2>1, Zenon DEF OpenBuffer, TypeOK, Row, Operations
  <2>3. Quiet'
    BY <1>5 DEF OpenBuffer, TypeOK, Row, Operations, Quiet
  <2>4. Chosen'
    BY <1>5, Zenon DEF OpenBuffer, TypeOK, Row, Operations, Quiet, Chosen,
       Condemned
  <2>5. Doomed'
    BY <1>5, Zenon DEF OpenBuffer, TypeOK, Row, Operations, Quiet, Chosen,
       Doomed, Condemned
  <2> QED BY <2>2, <2>3, <2>4, <2>5, Zenon DEF IInv
<1>6. CASE Create
  <2>1. op.id \in Machines
    BY <1>6 DEF Create, TypeOK, Operations
  <2>2. TypeOK'
    BY <1>6, <2>1, Zenon DEF Create, TypeOK, Row, Operations
  <2>3. Quiet'
    BY <1>6 DEF Create, TypeOK, Row, Operations, Quiet
  <2>4. Chosen'
    BY <1>6, Zenon DEF Create, TypeOK, Row, Operations, Quiet, Chosen,
       Condemned
  <2>5. Doomed'
    BY <1>6 DEF Create, TypeOK, Row, Operations, Quiet, Chosen, Doomed,
                Condemned
  <2> QED BY <2>2, <2>3, <2>4, <2>5, Zenon DEF IInv
<1>7. CASE Manage
  <2>1. op.id \in Machines
    BY <1>7 DEF Manage, TypeOK, Operations
  <2>2. hyper' \in [Machines -> Row]
    <3>1. [hyper[op.id] EXCEPT !.managed = TRUE, !.destroy = "no"] \in Row
      BY <1>0, <2>1, Zenon DEF Row
    <3> QED BY <1>0, <2>1, <1>7, <3>1, Zenon DEF Manage
  <2>3. \A n \in Machines : hyper'[n].used <= Ram[n]
    BY <1>7, <2>1 DEF Manage, TypeOK, Row, Operations
  <2>4. TypeOK'
    BY <1>7, <2>1, <2>2, <2>3, Zenon DEF Manage, TypeOK, Row, Operations
  <2>5. Quiet'
    BY <1>7 DEF Manage, TypeOK, Row, Operations, Quiet
  <2>6. Chosen'
    BY <1>7 DEF Manage, TypeOK, Row, Operations, Quiet, Chosen, Condemned
  <2>7. Doomed'
    BY <1>7 DEF Manage, TypeOK, Row, Operations, Quiet, Chosen, Doomed,
                Condemned
  <2> QED BY <2>4, <2>5, <2>6, <2>7, Zenon DEF IInv
<1>8. CASE CloseBuffer
  <2>1. op.id \in Machines
    BY <1>8 DEF CloseBuffer, TypeOK, Operations
  <2>2. TypeOK'
    BY <1>8, <2>1, Zenon DEF CloseBuffer, TypeOK, Row, Operations
  <2>3. Quiet'
    BY <1>8, Zenon DEF CloseBuffer, TypeOK, Row, Operations, Quiet
  <2>4. Chosen'
    BY <1>8, Zenon DEF CloseBuffer, TypeOK, Row, Operations, Quiet, Chosen,
       Condemned
  <2>5. Doomed'
    BY <1>8, Zenon DEF CloseBuffer, TypeOK, Row, Operations, Quiet, Chosen,
       Doomed, Condemned
  <2> QED BY <2>2, <2>3, <2>4, <2>5, Zenon DEF IInv
<1> QED BY <1>1, <1>2, <1>3, <1>4, <1>5, <1>6, <1>7, <1>8, Zenon DEF Operate

\* ... and one of the pool, or a sentence that comes late.
LEMMA PoolIInv ==
  ASSUME IInv, NEW m \in Machines,
         Sentence(m) \/ Boot(m) \/ Lose(m) \/ Load(m) \/ Due(m)
  PROVE  IInv'
<1>0. hyper \in [Machines -> Row]
  BY Zenon DEF IInv, TypeOK
<1> USE DEF IInv, NoOp
<1>1. CASE Sentence(m)
  <2>1. hyper' \in [Machines -> Row]
    <3>1. [hyper[m] EXCEPT !.forced = TRUE, !.destroy = "set"] \in Row
      BY <1>0, Zenon DEF Row
    <3> QED BY <1>0, <1>1, <3>1, Zenon DEF Sentence
  <2>2. \A n \in Machines : hyper'[n].used <= Ram[n]
    BY <1>1, <1>0 DEF Sentence, TypeOK, Row, Operations
  <2>3. TypeOK'
    BY <1>1, <1>0, <2>1, <2>2, Zenon DEF Sentence, TypeOK, Row, Operations
  <2>4. Quiet'
    BY <1>1, <1>0, Zenon DEF Sentence, TypeOK, Row, Operations, Quiet
  <2>5. Chosen'
    BY <1>1, <1>0 DEF Sentence, TypeOK, Row, Operations, Quiet, Chosen,
                      Condemned
  <2>6. Doomed'
    BY <1>1, <1>0 DEF Sentence, TypeOK, Row, Operations, Quiet, Chosen,
                      Doomed, Condemned
  <2> QED BY <2>3, <2>4, <2>5, <2>6, Zenon DEF IInv
<1>2. CASE Boot(m)
  <2>1. TypeOK'
    BY <1>2, <1>0 DEF Boot, TypeOK, Row, Operations
  <2>2. Quiet'
    BY <1>2, <1>0, Zenon DEF Boot, TypeOK, Row, Operations, Quiet
  <2>3. Chosen'
    BY <1>2, <1>0 DEF Boot, TypeOK, Row, Operations, Quiet, Chosen, Condemned
  <2>4. Doomed'
    BY <1>2, <1>0 DEF Boot, TypeOK, Row, Operations, Quiet, Chosen, Doomed,
                      Condemned
  <2> QED BY <2>1, <2>2, <2>3, <2>4, Zenon DEF IInv
<1>3. CASE Lose(m)
  <2>1. hyper' \in [Machines -> Row]
    <3>1. /\ [hyper[m] EXCEPT !.status = "offline"] \in Row
          /\ [hyper[m] EXCEPT !.status = "offline", !.used = 0] \in Row
          /\ [hyper[m] EXCEPT !.status = "offline", !.used = 0,
                              !.forced = FALSE] \in Row
      BY <1>0, Zenon DEF Row
    <3> QED BY <1>0, <1>3, <3>1, Zenon DEF Lose
  <2>2. \A n \in Machines : hyper'[n].used <= Ram[n]
    BY <1>3, <1>0, PoolAssumption DEF Lose, TypeOK, Row
  <2>3. TypeOK'
    BY <1>3, <2>1, <2>2, Zenon DEF Lose, TypeOK, Operations
  <2>4. Quiet'
    BY <1>3, <1>0, PoolAssumption, Zenon DEF Lose, TypeOK, Row, Operations,
       Quiet
  <2>5. Chosen'
    BY <1>3, <1>0, PoolAssumption DEF Lose, TypeOK, Row, Operations, Quiet,
                                      Chosen, Condemned
  <2>6. Doomed'
    BY <1>3, <1>0, PoolAssumption DEF Lose, TypeOK, Row, Operations, Quiet,
                                      Chosen, Doomed, Condemned
  <2> QED BY <2>3, <2>4, <2>5, <2>6, Zenon DEF IInv
<1>4. CASE Load(m)
  <2>1. TypeOK'
    BY <1>4, <1>0, PoolAssumption DEF Load, TypeOK, Row, Operations
  <2>2. Quiet'
    BY <1>4, <1>0, PoolAssumption, Zenon DEF Load, TypeOK, Row, Operations,
       Quiet
  <2>3. Chosen'
    BY <1>4, <1>0, PoolAssumption DEF Load, TypeOK, Row, Operations, Quiet,
                                      Chosen, Condemned
  <2>4. Doomed'
    BY <1>4, <1>0, PoolAssumption DEF Load, TypeOK, Row, Operations, Quiet,
                                      Chosen, Doomed, Condemned
  <2> QED BY <2>1, <2>2, <2>3, <2>4, Zenon DEF IInv
<1>5. CASE Due(m)
  <2>1. TypeOK'
    BY <1>5, <1>0 DEF Due, TypeOK, Row, Operations
  <2>2. Quiet'
    BY <1>5, <1>0, Zenon DEF Due, TypeOK, Row, Operations, Quiet
  <2>3. Chosen'
    BY <1>5, <1>0 DEF Due, TypeOK, Row, Operations, Quiet, Chosen, Condemned
  <2>4. Doomed'
    BY <1>5, <1>0 DEF Due, TypeOK, Row, Operations, Quiet, Chosen, Doomed,
                      Condemned
  <2> QED BY <2>1, <2>2, <2>3, <2>4, Zenon DEF IInv
<1> QED BY <1>1, <1>2, <1>3, <1>4, <1>5, Zenon

\* So every step keeps it.
LEMMA NextIInv == IInv /\ [Next]_vars => IInv'
<1> SUFFICES ASSUME IInv, [Next]_vars PROVE IInv'
  BY Zenon
<1>1. CASE Cycle
  BY <1>1, CycleIInv, Zenon
<1>2. CASE Operate
  BY <1>2, OperateIInv, Zenon
<1>3. CASE \E m \in Machines :
             Sentence(m) \/ Boot(m) \/ Lose(m) \/ Load(m) \/ Due(m)
  BY <1>3, PoolIInv, Zenon
<1>4. CASE UNCHANGED vars
  BY <1>4, Zenon DEF vars, IInv, TypeOK, Quiet, Chosen, Doomed, Condemned
<1> QED BY <1>1, <1>2, <1>3, <1>4, Zenon DEF Next

-----------------------------------------------------------------------------
\* Every value has its type, in any pool: no row that cleanup is about to delete
\* is that of a machine the operations service still has.
THEOREM OrchestratorTypes == Spec => []TypeOK
<1>1. IInv => TypeOK
  BY Zenon DEF IInv
<1> QED BY <1>1, InitIInv, NextIInv, PTL DEF Spec

\* destroyHypervisors stops the desktops of a hypervisor, and takes it down, only
\* while it is condemned, although it acts on what the loop read earlier.
THEOREM OnlyTheCondemned == Spec => KillsTheCondemned
<1>1. IInv /\ [Next]_vars =>
        [Operate => \A m \in Machines :
           m \in up \ up' \/ hyper'[m].used < hyper[m].used => Condemned(m)]_vars
  <2> SUFFICES ASSUME IInv, Operate, NEW m \in Machines,
                      m \in up \ up' \/ hyper'[m].used < hyper[m].used
               PROVE  Condemned(m)
    BY Zenon
  <2>1. op.kind = "destroy" /\ m = op.id
    BY DEF IInv, TypeOK, Row, Operate, Pardon, Unlimit, StopDesktops, Destroy,
           OpenBuffer, Create, Manage, CloseBuffer, Doing, NoOp
  <2> QED BY <2>1, Zenon DEF IInv, Doomed
<1> QED BY <1>1, InitIInv, NextIInv, PTL DEF Spec, KillsTheCondemned

-----------------------------------------------------------------------------
\* While a creation waits for its hypervisor the machine is up: only a fault
\* takes it away, and no destruction runs.
Shut ==
  /\ faults \in Nat /\ BufferShut
  /\ op.kind = "create" /\ op.pc = "wait" => op.id \in up \/ faults > 0

\* What a step that leaves the buffering hypervisor alone has to respect.
LEMMA ShutFrame ==
  ASSUME Shut, buffer' = buffer, faults' = faults \/ Fault,
         op' = op \/ (op.kind # "create" /\ op'.pc # "wait") \/ faults' > 0,
         up' = up \/ op.kind # "create" \/ faults' > 0
  PROVE  Shut'
BY DEF Shut, BufferShut, Fault

LEMMA ShutStep ==
  ASSUME IInv, Shut, [Next]_vars
  PROVE  Shut'
<1>1. Fault => faults' > 0
  BY DEF Shut, Fault
<1>2. NoOp.kind # "create" /\ NoOp.pc # "wait"
  BY Zenon DEF NoOp
<1>3. CASE Cycle
  <2>1. /\ buffer' = buffer /\ up' = up
        /\ faults' = faults \/ Fault
        /\ op' = op \/ Decide
    BY <1>3, Zenon DEF Cycle, ListHypers, ExtraOperation, Gate, ListAgain,
       Cleanup, Decide
  <2>2. Decide => op' = op \/ (op.kind # "create" /\ op'.pc # "wait")
    BY <1>2 DEF Decide, IInv, Quiet
  <2> QED
    BY <2>1, <2>2, ShutFrame, Zenon
<1>4. ASSUME NEW m \in Machines,
             Sentence(m) \/ Boot(m) \/ Lose(m) \/ Load(m) \/ Due(m)
      PROVE  Shut'
  <2>1. /\ buffer' = buffer /\ op' = op
        /\ faults' = faults \/ Fault
        /\ up' = up \/ Fault
    BY <1>4, Zenon DEF Sentence, Boot, Lose, Load, Due
  <2> QED
    BY <2>1, <1>1, ShutFrame, Zenon
<1>5. CASE Pardon \/ Unlimit \/ StopDesktops \/ Destroy
  <2>1. /\ buffer' = buffer /\ op.kind # "create"
        /\ faults' = faults \/ Fault
    BY <1>5, Zenon DEF Pardon, Unlimit, StopDesktops, Destroy, Doing, Mishap
  <2>2. op' = NoOp \/ op' = [op EXCEPT !.pc = "destroy"]
    BY <1>5, Zenon DEF Pardon, Unlimit, StopDesktops, Destroy, Then
  <2>3. op'.pc # "wait"
    BY <2>1, <2>2, <1>2, <1>5 DEF IInv, TypeOK, StopDesktops, Doing, NoOp,
       Pardon, Unlimit, Destroy
  <2> QED
    BY <2>1, <2>3, ShutFrame, Zenon
<1>6. CASE OpenBuffer
  BY <1>6 DEF OpenBuffer, Doing, Then, Shut, BufferShut, Fault, IInv, TypeOK,
     NoOp
<1>7. CASE Create
  BY <1>7 DEF Create, Doing, Then, Shut, BufferShut, Fault, IInv, TypeOK,
     NoOp
<1>8. CASE Manage
  BY <1>8 DEF Manage, Mishap, Doing, Then, Shut, BufferShut, Fault, IInv,
     TypeOK, NoOp
<1>9. CASE CloseBuffer
  BY <1>9 DEF CloseBuffer, Doing, Shut, BufferShut, Fault, NoOp
<1>10. CASE UNCHANGED vars
  BY <1>10, ShutFrame, Zenon DEF vars
<1> QED
  BY <1>3, <1>4, <1>5, <1>6, <1>7, <1>8, <1>9, <1>10, Zenon DEF Next, Operate

\* createHypervisors leaves the buffering hypervisor open only when a call has
\* failed, in any pool: the early return for a machine that is gone comes after
\* a fault.
THEOREM BufferIsShut == Spec => []BufferShut
<1>1. Init => Shut
  BY DEF Init, Shut, BufferShut, NoOp
<1>2. Shut => BufferShut
  BY Zenon DEF Shut
<1> QED BY <1>1, <1>2, InitIInv, NextIInv, ShutStep, PTL DEF Spec

=============================================================================
