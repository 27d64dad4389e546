---------------------------- MODULE Orchestrator ----------------------------
(***************************************************************************)
(* The orchestrator: a loop that keeps enough free memory in the pool of   *)
(* hypervisors, and the goroutines it starts (orchestrator/orchestrator:   *)
(* orchestrator.go, hypervisor.go, cleanup.go and the Rata director of     *)
(* director/rata.go), with the API calls they make (lib/hypervisors).      *)
(*                                                                         *)
(* A cycle reads the hypervisors, limits those that are full and unlimits  *)
(* those that no longer are, waits for the operation that is under way,    *)
(* reads again and decides on one operation: to pardon, unlimit or create  *)
(* a hypervisor when memory is short; otherwise to destroy one that was    *)
(* sentenced, or to sentence one. Memory is counted in units; the limits   *)
(* on CPUs are off, as their zero value has it.                            *)
(***************************************************************************)
EXTENDS Integers, FiniteSets, FiniteSetsExt

CONSTANTS Machines,     \* hypervisors the operations service can run
          Ram,          \* memory of each
          Initially,    \* the machines that run at the start
          Policies,     \* cfg.DirectorRata: the configurations to choose from
          NoMachine,
          MaxLoads,     \* bound: desktops started and stopped
          MaxFaults     \* bound: calls that fail, stalls, hypervisors lost

ASSUME PoolAssumption ==
  /\ Ram \in [Machines -> Nat] /\ Initially \subseteq Machines
  /\ NoMachine \notin Machines

VARIABLES
  cfg,       \* the configuration, which does not change
  hyper,     \* rows of the hypervisors table
  listed,    \* machines the operations service knows
  up,        \* those it runs
  loop,      \* Start: where it is, and what it has yet to do
  op,        \* the goroutine that holds scaleMux
  sentences, \* addHypervisorsToDeadRow, which takes no lock
  buffer,    \* the buffering hypervisor is open (not only_forced)
  restarted, \* history: machines that registered anew
  loads, faults

vars == <<cfg, hyper, listed, up, loop, op, sentences, buffer, restarted,
          loads, faults>>

NoRow == [status |-> "none", managed |-> FALSE, forced |-> FALSE,
          destroy |-> "no", used |-> 0]
Running == [status |-> "online", managed |-> TRUE, forced |-> FALSE,
            destroy |-> "no", used |-> 0]
Asleep == [pc |-> "sleep", limits |-> {}, zombies |-> {}, plan |-> "none",
           ids |-> {}]
NoOp == [kind |-> "none", pc |-> "idle", id |-> NoMachine]

Init ==
  /\ cfg \in Policies
  /\ hyper = [m \in Machines |-> IF m \in Initially THEN Running ELSE NoRow]
  /\ listed = Machines /\ up = Initially
  /\ loop = Asleep /\ op = NoOp /\ sentences = {}
  /\ buffer = FALSE /\ restarted = {}
  /\ loads = 0 /\ faults = 0

Fault == faults < MaxFaults /\ faults' = faults + 1

-----------------------------------------------------------------------------
(* The Rata director. v is what was read of the hypervisors.                 *)

\* minRAM, maxRAM: what a pool S has to have, and may have, free. An absolute
\* limit goes before one relative to the limits of its hypervisors (one
\* percentage and one margin stand for the two of each). Those of an hour of the
\* day are left out.
Limit(absolute, percent, each, margin, S) ==
  IF absolute # 0 \/ percent = 0 THEN absolute
  ELSE (2 * percent * each * Cardinality(S) + 100) \div 200 + margin

MinOf(S) == Limit(cfg.minRAM, cfg.percent, cfg.hyperMinRAM, cfg.margin, S)
MaxOf(S) == Limit(cfg.maxRAM, cfg.percent, cfg.hyperMaxRAM, cfg.margin, S)

Free(v, m) == Ram[m] - v[m].used
RamOf(v, S) == MapThenSumSet(LAMBDA m : Free(v, m), S)

NeedToLimit(v, m) == cfg.hyperMinRAM # 0 /\ Free(v, m) <= cfg.hyperMinRAM
NeedToUnlimit(v, m) ==
  v[m].used # 0 /\ cfg.hyperMaxRAM # 0 /\ Free(v, m) > cfg.hyperMaxRAM

\* classifyHypervisors
Online(v) == {m \in Machines : v[m].status = "online"}
ToAcknowledge(v) == {m \in Online(v) : ~ v[m].forced}
ToHandle(v) == {m \in Online(v) : v[m].managed}
OnDeadRow(v) == {m \in ToHandle(v) : v[m].destroy # "no"}
Limited(v) == {m \in ToHandle(v) : v[m].destroy = "no" /\ v[m].forced}

Avail(v) == RamOf(v, ToAcknowledge(v))
Required(v) == MinOf(ToAcknowledge(v))
Short(v) == Required(v) > 0 /\ Avail(v) < Required(v)

\* The members of S with the most of something.
Most(S, amount(_)) == {m \in S : \A n \in S : amount(n) <= amount(m)}

\* bestHyperToPardon: of those that give enough the one with the furthest
\* destroy time, else the biggest that is not full.
ToPardon(v) ==
  LET enough == {m \in OnDeadRow(v) : Avail(v) + Free(v, m) > Required(v)}
      later  == {m \in enough : v[m].destroy = "set"}
  IN  IF later # {} THEN later
      ELSE IF enough # {} THEN enough
      ELSE Most({m \in OnDeadRow(v) : ~ NeedToLimit(v, m)}, LAMBDA m : Free(v, m))

\* Mutant: any, also one that the extra operations will limit again.
ToUnlimitAny(v) == Most(Limited(v), LAMBDA m : Free(v, m))

\* bestHyperToUnlimit
ToUnlimit(v) ==
  Most({m \in Limited(v) : /\ ~ NeedToLimit(v, m)
                           /\ v[m].used = 0 \/ Avail(v) + Free(v, m) > Required(v)},
       LAMBDA m : Free(v, m))

\* bestHyperToCreate: the smallest that is enough, else the biggest.
ToCreate(v, free) ==
  LET new    == {m \in free : v[m].status = "none"}
      enough == {m \in new : Ram[m] > Required(v) - Avail(v)}
  IN  IF enough # {} THEN Most(enough, LAMBDA m : 0 - Ram[m])
      ELSE Most(new, LAMBDA m : Ram[m])

\* Mutant: also one that is in use.
ToDestroyInUse(v) == {m \in OnDeadRow(v) : v[m].destroy = "due" \/ v[m].used = 0}

\* bestHyperToDestroy: sentenced, its time has come or it is empty, not in use.
ToDestroy(v) == {m \in OnDeadRow(v) : /\ v[m].destroy = "due" \/ v[m].used = 0
                                      /\ v[m].forced}

\* Mutant: whatever is left without it.
ToSentenceAny(v) ==
  Most({m \in ToHandle(v) :
          /\ v[m].destroy = "no"
          /\ MaxOf(ToAcknowledge(v) \ {m}) > 0
          /\ Avail(v) > MaxOf(ToAcknowledge(v) \ {m})}, LAMBDA m : Ram[m])

\* bestHyperToMoveInDeadRow: the pool has too much, and enough without it.
ToSentence(v) ==
  LET spare(m) ==
        LET rest == ToAcknowledge(v) \ {m} IN
        /\ MaxOf(rest) > 0 /\ Avail(v) > MaxOf(rest)
        /\ \/ v[m].forced
           \/ Avail(v) - Free(v, m) > MinOf(rest) + cfg.deadRowMargin
  IN  Most({m \in ToHandle(v) : v[m].destroy = "no" /\ spare(m)},
           LAMBDA m : Ram[m])

\* NeedToScaleHypervisors: the operation and the machines it may fall on.
Scale(v, free) ==
  IF Short(v)
  THEN IF ToPardon(v) # {} THEN <<"pardon", ToPardon(v)>>
       ELSE IF ToUnlimit(v) # {} THEN <<"unlimit", ToUnlimit(v)>>
       ELSE <<"create", ToCreate(v, free)>>
  ELSE IF ToDestroy(v) # {} THEN <<"destroy", ToDestroy(v)>>
  ELSE <<"sentence", ToSentence(v)>>

\* ExtraOperations: of the hypervisors that are not sentenced, those that are full
\* are to be limited, and those that are limited and have room unlimited.
Limits(v) ==
  {[id |-> m, forced |-> TRUE] :
     m \in {n \in ToHandle(v) \ (OnDeadRow(v) \cup Limited(v)) : NeedToLimit(v, n)}}
  \cup
  {[id |-> m, forced |-> FALSE] : m \in {n \in Limited(v) : NeedToUnlimit(v, n)}}

-----------------------------------------------------------------------------
(* The loop: Start.                                                          *)

Goto(pc) == loop' = [loop EXCEPT !.pc = pc]

\* What goes wrong because of the state it is in, or for no reason.
Mishap(due) == IF due THEN UNCHANGED faults ELSE Fault

\* The cycle reads the hypervisors for the extra operations ...
ListHypers ==
  /\ loop.pc = "sleep"
  /\ loop' = [Asleep EXCEPT !.pc = "extra", !.limits = Limits(hyper)]
  /\ UNCHANGED <<cfg, hyper, listed, up, op, sentences, buffer, loads, faults,
                 restarted>>

\* ... one call for each, whatever became of it meanwhile: its row, which only
\* destroyHypervisors and cleanup take away, is there. A call that fails ends
\* the cycle ...
ExtraOperation ==
  /\ loop.pc = "extra"
  /\ \E l \in loop.limits :
       \/ /\ hyper' = [hyper EXCEPT ![l.id].forced = l.forced]
          /\ loop' = [loop EXCEPT !.limits = @ \ {l}]
          /\ UNCHANGED faults
       \/ Fault /\ loop' = Asleep /\ UNCHANGED hyper
  /\ UNCHANGED <<cfg, listed, up, op, sentences, buffer, loads, restarted>>

\* ... then it waits for scaleMux, which an operation holds from its start to
\* its end: scaling is never seen true. A stall of the storage ends the cycle.
Gate ==
  /\ loop.pc = "extra" /\ loop.limits = {}
  /\ op = NoOp
  /\ \/ Goto("list") /\ UNCHANGED faults
     \/ Fault /\ loop' = Asleep
  /\ UNCHANGED <<cfg, hyper, listed, up, op, sentences, buffer, loads,
                 restarted>>

\* Mutant: any managed hypervisor that is offline is a zombie.
ListAgainOffline ==
  /\ loop.pc = "list"
  /\ LET scale == Scale(hyper, listed \ up) IN
     loop' = [loop EXCEPT !.pc = "clean", !.plan = scale[1], !.ids = scale[2],
                 !.zombies = {m \in Machines :
                                hyper[m].managed /\ hyper[m].status = "offline"}]
  /\ UNCHANGED <<cfg, hyper, listed, up, op, sentences, buffer, loads,
                 restarted, faults>>

\* It reads the hypervisors again, and the machines, none of which it starts or
\* stops meanwhile. What it will do depends on nothing else; the two lists are one
\* step, so what changes in the pool changes before or after both ...
ListAgain ==
  /\ loop.pc = "list"
  /\ LET scale == Scale(hyper, listed \ up) IN
     loop' = [loop EXCEPT !.pc = "clean", !.plan = scale[1], !.ids = scale[2],
                 !.zombies = {m \in Machines \ listed :
                                hyper[m].managed /\ hyper[m].status = "offline"}]
  /\ UNCHANGED <<cfg, hyper, listed, up, op, sentences, buffer, loads, faults,
                 restarted>>

\* ... cleanup: the rows of machines that are gone. A call that fails,
\* as often as it likes, ends it.
Cleanup ==
  /\ loop.pc = "clean"
  /\ \E m \in loop.zombies :
       \/ /\ hyper' = [hyper EXCEPT ![m] = NoRow]
          /\ loop' = [loop EXCEPT !.zombies = @ \ {m}]
       \/ loop' = [loop EXCEPT !.zombies = {}] /\ UNCHANGED hyper
  /\ UNCHANGED <<cfg, listed, up, op, sentences, buffer, loads, restarted,
                 faults>>

\* ... and starts the operation. It has the lock long before the loop, which
\* first sleeps, is back at it.
Decide ==
  /\ loop.pc = "clean" /\ loop.zombies = {}
  /\ loop' = Asleep
  /\ IF loop.ids = {} THEN UNCHANGED <<op, sentences>>
     ELSE \E m \in loop.ids :
            IF loop.plan = "sentence"
            THEN sentences' = sentences \cup {m} /\ UNCHANGED op
            ELSE /\ op' = [kind |-> loop.plan, pc |-> "start", id |-> m]
                 /\ UNCHANGED sentences
  /\ UNCHANGED <<cfg, hyper, listed, up, buffer, loads, faults, restarted>>

-----------------------------------------------------------------------------
(* The operations.                                                           *)

Doing(kind, pc) == op.kind = kind /\ op.pc = pc
Then(pc) == op' = [op EXCEPT !.pc = pc]

\* addHypervisorsToDeadRow: set_hyper_deadrow_time. It reads the row and writes it
\* in two calls; the step is the write, with what was read taken to be current.
Sentence(m) ==
  /\ m \in sentences /\ sentences' = sentences \ {m}
  /\ \/ /\ IF hyper[m].managed /\ ~ (hyper[m].forced /\ hyper[m].destroy # "no")
           THEN hyper' = [hyper EXCEPT ![m].forced = TRUE, ![m].destroy = "set"]
           ELSE UNCHANGED hyper
        /\ UNCHANGED faults
     \/ Fault /\ UNCHANGED hyper
  /\ UNCHANGED <<cfg, listed, up, loop, op, buffer, loads, restarted>>

\* removeHypervisorsFromDeadRow: set_hyper_deadrow_time with reset, which
\* refuses one that is not both sentenced and only_forced. Read and write are one
\* step, as in Sentence.
Pardon ==
  /\ Doing("pardon", "start") /\ op' = NoOp
  /\ \/ /\ LET h == hyper[op.id] IN
           IF h.managed /\ h.forced /\ h.destroy # "no"
           THEN hyper' = [hyper EXCEPT ![op.id].forced = FALSE, ![op.id].destroy = "no"]
           ELSE UNCHANGED hyper
        /\ UNCHANGED faults
     \/ Fault /\ UNCHANGED hyper
  /\ UNCHANGED <<cfg, listed, up, loop, sentences, buffer, loads, restarted>>

\* removeHypervisorsFromOnlyForced
Unlimit ==
  /\ Doing("unlimit", "start") /\ op' = NoOp
  /\ \/ hyper' = [hyper EXCEPT ![op.id].forced = FALSE] /\ UNCHANGED faults
     \/ Fault /\ UNCHANGED hyper
  /\ UNCHANGED <<cfg, listed, up, loop, sentences, buffer, loads, restarted>>

\* destroyHypervisors: its desktops are stopped (or not), which the API only asks
\* for and which is taken to be done at once; then the machine, which takes its row
\* out of the table as it goes down.
StopDesktops ==
  /\ Doing("destroy", "start") /\ Then("destroy")
  /\ \/ hyper' = [hyper EXCEPT ![op.id].used = 0] /\ UNCHANGED faults
     \/ Fault /\ UNCHANGED hyper
  /\ UNCHANGED <<cfg, listed, up, loop, sentences, buffer, loads, restarted>>

Destroy ==
  /\ Doing("destroy", "destroy") /\ op' = NoOp
  /\ \/ /\ op.id \in up /\ up' = up \ {op.id}
        /\ hyper' = [hyper EXCEPT ![op.id] = NoRow]
        /\ UNCHANGED faults
     \/ Mishap(op.id \notin up) /\ UNCHANGED <<up, hyper>>
  /\ UNCHANGED <<cfg, listed, loop, sentences, buffer, loads, restarted>>

\* createHypervisors: the buffering hypervisor is opened (or not) ...
OpenBuffer ==
  /\ Doing("create", "start") /\ Then("create")
  /\ \/ buffer' = TRUE /\ UNCHANGED faults
     \/ Fault /\ UNCHANGED buffer
  /\ UNCHANGED <<cfg, hyper, listed, up, loop, sentences, loads, restarted>>

\* ... the machine started, which may fail or take too long: a return ...
Create ==
  /\ Doing("create", "create")
  /\ \/ /\ op.id \in listed /\ up' = up \cup {op.id}
        /\ Then("wait") /\ UNCHANGED faults
     \/ Fault /\ op' = NoOp /\ UNCHANGED up
  /\ UNCHANGED <<cfg, hyper, listed, loop, sentences, buffer, loads,
                 restarted>>

\* Mutant: the last step is forgotten.
ManageAndLeave ==
  /\ Doing("create", "wait") /\ op' = NoOp
  /\ hyper[op.id].status = "online"
  /\ hyper' = [hyper EXCEPT ![op.id].managed = TRUE, ![op.id].destroy = "no"]
  /\ UNCHANGED <<cfg, listed, up, loop, sentences, buffer, loads, restarted,
                 faults>>

\* ... the hypervisor awaited and marked as managed. When the time is up the
\* call that is left fails too; another failure is only counted ...
Manage ==
  /\ Doing("create", "wait")
  /\ \/ /\ hyper[op.id].status = "online"
        /\ hyper' = [hyper EXCEPT ![op.id].managed = TRUE, ![op.id].destroy = "no"]
        /\ Then("close") /\ UNCHANGED faults
     \/ Mishap(op.id \notin up) /\ op' = NoOp /\ UNCHANGED hyper
     \/ Fault /\ Then("close") /\ UNCHANGED hyper
  /\ UNCHANGED <<cfg, listed, up, loop, sentences, buffer, loads, restarted>>

\* ... and the buffering hypervisor closed.
CloseBuffer ==
  /\ Doing("create", "close") /\ op' = NoOp
  /\ \/ buffer' = FALSE /\ UNCHANGED faults
     \/ Fault /\ UNCHANGED buffer
  /\ UNCHANGED <<cfg, hyper, listed, up, loop, sentences, loads, restarted>>

-----------------------------------------------------------------------------
(* The pool.                                                                 *)

\* A machine that runs comes online.
Boot(m) ==
  /\ m \in up /\ hyper[m].status # "online"
  /\ hyper' = [hyper EXCEPT ![m].status = "online"]
  /\ UNCHANGED <<cfg, listed, up, loop, op, sentences, buffer, loads, faults,
                 restarted>>

\* A hypervisor is out of reach, or its machine restarts and registers anew,
\* which sets only_forced and leaves the rest, or is gone for good.
Lose(m) ==
  /\ Fault /\ hyper[m].status = "online"
  /\ \/ /\ hyper' = [hyper EXCEPT ![m].status = "offline"]
        /\ UNCHANGED <<listed, up, restarted>>
     \/ /\ hyper' = [hyper EXCEPT ![m].status = "offline", ![m].used = 0,
                                 ![m].forced = FALSE]
        /\ restarted' = restarted \cup {m} /\ UNCHANGED <<listed, up>>
     \/ /\ hyper' = [hyper EXCEPT ![m].status = "offline", ![m].used = 0]
        /\ listed' = listed \ {m} /\ up' = up \ {m} /\ UNCHANGED restarted
  /\ UNCHANGED <<cfg, loop, op, sentences, buffer, loads>>

\* Desktops start where they may, and stop. Those that are forced to a hypervisor,
\* which may start on one that is only_forced, are left out.
Load(m) ==
  /\ loads < MaxLoads /\ loads' = loads + 1
  /\ hyper[m].status = "online"
  /\ \/ /\ ~ hyper[m].forced /\ hyper[m].used < Ram[m]
        /\ hyper' = [hyper EXCEPT ![m].used = @ + 1]
     \/ hyper[m].used > 0 /\ hyper' = [hyper EXCEPT ![m].used = @ - 1]
  /\ UNCHANGED <<cfg, listed, up, loop, op, sentences, buffer, faults,
                 restarted>>

\* The destroy time of a hypervisor comes.
Due(m) ==
  /\ hyper[m].destroy = "set" /\ hyper' = [hyper EXCEPT ![m].destroy = "due"]
  /\ UNCHANGED <<cfg, listed, up, loop, op, sentences, buffer, loads, faults,
                 restarted>>

-----------------------------------------------------------------------------
Cycle == ListHypers \/ ExtraOperation \/ Gate \/ ListAgain \/ Cleanup \/ Decide
Operate == \/ Pardon \/ Unlimit \/ StopDesktops \/ Destroy
           \/ OpenBuffer \/ Create \/ Manage \/ CloseBuffer

Next == \/ Cycle \/ Operate
        \/ \E m \in Machines :
             Sentence(m) \/ Boot(m) \/ Lose(m) \/ Load(m) \/ Due(m)

Spec == Init /\ [][Next]_vars

\* The loop and its goroutines go on, machines that run come online, and time
\* passes.
FairSpec ==
  /\ Spec /\ WF_vars(Cycle) /\ WF_vars(Operate)
  /\ \A m \in Machines :
       WF_vars(Sentence(m)) /\ WF_vars(Boot(m)) /\ WF_vars(Due(m))

-----------------------------------------------------------------------------
(* Properties.                                                               *)

Row == [status : {"none", "online", "offline"}, managed : BOOLEAN,
        forced : BOOLEAN, destroy : {"no", "set", "due"}, used : Nat]

Operations == {"pardon", "unlimit", "create", "destroy"}

\* Every value has its type: no hypervisor has more desktops than memory, what
\* the operations service runs it lists, and no row of a machine that it lists
\* is about to be cleaned up (cleanup.go).
TypeOK ==
  /\ hyper \in [Machines -> Row]
  /\ \A m \in Machines : hyper[m].used <= Ram[m]
  /\ listed \subseteq Machines /\ up \subseteq listed
  /\ loop \in [pc : {"sleep", "extra", "list", "clean"},
              limits : SUBSET [id : Machines, forced : BOOLEAN],
              zombies : SUBSET (Machines \ listed),
              plan : {"none", "sentence"} \cup Operations, ids : SUBSET Machines]
  /\ loop.plan = "none" => loop.ids = {}
  /\ op = NoOp \/ op \in [kind : Operations, id : Machines,
                          pc : {"start", "destroy", "create", "wait", "close"}]
  /\ sentences \subseteq Machines

\* What destroyHypervisors takes down was, when it does, the orchestrator's and
\* sentenced; and unless it has registered anew since, it was closed to new
\* desktops, and empty or at its time. That was read two calls earlier, and
\* other calls were under way: a late sentence, a limit lifted from an old list,
\* a pardon.
Condemned(m) ==
  /\ hyper[m].managed /\ hyper[m].destroy # "no"
  /\ \/ m \in restarted
     \/ hyper[m].forced /\ (hyper[m].used = 0 \/ hyper[m].destroy = "due")
KillsTheCondemned ==
  [][Operate => \A m \in Machines :
       m \in up \ up' \/ hyper'[m].used < hyper[m].used => Condemned(m)]_vars

\* The buffering hypervisor is open to desktops only while a hypervisor is being
\* created, unless something went wrong: createHypervisors opens it, and closes
\* it where it does not return early.
BufferShut == buffer => op.kind = "create" \/ faults > 0

\* Sentenced and open to desktops again, by a limit lifted after the sentence or
\* by a new registration. It is neither destroyed (bestHyperToDestroy) nor
\* pardoned (set_hyper_deadrow_time refuses), and bestHyperToPardon may choose
\* it for ever.
Astray(m) == hyper[m].destroy # "no" /\ ~ hyper[m].forced
Strayed == <>(\E m \in Machines : Astray(m))

\* Once desktops come and go no more the orchestrator comes to rest: it does not
\* sentence and pardon, limit and unlimit, or create and destroy in turns.
Settles == <>[](op = NoOp /\ sentences = {}) \/ Strayed

\* And then the pool has the memory it is asked to have free, unless there is no
\* machine left to create: NeedToScaleHypervisors tries a pardon, then a limit
\* to lift, and none of the two may stand in the way of the other or of a
\* creation.
Provided ==
  <>[](~ Short(hyper) \/ ToCreate(hyper, listed \ up) = {}) \/ Strayed

=============================================================================
