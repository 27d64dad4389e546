-------------------------- MODULE TaskStreamProofs --------------------------
(***************************************************************************)
(* TaskStream, for any number of consumers, entries, faults and any value  *)
(* of the limits: its types; no result is lost; none is acknowledged that  *)
(* was not dealt with; none is dispatched for ever.                        *)
(***************************************************************************)
EXTENDS TaskStream, FiniteSetTheorems, TLAPS

\* A set of ids, and any part of it, is finite.
LEMMA IdsFinite ==
  ASSUME NEW S \in SUBSET Ids
  PROVE  IsFiniteSet(S) /\ Cardinality(S) \in Nat
<1>1. IsFiniteSet(Ids)
  BY StreamAssumption, FS_Interval DEF Ids
<1>2. IsFiniteSet(S)
  BY <1>1, FS_Subset, Zenon
<1> QED
  BY <1>2, FS_CardinalityType, Zenon

\* Whatever precedes a member of Earliest(S, n) in S is a member too, so an
\* XREADGROUP never moves last-delivered-id past an entry it did not deliver.
LEMMA EarliestIsPrefix ==
  ASSUME NEW S \in SUBSET Ids, NEW n \in Int,
         NEW top \in Earliest(S, n), NEW e \in S, e <= top
  PROVE  e \in Earliest(S, n)
<1> DEFINE Before(y) == {x \in S : x < y}
<1>1. S \subseteq Int /\ top \in S
  BY DEF Ids, Earliest
<1>2. Before(top) \in SUBSET Ids /\ Before(e) \in SUBSET Before(top)
  <2>1. ASSUME NEW x \in S, x < e PROVE x < top
    BY <1>1, <2>1
  <2> QED
    BY <2>1, Zenon
<1>3. IsFiniteSet(Before(top)) /\ Cardinality(Before(top)) \in Nat
  BY <1>2, IdsFinite, Zenon
<1>4. Cardinality(Before(e)) <= Cardinality(Before(top))
  BY <1>2, <1>3, FS_Subset, Zenon
<1>5. Cardinality(Before(e)) \in Nat
  BY <1>2, IdsFinite, Zenon
<1> QED
  BY <1>3, <1>4, <1>5 DEF Earliest

-----------------------------------------------------------------------------
(* Types.                                                                    *)

\* Every variable of the stream, the group and the processes keeps its type.
THEOREM TypeCorrect == Spec => []TypeOK
<1> USE StreamAssumption
<1>1. Init => TypeOK
  BY DEF Init, TypeOK, Ids, Places, Running
<1>2. TypeOK /\ [Next]_vars => TypeOK'
  <2> SUFFICES ASSUME TypeOK, [Next]_vars PROVE TypeOK'
    BY Zenon
  <2> USE DEF redisVars, procVars, histVars, Places, Running, Fault
  <2>1. CASE Publish
    <3>1. published' \in 0..MaxEntries /\ published' = published + 1
      BY <2>1 DEF Publish, TypeOK
    <3>2. stream' \subseteq 1..published' /\ evicted' \subseteq Ids
      <4>1. published \in 0..MaxEntries /\ stream \subseteq 1..published
            /\ evicted \subseteq Ids
        BY Zenon DEF TypeOK
      <4>2. stream' \subseteq stream \union {published + 1}
        BY <2>1, Zenon DEF Publish
      <4>3. evicted' \subseteq evicted \union stream
        BY <2>1, Zenon DEF Publish
      <4> QED
        BY <3>1, <4>1, <4>2, <4>3 DEF Ids
    <3>3. lastDelivered' \in 0..published'
      BY <2>1, <3>1 DEF Publish, TypeOK
    <3> QED
      BY <2>1, <3>1, <3>2, <3>3, Zenon DEF Publish, TypeOK
  <2>2. ASSUME NEW e \in Ids, GrowIdle(e) PROVE TypeOK'
    BY <2>2, Zenon DEF GrowIdle, TypeOK
  <2>3. ASSUME NEW c \in Consumers, ReapDeadConsumers(c) PROVE TypeOK'
    <3>1. Reapable(c) \subseteq Consumers
      BY Zenon DEF Reapable, TypeOK
    <3> QED
      BY <2>3, <3>1, Zenon DEF ReapDeadConsumers, TypeOK
  <2>4. ASSUME NEW c \in Consumers, NEW a \in BOOLEAN, XReadGroup(c, a)
        PROVE TypeOK'
    <3>1. Earliest(Unread, ReadCount) \subseteq stream
      BY Zenon DEF Earliest, Unread
    <3>2. stream \subseteq Ids /\ stream \subseteq 1..published
      BY DEF TypeOK, Ids
    <3> QED
      <4>1. lastDelivered' \in 0..published'
        BY <2>4, <3>1, <3>2 DEF XReadGroup, IsGreatest, TypeOK
      <4>2. /\ owner' \in [Ids -> Consumers \union {NoOne}]
            /\ delivered' \in [Ids -> Nat]
            /\ idle' \subseteq Ids
        BY <2>4 DEF XReadGroup, Deliver, TypeOK
      <4>3. work' \in [Consumers -> SUBSET Ids]
        <5>1. work' = work
              \/ work' = [work EXCEPT ![c] = Earliest(Unread, ReadCount)]
          BY <2>4, Zenon DEF XReadGroup
        <5> QED
          <6>1. work \in [Consumers -> SUBSET Ids]
            BY Zenon DEF TypeOK
          <6>2. CASE work' = work
            BY <6>1, <6>2, Zenon
          <6>3. CASE work' = [work EXCEPT ![c] = Earliest(Unread, ReadCount)]
            BY <6>1, <6>3, <3>1, <3>2, Zenon
          <6> QED
            BY <5>1, <6>2, <6>3, Zenon
      <4>4. pc' \in [Consumers -> Places] /\ faults' \in 0..MaxFaults
        <5>1. pc' = pc \/ pc' = [pc EXCEPT ![c] = "settle"]
          BY <2>4, Zenon DEF XReadGroup
        <5>2. faults' = faults \/ (faults < MaxFaults /\ faults' = faults + 1)
          BY <2>4, Zenon DEF XReadGroup
        <5>3. pc \in [Consumers -> Places] /\ faults \in 0..MaxFaults
          BY Zenon DEF TypeOK
        <5>4. faults' \in 0..MaxFaults
          BY <5>2, <5>3
        <5>5. pc' \in [Consumers -> Places]
          <6>1. CASE pc' = pc
            BY <6>1, <5>3, Zenon
          <6>2. CASE pc' = [pc EXCEPT ![c] = "settle"]
            BY <6>2, <5>3, Zenon
          <6> QED
            BY <5>1, <6>1, <6>2, Zenon
        <5> QED
          BY <5>4, <5>5, Zenon
      <4> QED
        BY <2>4, <4>1, <4>2, <4>3, <4>4, Zenon DEF XReadGroup, TypeOK
  <2>5. ASSUME NEW c \in Consumers, BatchSettled(c) PROVE TypeOK'
    BY <2>5, Zenon DEF BatchSettled, TypeOK
  <2>6. ASSUME NEW c \in Consumers, NEW e \in Ids, ProcessEntry(c, e)
        PROVE TypeOK'
    <3>1. /\ work' \in [Consumers -> SUBSET Ids]
          /\ pc' \in [Consumers -> Places]
      BY <2>6, Zenon DEF ProcessEntry, TypeOK
    <3>2. attempts' \in [Ids -> Nat]
      BY <2>6 DEF ProcessEntry, TypeOK
    <3>3. /\ done' \in [Consumers -> SUBSET Ids]
          /\ handled' \subseteq Ids
      <4>1. done \in [Consumers -> SUBSET Ids] /\ handled \subseteq Ids
        BY Zenon DEF TypeOK
      <4> QED
        BY <2>6, <4>1 DEF ProcessEntry
    <3>4. unreadable' \in [Consumers -> [Ids -> Nat]]
      <4>1. unreadable \in [Consumers -> [Ids -> Nat]]
        BY Zenon DEF TypeOK
      <4>2. \/ unreadable' = unreadable
            \/ unreadable' = [unreadable EXCEPT ![c][e] = 0]
            \/ unreadable' = [unreadable EXCEPT ![c][e] = @]
        BY <2>6, Zenon DEF ProcessEntry
      <4> QED
        BY <4>1, <4>2
    <3> QED
      BY <2>6, <3>1, <3>2, <3>3, <3>4, Zenon DEF ProcessEntry, TypeOK
  <2>7. ASSUME NEW c \in Consumers, NEW e \in Ids, Ack(c, e) PROVE TypeOK'
    BY <2>7, Zenon DEF Ack, TypeOK
  <2>8. ASSUME NEW c \in Consumers, NEW e \in Ids, AckLost(c, e) PROVE TypeOK'
    BY <2>8 DEF AckLost, TypeOK
  <2>9. ASSUME NEW c \in Consumers, NEW a \in BOOLEAN, XAutoClaim(c, a)
        PROVE TypeOK'
    <3> DEFINE claim == Page(c) \intersect stream
    <3>1. Page(c) \subseteq Ids /\ claim \subseteq Ids
      BY Zenon DEF Page, Earliest, Pending
    <3>2. Cardinality(claim) \in Nat
      BY <3>1, IdsFinite, Zenon
    <3>3. Pending \subseteq Ids
      BY Zenon DEF Pending
    <3> HIDE DEF claim
    <3>4. owner' \in [Ids -> Consumers \union {NoOne}]
      BY <2>9, Zenon DEF XAutoClaim, TypeOK
    <3>5. budget' \in [Consumers -> Int]
      BY <2>9, <3>2 DEF XAutoClaim, TypeOK, claim
    <3>6. cursor' \in [Consumers -> 0..MaxEntries]
      <4>1. cursor' = [cursor EXCEPT ![c] = 0]
            \/ \E e \in Pending : cursor' = [cursor EXCEPT ![c] = e]
        BY <2>9, Zenon DEF XAutoClaim, IsLeast
      <4> QED
        <5>1. cursor \in [Consumers -> 0..MaxEntries]
              /\ 0 \in 0..MaxEntries /\ Pending \subseteq 0..MaxEntries
          BY <3>3 DEF TypeOK, Ids
        <5>2. CASE cursor' = [cursor EXCEPT ![c] = 0]
          BY <5>1, <5>2, Zenon
        <5>3. ASSUME NEW e \in Pending, cursor' = [cursor EXCEPT ![c] = e]
              PROVE  cursor' \in [Consumers -> 0..MaxEntries]
          <6>1. e \in 0..MaxEntries
            BY <5>1, Zenon
          <6> QED
            BY <5>1, <5>3, <6>1, Zenon
        <5> QED
          BY <4>1, <5>2, <5>3, Zenon
    <3>7. delivered' \in [Ids -> Nat] /\ idle' \subseteq Ids
      BY <2>9 DEF XAutoClaim, TypeOK
    <3>8. work' \in [Consumers -> SUBSET Ids] /\ seen' \in [Consumers -> SUBSET Ids]
      <4>1. work' = work \/ work' = [work EXCEPT ![c] = claim]
        BY <2>9, Zenon DEF XAutoClaim, claim
      <4>2. seen' = seen \/ seen' = [seen EXCEPT ![c] = @ \union claim]
        BY <2>9, Zenon DEF XAutoClaim, claim
      <4> QED
        <5>1. work \in [Consumers -> SUBSET Ids] /\ seen \in [Consumers -> SUBSET Ids]
          BY Zenon DEF TypeOK
        <5>2. work' \in [Consumers -> SUBSET Ids]
          <6>1. CASE work' = work
            BY <5>1, <6>1, Zenon
          <6>2. CASE work' = [work EXCEPT ![c] = claim]
            BY <5>1, <6>2, <3>1, Zenon
          <6> QED
            BY <4>1, <6>1, <6>2, Zenon
        <5>3. seen' \in [Consumers -> SUBSET Ids]
          <6>1. CASE seen' = seen
            BY <5>1, <6>1, Zenon
          <6>2. CASE seen' = [seen EXCEPT ![c] = @ \union claim]
            BY <5>1, <6>2, <3>1, Zenon
          <6> QED
            BY <4>2, <6>1, <6>2, Zenon
        <5> QED
          BY <5>2, <5>3, Zenon
    <3>9. /\ pc' \in [Consumers -> Places]
          /\ faults' \in 0..MaxFaults /\ settled' \subseteq Ids
      BY <2>9, <3>1 DEF XAutoClaim, TypeOK
    <3> QED
      BY <2>9, <3>4, <3>5, <3>6, <3>7, <3>8, <3>9, Zenon DEF XAutoClaim, TypeOK
  <2>10. ASSUME NEW c \in Consumers, NEW e \in Ids, CheckReadable(c, e)
         PROVE TypeOK'
    <3>1. unreadable' \in [Consumers -> [Ids -> Nat]]
      BY <2>10, Zenon DEF CheckReadable, TypeOK
    <3>2. /\ pc' \in [Consumers -> Places]
          /\ attempts' \in [Ids -> Nat]
      <4>1. \/ pc' = [pc EXCEPT ![c] = "bury"] /\ attempts' = attempts
            \/ pc' = [pc EXCEPT ![c] = "redo"]
               /\ attempts' = [attempts EXCEPT ![e] = @ + 1]
        BY <2>10, Zenon DEF CheckReadable
      <4>2. pc \in [Consumers -> Places] /\ attempts \in [Ids -> Nat]
        BY Zenon DEF TypeOK
      <4> QED
        BY <4>1, <4>2
    <3> QED
      BY <2>10, <3>1, <3>2, Zenon DEF CheckReadable, TypeOK
  <2>11. ASSUME NEW c \in Consumers, NEW e \in Ids, CheckUnreadable(c, e)
         PROVE TypeOK'
    <3>1. unreadable' \in [Consumers -> [Ids -> Nat]]
      <4>1. unreadable \in [Consumers -> [Ids -> Nat]]
        BY Zenon DEF TypeOK
      <4>2. \/ unreadable' = [unreadable EXCEPT ![c][e] = 0]
            \/ unreadable' = [unreadable EXCEPT ![c][e] = unreadable[c][e] + 1]
        BY <2>11, Zenon DEF CheckUnreadable
      <4> QED
        BY <4>1, <4>2
    <3>2. pc' \in [Consumers -> Places] /\ faults' \in 0..MaxFaults
      <4>1. pc' = [pc EXCEPT ![c] = "bury"] \/ pc' = [pc EXCEPT ![c] = "redo"]
        BY <2>11, Zenon DEF CheckUnreadable
      <4>2. faults < MaxFaults /\ faults' = faults + 1
        BY <2>11, Zenon DEF CheckUnreadable
      <4> QED
        <5>1. pc \in [Consumers -> Places] /\ faults \in 0..MaxFaults
          BY Zenon DEF TypeOK
        <5>2. CASE pc' = [pc EXCEPT ![c] = "bury"]
          BY <5>1, <5>2, <4>2
        <5>3. CASE pc' = [pc EXCEPT ![c] = "redo"]
          BY <5>1, <5>3, <4>2
        <5> QED
          BY <4>1, <5>2, <5>3, Zenon
    <3> QED
      BY <2>11, <3>1, <3>2, Zenon DEF CheckUnreadable, TypeOK
  <2>12. ASSUME NEW c \in Consumers, NEW e \in Ids, DeadLetter(c, e)
         PROVE TypeOK'
    BY <2>12, Zenon DEF DeadLetter, TypeOK
  <2>13. ASSUME NEW c \in Consumers, NEW e \in Ids, DeadLetterLost(c, e)
         PROVE TypeOK'
    <3>1. faults' \in 0..MaxFaults
      BY <2>13 DEF DeadLetterLost, TypeOK
    <3>2. dead' \subseteq Ids
      BY <2>13, Zenon DEF DeadLetterLost, TypeOK
    <3> QED
      BY <2>13, <3>1, <3>2, Zenon DEF DeadLetterLost, TypeOK
  <2>14. ASSUME NEW c \in Consumers, NextPage(c) \/ GoSilent(c) PROVE TypeOK'
    BY <2>14, Zenon DEF NextPage, GoSilent, TypeOK
  <2>22. ASSUME NEW c \in Consumers, StartReclaim(c) PROVE TypeOK'
    BY <2>22 DEF StartReclaim, TypeOK
  <2>15. ASSUME NEW c \in Consumers, EndReclaim(c) PROVE TypeOK'
    BY <2>15 DEF EndReclaim, TypeOK
  <2>16. ASSUME NEW c \in Consumers, NEW d \in Consumers, DelConsumer(c, d)
         PROVE  TypeOK'
    BY <2>16, Zenon DEF DelConsumer, TypeOK
  <2>23. ASSUME NEW c \in Consumers, Loop(c), faults' \in 0..MaxFaults
         PROVE  TypeOK'
    BY <2>23, Zenon DEF Loop, TypeOK
  <2>24. ASSUME NEW c \in Consumers, Reaped(c) \/ ReapLost(c) PROVE TypeOK'
    <3>1. faults' \in 0..MaxFaults
      BY <2>24 DEF Reaped, ReapLost, TypeOK
    <3> QED
      BY <2>23, <2>24, <3>1, Zenon DEF Reaped, ReapLost
  <2>17. ASSUME NEW c \in Consumers, Crash(c) PROVE TypeOK'
    BY <2>17 DEF Crash, TypeOK
  <2>18. ASSUME NEW c \in Consumers, ReadFrontier(c) PROVE TypeOK'
    BY <2>18 DEF ReadFrontier, TypeOK
  <2>19. ASSUME NEW c \in Consumers, ReadPending(c) PROVE TypeOK'
    BY <2>19 DEF ReadPending, ComputeTrimFloor, TypeOK
  <2>20. ASSUME NEW c \in Consumers, XTrim(c) PROVE TypeOK'
    <3>1. stream' \subseteq stream
      BY <2>20, Zenon DEF XTrim
    <3>2. /\ floor' \in [Consumers -> 0..MaxEntries]
          /\ pc' \in [Consumers -> Places]
      BY <2>20 DEF XTrim, TypeOK
    <3> QED
      BY <2>20, <3>1, <3>2, Zenon DEF XTrim, TypeOK
  <2>21. CASE UNCHANGED vars
    BY <2>21, Zenon DEF vars, TypeOK
  <2> QED
    BY <2>1, <2>2, <2>3, <2>4, <2>5, <2>6, <2>7, <2>8, <2>9, <2>10, <2>11,
       <2>12, <2>13, <2>14, <2>15, <2>16, <2>17, <2>18, <2>19, <2>20, <2>21,
       <2>22, <2>24, Zenon DEF Next, Work, Reap, Sweep, Faulty, Read, ReadLost,
       Claim, ClaimLost
<1> QED
  BY <1>1, <1>2, PTL DEF Spec


-----------------------------------------------------------------------------
(* The corpses: between the list and its DELCONSUMERs nothing goes to them.  *)

\* What a process lists for removal is dead, and nothing is pending for it. A
\* process that died acknowledges nothing.
Corpses ==
  /\ \A c \in Consumers : \A d \in doomed[c] :
       pc[d] = "silent" /\ \A e \in Ids : owner[e] # d
  /\ \A c \in Consumers : pc[c] \in {"crashed", "silent"} => done[c] = {}

Reaping(c) == Reap(c) \/ ReapLost(c)

\* What _reap_dead_consumers leaves alone.
LEMMA ReapFrame ==
  ASSUME TypeOK, NEW c \in Consumers, Reaping(c)
  PROVE  /\ UNCHANGED <<published, stream, lastDelivered, delivered, idle, dead,
                        work, done, unreadable, floor, settled, handled, attempts,
                        evicted>>
         /\ pc[c] \in {"down", "reap", "drop"}
         /\ \E p \in {"drop", "loop"} : pc' = [pc EXCEPT ![c] = p]
<1>1. CASE ReapDeadConsumers(c)
  BY <1>1, Zenon DEF ReapDeadConsumers, redisVars, histVars
<1>2. CASE Reaped(c) \/ ReapLost(c)
  BY <1>2, Zenon DEF Reaped, ReapLost, Loop
<1>3. CASE \E d \in Consumers : DelConsumer(c, d)
  <2>1. pc' = pc /\ pc[c] = "drop"
    BY <1>3, Zenon DEF DelConsumer
  <2>2. pc' = [pc EXCEPT ![c] = "drop"]
    BY <2>1, Zenon DEF TypeOK
  <2> QED
    BY <1>3, <2>1, <2>2, Zenon DEF DelConsumer, histVars
<1> QED
  BY <1>1, <1>2, <1>3, Zenon DEF Reaping, Reap

\* A consumer that is dropped has nothing pending.
LEMMA ReapKeepsPending ==
  ASSUME TypeOK, Corpses, NEW c \in Consumers, Reaping(c)
  PROVE  owner' = owner
<1>1. CASE ReapDeadConsumers(c)
  BY <1>1, Zenon DEF ReapDeadConsumers, redisVars
<1>2. CASE Reaped(c) \/ ReapLost(c)
  BY <1>2, Zenon DEF Reaped, ReapLost, Loop
<1>3. ASSUME NEW d \in Consumers, DelConsumer(c, d) PROVE owner' = owner
  <2>1. \A e \in Ids : owner[e] # d
    BY <1>3, Zenon DEF DelConsumer, Corpses
  <2> QED
    BY <1>3, <2>1, Zenon DEF DelConsumer, TypeOK
<1> QED
  BY <1>1, <1>2, <1>3, Zenon DEF Reaping, Reap

\* The dead stay dead, and a step gives entries to the one that takes it.
LEMMA CorpsesFrame ==
  ASSUME TypeOK, TypeOK', Corpses, NEW c \in Consumers, pc[c] # "silent",
         \A d \in Consumers \ {c} : pc'[d] = pc[d] /\ done'[d] = done[d],
         pc'[c] \in {"crashed", "silent"} => done'[c] = {},
         \A e \in Ids : owner'[e] = owner[e] \/ owner'[e] = c \/ owner'[e] = NoOne,
         \A b \in Consumers : doomed'[b] \subseteq doomed[b]
  PROVE  Corpses'
<1>1. ASSUME NEW b \in Consumers, NEW d \in doomed'[b]
      PROVE  pc'[d] = "silent" /\ \A e \in Ids : owner'[e] # d
  <2>1. d \in doomed[b] /\ d \in Consumers
    BY Zenon DEF TypeOK
  <2>2. pc[d] = "silent" /\ \A e \in Ids : owner[e] # d
    BY <2>1, Zenon DEF Corpses
  <2>3. d # c /\ d # NoOne
    BY <2>1, <2>2, StreamAssumption, Zenon
  <2> QED
    BY <2>1, <2>2, <2>3, Zenon
<1>2. ASSUME NEW d \in Consumers, pc'[d] \in {"crashed", "silent"}
      PROVE  done'[d] = {}
  BY <1>2, Zenon DEF Corpses
<1> QED
  BY <1>1, <1>2, Zenon DEF Corpses

\* The steps that hand out entries, and the XACK.
LEMMA CorpsesPel ==
  ASSUME TypeOK, TypeOK', Corpses, NEW c \in Consumers,
         \/ \E a \in BOOLEAN : XReadGroup(c, a) \/ XAutoClaim(c, a)
         \/ \E e \in Ids : Ack(c, e)
  PROVE  Corpses'
<1>1. /\ pc \in [Consumers -> Places] /\ owner \in [Ids -> Consumers \union {NoOne}]
      /\ done \in [Consumers -> SUBSET Ids]
  BY Zenon DEF TypeOK
<1>2. ASSUME NEW a \in BOOLEAN, XReadGroup(c, a) PROVE Corpses'
  <2>1. /\ pc[c] = "loop" /\ doomed' = doomed /\ done' = done
        /\ pc' = pc \/ pc' = [pc EXCEPT ![c] = "settle"]
        /\ owner' = [e \in Ids |-> IF e \in Earliest(Unread, ReadCount) THEN c
                                                                    ELSE owner[e]]
    BY <1>2, Zenon DEF XReadGroup, Deliver
  <2>2. \A e \in Ids : owner'[e] = owner[e] \/ owner'[e] = c
    BY <2>1, Zenon
  <2>3. /\ \A d \in Consumers \ {c} : pc'[d] = pc[d]
        /\ pc'[c] \in {"loop", "settle"}
    BY <1>1, <2>1, Zenon
  <2> QED
    BY <2>1, <2>2, <2>3, CorpsesFrame, Zenon
<1>3. ASSUME NEW a \in BOOLEAN, XAutoClaim(c, a) PROVE Corpses'
  <2>1. /\ pc[c] = "claim" /\ doomed' = doomed /\ done' = done
        /\ pc' = [pc EXCEPT ![c] = "check"]
        /\ \A e \in Ids : owner'[e] = owner[e] \/ owner'[e] = c \/ owner'[e] = NoOne
    BY <1>3, Zenon DEF XAutoClaim
  <2>2. pc'[c] = "check" /\ \A d \in Consumers \ {c} : pc'[d] = pc[d]
    BY <1>1, <2>1, Zenon
  <2> QED
    BY <2>1, <2>2, CorpsesFrame, Zenon
<1>4. ASSUME NEW e \in Ids, Ack(c, e) PROVE Corpses'
  <2>1. /\ e \in done[c] /\ pc' = pc /\ doomed' = doomed
        /\ done' = [done EXCEPT ![c] = @ \ {e}]
        /\ owner' = [owner EXCEPT ![e] = NoOne]
    BY <1>4, Zenon DEF Ack
  <2>2. pc[c] \notin {"crashed", "silent"}
    BY <2>1, Zenon DEF Corpses
  <2>3. /\ \A x \in Ids : owner'[x] = owner[x] \/ owner'[x] = NoOne
        /\ \A d \in Consumers \ {c} : done'[d] = done[d]
    BY <1>1, <2>1, Zenon
  <2> QED
    BY <2>1, <2>2, <2>3, CorpsesFrame, Zenon
<1> QED
  BY <1>2, <1>3, <1>4, Zenon

\* A step that leaves the PEL alone, to a place in the loop.
LEMMA CorpsesMove ==
  ASSUME TypeOK, TypeOK', Corpses, NEW c \in Consumers, NEW q \in Running,
         pc[c] # "silent", pc' = pc \/ pc' = [pc EXCEPT ![c] = q],
         owner' = owner, doomed' = doomed, NEW S,
         done' = done \/ done' = [done EXCEPT ![c] = S],
         pc[c] \notin {"crashed", "silent"}
  PROVE  Corpses'
<1>1. pc \in [Consumers -> Places] /\ done \in [Consumers -> SUBSET Ids]
  BY Zenon DEF TypeOK
<1>2. /\ \A d \in Consumers \ {c} : pc'[d] = pc[d] /\ done'[d] = done[d]
      /\ pc'[c] = pc[c] \/ pc'[c] = q
  BY <1>1, Zenon
<1>3. q \notin {"crashed", "silent"}
  BY Zenon DEF Running
<1> QED
  BY <1>2, <1>3, CorpsesFrame, Zenon

\* The list holds what it was asked for, and a crash forgets it.
LEMMA CorpsesReap ==
  ASSUME TypeOK, TypeOK', Corpses, NEW c \in Consumers,
         Reaping(c) \/ Crash(c) \/ GoSilent(c)
  PROVE  Corpses'
<1>1. /\ pc \in [Consumers -> Places] /\ doomed \in [Consumers -> SUBSET Consumers]
      /\ done \in [Consumers -> SUBSET Ids]
  BY Zenon DEF TypeOK
<1>2. CASE ReapDeadConsumers(c)
  <2>1. /\ doomed' = [doomed EXCEPT ![c] = Reapable(c)] /\ owner' = owner
        /\ pc' = [pc EXCEPT ![c] = "drop"] /\ pc[c] \in {"down", "reap"}
        /\ done' = done
    BY <1>2, Zenon DEF ReapDeadConsumers, redisVars
  <2>2. \A d \in Reapable(c) :
          d \in Consumers /\ pc[d] = "silent" /\ \A e \in Ids : owner[e] # d
    BY Zenon DEF Reapable, TypeOK
  <2>3. /\ pc'[c] = "drop" /\ doomed'[c] = Reapable(c)
        /\ \A d \in Consumers \ {c} : pc'[d] = pc[d] /\ doomed'[d] = doomed[d]
    BY <1>1, <2>1, Zenon
  <2>4. ASSUME NEW b \in Consumers, NEW d \in doomed'[b]
        PROVE  pc'[d] = "silent" /\ \A e \in Ids : owner'[e] # d
    <3>1. d \in Consumers /\ pc[d] = "silent" /\ \A e \in Ids : owner[e] # d
      <4>1. CASE b = c
        BY <2>2, <2>3, <4>1, Zenon
      <4>2. CASE b # c
        <5>1. d \in doomed[b] /\ d \in Consumers
          BY <1>1, <2>3, <4>2, Zenon
        <5> QED
          BY <5>1, Zenon DEF Corpses
      <4> QED
        BY <4>1, <4>2, Zenon
    <3>2. d # c
      BY <2>1, <3>1, Zenon
    <3> QED
      BY <2>1, <2>3, <3>1, <3>2, Zenon
  <2>5. \A d \in Consumers : pc'[d] \in {"crashed", "silent"} => done'[d] = {}
    BY <2>1, <2>3, Zenon DEF Corpses
  <2> QED
    BY <2>4, <2>5, Zenon DEF Corpses
<1>3. CASE Reaped(c) \/ ReapLost(c)
  <2>1. /\ doomed' = [doomed EXCEPT ![c] = {}] /\ owner' = owner /\ done' = done
        /\ pc' = [pc EXCEPT ![c] = "loop"] /\ pc[c] \in {"down", "reap", "drop"}
    BY <1>3, Zenon DEF Reaped, ReapLost, Loop
  <2>2. /\ pc'[c] = "loop" /\ \A d \in Consumers \ {c} : pc'[d] = pc[d]
        /\ \A b \in Consumers : doomed'[b] \subseteq doomed[b]
    BY <1>1, <2>1, Zenon
  <2> QED
    BY <2>1, <2>2, CorpsesFrame, Zenon
<1>4. ASSUME NEW d \in Consumers, DelConsumer(c, d) PROVE Corpses'
  <2>1. /\ doomed' = [doomed EXCEPT ![c] = @ \ {d}] /\ pc' = pc /\ done' = done
        /\ pc[c] = "drop"
    BY <1>4, Zenon DEF DelConsumer
  <2>2. owner' = owner
    BY <1>4, ReapKeepsPending, Zenon DEF Reaping, Reap
  <2>3. \A b \in Consumers : doomed'[b] \subseteq doomed[b]
    BY <1>1, <2>1, Zenon
  <2> QED
    BY <2>1, <2>2, <2>3, CorpsesFrame, Zenon
<1>5. CASE Crash(c)
  <2>1. /\ doomed' = [doomed EXCEPT ![c] = {}] /\ owner' = owner
        /\ done' = [done EXCEPT ![c] = {}]
        /\ pc' = [pc EXCEPT ![c] = "crashed"] /\ pc[c] \in Running
    BY <1>5, Zenon DEF Crash, redisVars
  <2>2. /\ done'[c] = {} /\ pc[c] # "silent"
        /\ \A d \in Consumers \ {c} : pc'[d] = pc[d] /\ done'[d] = done[d]
        /\ \A b \in Consumers : doomed'[b] \subseteq doomed[b]
    BY <1>1, <2>1, Zenon DEF Running
  <2> QED
    BY <2>1, <2>2, CorpsesFrame, Zenon
<1>6. CASE GoSilent(c)
  <2>1. /\ doomed' = doomed /\ owner' = owner /\ done' = done
        /\ pc' = [pc EXCEPT ![c] = "silent"] /\ pc[c] = "crashed"
    BY <1>6, Zenon DEF GoSilent, redisVars
  <2>2. done[c] = {} /\ \A d \in Consumers \ {c} : pc'[d] = pc[d]
    BY <1>1, <2>1, Zenon DEF Corpses
  <2> QED
    BY <2>1, <2>2, CorpsesFrame, Zenon
<1> QED
  BY <1>2, <1>3, <1>4, <1>5, <1>6, Zenon DEF Reaping, Reap

\* The invariant holds throughout.
LEMMA CorpsesAlways == Spec => []Corpses
<1>1. Init => Corpses
  BY Zenon DEF Init, Corpses
<1>2. TypeOK /\ TypeOK' /\ Corpses /\ [Next]_vars => Corpses'
  <2> SUFFICES ASSUME TypeOK, TypeOK', Corpses, [Next]_vars PROVE Corpses'
    BY Zenon
  <2>1. ASSUME UNCHANGED <<pc, owner, doomed, done>> PROVE Corpses'
    BY <2>1, Zenon DEF Corpses
  <2>2. CASE Publish \/ UNCHANGED vars
    BY <2>1, <2>2, Zenon DEF Publish, vars, procVars, redisVars
  <2>3. ASSUME NEW e \in Ids, GrowIdle(e) PROVE Corpses'
    BY <2>1, <2>3, Zenon DEF GrowIdle, procVars
  <2>4. ASSUME NEW c \in Consumers,
               \/ BatchSettled(c) \/ StartReclaim(c) \/ NextPage(c) \/ EndReclaim(c)
               \/ ReadFrontier(c) \/ ReadPending(c) \/ XTrim(c)
        PROVE  Corpses'
    <3>1. /\ pc[c] \notin {"crashed", "silent"}
          /\ UNCHANGED <<owner, doomed, done>>
      BY <2>4, Zenon DEF BatchSettled, StartReclaim, NextPage, EndReclaim,
         PageSettled, ReadFrontier, ReadPending, XTrim, redisVars
    <3>2. \E q \in Running : pc' = [pc EXCEPT ![c] = q]
      BY <2>4, Zenon DEF BatchSettled, StartReclaim, NextPage, EndReclaim,
         ReadFrontier, ReadPending, XTrim, Running
    <3> QED
      BY <3>1, <3>2, CorpsesMove, Zenon
  <2>5. ASSUME NEW c \in Consumers, NEW e \in Ids,
               \/ CheckReadable(c, e) \/ CheckUnreadable(c, e)
               \/ DeadLetter(c, e) \/ DeadLetterLost(c, e)
        PROVE  Corpses'
    <3>1. /\ pc[c] \notin {"crashed", "silent"} /\ UNCHANGED <<owner, doomed>>
          /\ done' = done \/ done' = [done EXCEPT ![c] = done[c] \union {e}]
      BY <2>5, Zenon DEF CheckReadable, CheckUnreadable, DeadLetter,
         DeadLetterLost, redisVars
    <3>2. \E q \in Running : pc' = [pc EXCEPT ![c] = q]
      BY <2>5, Zenon DEF CheckReadable, CheckUnreadable, DeadLetter,
         DeadLetterLost, Running
    <3> QED
      BY <3>1, <3>2, CorpsesMove, Zenon
  <2>6. ASSUME NEW c \in Consumers, NEW e \in Ids, ProcessEntry(c, e)
        PROVE  Corpses'
    <3>1. /\ pc[c] \in {"settle", "redo"} /\ UNCHANGED <<owner, doomed>>
          /\ done' = done \/ done' = [done EXCEPT ![c] = done[c] \union {e}]
          /\ pc' = [pc EXCEPT ![c] = IF pc[c] = "redo" THEN "check" ELSE pc[c]]
      BY <2>6, Zenon DEF ProcessEntry, redisVars
    <3>2. \E q \in Running : pc' = [pc EXCEPT ![c] = q]
      BY <3>1, Zenon DEF Running
    <3> QED
      BY <3>1, <3>2, CorpsesMove, Zenon
  <2>7. ASSUME NEW c \in Consumers, NEW e \in Ids, AckLost(c, e) PROVE Corpses'
    <3>1. /\ e \in done[c] /\ UNCHANGED <<pc, owner, doomed>>
          /\ done' = [done EXCEPT ![c] = done[c] \ {e}]
      BY <2>7, Zenon DEF AckLost, redisVars
    <3>2. pc[c] \notin {"crashed", "silent"} /\ "loop" \in Running
      BY <3>1, Zenon DEF Corpses, Running
    <3> QED
      BY <3>1, <3>2, CorpsesMove, Zenon
  <2> QED
    BY <2>2, <2>3, <2>4, <2>5, <2>6, <2>7, CorpsesPel, CorpsesReap, Zenon
    DEF Next, Work, Reap, Sweep, Faulty, Reaping, Read, ReadLost, Claim, ClaimLost
<1> QED
  BY <1>1, <1>2, TypeCorrect, PTL DEF Spec

-----------------------------------------------------------------------------
(* Nothing is lost: NothingLost with TrimSafe is inductive.                  *)

Safe == NothingLost /\ TrimSafe

\* The steps of a trim, for as long as it runs.
Trimming(c) == pc[c] \in {"trim", "xtrim"}

\* A trim in progress stays safe while the others only read, acknowledge,
\* publish or drop: what it remembers stays true.
LEMMA TrimsKept ==
  ASSUME TypeOK, TypeOK', TrimSafe,
         lastDelivered <= lastDelivered',
         published <= published',
         settled \union evicted \subseteq settled' \union evicted',
         \A c \in Consumers : Trimming(c)' => pc'[c] = pc[c] /\ floor'[c] = floor[c],
         \A e \in Pending' : e <= lastDelivered'
  PROVE  TrimSafe'
<1>1. /\ lastDelivered \in Nat /\ lastDelivered' \in Nat
      /\ published \in Nat /\ published' \in Nat /\ lastDelivered <= published
  BY StreamAssumption DEF TypeOK
<1>2. ASSUME NEW c \in Consumers
      PROVE  floor[c] \in Nat /\ floor'[c] \in Nat
  BY StreamAssumption DEF TypeOK
<1>3. ASSUME NEW c \in Consumers, Trimming(c)'
      PROVE  floor'[c] <= lastDelivered'
  BY <1>1, <1>2, <1>3 DEF TrimSafe, Trimming
<1>4. ASSUME NEW c \in Consumers, pc'[c] = "xtrim",
             NEW e \in 1..published', e < floor'[c]
      PROVE  e \in settled' \union evicted'
  <2>1. pc[c] = "xtrim" /\ floor'[c] = floor[c] /\ floor[c] <= lastDelivered
    BY <1>4, Zenon DEF TrimSafe, Trimming
  <2>2. e \in 1..published
    BY <1>1, <1>2, <1>4, <2>1
  <2> QED
    BY <1>4, <2>1, <2>2, Zenon DEF TrimSafe
<1> QED
  BY <1>3, <1>4, Zenon DEF TrimSafe, Trimming

\* Steps that leave the stream, the PEL and the acknowledgements alone.
LEMMA SafeFrame ==
  ASSUME TypeOK, TypeOK', Safe,
         UNCHANGED <<published, stream, lastDelivered, owner, settled, evicted>>,
         \A c \in Consumers : Trimming(c)' => pc'[c] = pc[c] /\ floor'[c] = floor[c]
  PROVE  Safe'
<1>1. Pending' = Pending
  BY Zenon DEF Pending
<1>2. NothingLost'
  BY <1>1, Zenon DEF Safe, NothingLost
<1>3. lastDelivered <= lastDelivered' /\ published <= published'
  BY StreamAssumption DEF TypeOK
<1>4. \A e \in Pending' : e <= lastDelivered'
  BY <1>1, Zenon DEF Safe, TrimSafe
<1>5. TrimSafe'
  BY <1>3, <1>4, TrimsKept, Zenon DEF Safe
<1> QED
  BY <1>2, <1>5, Zenon DEF Safe

\* XADD: the new entry is unread, and what the MAXLEN cuts off is recorded.
LEMMA SafePublish ==
  ASSUME TypeOK, TypeOK', Safe, Publish
  PROVE  Safe'
<1>1. /\ published \in Nat /\ published' = published + 1
      /\ lastDelivered' = lastDelivered /\ lastDelivered \in 0..published
      /\ owner' = owner /\ settled' = settled /\ pc' = pc /\ floor' = floor
  BY StreamAssumption DEF Publish, TypeOK, procVars
<1>2. /\ published' \in stream'
      /\ \A e \in stream : e \in stream' \union evicted' \union settled
      /\ evicted \subseteq evicted'
  <2>1. PICK cut \in 0..published :
          /\ stream' = {e \in stream : e > cut} \union {published + 1}
          /\ evicted' = evicted \union ({e \in stream : e <= cut} \ settled)
    BY Zenon DEF Publish
  <2>2. \A e \in stream : e \in Int
    BY <1>1 DEF TypeOK
  <2>3. \A e \in stream : e > cut \/ e <= cut
    BY <1>1, <2>2
  <2> QED
    BY <1>1, <2>1, <2>3, Zenon
<1>3. Pending' = Pending
  BY <1>1, Zenon DEF Pending
<1>4. NothingLost'
  <2> SUFFICES ASSUME NEW e \in 1..published'
               PROVE  \/ e \in settled' \union evicted'
                      \/ e \in stream' /\ (e > lastDelivered' \/ e \in Pending')
    BY Zenon DEF NothingLost
  <2>1. CASE e = published'
    BY <1>1, <1>2, <2>1
  <2>2. CASE e \in 1..published
    <3>1. \/ e \in settled \union evicted
          \/ e \in stream /\ (e > lastDelivered \/ e \in Pending)
      BY <2>2, Zenon DEF Safe, NothingLost
    <3> QED
      BY <1>1, <1>2, <1>3, <3>1, Zenon
  <2> QED
    BY <1>1, <2>1, <2>2
<1>5. /\ settled \union evicted \subseteq settled' \union evicted'
      /\ lastDelivered <= lastDelivered' /\ published <= published'
      /\ \A e \in Pending' : e <= lastDelivered'
  BY <1>1, <1>2, <1>3 DEF Safe, TrimSafe
<1>6. TrimSafe'
  BY <1>1, <1>5, TrimsKept, Zenon DEF Safe
<1> QED
  BY <1>4, <1>6, Zenon DEF Safe

\* XREADGROUP, answered or not: every unread entry up to the new
\* last-delivered-id is in the batch, and so becomes pending.
LEMMA SafeRead ==
  ASSUME TypeOK, TypeOK', Safe, NEW c \in Consumers, NEW a \in BOOLEAN,
         XReadGroup(c, a)
  PROVE  Safe'
<1> DEFINE batch == Earliest(Unread, ReadCount)
<1>1. /\ UNCHANGED <<published, stream, settled, evicted, floor>>
      /\ owner' = [e \in Ids |-> IF e \in batch THEN c ELSE owner[e]]
  BY Zenon DEF XReadGroup, Deliver
<1>2. PICK top \in batch : lastDelivered' = top /\ \A x \in batch : x <= top
  BY Zenon DEF XReadGroup, IsGreatest
<1>3. /\ stream \subseteq Ids /\ Unread \in SUBSET Ids /\ batch \subseteq Unread
      /\ lastDelivered \in Nat /\ lastDelivered < top /\ top \in Nat
      /\ ReadCount \in Int /\ published \in Nat /\ 1..published \subseteq Ids
  <2>1. /\ published \in Nat /\ lastDelivered \in Nat /\ ReadCount \in Int
        /\ 1..published \subseteq Ids /\ stream \subseteq 1..published
    BY StreamAssumption DEF TypeOK, Ids
  <2>2. Unread \subseteq stream /\ \A e \in Unread : e > lastDelivered
    BY Zenon DEF Unread
  <2>3. batch \subseteq Unread
    BY Zenon DEF Earliest
  <2>4. top \in 1..published /\ top > lastDelivered
    BY <1>2, <2>1, <2>2, <2>3, Zenon
  <2> HIDE DEF batch
  <2> QED
    BY <2>1, <2>2, <2>3, <2>4
<1>4. \A e \in Unread : e <= top => e \in batch
  BY <1>2, <1>3, EarliestIsPrefix, Zenon
<1>5. c # NoOne
  BY StreamAssumption, Zenon
<1> HIDE DEF batch
<1>6. Pending' = Pending \union batch
  BY <1>1, <1>3, <1>5, Zenon DEF Pending
<1>7. NothingLost'
  <2> SUFFICES ASSUME NEW e \in 1..published
               PROVE  \/ e \in settled \union evicted
                      \/ e \in stream /\ (e > top \/ e \in Pending')
    BY <1>1, <1>2, Zenon DEF NothingLost
  <2>1. \/ e \in settled \union evicted
        \/ e \in stream /\ (e \in Unread \/ e \in Pending)
    BY Zenon DEF Safe, NothingLost, Unread
  <2>2. e \in Nat
    OBVIOUS
  <2> QED
    BY <1>3, <1>4, <1>6, <2>1, <2>2
<1>8. \A e \in Pending' : e <= lastDelivered'
  <2>1. \A e \in Pending : e \in Nat /\ e <= lastDelivered
    BY DEF Safe, TrimSafe, Pending, Ids
  <2>2. \A e \in Pending : e <= top
    BY <1>3, <2>1
  <2> QED
    BY <1>2, <1>6, <2>2, Zenon
<1>9. \A d \in Consumers : Trimming(d)' => pc'[d] = pc[d] /\ floor'[d] = floor[d]
  <2>1. pc' = pc \/ pc' = [pc EXCEPT ![c] = "settle"]
    BY Zenon DEF XReadGroup
  <2>2. pc \in [Consumers -> Places]
    BY Zenon DEF TypeOK
  <2>3. CASE pc' = pc
    BY <1>1, <2>3, Zenon
  <2>4. CASE pc' = [pc EXCEPT ![c] = "settle"]
    BY <1>1, <2>2, <2>4, Zenon DEF Trimming
  <2> QED
    BY <2>1, <2>3, <2>4, Zenon
<1>10. TrimSafe'
  <2>1. lastDelivered <= lastDelivered' /\ published <= published'
    BY <1>1, <1>2, <1>3
  <2> QED
    BY <1>1, <1>8, <1>9, <2>1, TrimsKept, Zenon DEF Safe
<1> QED
  BY <1>7, <1>10, Zenon DEF Safe

\* XACK and XAUTOCLAIM: an entry leaves the PEL only into settled.
LEMMA SafePel ==
  ASSUME TypeOK, TypeOK', Safe,
         UNCHANGED <<published, stream, lastDelivered, evicted>>,
         settled \subseteq settled',
         Pending' \subseteq Pending, Pending \subseteq Pending' \union settled',
         \A c \in Consumers : Trimming(c)' => pc'[c] = pc[c] /\ floor'[c] = floor[c]
  PROVE  Safe'
<1>1. NothingLost'
  BY Zenon DEF Safe, NothingLost
<1>2. lastDelivered <= lastDelivered' /\ published <= published'
  BY StreamAssumption DEF TypeOK
<1>3. \A e \in Pending' : e <= lastDelivered'
  BY Zenon DEF Safe, TrimSafe
<1>4. TrimSafe'
  BY <1>2, <1>3, TrimsKept, Zenon DEF Safe
<1> QED
  BY <1>1, <1>4, Zenon DEF Safe

LEMMA SafeAck ==
  ASSUME TypeOK, TypeOK', Safe, NEW c \in Consumers, NEW e \in Ids, Ack(c, e)
  PROVE  Safe'
<1>1. /\ UNCHANGED <<published, stream, lastDelivered, evicted, pc, floor>>
      /\ settled' = settled \union {e} /\ owner' = [owner EXCEPT ![e] = NoOne]
  BY Zenon DEF Ack
<1>2. owner \in [Ids -> Consumers \union {NoOne}]
  BY Zenon DEF TypeOK
<1>3. Pending' = Pending \ {e}
  BY <1>1, <1>2, Zenon DEF Pending
<1> QED
  BY <1>1, <1>3, SafePel, Zenon

LEMMA SafeClaim ==
  ASSUME TypeOK, TypeOK', Safe, NEW c \in Consumers, NEW a \in BOOLEAN,
         XAutoClaim(c, a)
  PROVE  Safe'
<1> DEFINE claim == Page(c) \intersect stream
<1>1. /\ UNCHANGED <<published, stream, lastDelivered, evicted, floor>>
      /\ owner' = [e \in Ids |-> IF e \in claim THEN c
                                 ELSE IF e \in Page(c) THEN NoOne ELSE owner[e]]
      /\ settled' = settled \union (Page(c) \ claim)
      /\ pc' = [pc EXCEPT ![c] = "check"]
  BY Zenon DEF XAutoClaim
<1>2. Page(c) \subseteq Pending
  BY Zenon DEF Page, Earliest
<1>3. c # NoOne
  BY StreamAssumption, Zenon
<1>4. Pending' \subseteq Pending /\ Pending \subseteq Pending' \union settled'
  BY <1>1, <1>2, <1>3, Zenon DEF Pending
<1>5. \A d \in Consumers : Trimming(d)' => pc'[d] = pc[d] /\ floor'[d] = floor[d]
  BY <1>1, Zenon DEF TypeOK, Trimming
<1> QED
  BY <1>1, <1>4, <1>5, SafePel, Zenon

\* The trim's first read: the frontier of this moment.
LEMMA SafeFrontier ==
  ASSUME TypeOK, TypeOK', Safe, NEW c \in Consumers, ReadFrontier(c)
  PROVE  Safe'
<1>1. /\ UNCHANGED <<published, stream, lastDelivered, owner, settled, evicted>>
      /\ pc' = [pc EXCEPT ![c] = "trim"]
      /\ floor' = [floor EXCEPT ![c] = lastDelivered]
  BY Zenon DEF ReadFrontier, redisVars, histVars
<1>2. Pending' = Pending
  BY <1>1, Zenon DEF Pending
<1>3. NothingLost'
  BY <1>1, <1>2, Zenon DEF Safe, NothingLost
<1>4. /\ pc \in [Consumers -> Places] /\ floor \in [Consumers -> 0..MaxEntries]
      /\ lastDelivered \in Nat
  BY StreamAssumption DEF TypeOK
<1>5. ASSUME NEW d \in Consumers, d # c
      PROVE  pc'[d] = pc[d] /\ floor'[d] = floor[d]
  BY <1>1, <1>4, <1>5, Zenon
<1>6. pc'[c] = "trim" /\ floor'[c] = lastDelivered
  BY <1>1, <1>4, Zenon
<1>7. TrimSafe'
  BY <1>1, <1>2, <1>4, <1>5, <1>6 DEF Safe, TrimSafe
<1> QED
  BY <1>3, <1>7, Zenon DEF Safe

\* The trim's second read. The frontier was read before the oldest pending
\* entry, so an entry below both is neither unread nor pending.
LEMMA SafeFloor ==
  ASSUME TypeOK, TypeOK', Safe, NEW c \in Consumers, ReadPending(c)
  PROVE  Safe'
<1>1. /\ UNCHANGED <<published, stream, lastDelivered, owner, settled, evicted>>
      /\ pc' = [pc EXCEPT ![c] = "xtrim"] /\ pc[c] = "trim"
  BY Zenon DEF ReadPending, redisVars, histVars
<1>2. PICK mp \in 0..MaxEntries :
        /\ IsLeast(mp, Pending) \/ (Pending = {} /\ mp = 0)
        /\ floor' = [floor EXCEPT ![c] = ComputeTrimFloor(@, mp)]
  BY Zenon DEF ReadPending
<1>3. /\ pc \in [Consumers -> Places] /\ floor \in [Consumers -> 0..MaxEntries]
      /\ lastDelivered \in Nat /\ published \in Nat /\ mp \in Nat
      /\ floor[c] \in Nat
  BY StreamAssumption DEF TypeOK
<1>4. Pending' = Pending
  BY <1>1, Zenon DEF Pending
<1>5. NothingLost'
  BY <1>1, <1>4, Zenon DEF Safe, NothingLost
<1>6. /\ floor[c] <= lastDelivered
      /\ \A e \in Pending : e \in Nat /\ e <= lastDelivered /\ mp <= e
      /\ mp <= lastDelivered
  BY <1>1, <1>2, <1>3 DEF Safe, TrimSafe, IsLeast, Pending, Ids
<1>7. /\ floor'[c] = ComputeTrimFloor(floor[c], mp)
      /\ pc'[c] = "xtrim"
  BY <1>1, <1>2, <1>3, Zenon
<1>8. floor'[c] \in Nat /\ floor'[c] <= lastDelivered
  BY <1>3, <1>6, <1>7, Zenon DEF ComputeTrimFloor
<1>9. ASSUME NEW e \in 1..published, e < floor'[c]
      PROVE  e \in settled \union evicted
  <2>1. ~ (e > lastDelivered)
    BY <1>3, <1>8, <1>9
  <2>2. e \notin Pending
    <3>1. CASE IsLeast(mp, Pending)
      <4>1. mp \in Pending /\ mp # 0
        BY <3>1 DEF IsLeast, Pending, Ids
      <4>2. floor'[c] <= mp
        BY <1>3, <1>7, <4>1 DEF ComputeTrimFloor
      <4> QED
        BY <1>3, <1>6, <1>8, <1>9, <4>2
    <3>2. CASE Pending = {}
      BY <3>2, Zenon
    <3> QED
      BY <1>2, <3>1, <3>2, Zenon
  <2> QED
    BY <2>1, <2>2, Zenon DEF Safe, NothingLost
<1>10. ASSUME NEW d \in Consumers, d # c
       PROVE  pc'[d] = pc[d] /\ floor'[d] = floor[d]
  BY <1>1, <1>2, <1>3, <1>10, Zenon
<1>11. TrimSafe'
  BY <1>1, <1>4, <1>7, <1>8, <1>9, <1>10, Zenon DEF Safe, TrimSafe
<1> QED
  BY <1>5, <1>11, Zenon DEF Safe

\* XTRIM drops nothing at or above the floor.
LEMMA SafeTrim ==
  ASSUME TypeOK, TypeOK', Safe, NEW c \in Consumers, XTrim(c)
  PROVE  Safe'
<1>1. /\ UNCHANGED <<published, lastDelivered, owner, settled, evicted>>
      /\ pc' = [pc EXCEPT ![c] = "loop"] /\ pc[c] = "xtrim"
      /\ floor' = [floor EXCEPT ![c] = 0]
  BY Zenon DEF XTrim, histVars
<1>2. PICK cut \in 0..MaxEntries :
        cut <= floor[c] /\ stream' = {e \in stream : e >= cut}
  BY Zenon DEF XTrim
<1>3. /\ pc \in [Consumers -> Places] /\ floor \in [Consumers -> 0..MaxEntries]
      /\ floor[c] \in Nat /\ cut \in Nat
      /\ lastDelivered \in Nat /\ published \in Nat
  BY StreamAssumption DEF TypeOK
<1>4. Pending' = Pending
  BY <1>1, Zenon DEF Pending
<1>5. NothingLost'
  <2> SUFFICES ASSUME NEW e \in 1..published, e \notin settled \union evicted
               PROVE  e \in stream' /\ (e > lastDelivered \/ e \in Pending)
    BY <1>1, <1>4, Zenon DEF NothingLost
  <2>1. e \in stream /\ (e > lastDelivered \/ e \in Pending)
    BY Zenon DEF Safe, NothingLost
  <2>2. ~ (e < floor[c])
    BY <1>1, Zenon DEF Safe, TrimSafe
  <2>3. e >= cut
    BY <1>2, <1>3, <2>2
  <2> QED
    BY <1>2, <2>1, <2>3, Zenon
<1>6. \A d \in Consumers : Trimming(d)' => pc'[d] = pc[d] /\ floor'[d] = floor[d]
  BY <1>1, <1>3, Zenon DEF Trimming
<1>7. /\ lastDelivered <= lastDelivered' /\ published <= published'
      /\ \A e \in Pending' : e <= lastDelivered'
  BY <1>1, <1>3, <1>4 DEF Safe, TrimSafe
<1>8. TrimSafe'
  BY <1>1, <1>6, <1>7, TrimsKept, Zenon DEF Safe
<1> QED
  BY <1>5, <1>8, Zenon DEF Safe

\* Every other step leaves the stream, the PEL and the acknowledgements alone,
\* and starts no trim.
Quiet(c) ==
  \/ Reaping(c) \/ BatchSettled(c) \/ StartReclaim(c) \/ NextPage(c)
  \/ EndReclaim(c) \/ GoSilent(c) \/ Crash(c)
  \/ \E e \in Ids : \/ ProcessEntry(c, e) \/ AckLost(c, e)
                      \/ CheckReadable(c, e) \/ CheckUnreadable(c, e)
                      \/ DeadLetter(c, e) \/ DeadLetterLost(c, e)

LEMMA QuietKeeps ==
  ASSUME TypeOK, Corpses, NEW c \in Consumers, Quiet(c)
  PROVE  UNCHANGED <<published, stream, lastDelivered, owner, settled, evicted>>
<1>1. CASE Reaping(c)
  BY <1>1, ReapFrame, ReapKeepsPending, Zenon
<1>2. CASE \/ BatchSettled(c) \/ StartReclaim(c) \/ NextPage(c) \/ EndReclaim(c)
           \/ GoSilent(c) \/ Crash(c)
  BY <1>2, Zenon DEF BatchSettled, StartReclaim, NextPage, EndReclaim,
     GoSilent, Crash, redisVars, histVars
<1>3. ASSUME NEW e \in Ids, ProcessEntry(c, e) \/ AckLost(c, e)
      PROVE  UNCHANGED <<published, stream, lastDelivered, owner, settled, evicted>>
  BY <1>3, Zenon DEF ProcessEntry, AckLost, redisVars, histVars
<1>4. ASSUME NEW e \in Ids,
             \/ CheckReadable(c, e) \/ CheckUnreadable(c, e)
             \/ DeadLetter(c, e) \/ DeadLetterLost(c, e)
      PROVE  UNCHANGED <<published, stream, lastDelivered, owner, settled, evicted>>
  BY <1>4, Zenon DEF CheckReadable, CheckUnreadable, DeadLetter,
     DeadLetterLost, redisVars, histVars
<1> QED
  BY <1>1, <1>2, <1>3, <1>4, Zenon DEF Quiet

LEMMA SafeQuiet ==
  ASSUME TypeOK, TypeOK', Corpses, Safe, NEW c \in Consumers, Quiet(c)
  PROVE  Safe'
<1>1. UNCHANGED <<published, stream, lastDelivered, owner, settled, evicted>>
  BY QuietKeeps, Zenon
<1>2. pc \in [Consumers -> Places] /\ floor \in [Consumers -> 0..MaxEntries]
  BY Zenon DEF TypeOK
<1>3. \/ pc' = pc
      \/ \E p \in Places \ {"trim", "xtrim"} : pc' = [pc EXCEPT ![c] = p]
  <2>1. ASSUME NEW e \in Ids, ProcessEntry(c, e) PROVE <1>3
    <3>1. pc' = [pc EXCEPT ![c] = IF pc[c] = "redo" THEN "check" ELSE pc[c]]
      BY <2>1, Zenon DEF ProcessEntry
    <3>2. pc[c] = "settle" \/ pc[c] = "redo"
      BY <2>1, Zenon DEF ProcessEntry
    <3> QED
      BY <3>1, <3>2, Zenon DEF Places, Running
  <2>2. CASE BatchSettled(c) \/ StartReclaim(c) \/ NextPage(c)
    BY <2>2, Zenon DEF BatchSettled, StartReclaim, NextPage, Places, Running
  <2>4. CASE EndReclaim(c) \/ GoSilent(c) \/ Crash(c)
    BY <2>4, Zenon DEF EndReclaim, GoSilent, Crash, Places, Running
  <2>5. CASE Reaping(c)
    BY <2>5, ReapFrame, Zenon DEF Places, Running
  <2>3. ASSUME NEW e \in Ids,
               \/ AckLost(c, e) \/ CheckReadable(c, e) \/ CheckUnreadable(c, e)
               \/ DeadLetter(c, e) \/ DeadLetterLost(c, e)
        PROVE  <1>3
    BY <2>3, Zenon DEF AckLost, CheckReadable, CheckUnreadable, DeadLetter,
       DeadLetterLost, Places, Running
  <2> QED
    BY <2>1, <2>2, <2>3, <2>4, <2>5, Zenon DEF Quiet
<1>4. \/ floor' = floor
      \/ floor' = [floor EXCEPT ![c] = 0] /\ pc' = [pc EXCEPT ![c] = "crashed"]
  <2>1. CASE Crash(c)
    BY <2>1, Zenon DEF Crash
  <2>2. CASE \/ Reaping(c) \/ BatchSettled(c) \/ StartReclaim(c) \/ NextPage(c)
             \/ EndReclaim(c) \/ GoSilent(c)
    BY <2>2, ReapFrame, Zenon DEF BatchSettled, StartReclaim, NextPage,
       EndReclaim, GoSilent
  <2>3. ASSUME NEW e \in Ids,
               \/ ProcessEntry(c, e) \/ AckLost(c, e) \/ CheckReadable(c, e)
               \/ CheckUnreadable(c, e) \/ DeadLetter(c, e)
               \/ DeadLetterLost(c, e)
        PROVE  floor' = floor
    BY <2>3, Zenon DEF ProcessEntry, AckLost, CheckReadable, CheckUnreadable,
       DeadLetter, DeadLetterLost
  <2> QED
    BY <2>1, <2>2, <2>3, Zenon DEF Quiet
<1>5. \A d \in Consumers : Trimming(d)' => pc'[d] = pc[d] /\ floor'[d] = floor[d]
  BY <1>2, <1>3, <1>4, Zenon DEF Trimming
<1> QED
  BY <1>1, <1>5, SafeFrame, Zenon

\* The strengthened invariant holds throughout.
LEMMA SafeAlways == Spec => []Safe
<1>1. Init => Safe
  <2> SUFFICES ASSUME Init PROVE Safe
    BY Zenon
  <2>1. Pending = {} /\ published = 0 /\ \A c \in Consumers : pc[c] = "down"
    BY Zenon DEF Init, Pending
  <2> QED
    BY <2>1 DEF Safe, NothingLost, TrimSafe
<1>2. TypeOK /\ TypeOK' /\ Corpses /\ Safe /\ [Next]_vars => Safe'
  <2> SUFFICES ASSUME TypeOK, TypeOK', Corpses, Safe, [Next]_vars PROVE Safe'
    BY Zenon
  <2>1. ASSUME NEW e \in Ids, GrowIdle(e) PROVE Safe'
    BY <2>1, SafeFrame, Zenon DEF GrowIdle, procVars, histVars
  <2>2. CASE UNCHANGED vars
    BY <2>2, SafeFrame, Zenon DEF vars, redisVars, procVars, histVars
  <2>3. ASSUME NEW c \in Consumers, NEW e \in Ids, Ack(c, e) PROVE Safe'
    BY <2>3, SafeAck, Zenon
  <2>4. ASSUME NEW c \in Consumers, \E a \in BOOLEAN : XReadGroup(c, a)
        PROVE  Safe'
    BY <2>4, SafeRead, Zenon
  <2>5. ASSUME NEW c \in Consumers, \E a \in BOOLEAN : XAutoClaim(c, a)
        PROVE  Safe'
    BY <2>5, SafeClaim, Zenon
  <2> QED
    BY <2>1, <2>2, <2>3, <2>4, <2>5, SafePublish, SafeFrontier, SafeFloor,
       SafeTrim, SafeQuiet, Zenon
    DEF Next, Work, Sweep, Faulty, Read, ReadLost, Claim, ClaimLost, Quiet, Reaping
<1> QED
  BY <1>1, <1>2, TypeCorrect, CorpsesAlways, PTL DEF Spec

\* No result is lost: in every reachable state, whatever crashes, failed
\* calls, reclaims, trims and reaps interleave, an entry that is neither
\* acknowledged nor dropped by MAXLEN is unread or pending with its data.
THEOREM NothingIsLost == Spec => []NothingLost
<1>1. Safe => NothingLost
  BY Zenon DEF Safe
<1> QED
  BY <1>1, SafeAlways, PTL

\* What a trim remembers stays true until its XTRIM: everything below the floor
\* is settled or evicted, although others read, claim and acknowledge between
\* the three calls of _trim_to_frontier.
THEOREM TrimIsSafe == Spec => []TrimSafe
<1>1. Safe => TrimSafe
  BY Zenon DEF Safe
<1> QED
  BY <1>1, SafeAlways, PTL

-----------------------------------------------------------------------------
(* No XACK without a success, a dead letter or an eviction.                  *)

\* AckedIsDone is inductive once the XACKs still to be sent are covered too.
DoneIsDone ==
  /\ AckedIsDone
  /\ \A c \in Consumers : done[c] \subseteq handled \union dead

\* Steps that queue no new XACK.
LEMMA DoneFrame ==
  ASSUME DoneIsDone,
         handled \subseteq handled', dead \subseteq dead', evicted \subseteq evicted',
         \A c \in Consumers : done'[c] \subseteq done[c],
         settled' \subseteq settled \union handled \union dead \union evicted
  PROVE  DoneIsDone'
<1>1. AckedIsDone'
  BY Zenon DEF DoneIsDone, AckedIsDone
<1>2. \A c \in Consumers : done'[c] \subseteq handled' \union dead'
  BY Zenon DEF DoneIsDone
<1> QED
  BY <1>1, <1>2, Zenon DEF DoneIsDone

\* The strengthened invariant holds throughout.
LEMMA DoneAlways == Spec => []DoneIsDone
<1>1. Init => DoneIsDone
  BY Zenon DEF Init, DoneIsDone, AckedIsDone
<1>2. TypeOK /\ Safe /\ DoneIsDone /\ [Next]_vars => DoneIsDone'
  <2> SUFFICES ASSUME TypeOK, Safe, DoneIsDone, [Next]_vars PROVE DoneIsDone'
    BY Zenon
  <2>1. done \in [Consumers -> SUBSET Ids]
    BY Zenon DEF TypeOK
  <2>2. ASSUME UNCHANGED <<done, handled, dead, settled>>, evicted \subseteq evicted'
        PROVE  DoneIsDone'
    BY <2>2, DoneFrame, Zenon DEF DoneIsDone
  <2>3. CASE Publish
    <3>1. evicted \subseteq evicted'
      BY <2>3, Zenon DEF Publish
    <3> QED
      BY <2>2, <2>3, <3>1, Zenon DEF Publish, procVars
  <2>4. ASSUME NEW e \in Ids, GrowIdle(e) PROVE DoneIsDone'
    BY <2>2, <2>4, Zenon DEF GrowIdle, procVars, histVars
  <2>5. CASE UNCHANGED vars
    BY <2>2, <2>5, Zenon DEF vars, redisVars, procVars, histVars
  <2>6. ASSUME NEW c \in Consumers,
               \/ Reaping(c) \/ BatchSettled(c) \/ StartReclaim(c) \/ NextPage(c)
               \/ EndReclaim(c) \/ GoSilent(c)
               \/ ReadFrontier(c) \/ ReadPending(c) \/ XTrim(c)
               \/ \E a \in BOOLEAN : XReadGroup(c, a)
               \/ \E e \in Ids : CheckReadable(c, e) \/ CheckUnreadable(c, e)
        PROVE  DoneIsDone'
    <3>1. UNCHANGED <<done, handled, dead, settled, evicted>>
      <4>1. CASE \/ Reaping(c) \/ BatchSettled(c) \/ StartReclaim(c) \/ NextPage(c)
                 \/ EndReclaim(c) \/ GoSilent(c)
        BY <4>1, ReapFrame, Zenon DEF BatchSettled, StartReclaim, NextPage,
           EndReclaim, GoSilent, redisVars, histVars
      <4>2. CASE ReadFrontier(c) \/ ReadPending(c) \/ XTrim(c)
        BY <4>2, Zenon DEF ReadFrontier, ReadPending, XTrim, redisVars,
           histVars
      <4>3. ASSUME NEW a \in BOOLEAN, XReadGroup(c, a)
            PROVE  UNCHANGED <<done, handled, dead, settled, evicted>>
        BY <4>3, Zenon DEF XReadGroup, redisVars, histVars
      <4>4. ASSUME NEW e \in Ids, CheckReadable(c, e) \/ CheckUnreadable(c, e)
            PROVE  UNCHANGED <<done, handled, dead, settled, evicted>>
        BY <4>4, Zenon DEF CheckReadable, CheckUnreadable, redisVars, histVars
      <4> QED
        BY <2>6, <4>1, <4>2, <4>3, <4>4, Zenon
    <3> QED
      BY <2>2, <3>1, Zenon
  <2>7. ASSUME NEW c \in Consumers, NEW e \in Ids, ProcessEntry(c, e)
        PROVE  DoneIsDone'
    <3>1. UNCHANGED <<dead, settled, evicted>>
      BY <2>7, Zenon DEF ProcessEntry, redisVars
    <3>2. CASE UNCHANGED <<done, handled>>
      BY <2>2, <3>1, <3>2, Zenon
    <3>3. CASE /\ done' = [done EXCEPT ![c] = @ \union {e}]
               /\ handled' = handled \union {e}
      BY <2>1, <3>1, <3>3, Zenon DEF DoneIsDone, AckedIsDone
    <3> QED
      BY <2>7, <3>2, <3>3, Zenon DEF ProcessEntry
  <2>8. ASSUME NEW c \in Consumers, NEW e \in Ids, DeadLetter(c, e)
        PROVE  DoneIsDone'
    BY <2>1, <2>8, Zenon DEF DeadLetter, histVars, DoneIsDone, AckedIsDone
  <2>12. ASSUME NEW c \in Consumers, NEW e \in Ids, DeadLetterLost(c, e)
         PROVE  DoneIsDone'
    <3>1. UNCHANGED <<done, handled, settled, evicted>> /\ dead \subseteq dead'
      BY <2>12, Zenon DEF DeadLetterLost, histVars
    <3> QED
      BY <2>1, <3>1, Zenon DEF DoneIsDone, AckedIsDone
  <2>9. ASSUME NEW c \in Consumers, NEW e \in Ids, Ack(c, e) \/ AckLost(c, e)
        PROVE  DoneIsDone'
    <3>1. /\ UNCHANGED <<handled, dead, evicted>>
          /\ done' = [done EXCEPT ![c] = @ \ {e}] /\ e \in done[c]
          /\ settled' \subseteq settled \union {e}
      BY <2>9, Zenon DEF Ack, AckLost, redisVars
    <3> QED
      BY <2>1, <3>1, DoneFrame, Zenon DEF DoneIsDone, AckedIsDone
  <2>10. ASSUME NEW c \in Consumers, Crash(c) PROVE DoneIsDone'
    <3>1. /\ UNCHANGED <<handled, dead, evicted, settled>>
          /\ done' = [done EXCEPT ![c] = {}]
      BY <2>10, Zenon DEF Crash, redisVars
    <3> QED
      BY <2>1, <3>1, DoneFrame, Zenon DEF DoneIsDone, AckedIsDone
  <2>11. ASSUME NEW c \in Consumers, NEW a \in BOOLEAN, XAutoClaim(c, a)
         PROVE  DoneIsDone'
    <3>1. /\ UNCHANGED <<done, handled, dead, evicted>>
          /\ settled' = settled \union (Page(c) \ (Page(c) \intersect stream))
      BY <2>11, Zenon DEF XAutoClaim
    <3>2. \A e \in Page(c) : e \in Pending /\ e \in 1..published
      BY StreamAssumption, SMTT(40)
         DEF Page, Earliest, Safe, TrimSafe, TypeOK, Pending, Ids
    <3>3. settled' \subseteq settled \union evicted
      BY <3>1, <3>2, Zenon DEF Safe, NothingLost
    <3> QED
      BY <3>1, <3>3, DoneFrame, Zenon DEF DoneIsDone
  <2> QED
    BY <2>3, <2>4, <2>5, <2>6, <2>7, <2>8, <2>9, <2>10, <2>11,
       <2>12, Zenon
    DEF Next, Work, Sweep, Faulty, Read, ReadLost, Claim, ClaimLost, Reaping
<1> QED
  BY <1>1, <1>2, TypeCorrect, SafeAlways, PTL DEF Spec

\* An acknowledgement is never sent for a result that merely failed: what
\* leaves the PEL was handled, is in the dead-letter stream, or had already
\* been dropped by MAXLEN.
THEOREM AcknowledgedIsDone == Spec => []AckedIsDone
<1>1. DoneIsDone => AckedIsDone
  BY Zenon DEF DoneIsDone
<1> QED
  BY <1>1, DoneAlways, PTL

-----------------------------------------------------------------------------
(* A poison entry never loops.                                               *)

\* The processes that hold e and may still dispatch it, and those among them
\* that hold it since its first delivery.
Holders(e) ==
  {c \in Consumers : e \in work[c] /\ ~ (pc[c] = "redo" /\ IsLeast(e, work[c]))}

Readers(e) == {c \in Consumers : pc[c] = "settle" /\ e \in work[c]}

\* Each delivery of e is either still in the hands of a process or has led to
\* one dispatch at most; the first one always does, the later ones only while
\* the count is within the limit.
PoisonAt(e) ==
  /\ IsFiniteSet(Holders(e))
  /\ attempts[e] + Cardinality(Holders(e)) <= delivered[e]
  /\ e > lastDelivered => delivered[e] = 0
  /\ \A c, d \in Readers(e) : c = d
  /\ e \notin settled => /\ attempts[e] <= MaxDeliveries
                         /\ Readers(e) # {} => attempts[e] < MaxDeliveries
                         /\ Holders(e) # {} => e \in Pending

Poison == \A e \in Ids : PoisonAt(e)

LEMMA CountType ==
  ASSUME TypeOK, NEW e \in Ids
  PROVE  /\ attempts[e] \in Nat /\ delivered[e] \in Nat
         /\ lastDelivered \in Nat /\ e \in Nat
         /\ MaxDeliveries \in Nat \ {0}
         /\ Readers(e) \subseteq Holders(e)
<1>1. Readers(e) \subseteq Holders(e)
  BY Zenon DEF Readers, Holders
<1> QED
  BY <1>1, StreamAssumption DEF TypeOK, Ids

\* Nobody takes e up and nobody dispatches it.
LEMMA PoisonFrame ==
  ASSUME TypeOK, TypeOK', NEW e \in Ids, PoisonAt(e),
         attempts'[e] = attempts[e], delivered'[e] = delivered[e],
         lastDelivered <= lastDelivered', settled \subseteq settled',
         Holders(e)' \subseteq Holders(e), Readers(e)' \subseteq Readers(e),
         e \in Pending => e \in Pending' \union settled'
  PROVE  PoisonAt(e)'
<1>1. /\ IsFiniteSet(Holders(e)') /\ Cardinality(Holders(e)') \in Nat
      /\ Cardinality(Holders(e)) \in Nat
      /\ Cardinality(Holders(e)') <= Cardinality(Holders(e))
  BY FS_Subset, FS_CardinalityType, Zenon DEF PoisonAt
<1>2. attempts'[e] + Cardinality(Holders(e)') <= delivered'[e]
  BY <1>1, CountType DEF PoisonAt
<1>3. e > lastDelivered' => delivered'[e] = 0
  <2>1. lastDelivered \in Nat /\ lastDelivered' \in Nat /\ e \in Nat
    BY DEF TypeOK, Ids
  <2> QED
    BY <2>1 DEF PoisonAt
<1> QED
  BY <1>1, <1>2, <1>3, Zenon DEF PoisonAt

\* A holder dispatches e: it is the reader, or the count is within the limit.
LEMMA PoisonTry ==
  ASSUME TypeOK, NEW e \in Ids, PoisonAt(e), NEW c \in Holders(e),
         attempts'[e] = attempts[e] + 1, delivered'[e] = delivered[e],
         UNCHANGED <<lastDelivered, settled, owner>>,
         Holders(e)' \subseteq Holders(e) \ {c},
         Readers(e)' \subseteq Readers(e) \ {c},
         c \in Readers(e) \/ e \in settled \/ delivered[e] <= MaxDeliveries
  PROVE  PoisonAt(e)'
<1> DEFINE rest == Holders(e) \ {c}
<1>1. /\ IsFiniteSet(rest) /\ Cardinality(rest) \in Nat
      /\ Cardinality(Holders(e)) = Cardinality(rest) + 1
      /\ Cardinality(Holders(e)) \in Nat
  <2>1. IsFiniteSet(Holders(e)) /\ Cardinality(Holders(e)) \in Nat
    BY FS_CardinalityType, Zenon DEF PoisonAt
  <2>2. IsFiniteSet(rest) /\ Cardinality(rest) = Cardinality(Holders(e)) - 1
    BY <2>1, FS_RemoveElement, Zenon
  <2>3. Cardinality(rest) \in Nat
    BY <2>2, FS_CardinalityType, Zenon
  <2> QED
    BY <2>1, <2>2, <2>3
<1>2. /\ IsFiniteSet(Holders(e)') /\ Cardinality(Holders(e)') \in Nat
      /\ Cardinality(Holders(e)') <= Cardinality(rest)
  BY <1>1, FS_Subset, FS_CardinalityType, Zenon
<1>3. Holders(e)' # {} => Cardinality(rest) >= 1
  <2>1. Holders(e)' # {} => rest # {}
    BY Zenon
  <2>2. rest # {} => Cardinality(rest) # 0
    BY <1>1, FS_EmptySet, Zenon
  <2> QED
    BY <1>1, <2>1, <2>2
<1>4. Readers(e)' # {} => Holders(e)' # {}
  BY Zenon DEF Readers, Holders
<1>5. attempts'[e] + Cardinality(Holders(e)') <= delivered'[e]
  BY <1>1, <1>2, CountType DEF PoisonAt
<1>6. e \notin settled =>
        /\ attempts'[e] <= MaxDeliveries
        /\ Readers(e)' # {} => attempts'[e] < MaxDeliveries
  <2>1. CASE c \in Readers(e)
    <3>1. Readers(e)' = {}
      BY <2>1, Zenon DEF PoisonAt
    <3> QED
      BY <2>1, <3>1, CountType DEF PoisonAt
  <2>2. CASE delivered[e] <= MaxDeliveries
    BY <1>1, <1>3, <1>4, <2>2, CountType DEF PoisonAt
  <2> QED
    BY <2>1, <2>2, Zenon
<1>7. /\ e > lastDelivered' => delivered'[e] = 0
      /\ \A b, d \in Readers(e)' : b = d
      /\ e \notin settled => (Holders(e)' # {} => e \in Pending')
  BY Zenon DEF PoisonAt, Pending
<1> QED
  BY <1>2, <1>5, <1>6, <1>7, Zenon DEF PoisonAt

\* e is delivered to c once more, or for the first time.
LEMMA PoisonHand ==
  ASSUME TypeOK, TypeOK', NEW e \in Ids, PoisonAt(e), NEW c \in Consumers,
         attempts'[e] = attempts[e], delivered'[e] = delivered[e] + 1,
         e <= lastDelivered', settled \subseteq settled', e \in Pending',
         Holders(e)' \subseteq Holders(e) \union {c},
         \/ Readers(e)' \subseteq Readers(e)
         \/ e > lastDelivered
  PROVE  PoisonAt(e)'
<1> DEFINE more == Holders(e) \union {c}
<1>1. /\ IsFiniteSet(Holders(e)) /\ Cardinality(Holders(e)) \in Nat
  BY FS_CardinalityType, Zenon DEF PoisonAt
<1>2. /\ IsFiniteSet(more) /\ Cardinality(more) \in Nat
      /\ Cardinality(more) <= Cardinality(Holders(e)) + 1
  <2>1. IsFiniteSet(more) /\ Cardinality(more) \in Nat
    BY <1>1, FS_AddElement, FS_CardinalityType, Zenon
  <2>2. CASE c \in Holders(e)
    <3>1. Cardinality(more) = Cardinality(Holders(e))
      BY <2>2, FS_AddElement, <1>1, Zenon
    <3> HIDE DEF more
    <3> QED
      BY <1>1, <2>1, <3>1
  <2>3. CASE c \notin Holders(e)
    <3>1. Cardinality(more) = Cardinality(Holders(e)) + 1
      BY <1>1, <2>3, FS_AddElement, Zenon
    <3> QED
      BY <1>1, <2>1, <3>1
  <2> QED
    BY <2>2, <2>3, Zenon
<1>3. /\ IsFiniteSet(Holders(e)') /\ Cardinality(Holders(e)') \in Nat
      /\ Cardinality(Holders(e)') <= Cardinality(more)
  BY <1>2, FS_Subset, FS_CardinalityType, Zenon
<1>4. attempts'[e] + Cardinality(Holders(e)') <= delivered'[e]
  BY <1>1, <1>2, <1>3, CountType DEF PoisonAt
<1>5. ~ (e > lastDelivered')
  BY DEF TypeOK, Ids
<1>6. /\ \A b, d \in Readers(e)' : b = d
      /\ e \notin settled' =>
           /\ attempts'[e] <= MaxDeliveries
           /\ Readers(e)' # {} => attempts'[e] < MaxDeliveries
  <2>1. CASE Readers(e)' \subseteq Readers(e)
    BY <2>1, Zenon DEF PoisonAt
  <2>2. CASE e > lastDelivered
    <3>1. delivered[e] = 0 /\ attempts[e] = 0 /\ Cardinality(Holders(e)) = 0
      BY <1>1, <2>2, CountType DEF PoisonAt
    <3>2. Holders(e) = {}
      BY <1>1, <3>1, FS_EmptySet, Zenon
    <3>3. Readers(e)' \subseteq {c}
      BY <3>2, Zenon DEF Readers, Holders
    <3>4. 0 <= MaxDeliveries /\ 0 < MaxDeliveries
      BY StreamAssumption
    <3> QED
      BY <3>1, <3>3, <3>4, Zenon
  <2> QED
    BY <2>1, <2>2, Zenon
<1> QED
  BY <1>3, <1>4, <1>5, <1>6, Zenon DEF PoisonAt

\* XREADGROUP and XAUTOCLAIM: the entries they hand out, and the others.
LEMMA PoisonRead ==
  ASSUME TypeOK, TypeOK', Poison, NEW c \in Consumers, NEW a \in BOOLEAN,
         XReadGroup(c, a)
  PROVE  Poison'
<1> DEFINE batch == Earliest(Unread, ReadCount)
<1>1. /\ UNCHANGED <<attempts, settled>>
      /\ owner' = [e \in Ids |-> IF e \in batch THEN c ELSE owner[e]]
      /\ delivered' = [e \in Ids |-> IF e \in batch THEN delivered[e] + 1
                                                    ELSE delivered[e]]
  BY Zenon DEF XReadGroup, Deliver
<1>2. PICK top \in batch : lastDelivered' = top /\ \A x \in batch : x <= top
  BY Zenon DEF XReadGroup, IsGreatest
<1>3. \/ work' = work /\ pc' = pc
      \/ pc' = [pc EXCEPT ![c] = "settle"] /\ work' = [work EXCEPT ![c] = batch]
  BY Zenon DEF XReadGroup
<1>4. batch \subseteq Unread /\ \A e \in Unread : e > lastDelivered
  BY Zenon DEF Earliest, Unread
<1>5. pc[c] = "loop" /\ c # NoOne
  BY StreamAssumption, Zenon DEF XReadGroup
<1>6. pc \in [Consumers -> Places] /\ work \in [Consumers -> SUBSET Ids]
  BY Zenon DEF TypeOK
<1>7. lastDelivered <= lastDelivered'
  <2>1. lastDelivered \in Nat /\ lastDelivered' \in Nat
    BY DEF TypeOK
  <2>2. top > lastDelivered
    BY <1>2, <1>4, Zenon
  <2> QED
    BY <1>2, <2>1, <2>2
<1> HIDE DEF batch
<1> SUFFICES ASSUME NEW e \in Ids PROVE PoisonAt(e)'
  BY Zenon DEF Poison
<1>8. PoisonAt(e)
  BY Zenon DEF Poison
<1>9. CASE e \in batch
  <2>1. /\ attempts'[e] = attempts[e] /\ delivered'[e] = delivered[e] + 1
        /\ e <= lastDelivered' /\ settled \subseteq settled' /\ e > lastDelivered
        /\ e \in Pending'
    BY <1>1, <1>2, <1>4, <1>5, <1>9, Zenon DEF Pending
  <2>2. Holders(e)' \subseteq Holders(e) \union {c}
    BY <1>3, <1>6, Zenon DEF Holders
  <2> QED
    BY <1>8, <2>1, <2>2, PoisonHand, Zenon
<1>10. CASE e \notin batch
  <2>1. /\ attempts'[e] = attempts[e] /\ delivered'[e] = delivered[e]
        /\ settled \subseteq settled' /\ (e \in Pending => e \in Pending')
    BY <1>1, <1>10, Zenon DEF Pending
  <2>2. Holders(e)' \subseteq Holders(e) /\ Readers(e)' \subseteq Readers(e)
    BY <1>3, <1>6, <1>10, Zenon DEF Holders, Readers
  <2> QED
    BY <1>7, <1>8, <2>1, <2>2, PoisonFrame, Zenon
<1> QED
  BY <1>9, <1>10, Zenon

LEMMA PoisonClaim ==
  ASSUME TypeOK, TypeOK', Safe, Poison, NEW c \in Consumers, NEW a \in BOOLEAN,
         XAutoClaim(c, a)
  PROVE  Poison'
<1> DEFINE claim == Page(c) \intersect stream
<1>1. /\ UNCHANGED <<attempts, lastDelivered>>
      /\ owner' = [e \in Ids |-> IF e \in claim THEN c
                                 ELSE IF e \in Page(c) THEN NoOne ELSE owner[e]]
      /\ delivered' = [e \in Ids |-> IF e \in claim THEN delivered[e] + 1
                                                    ELSE delivered[e]]
      /\ settled' = settled \union (Page(c) \ claim)
      /\ pc[c] = "claim" /\ pc' = [pc EXCEPT ![c] = "check"]
      /\ work' = work \/ work' = [work EXCEPT ![c] = claim]
  BY Zenon DEF XAutoClaim
<1>2. Page(c) \subseteq Pending /\ claim \subseteq Page(c) /\ c # NoOne
  BY StreamAssumption, Zenon DEF Page, Earliest
<1>3. pc \in [Consumers -> Places] /\ work \in [Consumers -> SUBSET Ids]
  BY Zenon DEF TypeOK
<1>4. \A e \in Pending : e <= lastDelivered
  BY Zenon DEF Safe, TrimSafe
<1>5. lastDelivered <= lastDelivered'
  <2>1. lastDelivered \in Nat
    BY DEF TypeOK
  <2> QED
    BY <1>1, <2>1
<1> HIDE DEF claim
<1> SUFFICES ASSUME NEW e \in Ids PROVE PoisonAt(e)'
  BY Zenon DEF Poison
<1>6. PoisonAt(e)
  BY Zenon DEF Poison
<1>7. Readers(e)' \subseteq Readers(e)
  BY <1>1, <1>3, Zenon DEF Readers
<1>8. CASE e \in claim
  <2>1. /\ attempts'[e] = attempts[e] /\ delivered'[e] = delivered[e] + 1
        /\ e <= lastDelivered' /\ settled \subseteq settled' /\ e \in Pending'
    BY <1>1, <1>2, <1>4, <1>8, Zenon DEF Pending
  <2>2. Holders(e)' \subseteq Holders(e) \union {c}
    BY <1>1, <1>3, Zenon DEF Holders
  <2> QED
    BY <1>6, <1>7, <2>1, <2>2, PoisonHand, Zenon
<1>9. CASE e \notin claim
  <2>1. /\ attempts'[e] = attempts[e] /\ delivered'[e] = delivered[e]
        /\ settled \subseteq settled' /\ (e \in Pending => e \in Pending' \union settled')
    BY <1>1, <1>9, Zenon DEF Pending
  <2>2. Holders(e)' \subseteq Holders(e)
    BY <1>1, <1>3, <1>9, Zenon DEF Holders
  <2> QED
    BY <1>5, <1>6, <1>7, <2>1, <2>2, PoisonFrame, Zenon
<1> QED
  BY <1>8, <1>9, Zenon

\* The steps that change no count, take up nothing and settle at most what
\* they acknowledge.
LEMMA PoisonIdle ==
  ASSUME TypeOK, TypeOK', Poison,
         UNCHANGED <<attempts, delivered, lastDelivered>>,
         settled \subseteq settled',
         \A e \in Ids : /\ e \in Pending => e \in Pending' \union settled'
                        /\ Holders(e)' \subseteq Holders(e)
                        /\ Readers(e)' \subseteq Readers(e)
  PROVE  Poison'
<1>1. lastDelivered <= lastDelivered'
  BY DEF TypeOK
<1> QED
  BY <1>1, PoisonFrame, Zenon DEF Poison

\* A process moves on without a dispatch: it holds nothing, or what it holds
\* as before or less.
LEMMA PoisonMove ==
  ASSUME TypeOK, TypeOK', Poison, NEW c \in Consumers, NEW p \in Places, NEW S,
         UNCHANGED <<attempts, delivered, lastDelivered, owner, settled>>,
         pc' = [pc EXCEPT ![c] = p], work' = [work EXCEPT ![c] = S],
         S \subseteq work[c], p = "settle" => pc[c] = "settle",
         pc[c] # "redo" \/ \A e \in S : ~ IsLeast(e, work[c])
  PROVE  Poison'
<1>1. pc \in [Consumers -> Places] /\ work \in [Consumers -> SUBSET Ids]
  BY Zenon DEF TypeOK
<1>2. ASSUME NEW e \in Ids
      PROVE  Holders(e)' \subseteq Holders(e) /\ Readers(e)' \subseteq Readers(e)
  <2>1. ASSUME NEW d \in Holders(e)' PROVE d \in Holders(e)
    <3>1. CASE d = c
      <4>1. e \in S
        BY <1>1, <2>1, <3>1, Zenon DEF Holders
      <4> QED
        BY <3>1, <4>1, Zenon DEF Holders
    <3>2. CASE d # c
      <4>1. d \in Consumers /\ pc'[d] = pc[d] /\ work'[d] = work[d]
        BY <1>1, <2>1, <3>2, Zenon DEF Holders
      <4> QED
        BY <2>1, <4>1, Zenon DEF Holders
    <3> QED
      BY <3>1, <3>2, Zenon
  <2>2. Readers(e)' \subseteq Readers(e)
    BY <1>1, Zenon DEF Readers
  <2> QED
    BY <2>1, <2>2, Zenon
<1>3. Pending' = Pending
  BY Zenon DEF Pending
<1> QED
  BY <1>2, <1>3, PoisonIdle, Zenon

LEMMA PoisonProcess ==
  ASSUME TypeOK, TypeOK', Poison, NEW c \in Consumers, NEW e \in Ids,
         ProcessEntry(c, e)
  PROVE  Poison'
<1>1. /\ work' = [work EXCEPT ![c] = work[c] \ {e}] /\ e \in work[c]
      /\ UNCHANGED <<lastDelivered, delivered, owner, settled>>
  BY Zenon DEF ProcessEntry, redisVars, IsLeast
<1>2. /\ pc \in [Consumers -> Places] /\ work \in [Consumers -> SUBSET Ids]
      /\ attempts \in [Ids -> Nat]
  BY Zenon DEF TypeOK
<1>3. CASE pc[c] = "redo"
  <2>1. IsLeast(e, work[c]) /\ pc' = [pc EXCEPT ![c] = "check"]
    BY <1>2, <1>3, Zenon DEF ProcessEntry
  <2>2. attempts' = attempts
    BY <1>2, <1>3, Zenon DEF ProcessEntry
  <2>3. \A x \in work[c] \ {e} : ~ IsLeast(x, work[c])
    <3>1. ASSUME NEW x \in work[c], IsLeast(x, work[c]) PROVE x = e
      <4>1. x <= e /\ e <= x /\ x \in Int /\ e \in Int
        BY <1>1, <1>2, <2>1, <3>1 DEF IsLeast, Ids
      <4> QED
        BY <4>1
    <3> QED
      BY <3>1, Zenon
  <2>4. "check" \in Places
    BY Zenon DEF Places, Running
  <2>5. work[c] \ {e} \subseteq work[c]
    BY Zenon
  <2> QED
    BY <1>1, <2>1, <2>2, <2>3, <2>4, <2>5, PoisonMove, Zenon
<1>4. CASE pc[c] = "settle"
  <2>1. pc' = pc /\ attempts' = [attempts EXCEPT ![e] = @ + 1]
    BY <1>2, <1>4, Zenon DEF ProcessEntry
  <2>2. ASSUME NEW x \in Ids PROVE PoisonAt(x)'
    <3>1. PoisonAt(x) /\ Pending' = Pending
      BY <1>1, Zenon DEF Poison, Pending
    <3>2. Holders(x)' \subseteq Holders(x) /\ Readers(x)' \subseteq Readers(x)
      BY <1>1, <1>2, <1>4, <2>1, Zenon DEF Holders, Readers
    <3>3. CASE x = e
      <4>1. c \in Holders(e) /\ c \in Readers(e) /\ c \notin Holders(e)'
            /\ c \notin Readers(e)'
        BY <1>1, <1>2, <1>4, Zenon DEF Holders, Readers
      <4>2. attempts'[e] = attempts[e] + 1 /\ delivered'[e] = delivered[e]
        BY <1>1, <1>2, <2>1, Zenon
      <4>3. /\ Holders(e)' \subseteq Holders(e) \ {c}
            /\ Readers(e)' \subseteq Readers(e) \ {c}
        BY <3>2, <3>3, <4>1, Zenon
      <4>4. PoisonAt(e)'
        BY <1>1, <3>1, <3>3, <4>1, <4>2, <4>3, PoisonTry, Zenon
      <4> QED
        BY <3>3, <4>4, Zenon
    <3>4. CASE x # e
      <4>1. attempts'[x] = attempts[x] /\ delivered'[x] = delivered[x]
            /\ settled \subseteq settled'
        BY <1>1, <1>2, <2>1, <3>4, Zenon
      <4>2. lastDelivered <= lastDelivered'
        BY <1>1 DEF TypeOK
      <4> QED
        BY <3>1, <3>2, <4>1, <4>2, PoisonFrame, Zenon
    <3> QED
      BY <3>3, <3>4, Zenon
  <2> QED
    BY <2>2, Zenon DEF Poison
<1> QED
  BY <1>3, <1>4, Zenon DEF ProcessEntry

\* The count is read: within the limit the entry is dispatched once more. A
\* count of 0 means that the entry was acknowledged meanwhile.
LEMMA PoisonCheck ==
  ASSUME TypeOK, TypeOK', Poison, NEW c \in Consumers, NEW e \in Ids,
         CheckReadable(c, e)
  PROVE  Poison'
<1>1. /\ UNCHANGED <<lastDelivered, delivered, owner, settled, work>>
      /\ pc[c] = "check" /\ IsLeast(e, work[c]) /\ e \in work[c]
  BY Zenon DEF CheckReadable, redisVars, IsLeast
<1>2. /\ pc \in [Consumers -> Places] /\ work \in [Consumers -> SUBSET Ids]
      /\ attempts \in [Ids -> Nat]
  BY Zenon DEF TypeOK
<1>3. work' = [work EXCEPT ![c] = work[c]]
  BY <1>1, <1>2, Zenon
<1>4. CASE Counted(e) > MaxDeliveries
  <2>1. pc' = [pc EXCEPT ![c] = "bury"] /\ attempts' = attempts
    BY <1>4, Zenon DEF CheckReadable
  <2>2. "bury" \in Places /\ work[c] \subseteq work[c]
    BY Zenon DEF Places, Running
  <2> QED
    BY <1>1, <1>3, <2>1, <2>2, PoisonMove, Zenon
<1>5. CASE ~ (Counted(e) > MaxDeliveries)
  <2>1. pc' = [pc EXCEPT ![c] = "redo"] /\ attempts' = [attempts EXCEPT ![e] = @ + 1]
    BY <1>5, Zenon DEF CheckReadable
  <2>2. ASSUME NEW x \in Ids PROVE PoisonAt(x)'
    <3>1. PoisonAt(x) /\ Pending' = Pending
      BY <1>1, Zenon DEF Poison, Pending
    <3>2. Holders(x)' \subseteq Holders(x) /\ Readers(x)' \subseteq Readers(x)
      BY <1>1, <1>2, <2>1, Zenon DEF Holders, Readers
    <3>3. CASE x = e
      <4>1. c \in Holders(e) /\ c \notin Holders(e)' /\ c \notin Readers(e)'
        BY <1>1, <1>2, <2>1, Zenon DEF Holders, Readers
      <4>2. attempts'[e] = attempts[e] + 1 /\ delivered'[e] = delivered[e]
        BY <1>1, <1>2, <2>1, Zenon
      <4>3. /\ Holders(e)' \subseteq Holders(e) \ {c}
            /\ Readers(e)' \subseteq Readers(e) \ {c}
        BY <3>2, <3>3, <4>1, Zenon
      <4>4. e \in settled \/ delivered[e] <= MaxDeliveries
        <5>1. e \in settled \/ owner[e] # NoOne
          BY <3>1, <3>3, <4>1, Zenon DEF PoisonAt, Pending
        <5>2. CASE owner[e] # NoOne
          <6>1. ~ (delivered[e] > MaxDeliveries)
            BY <1>5, <5>2, Zenon DEF Counted
          <6> QED
            BY <6>1, CountType
        <5> QED
          BY <5>1, <5>2, Zenon
      <4>5. PoisonAt(e)'
        BY <1>1, <3>1, <3>3, <4>1, <4>2, <4>3, <4>4, PoisonTry, Zenon
      <4> QED
        BY <3>3, <4>5, Zenon
    <3>4. CASE x # e
      <4>1. attempts'[x] = attempts[x] /\ delivered'[x] = delivered[x]
            /\ settled \subseteq settled'
        BY <1>1, <1>2, <2>1, <3>4, Zenon
      <4>2. lastDelivered <= lastDelivered'
        BY <1>1 DEF TypeOK
      <4> QED
        BY <3>1, <3>2, <4>1, <4>2, PoisonFrame, Zenon
    <3> QED
      BY <3>3, <3>4, Zenon
  <2> QED
    BY <2>2, Zenon DEF Poison
<1> QED
  BY <1>4, <1>5, Zenon

\* A result that keeps failing is dispatched at most MAX_DELIVERIES times while
\* it is in the PEL: a dispatch consumes a delivery that is counted, and beyond
\* the limit only the first reader could still dispatch without looking.
THEOREM PoisonIsBounded == Spec => []PoisonBounded
<1>1. Init => Poison
  <2> SUFFICES ASSUME Init, NEW e \in Ids PROVE PoisonAt(e)
    BY Zenon DEF Poison
  <2>1. Holders(e) = {} /\ Readers(e) = {} /\ attempts[e] = 0 /\ delivered[e] = 0
    BY Zenon DEF Init, Holders, Readers
  <2>2. IsFiniteSet(Holders(e)) /\ Cardinality(Holders(e)) = 0
    BY <2>1, FS_EmptySet, Zenon
  <2>3. attempts[e] <= MaxDeliveries /\ attempts[e] + 0 <= delivered[e]
    BY <2>1, StreamAssumption
  <2> QED
    BY <2>1, <2>2, <2>3, Zenon DEF PoisonAt
<1>2. TypeOK /\ TypeOK' /\ Corpses /\ Safe /\ Poison /\ [Next]_vars => Poison'
  <2> SUFFICES ASSUME TypeOK, TypeOK', Corpses, Safe, Poison, [Next]_vars
               PROVE  Poison'
    BY Zenon
  <2>1. /\ pc \in [Consumers -> Places] /\ work \in [Consumers -> SUBSET Ids]
        /\ owner \in [Ids -> Consumers \union {NoOne}]
    BY Zenon DEF TypeOK
  <2>2. ASSUME UNCHANGED <<pc, work, attempts, delivered, lastDelivered>>,
               settled \subseteq settled',
               \A e \in Pending : e \in Pending' \union settled'
        PROVE  Poison'
    <3>1. \A e \in Ids : Holders(e)' = Holders(e) /\ Readers(e)' = Readers(e)
      BY <2>2, Zenon DEF Holders, Readers
    <3> QED
      BY <2>2, <3>1, PoisonIdle, Zenon
  <2>3. ASSUME UNCHANGED <<pc, work, attempts, delivered, lastDelivered, owner,
                           settled>>
        PROVE  Poison'
    BY <2>2, <2>3, Zenon DEF Pending
  <2>4. CASE Publish \/ UNCHANGED vars
    BY <2>3, <2>4, Zenon DEF Publish, vars, redisVars, procVars, histVars
  <2>5. ASSUME NEW e \in Ids, GrowIdle(e) PROVE Poison'
    BY <2>3, <2>5, Zenon DEF GrowIdle, procVars, histVars
  <2>6. ASSUME NEW c \in Consumers, NEW e \in Ids, Ack(c, e) PROVE Poison'
    <3>1. /\ UNCHANGED <<pc, work, attempts, delivered, lastDelivered>>
          /\ settled' = settled \union {e}
          /\ owner' = [owner EXCEPT ![e] = NoOne]
      BY <2>6, Zenon DEF Ack
    <3>2. \A x \in Pending : x \in Pending' \union settled'
      BY <2>1, <3>1, Zenon DEF Pending
    <3> QED
      BY <2>2, <3>1, <3>2, Zenon
  <2>7. ASSUME NEW c \in Consumers, NEW e \in Ids, AckLost(c, e) PROVE Poison'
    BY <2>3, <2>7, Zenon DEF AckLost, redisVars
  <2>8. ASSUME NEW c \in Consumers, Crash(c) PROVE Poison'
    <3>1. /\ UNCHANGED <<attempts, delivered, lastDelivered, owner, settled>>
          /\ pc' = [pc EXCEPT ![c] = "crashed"]
          /\ work' = [work EXCEPT ![c] = {}]
          /\ "crashed" \in Places
      BY <2>8, Zenon DEF Crash, redisVars, Places
    <3> DEFINE none == {}
    <3>2. none \subseteq work[c] /\ \A e \in none : ~ IsLeast(e, work[c])
      BY Zenon
    <3>3. work' = [work EXCEPT ![c] = none]
      BY <3>1, Zenon
    <3> HIDE DEF none
    <3> QED
      BY <3>1, <3>2, <3>3, PoisonMove, Zenon
  <2>9. ASSUME NEW c \in Consumers, NEW p \in Places \ {"settle"},
               UNCHANGED <<work, attempts, delivered, lastDelivered, owner, settled>>,
               pc' = [pc EXCEPT ![c] = p], pc[c] # "redo"
        PROVE  Poison'
    <3>1. work' = [work EXCEPT ![c] = work[c]] /\ work[c] \subseteq work[c]
      BY <2>1, <2>9, Zenon
    <3> QED
      BY <2>9, <3>1, PoisonMove, Zenon
  <2>10. ASSUME NEW c \in Consumers,
                BatchSettled(c) \/ StartReclaim(c) \/ NextPage(c) \/ GoSilent(c)
         PROVE  Poison'
    <3>1. \E p \in Places \ {"settle"} : pc' = [pc EXCEPT ![c] = p]
      BY <2>10, Zenon DEF BatchSettled, StartReclaim, NextPage, GoSilent,
         Places, Running
    <3>2. /\ UNCHANGED <<work, attempts, delivered, lastDelivered, owner, settled>>
          /\ pc[c] # "redo"
      BY <2>10, Zenon DEF BatchSettled, StartReclaim, NextPage, PageSettled,
         GoSilent, redisVars, histVars
    <3> QED
      BY <2>9, <3>1, <3>2, Zenon
  <2>11. ASSUME NEW c \in Consumers,
                EndReclaim(c) \/ ReadFrontier(c) \/ ReadPending(c) \/ XTrim(c)
         PROVE  Poison'
    <3>1. \E p \in Places \ {"settle"} : pc' = [pc EXCEPT ![c] = p]
      BY <2>11, Zenon DEF EndReclaim, ReadFrontier, ReadPending, XTrim,
         Places, Running
    <3>2. /\ UNCHANGED <<work, attempts, delivered, lastDelivered, owner, settled>>
          /\ pc[c] # "redo"
      BY <2>11, Zenon DEF EndReclaim, PageSettled, ReadFrontier, ReadPending,
         XTrim, redisVars, histVars
    <3> QED
      BY <2>9, <3>1, <3>2, Zenon
  <2>12. ASSUME NEW c \in Consumers, Reaping(c) PROVE Poison'
    <3>1. \E p \in Places \ {"settle"} : pc' = [pc EXCEPT ![c] = p]
      BY <2>12, ReapFrame, Zenon DEF Places, Running
    <3>2. /\ UNCHANGED <<work, attempts, delivered, lastDelivered, owner, settled>>
          /\ pc[c] # "redo"
      BY <2>12, ReapFrame, ReapKeepsPending, Zenon
    <3> QED
      BY <2>9, <3>1, <3>2, Zenon
  <2>13. ASSUME NEW c \in Consumers, NEW e \in Ids, CheckUnreadable(c, e)
         PROVE  Poison'
    <3>1. \E p \in Places \ {"settle"} : pc' = [pc EXCEPT ![c] = p]
      BY <2>13, Zenon DEF CheckUnreadable, Places, Running
    <3>2. /\ UNCHANGED <<work, attempts, delivered, lastDelivered, owner, settled>>
          /\ pc[c] # "redo"
      BY <2>13, Zenon DEF CheckUnreadable, redisVars
    <3> QED
      BY <2>9, <3>1, <3>2, Zenon
  <2>14. ASSUME NEW c \in Consumers, NEW e \in Ids,
                DeadLetter(c, e) \/ DeadLetterLost(c, e)
         PROVE  Poison'
    <3>1. /\ UNCHANGED <<attempts, delivered, lastDelivered, owner, settled>>
          /\ pc' = [pc EXCEPT ![c] = "check"] /\ pc[c] = "bury"
          /\ work' = [work EXCEPT ![c] = work[c] \ {e}]
          /\ "check" \in Places /\ work[c] \ {e} \subseteq work[c]
      BY <2>14, Zenon DEF DeadLetter, DeadLetterLost, redisVars, histVars,
         Places, Running
    <3> QED
      BY <3>1, PoisonMove, Zenon
  <2> QED
    BY <2>4, <2>5, <2>6, <2>7, <2>8, <2>10, <2>11, <2>12, <2>13, <2>14,
       PoisonRead, PoisonClaim, PoisonProcess, PoisonCheck, Zenon
    DEF Next, Work, Sweep, Faulty, Read, ReadLost, Claim, ClaimLost, Reaping
<1>3. Poison => PoisonBounded
  BY Zenon DEF Poison, PoisonAt, PoisonBounded
<1> QED
  BY <1>1, <1>2, <1>3, TypeCorrect, CorpsesAlways, SafeAlways, PTL DEF Spec
=============================================================================
