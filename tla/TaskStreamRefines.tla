-------------------------- MODULE TaskStreamRefines --------------------------
(***************************************************************************)
(* TaskStream gives up no result before its time, and it implements        *)
(* Delivery, for any number of consumers, entries and faults: every step   *)
(* of a producer, a consumer loop, a sweep, a reap or a trim is a step of  *)
(* the abstract inbox or leaves it alone.                                  *)
(***************************************************************************)
EXTENDS TaskStreamProofs

-----------------------------------------------------------------------------
(* The loop does not give up early.                                          *)

Enough(e) == delivered[e] > MaxDeliveries \/ delivered[e] > MaxUnreadable + 1

\* A claimed entry has been delivered at least twice more than the sweeps that
\* could not read its count, until this sweep has looked at it.
Unchecked(c, e) == pc[c] = "check" \/ ~ IsLeast(e, work[c])

LateAt(c) ==
  /\ \A e \in Ids : unreadable[c][e] = 0 \/ unreadable[c][e] + 1 <= delivered[e]
  /\ pc[c] \notin {"settle", "check", "redo", "bury"} => work[c] = {}
  /\ pc[c] \in {"check", "redo", "bury"} =>
       \A e \in work[c] : Unchecked(c, e) => unreadable[c][e] + 2 <= delivered[e]
  /\ pc[c] = "bury" => \A e \in work[c] : IsLeast(e, work[c]) => Enough(e)

Late ==
  /\ GivenUpLate
  /\ \A e \in Pending : delivered[e] >= 1
  /\ \A c \in Consumers : LateAt(c)

Counts == /\ delivered \in [Ids -> Nat] /\ delivered' \in [Ids -> Nat]
          /\ \A e \in Ids : delivered[e] <= delivered'[e]

\* The delivery counts only grow, so a consumer that does nothing stays late.
LEMMA LateFrame ==
  ASSUME TypeOK, Counts, NEW c \in Consumers, LateAt(c),
         pc'[c] = pc[c], work'[c] = work[c], unreadable'[c] = unreadable[c]
  PROVE  LateAt(c)'
<1>1. /\ work[c] \subseteq Ids /\ unreadable[c] \in [Ids -> Nat]
      /\ MaxDeliveries \in Nat /\ MaxUnreadable \in Nat
  BY StreamAssumption, Zenon DEF TypeOK
<1>2. \A e \in Ids : /\ delivered[e] \in Nat /\ delivered'[e] \in Nat
                     /\ delivered[e] <= delivered'[e]
                     /\ unreadable[c][e] \in Nat
  BY <1>1, Zenon DEF Counts
<1>3. \A e \in Ids : Enough(e) => Enough(e)'
  BY <1>1, <1>2 DEF Enough
<1>4. \A e \in Ids : unreadable'[c][e] = 0 \/ unreadable'[c][e] + 1 <= delivered'[e]
  BY <1>2 DEF LateAt
<1>5. pc'[c] \in {"check", "redo", "bury"} =>
        \A e \in work'[c] : Unchecked(c, e)' => unreadable'[c][e] + 2 <= delivered'[e]
  BY <1>1, <1>2 DEF LateAt, Unchecked, IsLeast
<1>6. pc'[c] = "bury" => \A e \in work'[c] : IsLeast(e, work[c]) => Enough(e)'
  BY <1>1, <1>3, Zenon DEF LateAt
<1> QED
  BY <1>4, <1>5, <1>6, Zenon DEF LateAt

\* One consumer acts; the pending entries and the dead letters are looked at.
LEMMA LateStep ==
  ASSUME TypeOK, Late, Counts, NEW c \in Consumers, LateAt(c)',
         \A e \in Pending' : e \in Pending \/ delivered'[e] >= 1,
         \A e \in dead' : e \in dead \/ Enough(e)',
         \A d \in Consumers \ {c} :
           pc'[d] = pc[d] /\ work'[d] = work[d] /\ unreadable'[d] = unreadable[d]
  PROVE  Late'
<1>1. MaxDeliveries \in Nat /\ MaxUnreadable \in Nat /\ dead \subseteq Ids
  BY StreamAssumption, Zenon DEF TypeOK
<1>2. \A e \in Ids : /\ delivered[e] \in Nat /\ delivered'[e] \in Nat
                     /\ delivered[e] <= delivered'[e]
  BY Zenon DEF Counts
<1>3. GivenUpLate'
  BY <1>1, <1>2 DEF Late, GivenUpLate, Enough
<1>4. \A e \in Pending' : delivered'[e] >= 1
  BY <1>2 DEF Late, Pending
<1>5. \A d \in Consumers \ {c} : LateAt(d)'
  BY LateFrame, Zenon DEF Late
<1> QED
  BY <1>3, <1>4, <1>5, Zenon DEF Late

\* Steps outside the batches: nothing is delivered, nothing new is held.
LEMMA LateIdle ==
  ASSUME TypeOK, Late, NEW c \in Consumers,
         UNCHANGED <<delivered, dead>>, Pending' \subseteq Pending, LateAt(c)',
         \A d \in Consumers \ {c} :
           pc'[d] = pc[d] /\ work'[d] = work[d] /\ unreadable'[d] = unreadable[d]
  PROVE  Late'
<1>1. Counts
  BY DEF Counts, TypeOK
<1> QED
  BY <1>1, LateStep, Zenon

\* A consumer that only moves between places that hold no work.
LEMMA LateMove ==
  ASSUME TypeOK, Late, NEW c \in Consumers,
         UNCHANGED <<delivered, dead, work>>, owner' = owner,
         work[c] = {} \/ pc'[c] = pc[c],
         NEW p \in Places, pc' = [pc EXCEPT ![c] = p],
         \/ unreadable' = unreadable
         \/ /\ work[c] = {}
            /\ \E S \in SUBSET Ids : unreadable' = [unreadable EXCEPT ![c] =
                      [e \in Ids |-> IF e \in S THEN unreadable[c][e] ELSE 0]]
  PROVE  Late'
<1>1. /\ pc \in [Consumers -> Places] /\ unreadable \in [Consumers -> [Ids -> Nat]]
      /\ LateAt(c)
  BY Zenon DEF TypeOK, Late
<1>2. Pending' = Pending
  BY Zenon DEF Pending
<1>3. LateAt(c)'
  <2>1. CASE work[c] = {}
    <3>1. \A e \in Ids : unreadable'[c][e] = 0 \/ unreadable'[c][e] = unreadable[c][e]
      BY <1>1, Zenon
    <3> QED
      BY <1>1, <2>1, <3>1, Zenon DEF LateAt
  <2>2. CASE work[c] # {}
    BY <1>1, <2>2, LateFrame DEF Counts, TypeOK
  <2> QED
    BY <2>1, <2>2, Zenon
<1>4. \A d \in Consumers \ {c} :
        pc'[d] = pc[d] /\ work'[d] = work[d] /\ unreadable'[d] = unreadable[d]
  BY <1>1, Zenon
<1> QED
  BY <1>2, <1>3, <1>4, LateIdle, Zenon

\* XREADGROUP and XAUTOCLAIM add one delivery to every entry handed out.
LEMMA LateRead ==
  ASSUME TypeOK, Late, NEW c \in Consumers, NEW a \in BOOLEAN, XReadGroup(c, a)
  PROVE  Late'
<1> DEFINE batch == Earliest(Unread, ReadCount)
<1>1. /\ pc[c] = "loop" /\ UNCHANGED <<dead, unreadable>>
      /\ owner' = [e \in Ids |-> IF e \in batch THEN c ELSE owner[e]]
      /\ delivered' = [e \in Ids |-> IF e \in batch THEN delivered[e] + 1
                                                   ELSE delivered[e]]
      /\ \/ pc' = pc /\ work' = work
         \/ /\ pc' = [pc EXCEPT ![c] = "settle"]
            /\ work' = [work EXCEPT ![c] = batch]
  BY Zenon DEF XReadGroup, Deliver
<1> HIDE DEF batch
<1>2. /\ pc \in [Consumers -> Places] /\ work \in [Consumers -> SUBSET Ids]
      /\ delivered \in [Ids -> Nat] /\ unreadable \in [Consumers -> [Ids -> Nat]]
      /\ owner \in [Ids -> Consumers \union {NoOne}]
  BY Zenon DEF TypeOK
<1>3. Counts
  BY <1>1, <1>2 DEF Counts
<1>4. \A e \in Pending' : e \in Pending \/ delivered'[e] >= 1
  BY <1>1, <1>2 DEF Pending
<1>5. \A d \in Consumers \ {c} :
        pc'[d] = pc[d] /\ work'[d] = work[d] /\ unreadable'[d] = unreadable[d]
  BY <1>1, <1>2, Zenon
<1>6. LateAt(c)'
  <2>1. CASE pc' = pc /\ work' = work
    BY <1>1, <1>3, <2>1, LateFrame, Zenon DEF Late
  <2>2. CASE pc' = [pc EXCEPT ![c] = "settle"]
    <3>1. pc'[c] = "settle"
      BY <1>2, <2>2, Zenon
    <3>2. \A e \in Ids : unreadable'[c][e] = 0 \/ unreadable'[c][e] + 1 <= delivered'[e]
      BY <1>1, <1>2, <1>3 DEF Counts, Late, LateAt
    <3> QED
      BY <3>1, <3>2, Zenon DEF LateAt
  <2> QED
    BY <1>1, <2>1, <2>2, Zenon
<1> QED
  BY <1>1, <1>3, <1>4, <1>5, <1>6, LateStep, Zenon

LEMMA LateClaim ==
  ASSUME TypeOK, Late, NEW c \in Consumers, NEW a \in BOOLEAN, XAutoClaim(c, a)
  PROVE  Late'
<1> DEFINE claim == Page(c) \intersect stream
<1>1. /\ pc[c] = "claim" /\ UNCHANGED <<dead, unreadable>>
      /\ owner' = [e \in Ids |-> IF e \in claim THEN c
                                 ELSE IF e \in Page(c) THEN NoOne ELSE owner[e]]
      /\ delivered' = [e \in Ids |-> IF e \in claim THEN delivered[e] + 1
                                                   ELSE delivered[e]]
      /\ pc' = [pc EXCEPT ![c] = "check"]
      /\ work' = work \/ work' = [work EXCEPT ![c] = claim]
  BY Zenon DEF XAutoClaim
<1>2. claim \subseteq Pending
  BY Zenon DEF Page, Earliest
<1> HIDE DEF claim
<1>3. /\ pc \in [Consumers -> Places] /\ work \in [Consumers -> SUBSET Ids]
      /\ delivered \in [Ids -> Nat] /\ unreadable \in [Consumers -> [Ids -> Nat]]
      /\ owner \in [Ids -> Consumers \union {NoOne}]
  BY Zenon DEF TypeOK
<1>4. Counts
  BY <1>1, <1>3 DEF Counts
<1>5. \A e \in Pending' : e \in Pending \/ delivered'[e] >= 1
  BY <1>1, <1>2, <1>3, Zenon DEF Pending
<1>6. \A d \in Consumers \ {c} :
        pc'[d] = pc[d] /\ work'[d] = work[d] /\ unreadable'[d] = unreadable[d]
  BY <1>1, <1>3, Zenon
<1>7. LateAt(c)'
  <2>1. pc'[c] = "check" /\ work[c] = {} /\ (work'[c] = {} \/ work'[c] = claim)
    BY <1>1, <1>3, Zenon DEF Late, LateAt
  <2>2. ASSUME NEW e \in claim PROVE unreadable'[c][e] + 2 <= delivered'[e]
    <3>1. e \in Ids /\ delivered[e] >= 1 /\ delivered'[e] = delivered[e] + 1
      BY <1>1, <1>2, Zenon DEF Late, Pending
    <3>2. unreadable[c][e] = 0 \/ unreadable[c][e] + 1 <= delivered[e]
      BY <3>1, Zenon DEF Late, LateAt
    <3>3. unreadable[c][e] \in Nat /\ delivered[e] \in Nat
      BY <1>3, <3>1, Zenon
    <3>4. unreadable'[c][e] = unreadable[c][e]
      BY <1>1, Zenon
    <3> QED
      BY <3>1, <3>2, <3>3, <3>4
  <2>3. \A e \in Ids : unreadable'[c][e] = 0 \/ unreadable'[c][e] + 1 <= delivered'[e]
    BY <1>1, <1>3, <1>4 DEF Counts, Late, LateAt
  <2> QED
    BY <2>1, <2>2, <2>3, Zenon DEF LateAt
<1> QED
  BY <1>1, <1>4, <1>5, <1>6, <1>7, LateStep, Zenon

\* The entry a sweep is at is done with: the rest has not been looked at.
LEMMA LateAdvance ==
  ASSUME TypeOK, NEW c \in Consumers, LateAt(c), NEW e \in Ids,
         pc[c] \in {"redo", "bury"}, IsLeast(e, work[c]), delivered' = delivered,
         pc'[c] = "check", work'[c] = work[c] \ {e},
         \/ unreadable' = unreadable
         \/ unreadable' = [unreadable EXCEPT ![c][e] = 0]
  PROVE  LateAt(c)'
<1>1. /\ unreadable \in [Consumers -> [Ids -> Nat]] /\ work[c] \subseteq Ids
      /\ delivered \in [Ids -> Nat]
  BY Zenon DEF TypeOK
<1>2. \A x \in Ids : unreadable'[c][x] = unreadable[c][x] \/ unreadable'[c][x] = 0
  BY <1>1, Zenon
<1>3. \A x \in work'[c] : x \in work[c] /\ ~ IsLeast(x, work[c])
  BY <1>1 DEF IsLeast, Ids
<1>4. \A x \in work'[c] : unreadable[c][x] + 2 <= delivered[x]
  BY <1>3, Zenon DEF LateAt, Unchecked
<1>5. \A x \in work'[c] : unreadable'[c][x] + 2 <= delivered'[x]
  <2> SUFFICES ASSUME NEW x \in work'[c] PROVE unreadable'[c][x] + 2 <= delivered'[x]
    BY Zenon
  <2>1. x \in Ids /\ unreadable[c][x] \in Nat /\ delivered[x] \in Nat
    BY <1>1
  <2> QED
    BY <1>2, <1>4, <2>1
<1>6. \A x \in Ids : unreadable'[c][x] = 0 \/ unreadable'[c][x] + 1 <= delivered'[x]
  BY <1>2, Zenon DEF LateAt
<1> QED
  BY <1>5, <1>6, Zenon DEF LateAt

LEMMA LateProcess ==
  ASSUME TypeOK, Late, NEW c \in Consumers, NEW e \in Ids, ProcessEntry(c, e)
  PROVE  Late'
<1>1. /\ UNCHANGED <<delivered, dead, owner>>
      /\ work' = [work EXCEPT ![c] = @ \ {e}]
      /\ pc' = [pc EXCEPT ![c] = IF @ = "redo" THEN "check" ELSE @]
      /\ \/ unreadable' = unreadable
         \/ unreadable' = [unreadable EXCEPT ![c][e] =
                             IF pc[c] = "redo" THEN 0 ELSE @]
  BY Zenon DEF ProcessEntry, redisVars
<1>2. /\ pc \in [Consumers -> Places] /\ work \in [Consumers -> SUBSET Ids]
      /\ unreadable \in [Consumers -> [Ids -> Nat]] /\ LateAt(c)
  BY Zenon DEF TypeOK, Late
<1>3. \A d \in Consumers \ {c} :
        pc'[d] = pc[d] /\ work'[d] = work[d] /\ unreadable'[d] = unreadable[d]
  BY <1>1, <1>2, Zenon
<1>4. Pending' = Pending
  BY <1>1, Zenon DEF Pending
<1>5. LateAt(c)'
  <2>1. CASE pc[c] = "settle"
    <3>1. pc'[c] = "settle" /\ unreadable'[c] = unreadable[c]
      BY <1>1, <1>2, <2>1, Zenon
    <3> QED
      BY <1>1, <1>2, <3>1, Zenon DEF LateAt
  <2>2. CASE pc[c] = "redo" /\ IsLeast(e, work[c])
    <3>1. /\ pc'[c] = "check" /\ work'[c] = work[c] \ {e}
          /\ \/ unreadable' = unreadable
             \/ unreadable' = [unreadable EXCEPT ![c][e] = 0]
      BY <1>1, <1>2, <2>2, Zenon
    <3> QED
      BY <1>1, <1>2, <2>2, <3>1, LateAdvance, Zenon
  <2> QED
    BY <2>1, <2>2, Zenon DEF ProcessEntry
<1> QED
  BY <1>1, <1>3, <1>4, <1>5, LateIdle, Zenon

LEMMA LateBury ==
  ASSUME TypeOK, Late, NEW c \in Consumers, NEW e \in Ids,
         DeadLetter(c, e) \/ DeadLetterLost(c, e)
  PROVE  Late'
<1>1. /\ UNCHANGED <<delivered, owner, unreadable>>
      /\ pc[c] = "bury" /\ IsLeast(e, work[c])
      /\ work' = [work EXCEPT ![c] = @ \ {e}]
      /\ pc' = [pc EXCEPT ![c] = "check"]
      /\ dead' \subseteq dead \union {e}
  BY Zenon DEF DeadLetter, DeadLetterLost, redisVars
<1>2. /\ pc \in [Consumers -> Places] /\ work \in [Consumers -> SUBSET Ids]
      /\ LateAt(c)
  BY Zenon DEF TypeOK, Late
<1>3. Counts
  BY <1>1 DEF Counts, TypeOK
<1>4. Enough(e)'
  BY <1>1, <1>2, Zenon DEF LateAt, Enough, IsLeast
<1>5. LateAt(c)'
  BY <1>1, <1>2, LateAdvance, Zenon
<1>6. Pending' = Pending
  BY <1>1, Zenon DEF Pending
<1>7. \A d \in Consumers \ {c} :
        pc'[d] = pc[d] /\ work'[d] = work[d] /\ unreadable'[d] = unreadable[d]
  BY <1>1, <1>2, Zenon
<1> QED
  BY <1>1, <1>3, <1>4, <1>5, <1>6, <1>7, LateStep, Zenon

\* The sweep looks at an entry: it gives up only on one delivered often enough.
LEMMA LateCheck ==
  ASSUME TypeOK, Late, NEW c \in Consumers, NEW e \in Ids,
         CheckReadable(c, e) \/ CheckUnreadable(c, e)
  PROVE  Late'
<1>1. /\ UNCHANGED <<delivered, dead, owner, work>>
      /\ pc[c] = "check" /\ IsLeast(e, work[c])
      /\ \E n \in {0, unreadable[c][e] + 1} :
           unreadable' = [unreadable EXCEPT ![c][e] = n]
      /\ pc' = [pc EXCEPT ![c] = "bury"] \/ pc' = [pc EXCEPT ![c] = "redo"]
  BY Zenon DEF CheckReadable, CheckUnreadable, redisVars
<1>2. /\ pc \in [Consumers -> Places] /\ work \in [Consumers -> SUBSET Ids]
      /\ unreadable \in [Consumers -> [Ids -> Nat]] /\ LateAt(c)
      /\ delivered \in [Ids -> Nat] /\ MaxDeliveries \in Nat
      /\ MaxUnreadable \in Nat
  BY StreamAssumption, Zenon DEF TypeOK, Late
<1>3. \A d \in Consumers \ {c} :
        pc'[d] = pc[d] /\ work'[d] = work[d] /\ unreadable'[d] = unreadable[d]
  BY <1>1, <1>2, Zenon
<1>4. Pending' = Pending
  BY <1>1, Zenon DEF Pending
<1>5. /\ unreadable[c][e] + 2 <= delivered[e]
      /\ unreadable[c][e] \in Nat /\ delivered[e] \in Nat
  BY <1>1, <1>2 DEF LateAt, Unchecked, IsLeast
<1>6. pc' = [pc EXCEPT ![c] = "bury"] => Enough(e)
  <2> SUFFICES ASSUME pc' = [pc EXCEPT ![c] = "bury"] PROVE Enough(e)
    BY Zenon
  <2>1. pc'[c] = "bury" /\ pc' # [pc EXCEPT ![c] = "redo"]
    BY <1>2, Zenon
  <2>2. CASE CheckReadable(c, e)
    <3>1. Counted(e) > MaxDeliveries
      BY <2>1, <2>2, Zenon DEF CheckReadable
    <3> QED
      BY <1>2, <3>1 DEF Counted, Enough
  <2>3. CASE CheckUnreadable(c, e)
    <3>1. unreadable[c][e] + 1 > MaxUnreadable
      BY <2>1, <2>3, Zenon DEF CheckUnreadable
    <3> QED
      BY <1>2, <1>5, <3>1 DEF Enough
  <2> QED
    BY <2>2, <2>3, Zenon
<1>7. \A x \in Ids : \/ unreadable'[c][x] = unreadable[c][x]
                     \/ x = e /\ unreadable'[c][x] \in {0, unreadable[c][e] + 1}
  BY <1>1, <1>2
<1>8. LateAt(c)'
  <2>1. pc'[c] \in {"bury", "redo"} /\ work'[c] = work[c]
    BY <1>1, <1>2, Zenon
  <2>2. \A x \in Ids : unreadable'[c][x] = 0 \/ unreadable'[c][x] + 1 <= delivered'[x]
    BY <1>1, <1>2, <1>5, <1>7 DEF LateAt
  <2>3. ASSUME NEW x \in work'[c], Unchecked(c, x)'
        PROVE  unreadable'[c][x] + 2 <= delivered'[x]
    <3>1. x \in Ids /\ x # e /\ x \in work[c]
      BY <1>1, <1>2, <2>1, <2>3, Zenon DEF Unchecked
    <3> QED
      BY <1>1, <1>2, <1>7, <3>1, Zenon DEF LateAt, Unchecked
  <2>4. pc'[c] = "bury" => \A x \in work'[c] : IsLeast(x, work'[c]) => Enough(x)'
    <3>1. ASSUME NEW x \in work[c], IsLeast(x, work[c]) PROVE x = e
      BY <1>1, <1>2, <3>1 DEF IsLeast, Ids
    <3>2. pc'[c] = "bury" => pc' = [pc EXCEPT ![c] = "bury"]
      BY <1>1, <1>2, Zenon
    <3>3. Enough(e) => Enough(e)'
      BY <1>1, Zenon DEF Enough
    <3> QED
      BY <1>6, <2>1, <3>1, <3>2, <3>3, Zenon
  <2> QED
    BY <2>1, <2>2, <2>3, <2>4, Zenon DEF LateAt
<1> QED
  BY <1>1, <1>3, <1>4, <1>8, LateIdle, Zenon

\* The loop gives a result up only after the deliveries one of the two limits
\* asks for: neither restarts nor unreadable counts make it give up early.
THEOREM NotGivenUpEarly == Spec => []GivenUpLate
<1>1. Init => Late
  <2> SUFFICES ASSUME Init PROVE Late
    BY Zenon
  <2>1. Pending = {} /\ dead = {}
    BY Zenon DEF Init, Pending
  <2>2. ASSUME NEW c \in Consumers PROVE LateAt(c)
    BY Zenon DEF Init, LateAt
  <2> QED
    BY <2>1, <2>2, Zenon DEF Late, GivenUpLate
<1>2. TypeOK /\ Corpses /\ Late /\ [Next]_vars => Late'
  <2> SUFFICES ASSUME TypeOK, Corpses, Late, [Next]_vars PROVE Late'
    BY Zenon
  <2>1. /\ pc \in [Consumers -> Places] /\ work \in [Consumers -> SUBSET Ids]
        /\ done \in [Consumers -> SUBSET Ids]
        /\ delivered \in [Ids -> Nat] /\ unreadable \in [Consumers -> [Ids -> Nat]]
        /\ owner \in [Ids -> Consumers \union {NoOne}]
    BY Zenon DEF TypeOK
  <2>2. ASSUME UNCHANGED <<pc, work, unreadable, delivered, dead, owner>>
        PROVE  Late'
    <3>1. \A c \in Consumers : LateAt(c)'
      BY <2>1, <2>2, LateFrame DEF Late, Counts
    <3> QED
      BY <2>2, <3>1, Zenon DEF Late, GivenUpLate, Pending
  <2>3. CASE Publish
    BY <2>2, <2>3, Zenon DEF Publish, procVars
  <2>4. ASSUME NEW e \in Ids, GrowIdle(e) PROVE Late'
    BY <2>2, <2>4, Zenon DEF GrowIdle, procVars
  <2>5. CASE UNCHANGED vars
    BY <2>2, <2>5, Zenon DEF vars, redisVars, procVars
  <2>6. ASSUME NEW c \in Consumers, NEW e \in Ids, Ack(c, e) PROVE Late'
    <3>1. /\ UNCHANGED <<pc, work, unreadable, delivered, dead>>
          /\ owner' = [owner EXCEPT ![e] = NoOne]
      BY <2>6, Zenon DEF Ack
    <3>2. Pending' \subseteq Pending
      BY <2>1, <3>1, Zenon DEF Pending
    <3>3. LateAt(c)'
      BY <2>1, <3>1, LateFrame DEF Late, Counts
    <3> QED
      BY <3>1, <3>2, <3>3, LateIdle, Zenon
  <2>7. ASSUME NEW c \in Consumers, NEW e \in Ids, AckLost(c, e) PROVE Late'
    BY <2>2, <2>7, Zenon DEF AckLost, redisVars
  <2>8. ASSUME NEW c \in Consumers, Crash(c) PROVE Late'
    <3>1. /\ UNCHANGED <<delivered, dead, owner>>
          /\ pc' = [pc EXCEPT ![c] = "crashed"] /\ work' = [work EXCEPT ![c] = {}]
          /\ unreadable' = [unreadable EXCEPT ![c] = [e \in Ids |-> 0]]
      BY <2>8, Zenon DEF Crash, redisVars
    <3>2. LateAt(c)'
      BY <2>1, <3>1, Zenon DEF LateAt
    <3>3. /\ Pending' = Pending
          /\ \A d \in Consumers \ {c} : /\ pc'[d] = pc[d] /\ work'[d] = work[d]
                                        /\ unreadable'[d] = unreadable[d]
      BY <2>1, <3>1, Zenon DEF Pending
    <3> QED
      BY <3>1, <3>2, <3>3, LateIdle, Zenon
  <2>9. ASSUME NEW c \in Consumers,
               \/ BatchSettled(c) \/ StartReclaim(c) \/ NextPage(c) \/ GoSilent(c)
               \/ ReadFrontier(c) \/ ReadPending(c) \/ XTrim(c) \/ Reaping(c)
        PROVE  Late'
    <3>1. CASE BatchSettled(c) \/ StartReclaim(c) \/ NextPage(c) \/ GoSilent(c)
      <4>1. /\ UNCHANGED <<work, unreadable, delivered, dead, owner>>
            /\ work[c] = {} \/ pc[c] \in {"loop", "crashed"}
        BY <3>1, Zenon DEF BatchSettled, StartReclaim, NextPage, PageSettled,
           GoSilent, redisVars
      <4>2. PICK p \in Places : pc' = [pc EXCEPT ![c] = p]
        BY <3>1, Zenon DEF BatchSettled, StartReclaim, NextPage, GoSilent,
           Places, Running
      <4>3. work[c] = {}
        BY <4>1, Zenon DEF Late, LateAt
      <4> QED
        BY <4>1, <4>2, <4>3, LateMove, Zenon
    <3>2. CASE ReadFrontier(c) \/ ReadPending(c) \/ XTrim(c)
      <4>1. /\ UNCHANGED <<work, unreadable, delivered, dead, owner>>
            /\ pc[c] \in {"loop", "trim", "xtrim"}
        BY <3>2, Zenon DEF ReadFrontier, ReadPending, XTrim, redisVars
      <4>2. PICK p \in Places : pc' = [pc EXCEPT ![c] = p]
        BY <3>2, Zenon DEF ReadFrontier, ReadPending, XTrim, Places, Running
      <4>3. work[c] = {}
        BY <4>1, Zenon DEF Late, LateAt
      <4> QED
        BY <4>1, <4>2, <4>3, LateMove, Zenon
    <3>3. CASE Reaping(c)
      <4>1. /\ UNCHANGED <<work, unreadable, delivered, dead, owner>>
            /\ pc[c] \in {"down", "reap", "drop"}
        BY <3>3, ReapFrame, ReapKeepsPending, Zenon
      <4>2. PICK p \in Places : pc' = [pc EXCEPT ![c] = p]
        BY <3>3, ReapFrame, Zenon DEF Places, Running
      <4>3. work[c] = {}
        BY <4>1, Zenon DEF Late, LateAt
      <4> QED
        BY <4>1, <4>2, <4>3, LateMove, Zenon
    <3> QED
      BY <2>9, <3>1, <3>2, <3>3, Zenon
  <2>10. ASSUME NEW c \in Consumers, EndReclaim(c) PROVE Late'
    <3>1. /\ UNCHANGED <<delivered, dead, owner, work>> /\ work[c] = {}
          /\ pc' = [pc EXCEPT ![c] = "reap"] /\ "reap" \in Places
      BY <2>10, Zenon DEF EndReclaim, PageSettled, redisVars, Places, Running
    <3>2. /\ seen[c] \in SUBSET Ids
          /\ unreadable' = [unreadable EXCEPT ![c] =
                 [e \in Ids |-> IF e \in seen[c] THEN unreadable[c][e] ELSE 0]]
      BY <2>1, <2>10, Zenon DEF EndReclaim, TypeOK
    <3> QED
      BY <3>1, <3>2, LateMove, Zenon
  <2> QED
    BY <2>3, <2>4, <2>5, <2>6, <2>7, <2>8, <2>9, <2>10, LateRead, LateClaim,
       LateProcess, LateBury, LateCheck, Zenon
    DEF Next, Work, Sweep, Faulty, Read, ReadLost, Claim, ClaimLost, Reaping
<1>3. Late => GivenUpLate
  BY Zenon DEF Late
<1> QED
  BY <1>1, <1>2, <1>3, TypeCorrect, CorpsesAlways, PTL DEF Spec

-----------------------------------------------------------------------------
(* The refinement of Delivery.                                               *)

\* What the mapping needs beyond NothingLost: an entry that was XACKed or that
\* a process holds was read, an XACKed one is not pending again, and what the
\* MAXLEN dropped does not come back.
WasRead ==
  /\ \A e \in settled : e <= lastDelivered /\ e \notin Pending
  /\ \A c \in Consumers : \A e \in work[c] \union done[c] : e <= lastDelivered
  /\ \A e \in evicted : e <= published /\ e \notin stream

\* Steps that read nothing and settle only what was read.
LEMMA WasReadFrame ==
  ASSUME TypeOK, WasRead,
         UNCHANGED <<published, stream, lastDelivered, evicted>>,
         Pending' \subseteq Pending,
         \A e \in settled' \ settled : e <= lastDelivered /\ e \notin Pending',
         \A c \in Consumers : \A e \in work'[c] \union done'[c] :
            e \in work[c] \union done[c] \union Pending,
         \A e \in Pending : e <= lastDelivered
  PROVE  WasRead'
<1>1. \A e \in settled' : e <= lastDelivered' /\ e \notin Pending'
  BY Zenon DEF WasRead
<1>2. \A c \in Consumers : \A e \in work'[c] \union done'[c] : e <= lastDelivered'
  BY Zenon DEF WasRead
<1>3. \A e \in evicted' : e <= published' /\ e \notin stream'
  BY Zenon DEF WasRead
<1> QED
  BY <1>1, <1>2, <1>3, Zenon DEF WasRead

LEMMA WasReadPublish ==
  ASSUME TypeOK, WasRead, Publish
  PROVE  WasRead'
<1>1. /\ published \in Nat /\ published' = published + 1
      /\ stream \subseteq 1..published /\ settled \subseteq Ids
      /\ evicted \subseteq Ids
  BY DEF Publish, TypeOK
<1>2. UNCHANGED <<lastDelivered, settled, work, done, owner>>
  BY Zenon DEF Publish, procVars
<1>3. Pending' = Pending
  BY <1>2, Zenon DEF Pending
<1>4. PICK cut \in 0..published :
        /\ stream' = {e \in stream : e > cut} \union {published + 1}
        /\ evicted' = evicted \union ({e \in stream : e <= cut} \ settled)
  BY Zenon DEF Publish
<1>5. \A e \in evicted' : e <= published' /\ e \notin stream'
  <2> SUFFICES ASSUME NEW e \in evicted' PROVE e <= published' /\ e \notin stream'
    BY Zenon
  <2>1. CASE e \in evicted
    <3>1. e \in Int /\ e <= published /\ e \notin stream
      BY <1>1, <2>1 DEF WasRead, Ids
    <3> QED
      BY <1>1, <1>4, <3>1
  <2>2. CASE e \in stream /\ e <= cut
    BY <1>1, <1>4, <2>2
  <2> QED
    BY <1>4, <2>1, <2>2, Zenon
<1> QED
  BY <1>2, <1>3, <1>5, Zenon DEF WasRead

\* XREADGROUP: its effect on the unread and the pending entries.
LEMMA ReadEffect ==
  ASSUME TypeOK, NEW c \in Consumers, NEW a \in BOOLEAN, XReadGroup(c, a)
  PROVE  \E batch \in SUBSET Unread :
           /\ Pending' = Pending \union batch
           /\ lastDelivered' \in Nat /\ lastDelivered < lastDelivered'
           /\ \A e \in Unread : e <= lastDelivered' <=> e \in batch
           /\ work' = work \/ work' = [work EXCEPT ![c] = batch]
<1> DEFINE batch == Earliest(Unread, ReadCount)
<1>1. owner' = [e \in Ids |-> IF e \in batch THEN c ELSE owner[e]]
  BY Zenon DEF XReadGroup, Deliver
<1>2. PICK top \in batch : lastDelivered' = top /\ \A x \in batch : x <= top
  BY Zenon DEF XReadGroup, IsGreatest
<1>3. /\ lastDelivered \in Nat /\ ReadCount \in Int
      /\ 1..published \subseteq Ids /\ stream \subseteq 1..published
      /\ published \in Nat
  BY StreamAssumption DEF TypeOK, Ids
<1>4. Unread \subseteq stream /\ \A e \in Unread : e > lastDelivered
  BY Zenon DEF Unread
<1>5. batch \subseteq Unread
  BY Zenon DEF Earliest
<1>6. work' = work \/ work' = [work EXCEPT ![c] = batch]
  BY Zenon DEF XReadGroup
<1>7. Unread \in SUBSET Ids
  BY <1>3, <1>4, Zenon
<1>8. \A e \in Unread : e <= top => e \in batch
  BY <1>2, <1>3, <1>7, EarliestIsPrefix, Zenon
<1>9. c # NoOne
  BY StreamAssumption, Zenon
<1> HIDE DEF batch
<1>10. Pending' = Pending \union batch
  BY <1>1, <1>5, <1>7, <1>9, Zenon DEF Pending
<1>11. top \in 1..published /\ top > lastDelivered
  BY <1>2, <1>3, <1>4, <1>5, Zenon
<1>12. \A e \in Unread : e <= lastDelivered' <=> e \in batch
  BY <1>2, <1>8, Zenon
<1> QED
  BY <1>2, <1>3, <1>5, <1>6, <1>10, <1>11, <1>12

LEMMA WasReadRead ==
  ASSUME TypeOK, Safe, WasRead, NEW c \in Consumers, NEW a \in BOOLEAN,
         XReadGroup(c, a)
  PROVE  WasRead'
<1>1. UNCHANGED <<published, stream, settled, evicted, done>>
  BY Zenon DEF XReadGroup
<1>2. PICK batch \in SUBSET Unread :
           /\ Pending' = Pending \union batch
           /\ lastDelivered' \in Nat /\ lastDelivered < lastDelivered'
           /\ \A e \in Unread : e <= lastDelivered' <=> e \in batch
           /\ work' = work \/ work' = [work EXCEPT ![c] = batch]
  BY ReadEffect, Zenon
<1>3. /\ lastDelivered \in Nat /\ settled \subseteq Int
      /\ \A d \in Consumers : work[d] \subseteq Int /\ done[d] \subseteq Int
      /\ work \in [Consumers -> SUBSET Ids]
  BY DEF TypeOK, Ids
<1>4. \A e \in settled : e <= lastDelivered' /\ e \notin Pending'
  <2> SUFFICES ASSUME NEW e \in settled
               PROVE  e <= lastDelivered' /\ e \notin Pending'
    BY Zenon
  <2>1. e \in Int /\ e <= lastDelivered /\ e \notin Pending
    BY <1>3, Zenon DEF WasRead
  <2>2. e \notin batch
    BY <1>2, <1>3, <2>1 DEF Unread
  <2> QED
    BY <1>2, <1>3, <2>1, <2>2
<1>5. ASSUME NEW d \in Consumers, NEW e \in work'[d] \union done'[d]
      PROVE  e <= lastDelivered'
  <2>1. CASE e \in work[d] \union done[d]
    <3>1. e \in Int /\ e <= lastDelivered
      BY <1>3, <2>1, Zenon DEF WasRead
    <3> QED
      BY <1>2, <1>3, <3>1
  <2>2. CASE e \in batch
    BY <1>2, <2>2, Zenon
  <2>3. e \in work[d] \union done[d] \union batch
    BY <1>1, <1>2, <1>3, <1>5, Zenon
  <2> QED
    BY <2>1, <2>2, <2>3, Zenon
<1> QED
  BY <1>1, <1>4, <1>5, Zenon DEF WasRead

LEMMA WasReadClaim ==
  ASSUME TypeOK, Safe, WasRead, NEW c \in Consumers, NEW a \in BOOLEAN,
         XAutoClaim(c, a)
  PROVE  WasRead'
<1> DEFINE claim == Page(c) \intersect stream
<1>1. /\ UNCHANGED <<published, stream, lastDelivered, evicted, done>>
      /\ owner' = [e \in Ids |-> IF e \in claim THEN c
                                 ELSE IF e \in Page(c) THEN NoOne ELSE owner[e]]
      /\ settled' = settled \union (Page(c) \ claim)
      /\ work' = work \/ work' = [work EXCEPT ![c] = claim]
  BY Zenon DEF XAutoClaim
<1>2. Page(c) \subseteq Pending
  BY Zenon DEF Page, Earliest
<1>3. \A e \in Pending : e <= lastDelivered
  BY Zenon DEF Safe, TrimSafe
<1> HIDE DEF claim
<1>4. claim \subseteq Page(c)
  BY Zenon DEF claim
<1>5. Pending' \subseteq Pending /\ \A e \in Page(c) \ claim : e \notin Pending'
  BY <1>1, <1>2, <1>4, Zenon DEF Pending
<1>6. work \in [Consumers -> SUBSET Ids]
  BY Zenon DEF TypeOK
<1>7. \A d \in Consumers : \A e \in work'[d] \union done'[d] :
         e \in work[d] \union done[d] \union Pending
  BY <1>1, <1>2, <1>4, <1>6, Zenon
<1>8. \A e \in settled' \ settled : e <= lastDelivered /\ e \notin Pending'
  BY <1>1, <1>2, <1>3, <1>5, Zenon
<1> QED
  BY <1>1, <1>3, <1>5, <1>7, <1>8, WasReadFrame, Zenon

LEMMA WasReadAck ==
  ASSUME TypeOK, Safe, WasRead, NEW c \in Consumers, NEW e \in Ids, Ack(c, e)
  PROVE  WasRead'
<1>1. /\ UNCHANGED <<published, stream, lastDelivered, evicted, work>>
      /\ settled' = settled \union {e} /\ owner' = [owner EXCEPT ![e] = NoOne]
      /\ done' = [done EXCEPT ![c] = @ \ {e}] /\ e \in done[c]
  BY Zenon DEF Ack
<1>2. owner \in [Ids -> Consumers \union {NoOne}] /\ done \in [Consumers -> SUBSET Ids]
  BY Zenon DEF TypeOK
<1>3. Pending' \subseteq Pending /\ e \notin Pending'
  BY <1>1, <1>2, Zenon DEF Pending
<1>4. e <= lastDelivered
  BY <1>1, Zenon DEF WasRead
<1>5. \A x \in settled' \ settled : x <= lastDelivered /\ x \notin Pending'
  BY <1>1, <1>3, <1>4, Zenon
<1>6. \A d \in Consumers : \A x \in work'[d] \union done'[d] :
         x \in work[d] \union done[d] \union Pending
  BY <1>1, <1>2, Zenon
<1>7. \A x \in Pending : x <= lastDelivered
  BY Zenon DEF Safe, TrimSafe
<1> QED
  BY <1>1, <1>3, <1>5, <1>6, <1>7, WasReadFrame, Zenon

\* What a step of the loop that is none of the above does to work and done.
LEMMA WasReadQuiet ==
  ASSUME TypeOK, Corpses, Safe, WasRead, NEW c \in Consumers, Quiet(c)
  PROVE  WasRead'
<1>1. UNCHANGED <<published, stream, lastDelivered, owner, settled, evicted>>
  BY QuietKeeps, Zenon
<1>2. Pending' = Pending
  BY <1>1, Zenon DEF Pending
<1>3. work \in [Consumers -> SUBSET Ids] /\ done \in [Consumers -> SUBSET Ids]
  BY Zenon DEF TypeOK
<1>4. \A d \in Consumers : \A e \in work'[d] \union done'[d] : e \in work[d] \union done[d]
  <2>1. CASE UNCHANGED <<work, done>>
    BY <2>1, Zenon
  <2>2. CASE Crash(c)
    <3>1. work' = [work EXCEPT ![c] = {}] /\ done' = [done EXCEPT ![c] = {}]
      BY <2>2, Zenon DEF Crash
    <3> QED
      BY <1>3, <3>1, Zenon
  <2>3. ASSUME NEW e \in Ids, e \in work[c],
               work' = [work EXCEPT ![c] = @ \ {e}],
               done' = done \/ done' = [done EXCEPT ![c] = @ \union {e}]
        PROVE  <1>4
    BY <1>3, <2>3, Zenon
  <2>4. ASSUME NEW e \in Ids, AckLost(c, e) PROVE <1>4
    <3>1. work' = work /\ done' = [done EXCEPT ![c] = @ \ {e}]
      BY <2>4, Zenon DEF AckLost
    <3> QED
      BY <1>3, <3>1, Zenon
  <2>5. ASSUME NEW e \in Ids,
               ProcessEntry(c, e) \/ DeadLetter(c, e) \/ DeadLetterLost(c, e)
        PROVE  <1>4
    <3>1. e \in work[c] /\ work' = [work EXCEPT ![c] = @ \ {e}]
      BY <2>5, Zenon DEF ProcessEntry, DeadLetter, DeadLetterLost, IsLeast
    <3>2. done' = done \/ done' = [done EXCEPT ![c] = @ \union {e}]
      BY <2>5, Zenon DEF ProcessEntry, DeadLetter, DeadLetterLost
    <3> QED
      BY <2>3, <3>1, <3>2, Zenon
  <2>6. CASE \/ Reaping(c) \/ BatchSettled(c) \/ StartReclaim(c) \/ NextPage(c)
             \/ EndReclaim(c) \/ GoSilent(c)
    <3>1. UNCHANGED <<work, done>>
      BY <2>6, ReapFrame, Zenon DEF BatchSettled, StartReclaim, NextPage,
         EndReclaim, GoSilent
    <3> QED
      BY <2>1, <3>1, Zenon
  <2>7. ASSUME NEW e \in Ids, CheckReadable(c, e) \/ CheckUnreadable(c, e)
        PROVE  <1>4
    <3>1. UNCHANGED <<work, done>>
      BY <2>7, Zenon DEF CheckReadable, CheckUnreadable
    <3> QED
      BY <2>1, <3>1, Zenon
  <2> QED
    BY <2>2, <2>4, <2>5, <2>6, <2>7, Zenon DEF Quiet
<1>5. \A e \in Pending : e <= lastDelivered
  BY Zenon DEF Safe, TrimSafe
<1> QED
  BY <1>1, <1>2, <1>4, <1>5, WasReadFrame, Zenon

\* XTRIM and the two reads before it hold nothing and settle nothing.
LEMMA WasReadTrim ==
  ASSUME TypeOK, WasRead, NEW c \in Consumers,
         XTrim(c) \/ ReadFrontier(c) \/ ReadPending(c)
  PROVE  WasRead'
<1>1. /\ UNCHANGED <<published, lastDelivered, owner, settled, evicted, work, done>>
      /\ stream' \subseteq stream
  <2>1. CASE XTrim(c)
    BY <2>1, Zenon DEF XTrim, histVars
  <2>2. CASE ReadFrontier(c) \/ ReadPending(c)
    BY <2>2, Zenon DEF ReadFrontier, ReadPending, redisVars, histVars
  <2> QED
    BY <2>1, <2>2, Zenon
<1>2. Pending' = Pending
  BY <1>1, Zenon DEF Pending
<1> QED
  BY <1>1, <1>2, Zenon DEF WasRead

LEMMA WasReadAlways == Spec => []WasRead
<1>1. Init => WasRead
  BY Zenon DEF Init, WasRead
<1>2. TypeOK /\ Corpses /\ Safe /\ WasRead /\ [Next]_vars => WasRead'
  <2> SUFFICES ASSUME TypeOK, Corpses, Safe, WasRead, [Next]_vars PROVE WasRead'
    BY Zenon
  <2>1. ASSUME UNCHANGED <<published, stream, lastDelivered, owner, settled, evicted,
                           work, done>>
        PROVE  WasRead'
    <3>1. Pending' = Pending
      BY <2>1, Zenon DEF Pending
    <3> QED
      BY <2>1, <3>1, Zenon DEF WasRead
  <2>2. ASSUME NEW e \in Ids, GrowIdle(e) PROVE WasRead'
    BY <2>1, <2>2, Zenon DEF GrowIdle, procVars, histVars
  <2>3. CASE UNCHANGED vars
    BY <2>1, <2>3, Zenon DEF vars, redisVars, procVars, histVars
  <2>4. ASSUME NEW c \in Consumers, \E a \in BOOLEAN : XReadGroup(c, a)
        PROVE  WasRead'
    BY <2>4, WasReadRead, Zenon
  <2>5. ASSUME NEW c \in Consumers, \E a \in BOOLEAN : XAutoClaim(c, a)
        PROVE  WasRead'
    BY <2>5, WasReadClaim, Zenon
  <2>6. ASSUME NEW c \in Consumers, NEW e \in Ids, Ack(c, e) PROVE WasRead'
    BY <2>6, WasReadAck, Zenon
  <2> QED
    BY <2>2, <2>3, <2>4, <2>5, <2>6, WasReadPublish, WasReadTrim, WasReadQuiet,
       Zenon
    DEF Next, Work, Sweep, Faulty, Read, ReadLost, Claim, ClaimLost, Quiet, Reaping
<1> QED
  BY <1>1, <1>2, TypeCorrect, CorpsesAlways, SafeAlways, PTL DEF Spec

-----------------------------------------------------------------------------
(* The steps of the abstract inbox.                                          *)

\* A publication is a publication: what the MAXLEN cuts off the inbox is older
\* than the newest MaxLen entries.
LEMMA PublishIsPublish ==
  ASSUME TypeOK, Safe, Publish
  PROVE  Promised!Publish
<1>1. /\ published \in Nat /\ published < MaxEntries /\ published' = published + 1
      /\ stream \subseteq 1..published /\ lastDelivered \in 0..published
      /\ UNCHANGED <<lastDelivered, owner, handled, dead>>
  BY DEF Publish, TypeOK
<1>2. PICK cut \in 0..published :
        /\ {e \in stream : e <= cut} # {} =>
             Cardinality({e \in stream : e > cut} \union {published + 1}) >= MaxLen
        /\ stream' = {e \in stream : e > cut} \union {published + 1}
  BY Zenon DEF Publish
<1> DEFINE drop == {e \in Waiting : e <= cut}
<1>3. Waiting \subseteq stream
  BY Zenon DEF Waiting
<1>4. ASSUME NEW e \in drop PROVE published + 1 - e >= MaxLen
  <2> DEFINE kept == {x \in stream : x > cut} \union {published + 1}
  <2>1. Cardinality(kept) >= MaxLen /\ e \in Nat /\ e <= cut
    BY <1>1, <1>2, <1>3
  <2>2. PICK lo \in Int, hi \in Int :
          lo = cut + 1 /\ hi = published + 1 /\ lo <= hi /\ cut \in Nat
    BY <1>1
  <2>3. ASSUME NEW x \in kept PROVE x \in lo..hi
    <3>1. CASE x = published + 1
      BY <2>2, <3>1
    <3>2. CASE x \in stream /\ x > cut
      <4>1. x \in Int /\ x <= published
        BY <1>1, <3>2
      <4> QED
        BY <1>1, <2>2, <3>2, <4>1
    <3> QED
      BY <3>1, <3>2, Zenon
  <2>4. IsFiniteSet(lo..hi) /\ Cardinality(lo..hi) = hi - lo + 1
    <3>1. Cardinality(lo..hi) = IF lo > hi THEN 0 ELSE hi - lo + 1
      BY FS_Interval, Zenon
    <3> QED
      BY <2>2, <3>1, FS_Interval
  <2> HIDE DEF kept
  <2>5. Cardinality(kept) \in Nat /\ Cardinality(kept) <= hi - lo + 1
    BY <2>3, <2>4, FS_Subset, FS_CardinalityType, Zenon
  <2> QED
    BY <1>1, <2>1, <2>2, <2>5, StreamAssumption
<1>5. Pending' = Pending
  BY <1>1, Zenon DEF Pending
<1>6. Waiting' = (Waiting \ drop) \union {published + 1}
  <2>1. published + 1 > lastDelivered
    BY <1>1
  <2>2. Waiting' = {e \in stream' : e > lastDelivered \/ e \in Pending}
    BY <1>1, <1>5, Zenon DEF Waiting
  <2>3. \A e \in stream : e > cut <=> ~ (e <= cut)
    BY <1>1
  <2>4. Waiting \ drop = {e \in stream : e > cut /\ (e > lastDelivered \/ e \in Pending)}
    BY <2>3, Zenon DEF Waiting
  <2> QED
    BY <1>2, <2>1, <2>2, <2>4, Zenon
<1> QED
  BY <1>1, <1>3, <1>4, <1>6, Zenon DEF Promised!Publish

\* A read turns unread entries into pending ones: nothing leaves.
LEMMA ReadKeepsWaiting ==
  ASSUME TypeOK, Safe, NEW c \in Consumers, NEW a \in BOOLEAN, XReadGroup(c, a)
  PROVE  Waiting' = Waiting
<1>1. stream' = stream
  BY Zenon DEF XReadGroup
<1>2. PICK batch \in SUBSET Unread :
           /\ Pending' = Pending \union batch
           /\ lastDelivered' \in Nat /\ lastDelivered < lastDelivered'
           /\ \A e \in Unread : e <= lastDelivered' <=> e \in batch
  BY ReadEffect, Zenon
<1>3. lastDelivered \in Nat /\ stream \subseteq Int
  BY DEF TypeOK
<1>4. ASSUME NEW e \in stream
      PROVE  (e > lastDelivered' \/ e \in Pending') <=> (e > lastDelivered \/ e \in Pending)
  <2>1. e \in Unread <=> e > lastDelivered
    BY Zenon DEF Unread
  <2> QED
    BY <1>2, <1>3, <2>1
<1> QED
  BY <1>1, <1>4, Zenon DEF Waiting

\* A claim takes out of the pending list only what has no data.
LEMMA ClaimKeepsWaiting ==
  ASSUME TypeOK, NEW c \in Consumers, NEW a \in BOOLEAN, XAutoClaim(c, a)
  PROVE  Waiting' = Waiting
<1>1. /\ UNCHANGED <<stream, lastDelivered>>
      /\ owner' = [e \in Ids |-> IF e \in Page(c) \intersect stream THEN c
                                 ELSE IF e \in Page(c) THEN NoOne ELSE owner[e]]
  BY Zenon DEF XAutoClaim
<1>2. Page(c) \subseteq Pending
  BY Zenon DEF Page, Earliest
<1>3. c # NoOne
  BY StreamAssumption, Zenon
<1>4. \A e \in stream : e \in Pending' <=> e \in Pending
  BY <1>1, <1>2, <1>3, Zenon DEF Pending
<1> QED
  BY <1>1, <1>4, Zenon DEF Waiting

\* An XTRIM takes away only what was settled or evicted before.
LEMMA TrimKeepsWaiting ==
  ASSUME TypeOK, Safe, WasRead, NEW c \in Consumers, XTrim(c)
  PROVE  Waiting' = Waiting
<1>1. UNCHANGED <<lastDelivered, owner>> /\ pc[c] = "xtrim"
  BY Zenon DEF XTrim
<1>2. PICK cut \in 0..MaxEntries : cut <= floor[c] /\ stream' = {e \in stream : e >= cut}
  BY Zenon DEF XTrim
<1>3. Pending' = Pending
  BY <1>1, Zenon DEF Pending
<1>4. ASSUME NEW e \in Waiting PROVE e >= cut
  <2>1. e \in stream /\ e \in 1..published /\ e \in Int
    BY DEF Waiting, TypeOK
  <2>2. e \notin settled
    BY <2>1 DEF Waiting, WasRead, TypeOK
  <2>3. e \notin evicted
    BY <2>1, Zenon DEF WasRead
  <2>4. ~ (e < floor[c])
    BY <1>1, <2>1, <2>2, <2>3, Zenon DEF Safe, TrimSafe
  <2>5. floor[c] \in Int
    BY DEF TypeOK
  <2> QED
    BY <1>2, <2>1, <2>4, <2>5
<1> QED
  BY <1>1, <1>2, <1>3, <1>4, Zenon DEF Waiting

\* Whatever leaves the stream's state and the outcomes alone leaves the inbox
\* alone.
LEMMA Stutter ==
  ASSUME UNCHANGED <<published, handled, dead>>, Waiting' = Waiting
  PROVE  UNCHANGED Promised!vars
BY Zenon DEF Promised!vars

\* An XACK closes a result that was handled or given up, or comes too late.
LEMMA AckCloses ==
  ASSUME TypeOK, WasRead, DoneIsDone, NEW c \in Consumers, NEW e \in Ids, Ack(c, e)
  PROVE  Promised!Close(e) \/ UNCHANGED Promised!vars
<1>1. /\ UNCHANGED <<published, stream, lastDelivered, handled, dead>>
      /\ owner' = [owner EXCEPT ![e] = NoOne] /\ e \in done[c]
  BY Zenon DEF Ack
<1>2. e \in handled \union dead
  BY <1>1, Zenon DEF DoneIsDone
<1>3. e <= lastDelivered /\ lastDelivered \in Int /\ e \in Int
  BY <1>1 DEF WasRead, TypeOK, Ids
<1>4. owner \in [Ids -> Consumers \union {NoOne}]
  BY Zenon DEF TypeOK
<1>5. Pending' = Pending \ {e}
  BY <1>1, <1>4, Zenon DEF Pending
<1>6. Waiting' = Waiting \ {e}
  BY <1>1, <1>3, <1>5 DEF Waiting
<1>7. CASE e \in Waiting
  BY <1>1, <1>2, <1>6, <1>7, Zenon DEF Promised!Close
<1>8. CASE e \notin Waiting
  BY <1>1, <1>6, <1>8, Stutter, Zenon
<1> QED
  BY <1>7, <1>8, Zenon

\* The other steps of a consumer: a dispatch that succeeds handles its entry,
\* a dead letter gives it up, the rest stutters.
LEMMA QuietStep ==
  ASSUME TypeOK, Corpses, WasRead, NEW c \in Consumers, Quiet(c)
  PROVE  \/ \E e \in Ids : Promised!Handle(e) \/ Promised!GiveUp(e)
         \/ UNCHANGED Promised!vars
<1>1. UNCHANGED <<published, stream, lastDelivered, owner>>
  BY QuietKeeps, Zenon
<1>2. Waiting' = Waiting
  BY <1>1, Zenon DEF Waiting, Pending
<1>3. CASE UNCHANGED <<handled, dead>>
  BY <1>1, <1>2, <1>3, Stutter, Zenon
<1>4. ASSUME NEW e \in Ids, e \in work[c] PROVE e \in 1..published
  <2>1. e <= lastDelivered
    BY <1>4, Zenon DEF WasRead
  <2>2. e \in Int /\ e >= 1 /\ lastDelivered \in 0..published /\ published \in Nat
    BY DEF TypeOK, Ids
  <2> QED
    BY <2>1, <2>2
<1>5. ASSUME NEW e \in Ids, ProcessEntry(c, e)
      PROVE  Promised!Handle(e) \/ UNCHANGED <<handled, dead>>
  <2>1. /\ e \in work[c] /\ dead' = dead
        /\ handled' = handled \/ handled' = handled \union {e}
    BY <1>5, Zenon DEF ProcessEntry, IsLeast, redisVars
  <2> QED
    BY <1>1, <1>2, <1>4, <2>1, Zenon DEF Promised!Handle
<1>6. ASSUME NEW e \in Ids, DeadLetter(c, e) PROVE Promised!GiveUp(e)
  <2>1. e \in work[c] /\ handled' = handled /\ dead' = dead \union {e}
    BY <1>6, Zenon DEF DeadLetter, IsLeast, histVars
  <2> QED
    BY <1>1, <1>2, <1>4, <2>1, Zenon DEF Promised!GiveUp
<1>7. ASSUME NEW e \in Ids, DeadLetterLost(c, e)
      PROVE  Promised!GiveUp(e) \/ UNCHANGED <<handled, dead>>
  <2>1. /\ e \in work[c] /\ handled' = handled
        /\ dead' = dead \/ dead' = dead \union {e}
    BY <1>7, Zenon DEF DeadLetterLost, IsLeast, histVars
  <2> QED
    BY <1>1, <1>2, <1>4, <2>1, Zenon DEF Promised!GiveUp
<1>8. CASE \/ Reaping(c) \/ BatchSettled(c) \/ StartReclaim(c) \/ NextPage(c)
           \/ EndReclaim(c) \/ GoSilent(c) \/ Crash(c)
           \/ \E e \in Ids : \/ AckLost(c, e) \/ CheckReadable(c, e)
                               \/ CheckUnreadable(c, e)
  <2>1. UNCHANGED <<handled, dead>>
    <3>1. CASE Reaping(c) \/ BatchSettled(c) \/ StartReclaim(c) \/ NextPage(c)
      BY <3>1, ReapFrame, Zenon DEF BatchSettled, StartReclaim, NextPage,
         redisVars, histVars
    <3>3. CASE EndReclaim(c) \/ GoSilent(c) \/ Crash(c)
      BY <3>3, Zenon DEF EndReclaim, GoSilent, Crash, redisVars, histVars
    <3>2. ASSUME NEW e \in Ids,
                 AckLost(c, e) \/ CheckReadable(c, e) \/ CheckUnreadable(c, e)
          PROVE  UNCHANGED <<handled, dead>>
      BY <3>2, Zenon DEF AckLost, CheckReadable, CheckUnreadable, redisVars,
         histVars
    <3> QED
      BY <1>8, <3>1, <3>2, <3>3, Zenon
  <2> QED
    BY <1>3, <2>1, Zenon
<1> QED
  BY <1>3, <1>5, <1>6, <1>8, <1>7, Zenon DEF Quiet

\* The detailed stream implements the abstract delivery: a result leaves the
\* consumers' reach only handled, given up or by the producer's MAXLEN, and
\* none of the reads, sweeps, reaps, trims, crashes and lost answers of any
\* number of processes is visible in the inbox.
THEOREM StreamDelivers == Spec => Implements
<1>1. Init => Promised!Init
  BY Zenon DEF Init, Promised!Init, Waiting
<1>2. TypeOK /\ Corpses /\ Safe /\ WasRead /\ DoneIsDone /\ [Next]_vars
        => [Promised!Next]_(Promised!vars)
  <2> SUFFICES ASSUME TypeOK, Corpses, Safe, WasRead, DoneIsDone, [Next]_vars
               PROVE  Promised!Next \/ UNCHANGED Promised!vars
    BY Zenon
  <2>1. CASE Publish
    BY <2>1, PublishIsPublish, Zenon DEF Promised!Next
  <2>2. ASSUME UNCHANGED <<published, stream, lastDelivered, owner, handled, dead>>
        PROVE  UNCHANGED Promised!vars
    <3>1. Waiting' = Waiting
      BY <2>2, Zenon DEF Waiting, Pending
    <3> QED
      BY <2>2, <3>1, Stutter, Zenon
  <2>3. ASSUME NEW e \in Ids, GrowIdle(e) PROVE UNCHANGED Promised!vars
    BY <2>2, <2>3, Zenon DEF GrowIdle, histVars
  <2>4. CASE UNCHANGED vars
    BY <2>2, <2>4, Zenon DEF vars, redisVars, histVars
  <2>5. ASSUME NEW c \in Consumers, NEW a \in BOOLEAN, XReadGroup(c, a)
        PROVE  UNCHANGED Promised!vars
    <3>1. UNCHANGED <<published, handled, dead>>
      BY <2>5, Zenon DEF XReadGroup
    <3> QED
      BY <2>5, <3>1, ReadKeepsWaiting, Stutter, Zenon
  <2>6. ASSUME NEW c \in Consumers, NEW a \in BOOLEAN, XAutoClaim(c, a)
        PROVE  UNCHANGED Promised!vars
    <3>1. UNCHANGED <<published, handled, dead>>
      BY <2>6, Zenon DEF XAutoClaim
    <3> QED
      BY <2>6, <3>1, ClaimKeepsWaiting, Stutter, Zenon
  <2>7. ASSUME NEW c \in Consumers, NEW e \in Ids, Ack(c, e)
        PROVE  Promised!Next \/ UNCHANGED Promised!vars
    BY <2>7, AckCloses, Zenon DEF Promised!Next, Ids
  <2>8. ASSUME NEW c \in Consumers, Quiet(c)
        PROVE  Promised!Next \/ UNCHANGED Promised!vars
    BY <2>8, QuietStep, Zenon DEF Promised!Next, Ids
  <2>9. ASSUME NEW c \in Consumers, XTrim(c) PROVE UNCHANGED Promised!vars
    <3>1. UNCHANGED <<published, handled, dead>>
      BY <2>9, Zenon DEF XTrim, histVars
    <3> QED
      BY <2>9, <3>1, TrimKeepsWaiting, Stutter, Zenon
  <2>10. ASSUME NEW c \in Consumers, ReadFrontier(c) \/ ReadPending(c)
         PROVE  UNCHANGED Promised!vars
    BY <2>2, <2>10, Zenon DEF ReadFrontier, ReadPending, redisVars, histVars
  <2> QED
    BY <2>1, <2>3, <2>4, <2>5, <2>6, <2>7, <2>8, <2>9, <2>10, Zenon
    DEF Next, Work, Sweep, Faulty, Read, ReadLost, Claim, ClaimLost, Quiet, Reaping
<1> QED
  BY <1>1, <1>2, TypeCorrect, CorpsesAlways, SafeAlways, WasReadAlways, DoneAlways,
     PTL
  DEF Spec, Implements, Promised!Spec

=============================================================================
